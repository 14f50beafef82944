---------------------------- MODULE IndexJobsProofs ---------------------------
(***************************************************************************)
(* Proofs about IndexJobs for any sessions, projects and bounds: the       *)
(* subscriber count of a job is the number of references to it, through    *)
(* every section of the coordinator, the walks of a publication included,  *)
(* and workers, mutations and the limit respect each other.                *)
(***************************************************************************)
EXTENDS IndexJobs, FiniteSetTheorems, WellFoundedInduction, TLAPS

-------------------------------------------------------------------------------
(* References.  The session with record r and jobs o of its watch refers to *)
(* job j by the tag t.                                                      *)

Tags == {"got", "active", "auto", "join", "owner"}
Refers(r, o, t, j) == \/ t = "got" /\ r.got = j
                      \/ t = "active" /\ r.active = j
                      \/ t = "auto" /\ r.auto = j
                      \/ t = "join" /\ r.join = j
                      \/ t = "owner" /\ j \in o
UiLink(u, j) == IF u = j THEN {<<"ui", "ui">>} ELSE {}
Links(ss, ow, u, j) == {x \in Session \X Tags : Refers(ss[x[1]], ow[x[1]], x[2], j)} \cup UiLink(u, j)
LinksOf(s, r, o, j) == {x \in {s} \X Tags : Refers(r, o, x[2], j)}
Uses2(ss, ow, u) == [j \in Job |-> Cardinality(Links(ss, ow, u, j))]

\* how many of the references of one session are to j
Bit(b) == IF b THEN 1 ELSE 0
Ref(r, o, j) == Bit(r.got = j) + Bit(r.active = j) + Bit(r.auto = j) + Bit(r.join = j) + Bit(j \in o)

LEMMA LinksUses == ASSUME NEW j PROVE Uses(j) = Links(sess, owners, ui, j)
  BY DEF Uses, Links, UiLink, Refers, Tags

LEMMA LinksFinite ==
  ASSUME NEW ss, NEW ow, NEW u, NEW j
  PROVE  IsFiniteSet(Links(ss, ow, u, j)) /\ Cardinality(Links(ss, ow, u, j)) \in Nat
<1> DEFINE A == {x \in Session \X Tags : Refers(ss[x[1]], ow[x[1]], x[2], j)}
<1>1. IsFiniteSet(Tags)
  <2>1. Tags = {"got"} \cup {"active"} \cup {"auto"} \cup {"join"} \cup {"owner"}
    BY DEF Tags
  <2>2. QED BY <2>1, FS_Singleton, FS_Union
<1>2. IsFiniteSet(Session \X Tags)
  BY <1>1, FS_Product, SessionAssumption
<1>3. IsFiniteSet(A)
  BY <1>2, FS_Subset
<1>4. IsFiniteSet(UiLink(u, j))
  BY FS_Singleton, FS_EmptySet DEF UiLink
<1>5. IsFiniteSet(A \cup UiLink(u, j))
  BY <1>3, <1>4, FS_Union
<1>6. QED BY <1>5, FS_CardinalityType DEF Links

LEMMA AddIf ==
  ASSUME NEW S, IsFiniteSet(S), NEW x, x \notin S, NEW b \in BOOLEAN
  PROVE  /\ IsFiniteSet(S \cup (IF b THEN {x} ELSE {}))
         /\ Cardinality(S \cup (IF b THEN {x} ELSE {})) = Cardinality(S) + Bit(b)
<1>1. CASE b
  BY <1>1, FS_AddElement DEF Bit
<1>2. CASE ~b
  <2>1. S \cup (IF b THEN {x} ELSE {}) = S
    BY <1>2
  <2>2. Cardinality(S) \in Nat
    BY FS_CardinalityType
  <2>3. QED BY <1>2, <2>1, <2>2 DEF Bit
<1>3. QED BY <1>1, <1>2

\* The references of one session, added to a set without them.
LEMMA LinksOfSession ==
  ASSUME NEW s, NEW r, NEW o, NEW j, NEW R, IsFiniteSet(R), \A t \in Tags : <<s, t>> \notin R
  PROVE  /\ IsFiniteSet(R \cup LinksOf(s, r, o, j))
         /\ Cardinality(R \cup LinksOf(s, r, o, j))
              = Cardinality(R) + Ref(r, o, j)
<1> DEFINE One(b, t) == IF b THEN {<<s, t>>} ELSE {}
           R1 == R \cup One(r.got = j, "got")
           R2 == R1 \cup One(r.active = j, "active")
           R3 == R2 \cup One(r.auto = j, "auto")
           R4 == R3 \cup One(r.join = j, "join")
           R5 == R4 \cup One(j \in o, "owner")
<1>1. R5 = R \cup LinksOf(s, r, o, j)
  BY DEF LinksOf, Refers, Tags
<1>2. IsFiniteSet(R1) /\ Cardinality(R1) = Cardinality(R) + Bit(r.got = j)
  BY AddIf DEF Tags
<1>3. IsFiniteSet(R2) /\ Cardinality(R2) = Cardinality(R1) + Bit(r.active = j)
  <2>1. <<s, "active">> \notin R1
    BY DEF Tags
  <2> HIDE DEF R1
  <2>2. QED BY <1>2, <2>1, AddIf
<1>4. IsFiniteSet(R3) /\ Cardinality(R3) = Cardinality(R2) + Bit(r.auto = j)
  <2>1. <<s, "auto">> \notin R2
    BY DEF Tags
  <2> HIDE DEF R2
  <2>2. QED BY <1>3, <2>1, AddIf
<1>5. IsFiniteSet(R4) /\ Cardinality(R4) = Cardinality(R3) + Bit(r.join = j)
  <2>1. <<s, "join">> \notin R3
    BY DEF Tags
  <2> HIDE DEF R3
  <2>2. QED BY <1>4, <2>1, AddIf
<1>6. IsFiniteSet(R5) /\ Cardinality(R5) = Cardinality(R4) + Bit(j \in o)
  <2>1. <<s, "owner">> \notin R4
    BY DEF Tags
  <2> HIDE DEF R4
  <2>2. (j \in o) \in BOOLEAN
    OBVIOUS
  <2>3. QED BY <1>5, <2>1, <2>2, AddIf
<1>7. Cardinality(R) \in Nat
  BY FS_CardinalityType
<1> HIDE DEF R1, R2, R3, R4, R5
<1>8. Cardinality(R5) = Cardinality(R) + Ref(r, o, j)
  BY <1>2, <1>3, <1>4, <1>5, <1>6, <1>7 DEF Ref, Bit
<1>9. QED BY <1>1, <1>6, <1>8

\* A section that touches one session changes the count of every job by what
\* the session's own references change.
LEMMA OneSession ==
  ASSUME NEW ss, NEW ow, NEW ss2, NEW ow2, NEW u, NEW s \in Session, NEW j \in Job,
         \A t \in Session \ {s} : ss2[t] = ss[t] /\ ow2[t] = ow[t]
  PROVE  Uses2(ss2, ow2, u)[j] = (Uses2(ss, ow, u)[j] - Ref(ss[s], ow[s], j)) + Ref(ss2[s], ow2[s], j)
<1> DEFINE R == {x \in Session \X Tags : x[1] # s /\ Refers(ss[x[1]], ow[x[1]], x[2], j)} \cup UiLink(u, j)
<1>1. R \subseteq Links(ss, ow, u, j) /\ IsFiniteSet(R)
  <2>1. R \subseteq Links(ss, ow, u, j)
    BY DEF Links
  <2>2. QED BY <2>1, LinksFinite, FS_Subset
<1>2. \A t \in Tags : <<s, t>> \notin R
  BY DEF Tags, UiLink
<1>3. Links(ss, ow, u, j) = R \cup LinksOf(s, ss[s], ow[s], j)
  BY DEF Links, LinksOf
<1>4. Links(ss2, ow2, u, j) = R \cup LinksOf(s, ss2[s], ow2[s], j)
  BY DEF Links, LinksOf
<1> HIDE DEF R
<1>5. Cardinality(Links(ss, ow, u, j)) = Cardinality(R) + Ref(ss[s], ow[s], j)
  <2>1. Cardinality(R \cup LinksOf(s, ss[s], ow[s], j)) = Cardinality(R) + Ref(ss[s], ow[s], j)
    BY <1>1, <1>2, LinksOfSession
  <2>2. QED BY <2>1, <1>3
<1>6. Cardinality(Links(ss2, ow2, u, j)) = Cardinality(R) + Ref(ss2[s], ow2[s], j)
  <2>1. Cardinality(R \cup LinksOf(s, ss2[s], ow2[s], j)) = Cardinality(R) + Ref(ss2[s], ow2[s], j)
    BY <1>1, <1>2, LinksOfSession
  <2>2. QED BY <2>1, <1>4
<1>7. Cardinality(R) \in Nat
  BY <1>1, FS_CardinalityType
<1>8. QED BY <1>5, <1>6, <1>7 DEF Uses2, Ref, Bit

LEMMA UiChange ==
  ASSUME NEW ss, NEW ow, NEW u, NEW u2, NEW j \in Job
  PROVE  Uses2(ss, ow, u2)[j] = (Uses2(ss, ow, u)[j] - Bit(u = j)) + Bit(u2 = j)
<1> DEFINE R == {x \in Session \X Tags : Refers(ss[x[1]], ow[x[1]], x[2], j)}
<1>1. R \subseteq Links(ss, ow, u, j) /\ IsFiniteSet(R) /\ <<"ui", "ui">> \notin R
  <2>1. R \subseteq Links(ss, ow, u, j) /\ <<"ui", "ui">> \notin R
    BY DEF Links, Tags
  <2>2. QED BY <2>1, LinksFinite, FS_Subset
<1>2. ASSUME NEW v PROVE Cardinality(Links(ss, ow, v, j)) = Cardinality(R) + Bit(v = j)
  <2>1. Links(ss, ow, v, j) = R \cup (IF v = j THEN {<<"ui", "ui">>} ELSE {})
    BY DEF Links, UiLink
  <2> HIDE DEF R
  <2>2. QED BY <1>1, <2>1, AddIf
<1>3. Cardinality(R) \in Nat
  BY <1>1, FS_CardinalityType
<1> HIDE DEF R
<1>4. QED BY <1>2, <1>3 DEF Uses2, Bit

\* A section in which the sessions S drop their reference T to j.
Drop(ss, ow, ss2, ow2, j, T, S) ==
    /\ T \in Tags /\ S \subseteq Session
    /\ \A t \in Session, f \in Tags :
          Refers(ss2[t], ow2[t], f, j) <=> Refers(ss[t], ow[t], f, j) /\ ~(f = T /\ t \in S)
    /\ \A t \in S : Refers(ss[t], ow[t], T, j)

LEMMA Fewer ==
  ASSUME NEW ss, NEW ow, NEW ss2, NEW ow2, NEW u, NEW q \in Job, NEW T, NEW S,
         Drop(ss, ow, ss2, ow2, q, T, S)
  PROVE  Uses2(ss2, ow2, u)[q] = Uses2(ss, ow, u)[q] - Cardinality(S)
<1> USE DEF Drop
<1>1. IsFiniteSet(S) /\ Cardinality(S) \in Nat
  BY SessionAssumption, FS_Subset, FS_CardinalityType
<1>2. Cardinality(S \X {T}) = Cardinality(S)
  <2>1. IsFiniteSet({T}) /\ Cardinality({T}) = 1
    BY FS_Singleton
  <2>2. Cardinality(S \X {T}) = Cardinality(S) * Cardinality({T})
    BY <1>1, <2>1, FS_Product
  <2>3. QED BY <1>1, <2>1, <2>2
<1>3. S \X {T} \subseteq Links(ss, ow, u, q)
  BY DEF Links
<1>4. Links(ss2, ow2, u, q) = Links(ss, ow, u, q) \ (S \X {T})
  BY DEF Links, UiLink, Tags
<1>5. Links(ss, ow, u, q) \cap (S \X {T}) = S \X {T}
  BY <1>3
<1>6. Cardinality(Links(ss, ow, u, q) \ (S \X {T}))
        = Cardinality(Links(ss, ow, u, q)) - Cardinality(Links(ss, ow, u, q) \cap (S \X {T}))
  BY LinksFinite, FS_Difference
<1>7. QED BY <1>2, <1>4, <1>5, <1>6 DEF Uses2

LEMMA SameLinks ==
  ASSUME NEW ss, NEW ow, NEW ss2, NEW ow2, NEW u, NEW j \in Job,
         \A t \in Session, f \in Tags : Refers(ss2[t], ow2[t], f, j) <=> Refers(ss[t], ow[t], f, j)
  PROVE  Uses2(ss2, ow2, u)[j] = Uses2(ss, ow, u)[j]
<1>1. Links(ss2, ow2, u, j) = Links(ss, ow, u, j)
  BY DEF Links
<1>2. QED BY <1>1 DEF Uses2

-------------------------------------------------------------------------------
(* The book of jobs js, for n[j] references to job j, the callback's job c  *)
(* and the mutations m.                                                     *)

JobType == [at : {"none", "linked", "cleared", "running", "terminal"},
            project : Project \cup {Star}, subs : Nat, waiter : BOOLEAN, cancel : BOOLEAN]

Counted(js, n, c) == \A j \in Job : /\ js[j].subs = n[j]
                                    /\ js[j].waiter <=> c = j
                                    /\ js[j].at = "none" => js[j] = NoJob
OnePerProject(js) == \A i, j \in Live(js) : js[i].project = js[j].project => i = j
Limited(js) == Cardinality(Live(js)) <= Limit
Wanted(js) == \A j \in Live(js) : js[j].subs = 0 => js[j].cancel
Placed(js) == \A j \in Live(js) : js[j].project \in Project
\* From the check for mutations on, the worker may run at any time.
Ahead == {"cleared", "running"}
Apart(js, m) == \A j \in Job, k \in m : js[j].at \in Ahead => ~Conflict(k, js[j].project)

JobBook(js, n, c, m) == /\ js \in [Job -> JobType]
                        /\ Counted(js, n, c)
                        /\ OnePerProject(js) /\ Limited(js) /\ Wanted(js) /\ Placed(js)
                        /\ Apart(js, m)

LEMMA LiveFinite ==
  ASSUME NEW js
  PROVE  /\ IsFiniteSet(Live(js)) /\ Cardinality(Live(js)) \in Nat
<1>1. IsFiniteSet(Job)
  BY BoundsAssumption, FS_Interval DEF Job
<1>2. Live(js) \in SUBSET Job
  BY DEF Live
<1>3. QED BY <1>1, <1>2, FS_Subset, FS_CardinalityType

\* A section that starts no job.
LEMMA Shrink ==
  ASSUME NEW js, NEW n, NEW c, NEW m, JobBook(js, n, c, m),
         NEW js2 \in [Job -> JobType], NEW n2, NEW c2, NEW m2,
         Counted(js2, n2, c2), Apart(js2, m2),
         \A j \in Live(js2) : /\ j \in Live(js) /\ js2[j].project = js[j].project
                              /\ js2[j].subs = 0 => js2[j].cancel
  PROVE  JobBook(js2, n2, c2, m2)
<1>1. OnePerProject(js2)
  BY DEF JobBook, OnePerProject
<1>2. Limited(js2)
  <2>1. Live(js2) \in SUBSET Live(js)
    OBVIOUS
  <2>2. Cardinality(Live(js2)) <= Cardinality(Live(js))
    BY <2>1, LiveFinite, FS_Subset
  <2>3. QED BY <2>2, LiveFinite, LimitAssumption DEF JobBook, Limited
<1>3. Wanted(js2) /\ Placed(js2)
  BY DEF JobBook, Wanted, Placed
<1>4. QED BY <1>1, <1>2, <1>3 DEF JobBook

\* A section that moves no job, and changes counts and cancellations only.
LEMMA Adjust ==
  ASSUME NEW js, NEW n, NEW c, NEW m, JobBook(js, n, c, m),
         NEW js2 \in [Job -> JobType], NEW n2, Counted(js2, n2, c),
         \A j \in Job : /\ js2[j].at = js[j].at /\ js2[j].project = js[j].project
                        /\ j \in Live(js) /\ js2[j].subs = 0 => js2[j].cancel
  PROVE  JobBook(js2, n2, c, m)
<1>1. Live(js2) = Live(js)
  BY DEF Live
<1>2. Apart(js2, m)
  BY DEF JobBook, Apart, Ahead
<1>3. \A j \in Live(js2) : j \in Job
  BY DEF Live
<1>4. QED BY <1>1, <1>2, <1>3, Shrink

LEMMA NoJobType == NoJob \in JobType
  BY DEF NoJob, JobType

LEMMA ReapedBook ==
  ASSUME NEW js, NEW n, NEW c, NEW m, JobBook(js, n, c, m)
  PROVE  JobBook(Reaped(js), n, c, m)
<1> DEFINE js2 == Reaped(js)
<1>1. ASSUME NEW j \in Job
      PROVE  \/ /\ js2[j] = js[j]
             \/ /\ js2[j] = NoJob /\ js[j].at = "terminal" /\ js[j].subs = 0 /\ ~js[j].waiter
  BY DEF Reaped, Done
<1>2. js2 \in [Job -> JobType]
  BY NoJobType DEF Reaped, JobBook
<1>3. Counted(js2, n, c)
  <2> HIDE DEF js2
  <2>1. ASSUME NEW j \in Job
        PROVE  /\ js2[j].subs = n[j]
               /\ js2[j].waiter <=> c = j
               /\ js2[j].at = "none" => js2[j] = NoJob
    <3>1. /\ js[j].subs = n[j]
          /\ js[j].waiter <=> c = j
          /\ js[j].at = "none" => js[j] = NoJob
      BY DEF JobBook, Counted
    <3>2. CASE js2[j] = js[j]
      BY <3>1, <3>2
    <3>3. CASE js2[j] = NoJob /\ js[j].subs = 0 /\ ~js[j].waiter
      BY <3>1, <3>3 DEF NoJob
    <3>4. QED BY <1>1, <3>2, <3>3
  <2>2. QED BY <2>1 DEF Counted
<1>4. Apart(js2, m)
  BY <1>1 DEF JobBook, Apart, Ahead, NoJob
<1>5. ASSUME NEW j \in Live(js2)
      PROVE  /\ j \in Live(js) /\ js2[j].project = js[j].project
             /\ js2[j].subs = 0 => js2[j].cancel
  <2>1. j \in Job /\ js2[j].at # "none"
    BY DEF Live
  <2>2. js2[j] = js[j]
    BY <1>1, <2>1 DEF NoJob
  <2>3. j \in Live(js)
    BY <2>1, <2>2 DEF Live
  <2>4. QED BY <2>2, <2>3 DEF JobBook, Wanted
<1>6. QED
  <2> HIDE DEF js2
  <2>1. JobBook(js2, n, c, m)
    BY <1>2, <1>3, <1>4, <1>5, Shrink
  <2>2. QED BY <2>1 DEF js2

\* A record with another count and cancellation, and the jobs with others.
Record(r, k, b) == [r EXCEPT !.subs = k, !.cancel = b]
Records(js, K, B) == [j \in Job |-> Record(js[j], K[j], B[j])]

LEMMA RecordType ==
  ASSUME NEW r \in JobType, NEW k \in Nat, NEW b \in BOOLEAN
  PROVE  /\ Record(r, k, b) \in JobType
         /\ Record(r, k, b).at = r.at /\ Record(r, k, b).project = r.project
         /\ Record(r, k, b).subs = k /\ Record(r, k, b).waiter = r.waiter
         /\ Record(r, k, b).cancel = b
  BY DEF JobType, Record

LEMMA RecountBook ==
  ASSUME NEW js, NEW n, NEW c, NEW m, JobBook(js, n, c, m),
         NEW K \in [Job -> Nat], NEW B \in [Job -> BOOLEAN], NEW n2,
         \A j \in Job : /\ K[j] = n2[j]
                        /\ js[j].at = "none" => K[j] = 0 /\ B[j] = js[j].cancel
                        /\ j \in Live(js) /\ K[j] = 0 => B[j]
  PROVE  JobBook(Records(js, K, B), n2, c, m)
<1> DEFINE js2 == Records(js, K, B)
<1>1. ASSUME NEW j \in Job
      PROVE  /\ js2[j] \in JobType /\ js2[j].at = js[j].at /\ js2[j].project = js[j].project
             /\ js2[j].subs = K[j] /\ js2[j].waiter = js[j].waiter /\ js2[j].cancel = B[j]
  <2>1. js[j] \in JobType
    BY DEF JobBook
  <2>2. js2[j] = Record(js[j], K[j], B[j]) /\ K[j] \in Nat /\ B[j] \in BOOLEAN
    BY DEF Records
  <2>3. QED BY <2>1, <2>2, RecordType
<1>2. js2 \in [Job -> JobType]
  BY <1>1 DEF Records
<1> HIDE DEF js2
<1>3. ASSUME NEW j \in Job, js2[j].at = "none" PROVE js2[j] = NoJob
  <2>1. js[j] = NoJob
    BY <1>1, <1>3 DEF JobBook, Counted
  <2>2. js[j].at = "none" /\ js[j].cancel = FALSE
    BY <2>1 DEF NoJob
  <2>3. js2[j].subs = 0 /\ js2[j].cancel = FALSE /\ js2[j].waiter = FALSE /\ js2[j].project = Star
    BY <1>1, <2>1, <2>2 DEF NoJob
  <2>4. QED BY <1>1, <1>3, <2>3 DEF JobType, NoJob
<1>4. Counted(js2, n2, c)
  <2>1. ASSUME NEW j \in Job PROVE js2[j].subs = n2[j] /\ (js2[j].waiter <=> c = j)
    BY <1>1 DEF JobBook, Counted
  <2>2. QED BY <1>3, <2>1 DEF Counted
<1>5. ASSUME NEW j \in Job, j \in Live(js), js2[j].subs = 0 PROVE js2[j].cancel
  BY <1>1, <1>5
<1>6. JobBook(js2, n2, c, m)
  BY <1>1, <1>2, <1>4, <1>5, Adjust
<1>7. QED BY <1>6 DEF js2

LEMMA NoneUnused ==
  ASSUME NEW js, NEW n, NEW c, NEW m, JobBook(js, n, c, m), NEW j \in Job, js[j].at = "none"
  PROVE  n[j] = 0 /\ c # j /\ j \notin Live(js)
  BY DEF JobBook, Counted, NoJob, Live

\* One reference to j is dropped.
LEMMA UnsubBook ==
  ASSUME NEW js, NEW n, NEW c, NEW m, JobBook(js, n, c, m), NEW j \in Job, NEW n2 \in [Job -> Nat],
         \A i \in Job : n2[i] = n[i] - Bit(i = j)
  PROVE  JobBook(Unsub(js, j), n2, c, m)
<1> DEFINE drop == js[j].cancel \/ (js[j].subs = 1 /\ j \in Live(js))
           B == [i \in Job |-> IF i = j THEN drop ELSE js[i].cancel]
           js2 == Records(js, n2, B)
<1>1. js \in [Job -> JobType] /\ \A i \in Job : js[i].subs = n[i] /\ n[i] \in Nat
  BY DEF JobBook, Counted, JobType
<1>2. ASSUME NEW i \in Job PROVE js[i].cancel \in BOOLEAN /\ B[i] \in BOOLEAN
  <2>1. js[i].cancel \in BOOLEAN /\ js[j].cancel \in BOOLEAN
    BY <1>1 DEF JobType
  <2>2. QED BY <2>1
<1>3. B \in [Job -> BOOLEAN]
  BY <1>2
<1>4. ASSUME NEW i \in Job
      PROVE  /\ n2[i] = n2[i]
             /\ js[i].at = "none" => n2[i] = 0 /\ B[i] = js[i].cancel
             /\ i \in Live(js) /\ n2[i] = 0 => B[i]
  <2>1. n2[i] = n[i] - Bit(i = j) /\ n2[i] \in Nat
    OBVIOUS
  <2>2. CASE i = j
    <3>1. n[i] # 0 /\ n2[i] = n[i] - 1
      BY <1>1, <2>1, <2>2 DEF Bit
    <3>2. n2[i] = 0 => js[j].subs = 1
      BY <1>1, <2>2, <3>1
    <3>3. js[i].at # "none"
      BY <3>1, NoneUnused
    <3>4. QED BY <2>2, <3>2, <3>3
  <2>3. CASE i # j
    <3>1. n2[i] = n[i] /\ B[i] = js[i].cancel
      BY <1>1, <2>1, <2>3 DEF Bit
    <3>2. i \in Live(js) /\ n[i] = 0 => js[i].cancel
      BY <1>1 DEF JobBook, Wanted
    <3>3. QED BY <3>1, <3>2, NoneUnused
  <2>4. QED BY <2>2, <2>3
<1>5. JobBook(js2, n2, c, m)
  <2> HIDE DEF B
  <2>1. QED BY <1>3, <1>4, RecountBook
<1>6. Unsub(js, j) = js2
  <2>1. ASSUME NEW i \in Job PROVE Unsub(js, j)[i] = js2[i]
    <3>1. CASE i = j
      <4>1. n2[i] = js[i].subs - 1
        BY <1>1, <3>1 DEF Bit
      <4>2. QED BY <1>1, <3>1, <4>1 DEF Unsub, Records, Record
    <3>2. CASE i # j
      <4>1. js[i] = [js[i] EXCEPT !.subs = n[i], !.cancel = js[i].cancel]
        BY <1>1 DEF JobType
      <4>2. n2[i] = n[i]
        BY <1>1, <3>2 DEF Bit
      <4>3. QED BY <1>1, <3>2, <4>1, <4>2 DEF Unsub, Records, Record
    <3>3. QED BY <3>1, <3>2
  <2>2. QED BY <1>1, <2>1 DEF Unsub, Records
<1>7. QED BY <1>5, <1>6

LEMMA OwnedNat == ASSUME NEW S \in SUBSET Session, NEW j PROVE Owned(S, j) \in Nat
<1>1. {s \in S : j \in owners[s]} \in SUBSET Session
  OBVIOUS
<1>2. QED BY <1>1, SessionAssumption, FS_Subset, FS_CardinalityType DEF Owned

\* The watches of the sessions S let go of the jobs they own.
LEMMA DisownBook ==
  ASSUME NEW js, NEW n, NEW c, NEW m, JobBook(js, n, c, m), NEW S \in SUBSET Session,
         NEW n2 \in [Job -> Nat], \A i \in Job : n2[i] = n[i] - Owned(S, i)
  PROVE  JobBook(Disown(js, S), n2, c, m)
<1> DEFINE drop(i) == js[i].cancel \/ (/\ Owned(S, i) # 0 /\ js[i].subs = Owned(S, i)
                                       /\ i \in Live(js))
           B == [i \in Job |-> drop(i)]
           js2 == Records(js, n2, B)
<1>1. js \in [Job -> JobType] /\ \A i \in Job : js[i].subs = n[i] /\ n[i] \in Nat
  BY DEF JobBook, Counted, JobType
<1>2. ASSUME NEW i \in Job PROVE js[i].cancel \in BOOLEAN /\ drop(i) \in BOOLEAN
  BY <1>1 DEF JobType
<1>3. B \in [Job -> BOOLEAN]
  BY <1>2
<1>4. ASSUME NEW i \in Job
      PROVE  /\ n2[i] = n2[i]
             /\ js[i].at = "none" => n2[i] = 0 /\ B[i] = js[i].cancel
             /\ i \in Live(js) /\ n2[i] = 0 => B[i]
  <2>1. /\ n2[i] = n[i] - Owned(S, i) /\ n2[i] \in Nat /\ n[i] \in Nat /\ Owned(S, i) \in Nat
        /\ js[i].subs = n[i]
    BY <1>1, OwnedNat
  <2>2. n[i] = 0 => n2[i] = 0 /\ Owned(S, i) = 0
    BY <2>1
  <2>3. B[i] = drop(i)
    OBVIOUS
  <2>4. Owned(S, i) = 0 => (drop(i) <=> js[i].cancel)
    OBVIOUS
  <2>5. n2[i] = 0 /\ Owned(S, i) # 0 /\ i \in Live(js) => drop(i)
    BY <2>1
  <2>6. n2[i] = 0 /\ Owned(S, i) = 0 /\ i \in Live(js) => js[i].cancel
    <3>1. n2[i] = 0 /\ Owned(S, i) = 0 => js[i].subs = 0
      BY <2>1
    <3>2. QED BY <3>1 DEF JobBook, Wanted
  <2>7. Owned(S, i) = 0 => drop(i) = js[i].cancel
    BY <1>2, <2>4
  <2> HIDE DEF drop, B
  <2>8. QED BY NoneUnused, <2>2, <2>3, <2>4, <2>5, <2>6, <2>7
<1>5. JobBook(js2, n2, c, m)
  <2> HIDE DEF B
  <2>1. QED BY <1>3, <1>4, RecountBook
<1>6. Disown(js, S) = js2
  <2>1. ASSUME NEW i \in Job PROVE Disown(js, S)[i] = js2[i]
    <3>1. n2[i] = js[i].subs - Owned(S, i)
      BY <1>1
    <3>2. QED BY <3>1 DEF Disown, Records, Record
  <2>2. QED BY <2>1 DEF Disown, Records
<1>7. QED BY <1>5, <1>6

\* Some live jobs are being cancelled, and nothing is counted.
LEMMA CancelBook ==
  ASSUME NEW js, NEW n \in [Job -> Nat], NEW c, NEW m, JobBook(js, n, c, m), NEW C \in SUBSET Live(js),
         NEW js2, js2 = [j \in Job |-> IF j \in C THEN [js[j] EXCEPT !.cancel = TRUE] ELSE js[j]]
  PROVE  JobBook(js2, n, c, m)
<1> DEFINE B == [i \in Job |-> IF i \in C THEN TRUE ELSE js[i].cancel]
<1>1. js \in [Job -> JobType] /\ \A i \in Job : js[i].subs = n[i] /\ js[i].cancel \in BOOLEAN
  BY DEF JobBook, Counted, JobType
<1>2. B \in [Job -> BOOLEAN]
  BY <1>1
<1>3. ASSUME NEW i \in Job
      PROVE  /\ n[i] = n[i]
             /\ js[i].at = "none" => n[i] = 0 /\ B[i] = js[i].cancel
             /\ i \in Live(js) /\ n[i] = 0 => B[i]
  <2>1. i \in Live(js) /\ n[i] = 0 => js[i].cancel = TRUE
    BY <1>1 DEF JobBook, Wanted
  <2>2. js[i].at = "none" => i \notin C /\ n[i] = 0
    BY NoneUnused
  <2>3. QED BY <2>1, <2>2
<1>4. JobBook(Records(js, n, B), n, c, m)
  <2> HIDE DEF B
  <2>1. QED BY <1>2, <1>3, RecountBook
<1>5. js2 = Records(js, n, B)
  <2>1. ASSUME NEW i \in Job PROVE js2[i] = Records(js, n, B)[i]
    <3>1. js[i] \in JobType /\ js[i].subs = n[i]
      BY <1>1
    <3>2. QED BY <3>1 DEF Records, Record, JobType
  <2>2. QED BY <2>1 DEF Records
<1>6. QED BY <1>4, <1>5

Linked(p) == [NoJob EXCEPT !.at = "linked", !.project = p, !.subs = 1]

LEMMA FreshJob ==
  ASSUME NEW js
  PROVE  IF HasRoom(js) THEN Fresh(js) \in Job /\ js[Fresh(js)].at = "none" ELSE Fresh(js) = Overflow
  BY DEF Fresh, HasRoom

LEMMA OverflowBeyond == Overflow \notin Job /\ Overflow # 0 /\ 0 \notin Job
  BY BoundsAssumption DEF Overflow, Job

LEMMA ChosenJob ==
  ASSUME NEW js, NEW p, Chosen(js, p) # 0
  PROVE  \/ CanJoin(js, p) /\ Chosen(js, p) \in Of(js, p) /\ Chosen(js, p) \in Job
         \/ ~CanJoin(js, p) /\ CanStart(js, p) /\ Chosen(js, p) = Fresh(js)
<1>1. CASE CanJoin(js, p)
  <2>1. \E j \in Of(js, p) : TRUE
    BY <1>1 DEF CanJoin
  <2>2. Chosen(js, p) \in Of(js, p)
    BY <1>1, <2>1 DEF Chosen
  <2>3. QED BY <1>1, <2>2 DEF Of, Live
<1>2. CASE ~CanJoin(js, p)
  BY <1>2 DEF Chosen
<1>3. QED BY <1>1, <1>2

LEMMA ChosenInBound ==
  ASSUME NEW js, NEW p, Chosen(js, p) # 0
  PROVE  /\ Chosen(js, p) \in Job \cup {Overflow}
         /\ HasRoom(js) => Chosen(js, p) \in Job
  BY ChosenJob, FreshJob

\* A reference to the project's job is added: the job is joined, or started.
LEMMA SubscribeBook ==
  ASSUME NEW js, NEW n, NEW c \in Job \cup {0}, NEW m, JobBook(js, n, c, m), NEW p \in Project,
         Chosen(js, p) # 0, NEW n2 \in [Job -> Nat],
         \A i \in Job : n2[i] = n[i] + Bit(i = Chosen(js, p))
  PROVE  JobBook(Subscribe(js, p), n2, c, m)
<1> DEFINE j == Chosen(js, p)
<1>1. /\ js \in [Job -> JobType]
      /\ \A i \in Job : js[i].subs = n[i] /\ n[i] \in Nat /\ js[i].cancel \in BOOLEAN
  BY DEF JobBook, Counted, JobType
<1>2. CASE CanJoin(js, p)
  <2>1. j \in Of(js, p) /\ j \in Job /\ j \in Live(js) /\ js[j].project = p
    BY <1>2, ChosenJob DEF Of
  <2>2. Subscribe(js, p) = Sub(js, j, 1)
    BY <1>2 DEF Subscribe
  <2> DEFINE B == [i \in Job |-> js[i].cancel]
  <2>3. B \in [Job -> BOOLEAN]
    BY <1>1
  <2>4. ASSUME NEW i \in Job
        PROVE  /\ n2[i] = n2[i]
               /\ js[i].at = "none" => n2[i] = 0 /\ B[i] = js[i].cancel
               /\ i \in Live(js) /\ n2[i] = 0 => B[i]
    <3>1. js[i].at = "none" => i # j /\ n[i] = 0
      BY <2>1, NoneUnused
    <3>2. i \in Live(js) /\ n[i] = 0 => js[i].cancel
      BY <1>1 DEF JobBook, Wanted
    <3>3. n2[i] = n[i] + Bit(i = j) /\ n[i] \in Nat /\ B[i] = js[i].cancel
      BY <1>1
    <3> HIDE DEF B, j
    <3>4. QED BY <3>1, <3>2, <3>3 DEF Bit
  <2>5. JobBook(Records(js, n2, B), n2, c, m)
    <3> HIDE DEF B
    <3>1. QED BY <2>3, <2>4, RecountBook
  <2>6. Sub(js, j, 1) = Records(js, n2, B)
    <3> HIDE DEF j
    <3>1. ASSUME NEW i \in Job PROVE Sub(js, j, 1)[i] = Records(js, n2, B)[i]
      <4>1. js[i] \in JobType /\ js[i].subs = n[i] /\ n[i] \in Nat /\ n2[i] = n[i] + Bit(i = Chosen(js, p))
        BY <1>1
      <4>2. CASE i = j
        <5>1. n2[i] = js[i].subs + 1
          BY <4>1, <4>2 DEF Bit, j
        <5>2. Sub(js, j, 1)[i] = [js[i] EXCEPT !.subs = @ + 1]
          BY <1>1, <2>1, <4>2 DEF Sub
        <5>3. QED BY <4>1, <5>1, <5>2 DEF Records, Record, JobType
      <4>3. CASE i # j
        <5>1. n2[i] = js[i].subs
          BY <4>1, <4>3 DEF Bit, j
        <5>2. Sub(js, j, 1)[i] = js[i]
          BY <1>1, <2>1, <4>3 DEF Sub
        <5>3. QED BY <4>1, <5>1, <5>2 DEF Records, Record, JobType
      <4>4. QED BY <4>2, <4>3
    <3>2. QED BY <1>1, <3>1 DEF Sub, Records
  <2>7. QED BY <2>2, <2>5, <2>6
<1>3. CASE ~CanJoin(js, p) /\ ~HasRoom(js)
  <2>1. j \notin Job /\ Subscribe(js, p) = [js EXCEPT ![j] = Linked(p)]
    <3>1. j = Fresh(js)
      BY <1>3, ChosenJob
    <3>2. Fresh(js) = Overflow
      BY <1>3, FreshJob
    <3>3. Subscribe(js, p) = [js EXCEPT ![Fresh(js)] = Linked(p)]
      BY <1>3 DEF Subscribe, Linked
    <3> HIDE DEF j
    <3>4. QED BY <3>1, <3>2, <3>3, OverflowBeyond
  <2>2. Subscribe(js, p) = js
    <3> HIDE DEF j
    <3>1. QED BY <1>1, <2>1
  <2>3. \A i \in Job : n2[i] = n[i]
    BY <1>1, <2>1 DEF Bit
  <2>4. Counted(js, n2, c)
    BY <2>3 DEF JobBook, Counted
  <2>5. QED BY <2>2, <2>4 DEF JobBook
<1>4. CASE ~CanJoin(js, p) /\ HasRoom(js)
  <2>1. /\ j \in Job /\ js[j].at = "none" /\ CanStart(js, p)
        /\ Subscribe(js, p) = [js EXCEPT ![j] = Linked(p)]
    BY <1>4, ChosenJob, FreshJob DEF Subscribe, Linked
  <2> DEFINE js2 == Subscribe(js, p)
  <2>2. ASSUME NEW i \in Job
        PROVE  js2[i] = IF i = j THEN Linked(p) ELSE js[i]
    <3> HIDE DEF j
    <3>1. QED BY <1>1, <2>1
  <2>3. Linked(p) \in JobType
    BY DEF Linked, NoJob, JobType
  <2>4. js2 \in [Job -> JobType]
    <3> HIDE DEF j
    <3>1. QED BY <1>1, <2>1, <2>3
  <2>5. n[j] = 0 /\ c # j /\ j \notin Live(js)
    BY <2>1, NoneUnused
  <2>6. Live(js2) = Live(js) \cup {j}
    <3> HIDE DEF j, js2
    <3>1. js2[j].at = "linked"
      BY <2>1, <2>2 DEF Linked, NoJob
    <3>2. ASSUME NEW i \in Job PROVE i \in Live(js2) <=> i \in Live(js) \/ i = j
      BY <2>2, <3>1 DEF Live
    <3>3. Live(js2) \subseteq Job /\ Live(js) \subseteq Job
      BY DEF Live
    <3>4. QED BY <2>1, <3>2, <3>3
  <2> HIDE DEF j, js2
  <2>7. Counted(js2, n2, c)
    <3>1. ASSUME NEW i \in Job
          PROVE  /\ js2[i].subs = n2[i]
                 /\ js2[i].waiter <=> c = i
                 /\ js2[i].at = "none" => js2[i] = NoJob
      <4>1. CASE i = j
        <5>1. n2[i] = 1
          BY <1>1, <2>5, <4>1 DEF Bit, j
        <5>2. QED BY <2>2, <2>5, <4>1, <5>1 DEF Linked, NoJob
      <4>2. CASE i # j
        <5>1. n2[i] = n[i] /\ js2[i] = js[i]
          BY <1>1, <2>2, <4>2 DEF Bit, j
        <5>2. QED BY <5>1 DEF JobBook, Counted
      <4>3. QED BY <4>1, <4>2
    <3>2. QED BY <3>1 DEF Counted
  <2>8. OnePerProject(js2)
    <3>1. \A i \in Live(js) : i \in Job /\ i # j /\ js2[i].project = js[i].project /\ js[i].project # p
      BY <2>1, <2>2, <2>5 DEF Live, CanStart, Of
    <3>2. js2[j].project = p
      BY <2>1, <2>2 DEF Linked, NoJob
    <3>3. QED BY <2>6, <3>1, <3>2 DEF JobBook, OnePerProject
  <2>9. Limited(js2)
    <3>1. Cardinality(Live(js2)) = Cardinality(Live(js)) + 1
      <4>1. IsFiniteSet(Live(js))
        BY LiveFinite
      <4>2. QED BY <2>5, <2>6, <4>1, FS_AddElement
    <3>2. Cardinality(Live(js)) < Limit
      BY <2>1 DEF CanStart
    <3>3. QED BY <3>1, <3>2, LiveFinite, LimitAssumption DEF Limited
  <2>10. Wanted(js2)
    <3>1. js2[j].subs = 1
      BY <2>1, <2>2 DEF Linked, NoJob
    <3>2. \A i \in Live(js) : i \in Job /\ i # j /\ js2[i] = js[i]
      BY <2>1, <2>2, <2>5 DEF Live
    <3>3. QED BY <2>6, <3>1, <3>2 DEF JobBook, Wanted
  <2>11. Apart(js2, m)
    <3>1. js2[j].at = "linked"
      BY <2>1, <2>2 DEF Linked, NoJob
    <3>2. QED BY <2>2, <3>1 DEF JobBook, Apart, Ahead
  <2>12. Placed(js2)
    <3>1. js2[j].project = p
      BY <2>1, <2>2 DEF Linked, NoJob
    <3>2. \A i \in Live(js) : i \in Job /\ i # j /\ js2[i] = js[i]
      BY <2>1, <2>2, <2>5 DEF Live
    <3>3. QED BY <2>6, <3>1, <3>2 DEF JobBook, Placed
  <2>13. QED BY <2>4, <2>7, <2>8, <2>9, <2>10, <2>11, <2>12 DEF JobBook, js2
<1>5. QED BY <1>2, <1>3, <1>4

-------------------------------------------------------------------------------
(* The sessions ss, and the jobs ow of their watches. *)

SessionType == [at : {"new", "open", "cancelled"}, req : {"none", "queued", "got", "waiting"},
                got : Job \cup {0}, active : Job \cup {0}, cut : BOOLEAN,
                auto : Job \cup {0, Overflow}, evaluated : BOOLEAN, pending : BOOLEAN,
                join : Job \cup {0}, watch : BOOLEAN]

\* a request holds its subscription in one place at a time, and a session
\* that is open has nothing to join
Tidy(r) == /\ r.got # 0 <=> r.req = "got"
           /\ r.active # 0 => r.req = "waiting"
           /\ r.join # 0 => r.at = "cancelled"

SessionBook(ss, ow) == /\ ss \in [Session -> SessionType]
                       /\ \A s \in Session : Tidy(ss[s])
                       /\ ow \in [Session -> SUBSET Job]

Books(js, ss, ow, c, u, m) == /\ JobBook(js, Uses2(ss, ow, u), c, m)
                              /\ SessionBook(ss, ow)

Inv == /\ Books(job, sess, owners, callback, ui, mutations)
       /\ \A s \in Session : sess[s].auto # Overflow
       /\ callback \in Job \cup {0} /\ ui \in Job \cup {0}
       /\ mutations \subseteq Keys /\ db \subseteq Project /\ stopping \in BOOLEAN

LEMMA UsesType ==
  ASSUME NEW ss, NEW ow, NEW u
  PROVE  Uses2(ss, ow, u) \in [Job -> Nat]
  BY LinksFinite DEF Uses2

LEMMA RefType ==
  ASSUME NEW r, NEW o, NEW j
  PROVE  Ref(r, o, j) \in Nat
  BY DEF Ref, Bit

Put(f, s, x) == [f EXCEPT ![s] = x]

\* One session's record becomes r, and the jobs of its watch o.
LEMMA SetSession ==
  ASSUME NEW ss, NEW ow, SessionBook(ss, ow), NEW s \in Session, NEW r \in SessionType, Tidy(r),
         NEW o \in SUBSET Job, NEW u
  PROVE  /\ SessionBook(Put(ss, s, r), Put(ow, s, o))
         /\ \A j \in Job : Uses2(Put(ss, s, r), Put(ow, s, o), u)[j]
                              = (Uses2(ss, ow, u)[j] - Ref(ss[s], ow[s], j)) + Ref(r, o, j)
<1> DEFINE ss2 == Put(ss, s, r)
           ow2 == Put(ow, s, o)
<1>1. ss \in [Session -> SessionType] /\ ow \in [Session -> SUBSET Job]
  BY DEF SessionBook
<1>2. ss2[s] = r /\ ow2[s] = o /\ \A t \in Session \ {s} : ss2[t] = ss[t] /\ ow2[t] = ow[t]
  BY <1>1 DEF Put
<1>3. SessionBook(ss2, ow2)
  <2>1. ss2 \in [Session -> SessionType] /\ ow2 \in [Session -> SUBSET Job]
    BY <1>1 DEF Put
  <2> HIDE DEF ss2, ow2
  <2>2. ASSUME NEW t \in Session PROVE Tidy(ss2[t])
    <3>1. CASE t = s
      BY <1>2, <3>1
    <3>2. CASE t # s
      BY <1>2, <3>2 DEF SessionBook
    <3>3. QED BY <3>1, <3>2
  <2>3. QED BY <2>1, <2>2 DEF SessionBook
<1> HIDE DEF ss2, ow2
<1>4. ASSUME NEW j \in Job
      PROVE  Uses2(ss2, ow2, u)[j] = (Uses2(ss, ow, u)[j] - Ref(ss[s], ow[s], j)) + Ref(r, o, j)
  <2>1. Uses2(ss2, ow2, u)[j] = (Uses2(ss, ow, u)[j] - Ref(ss[s], ow[s], j)) + Ref(ss2[s], ow2[s], j)
    BY <1>2, OneSession
  <2>2. QED BY <1>2, <2>1
<1>5. QED BY <1>3, <1>4 DEF ss2, ow2

LEMMA SetRecord ==
  ASSUME NEW ss, NEW ow, SessionBook(ss, ow), NEW s \in Session, NEW r \in SessionType, Tidy(r), NEW u
  PROVE  /\ SessionBook(Put(ss, s, r), ow)
         /\ \A j \in Job : Uses2(Put(ss, s, r), ow, u)[j]
                              = (Uses2(ss, ow, u)[j] - Ref(ss[s], ow[s], j)) + Ref(r, ow[s], j)
<1>1. ow[s] \in SUBSET Job /\ Put(ow, s, ow[s]) = ow
  BY DEF SessionBook, Put
<1>2. /\ SessionBook(Put(ss, s, r), Put(ow, s, ow[s]))
      /\ \A j \in Job : Uses2(Put(ss, s, r), Put(ow, s, ow[s]), u)[j]
                           = (Uses2(ss, ow, u)[j] - Ref(ss[s], ow[s], j)) + Ref(r, ow[s], j)
  BY <1>1, SetSession
<1>3. QED BY <1>1, <1>2

\* The references of a session after a section: the same, one less, one more.
LEMMA KeepBooks ==
  ASSUME NEW js, NEW ss, NEW ow, NEW c, NEW u, NEW m, Books(js, ss, ow, c, u, m),
         NEW s \in Session, NEW r \in SessionType, Tidy(r),
         \A i \in Job : Ref(r, ow[s], i) = Ref(ss[s], ow[s], i)
  PROVE  Books(js, Put(ss, s, r), ow, c, u, m)
<1> DEFINE n == Uses2(ss, ow, u)
           n2 == Uses2(Put(ss, s, r), ow, u)
<1>1. /\ SessionBook(Put(ss, s, r), ow)
      /\ \A i \in Job : n2[i] = (n[i] - Ref(ss[s], ow[s], i)) + Ref(r, ow[s], i)
  <2>1. SessionBook(ss, ow)
    BY DEF Books
  <2>2. /\ SessionBook(Put(ss, s, r), ow)
        /\ \A i \in Job : Uses2(Put(ss, s, r), ow, u)[i]
                             = (Uses2(ss, ow, u)[i] - Ref(ss[s], ow[s], i)) + Ref(r, ow[s], i)
    BY <2>1, SetRecord
  <2>3. QED BY <2>2
<1>2. n \in [Job -> Nat] /\ n2 \in [Job -> Nat]
  BY UsesType
<1> HIDE DEF n, n2
<1>3. ASSUME NEW i \in Job PROVE n2[i] = n[i]
  <2>1. n[i] \in Nat /\ Ref(ss[s], ow[s], i) \in Nat
    BY <1>2, RefType
  <2>2. QED BY <1>1, <2>1
<1>4. n2 = n
  BY <1>2, <1>3
<1>5. QED BY <1>1, <1>4 DEF Books, n, n2

LEMMA DropBooks ==
  ASSUME NEW js, NEW ss, NEW ow, NEW c, NEW u, NEW m, Books(js, ss, ow, c, u, m),
         NEW s \in Session, NEW r \in SessionType, Tidy(r), NEW j \in Job,
         \A i \in Job : Ref(r, ow[s], i) = Ref(ss[s], ow[s], i) - Bit(i = j)
  PROVE  Books(Unsub(js, j), Put(ss, s, r), ow, c, u, m)
<1> DEFINE n == Uses2(ss, ow, u)
           n2 == Uses2(Put(ss, s, r), ow, u)
<1>1. /\ SessionBook(Put(ss, s, r), ow)
      /\ \A i \in Job : n2[i] = (n[i] - Ref(ss[s], ow[s], i)) + Ref(r, ow[s], i)
  <2>1. SessionBook(ss, ow)
    BY DEF Books
  <2>2. /\ SessionBook(Put(ss, s, r), ow)
        /\ \A i \in Job : Uses2(Put(ss, s, r), ow, u)[i]
                             = (Uses2(ss, ow, u)[i] - Ref(ss[s], ow[s], i)) + Ref(r, ow[s], i)
    BY <2>1, SetRecord
  <2>3. QED BY <2>2
<1>2. n \in [Job -> Nat] /\ n2 \in [Job -> Nat] /\ JobBook(js, n, c, m)
  BY UsesType DEF Books
<1> HIDE DEF n, n2
<1>3. ASSUME NEW i \in Job PROVE n2[i] = n[i] - Bit(i = j)
  <2>1. n[i] \in Nat /\ Ref(ss[s], ow[s], i) \in Nat
    BY <1>2, RefType
  <2>2. QED BY <1>1, <2>1 DEF Bit
<1>4. JobBook(Unsub(js, j), n2, c, m)
  BY <1>2, <1>3, UnsubBook
<1>5. QED BY <1>1, <1>4 DEF Books, n2

LEMMA GainBooks ==
  ASSUME NEW js, NEW ss, NEW ow, NEW c \in Job \cup {0}, NEW u, NEW m, Books(js, ss, ow, c, u, m),
         NEW p \in Project, Chosen(js, p) # 0,
         NEW s \in Session, NEW r \in SessionType, Tidy(r),
         \A i \in Job : Ref(r, ow[s], i) = Ref(ss[s], ow[s], i) + Bit(i = Chosen(js, p))
  PROVE  Books(Subscribe(js, p), Put(ss, s, r), ow, c, u, m)
<1> DEFINE n == Uses2(ss, ow, u)
           n2 == Uses2(Put(ss, s, r), ow, u)
<1>1. /\ SessionBook(Put(ss, s, r), ow)
      /\ \A i \in Job : n2[i] = (n[i] - Ref(ss[s], ow[s], i)) + Ref(r, ow[s], i)
  <2>1. SessionBook(ss, ow)
    BY DEF Books
  <2>2. /\ SessionBook(Put(ss, s, r), ow)
        /\ \A i \in Job : Uses2(Put(ss, s, r), ow, u)[i]
                             = (Uses2(ss, ow, u)[i] - Ref(ss[s], ow[s], i)) + Ref(r, ow[s], i)
    BY <2>1, SetRecord
  <2>3. QED BY <2>2
<1>2. n \in [Job -> Nat] /\ n2 \in [Job -> Nat] /\ JobBook(js, n, c, m)
  BY UsesType DEF Books
<1> HIDE DEF n, n2
<1>3. ASSUME NEW i \in Job PROVE n2[i] = n[i] + Bit(i = Chosen(js, p))
  <2>1. n[i] \in Nat /\ Ref(ss[s], ow[s], i) \in Nat
    BY <1>2, RefType
  <2>2. QED BY <1>1, <2>1 DEF Bit
<1>4. JobBook(Subscribe(js, p), n2, c, m)
  BY <1>2, <1>3, SubscribeBook
<1>5. QED BY <1>1, <1>4 DEF Books, n2

LEMMA ReapBooks ==
  ASSUME NEW js, NEW ss, NEW ow, NEW c, NEW u, NEW m, Books(js, ss, ow, c, u, m)
  PROVE  Books(Reaped(js), ss, ow, c, u, m)
  BY ReapedBook DEF Books

-------------------------------------------------------------------------------
(* The sections of one session. *)

LEMMA InvFacts ==
  ASSUME Inv
  PROVE  /\ Books(job, sess, owners, callback, ui, mutations)
         /\ sess \in [Session -> SessionType] /\ owners \in [Session -> SUBSET Job]
         /\ \A s \in Session : Tidy(sess[s]) /\ sess[s].auto # Overflow
         /\ callback \in Job \cup {0} /\ ui \in Job \cup {0}
  BY DEF Inv, Books, SessionBook

\* A section that changes the record of one session and the jobs.
LEMMA RecordInv ==
  ASSUME Inv, NEW s \in Session, NEW r, r.auto # Overflow, sess' = Put(sess, s, r),
         Books(job', Put(sess, s, r), owners, callback, ui, mutations),
         UNCHANGED <<owners, callback, ui, mutations, db, stopping>>
  PROVE  Inv'
<1>1. \A t \in Session : sess'[t].auto # Overflow
  BY InvFacts DEF Put
<1>2. QED BY <1>1 DEF Inv

LEMMA OpenInv ==
  ASSUME Inv, NEW s \in Session, Open(s)
  PROVE  Inv'
<1> DEFINE r == [sess[s] EXCEPT !.at = "open"]
<1>1. sess[s] \in SessionType /\ Tidy(sess[s]) /\ sess[s].auto # Overflow
  BY InvFacts
<1>2. /\ r \in SessionType /\ Tidy(r) /\ r.auto = sess[s].auto
      /\ \A i \in Job : Ref(r, owners[s], i) = Ref(sess[s], owners[s], i)
  BY <1>1 DEF SessionType, Tidy, Ref, Open
<1>3. sess' = Put(sess, s, r)
  BY DEF Open, Put
<1> HIDE DEF r
<1>4. Books(job, Put(sess, s, r), owners, callback, ui, mutations)
  BY <1>2, KeepBooks, InvFacts
<1>5. QED BY <1>1, <1>2, <1>3, <1>4, RecordInv DEF Open, world

LEMMA AskInv ==
  ASSUME Inv, NEW s \in Session, Ask(s)
  PROVE  Inv'
<1> DEFINE r == [sess[s] EXCEPT !.req = "queued"]
<1>1. sess[s] \in SessionType /\ Tidy(sess[s]) /\ sess[s].auto # Overflow
  BY InvFacts
<1>2. /\ r \in SessionType /\ Tidy(r) /\ r.auto = sess[s].auto
      /\ \A i \in Job : Ref(r, owners[s], i) = Ref(sess[s], owners[s], i)
  BY <1>1 DEF SessionType, Tidy, Ref, Ask
<1>3. sess' = Put(sess, s, r)
  BY DEF Ask, Put
<1> HIDE DEF r
<1>4. Books(job, Put(sess, s, r), owners, callback, ui, mutations)
  BY <1>2, KeepBooks, InvFacts
<1>5. QED BY <1>1, <1>2, <1>3, <1>4, RecordInv DEF Ask, world

LEMMA TryAskInv ==
  ASSUME Inv, NEW s \in Session, TryAsk(s)
  PROVE  Inv'
<1> DEFINE p == Belongs[s]
           js == Reaped(job)
           j == Chosen(js, p)
<1>1. /\ sess[s] \in SessionType /\ Tidy(sess[s]) /\ sess[s].auto # Overflow
      /\ p \in Project
  BY InvFacts, BelongsAssumption
<1>2. Books(js, sess, owners, callback, ui, mutations)
  BY InvFacts, ReapBooks
<1>3. HasRoom(js) /\ sess[s].req = "queued"
  BY DEF TryAsk
<1>4. CASE j # 0 /\ job' = Subscribe(js, p) /\ sess' = [sess EXCEPT ![s].req = "got", ![s].got = j]
  <2> DEFINE r == [sess[s] EXCEPT !.req = "got", !.got = j]
  <2>1. j \in Job
    BY <1>3, <1>4, ChosenInBound
  <2> HIDE DEF j
  <2>2. r \in SessionType /\ Tidy(r) /\ r.auto = sess[s].auto
    BY <1>1, <1>3, <2>1, OverflowBeyond DEF SessionType, Tidy
  <2>3. ASSUME NEW i \in Job
        PROVE  Ref(r, owners[s], i) = Ref(sess[s], owners[s], i) + Bit(i = j)
    <3>1. sess[s].got = 0 /\ 0 # i
      BY <1>1, <1>3, OverflowBeyond DEF Tidy
    <3>2. /\ r.got = j /\ r.active = sess[s].active /\ r.auto = sess[s].auto
          /\ r.join = sess[s].join
      BY <1>1 DEF SessionType
    <3> HIDE DEF r
    <3>3. QED BY <3>1, <3>2 DEF Ref, Bit
  <2>4. sess' = Put(sess, s, r)
    BY <1>4 DEF Put
  <2> HIDE DEF r
  <2>5. Books(Subscribe(js, p), Put(sess, s, r), owners, callback, ui, mutations)
    <3> HIDE DEF js, p
    <3>1. QED BY <1>1, <1>2, <1>4, <2>2, <2>3, GainBooks, InvFacts DEF j
  <2>6. QED BY <1>1, <1>4, <2>2, <2>4, <2>5, RecordInv DEF TryAsk, world
<1>5. CASE job' = js /\ sess' = [sess EXCEPT ![s].req = "none", ![s].cut = FALSE]
  <2> DEFINE r == [sess[s] EXCEPT !.req = "none", !.cut = FALSE]
  <2>2. /\ r \in SessionType /\ Tidy(r) /\ r.auto = sess[s].auto
        /\ \A i \in Job : Ref(r, owners[s], i) = Ref(sess[s], owners[s], i)
    BY <1>1, <1>3 DEF SessionType, Tidy, Ref
  <2>4. sess' = Put(sess, s, r)
    BY <1>5 DEF Put
  <2> HIDE DEF r
  <2>5. Books(js, Put(sess, s, r), owners, callback, ui, mutations)
    BY <1>2, <2>2, KeepBooks
  <2>6. QED BY <1>1, <1>5, <2>2, <2>4, <2>5, RecordInv DEF TryAsk, world
<1>6. QED BY <1>4, <1>5 DEF TryAsk

LEMMA ActivateInv ==
  ASSUME Inv, NEW s \in Session, Activate(s)
  PROVE  Inv'
<1> DEFINE j == sess[s].got
           r1 == [sess[s] EXCEPT !.req = "none", !.got = 0, !.cut = FALSE]
           r2 == [sess[s] EXCEPT !.req = "waiting", !.got = 0, !.active = j]
<1>1. /\ sess[s] \in SessionType /\ Tidy(sess[s]) /\ sess[s].auto # Overflow
      /\ sess[s].req = "got" /\ sess[s].active = 0
  BY InvFacts DEF Activate, Tidy
<1>2. j \in Job
  BY <1>1 DEF SessionType, Tidy
<1>3. CASE job' = Unsub(job, j) /\ sess' = [sess EXCEPT ![s].req = "none", ![s].got = 0, ![s].cut = FALSE]
  <2>1. r1 \in SessionType /\ Tidy(r1) /\ r1.auto = sess[s].auto
    BY <1>1 DEF SessionType, Tidy
  <2>2. ASSUME NEW i \in Job
        PROVE  Ref(r1, owners[s], i) = Ref(sess[s], owners[s], i) - Bit(i = j)
    <3>1. /\ r1.got = 0 /\ 0 # i /\ r1.active = sess[s].active /\ r1.auto = sess[s].auto
          /\ r1.join = sess[s].join
      BY <1>1, OverflowBeyond DEF SessionType
    <3> HIDE DEF r1
    <3>2. QED BY <3>1 DEF Ref, Bit
  <2>3. sess' = Put(sess, s, r1)
    BY <1>3 DEF Put
  <2> HIDE DEF r1, j
  <2>4. Books(Unsub(job, j), Put(sess, s, r1), owners, callback, ui, mutations)
    BY <1>2, <2>1, <2>2, DropBooks, InvFacts
  <2>5. QED BY <1>1, <1>3, <2>1, <2>3, <2>4, RecordInv DEF Activate, world
<1>4. CASE job' = job /\ sess' = [sess EXCEPT ![s].req = "waiting", ![s].got = 0, ![s].active = j]
  <2>1. r2 \in SessionType /\ Tidy(r2) /\ r2.auto = sess[s].auto
    BY <1>1 DEF SessionType, Tidy
  <2>2. ASSUME NEW i \in Job
        PROVE  Ref(r2, owners[s], i) = Ref(sess[s], owners[s], i)
    <3>1. /\ r2.got = 0 /\ 0 # i /\ r2.active = j /\ r2.auto = sess[s].auto
          /\ r2.join = sess[s].join
      BY <1>1, OverflowBeyond DEF SessionType
    <3> HIDE DEF r2
    <3>2. QED BY <1>1, <3>1 DEF Ref, Bit
  <2>3. sess' = Put(sess, s, r2)
    BY <1>4 DEF Put
  <2> HIDE DEF r2
  <2>4. Books(job, Put(sess, s, r2), owners, callback, ui, mutations)
    BY <2>1, <2>2, KeepBooks, InvFacts
  <2>5. QED BY <1>1, <1>4, <2>1, <2>3, <2>4, RecordInv DEF Activate, world
<1>5. QED BY <1>3, <1>4 DEF Activate

LEMMA AnswerInv ==
  ASSUME Inv, NEW s \in Session, Answer(s)
  PROVE  Inv'
<1> DEFINE j == sess[s].active
           r == [sess[s] EXCEPT !.req = "none", !.active = 0, !.cut = FALSE]
<1>1. /\ sess[s] \in SessionType /\ Tidy(sess[s]) /\ sess[s].auto # Overflow
      /\ sess[s].req = "waiting" /\ sess[s].got = 0
  BY InvFacts DEF Answer, Tidy
<1>2. r \in SessionType /\ Tidy(r) /\ r.auto = sess[s].auto
  BY <1>1 DEF SessionType, Tidy
<1>3. /\ r.got = sess[s].got /\ r.active = 0 /\ r.auto = sess[s].auto /\ r.join = sess[s].join
      /\ \A i \in Job : i # 0
  BY <1>1, OverflowBeyond DEF SessionType
<1>4. sess' = Put(sess, s, r)
  BY DEF Answer, Put
<1> HIDE DEF r
<1>5. CASE j = 0 /\ job' = job
  <2>1. \A i \in Job : Ref(r, owners[s], i) = Ref(sess[s], owners[s], i)
    BY <1>3, <1>5 DEF Ref
  <2>2. Books(job, Put(sess, s, r), owners, callback, ui, mutations)
    BY <1>2, <2>1, KeepBooks, InvFacts
  <2>3. QED BY <1>1, <1>2, <1>4, <1>5, <2>2, RecordInv DEF Answer, world
<1>6. CASE j # 0 /\ job' = Reaped(Unsub(job, j))
  <2>1. j \in Job
    BY <1>1, <1>6 DEF SessionType
  <2>2. ASSUME NEW i \in Job
        PROVE  Ref(r, owners[s], i) = Ref(sess[s], owners[s], i) - Bit(i = j)
    BY <1>3 DEF Ref, Bit
  <2> HIDE DEF j
  <2>3. Books(Unsub(job, j), Put(sess, s, r), owners, callback, ui, mutations)
    BY <1>2, <2>1, <2>2, DropBooks, InvFacts
  <2>4. Books(Reaped(Unsub(job, j)), Put(sess, s, r), owners, callback, ui, mutations)
    BY <2>3, ReapBooks
  <2>5. QED BY <1>1, <1>2, <1>4, <1>6, <2>4, RecordInv DEF Answer, world
<1>7. QED BY <1>5, <1>6 DEF Answer

\* A cancellation drops the job that the request waits for.
LEMMA DropActiveBooks ==
  ASSUME Inv, NEW s \in Session, NEW r \in SessionType, Tidy(r), r.active = 0,
         r.got = sess[s].got /\ r.auto = sess[s].auto /\ r.join = sess[s].join
  PROVE  Books(DropActive(s), Put(sess, s, r), owners, callback, ui, mutations)
<1> DEFINE j == sess[s].active
<1>1. sess[s] \in SessionType /\ \A i \in Job : i # 0
  BY InvFacts, OverflowBeyond
<1>2. CASE j = 0
  <2>1. \A i \in Job : Ref(r, owners[s], i) = Ref(sess[s], owners[s], i)
    BY <1>2 DEF Ref
  <2>2. QED BY <1>2, <2>1, KeepBooks, InvFacts DEF DropActive
<1>3. CASE j # 0
  <2>1. j \in Job
    BY <1>1, <1>3 DEF SessionType
  <2>2. ASSUME NEW i \in Job
        PROVE  Ref(r, owners[s], i) = Ref(sess[s], owners[s], i) - Bit(i = j)
    BY <1>1 DEF Ref, Bit
  <2>3. DropActive(s) = Unsub(job, j)
    BY <1>3 DEF DropActive
  <2> HIDE DEF j
  <2>4. QED BY <2>1, <2>2, <2>3, DropBooks, InvFacts
<1>4. QED BY <1>2, <1>3

LEMMA RequestCancelInv ==
  ASSUME Inv, NEW s \in Session, RequestCancel(s)
  PROVE  Inv'
<1> DEFINE r == [sess[s] EXCEPT !.cut = TRUE, !.active = 0]
<1>1. sess[s] \in SessionType /\ Tidy(sess[s]) /\ sess[s].auto # Overflow
  BY InvFacts
<1>2. /\ r \in SessionType /\ Tidy(r) /\ r.active = 0
      /\ r.got = sess[s].got /\ r.auto = sess[s].auto /\ r.join = sess[s].join
  BY <1>1 DEF SessionType, Tidy
<1>3. sess' = Put(sess, s, r)
  BY DEF RequestCancel, Put
<1> HIDE DEF r
<1>4. Books(DropActive(s), Put(sess, s, r), owners, callback, ui, mutations)
  BY <1>2, DropActiveBooks
<1>5. QED BY <1>1, <1>2, <1>3, <1>4, RecordInv DEF RequestCancel, world

LEMMA JoinedInv ==
  ASSUME Inv, NEW s \in Session, Joined(s)
  PROVE  Inv'
<1> DEFINE j == sess[s].join
           r == [sess[s] EXCEPT !.join = 0]
<1>1. sess[s] \in SessionType /\ Tidy(sess[s]) /\ sess[s].auto # Overflow
  BY InvFacts
<1>2. /\ r \in SessionType /\ Tidy(r) /\ r.join = 0 /\ j \in Job
      /\ r.got = sess[s].got /\ r.auto = sess[s].auto /\ r.active = sess[s].active
  BY <1>1 DEF SessionType, Tidy, Joined
<1>3. sess' = Put(sess, s, r)
  BY DEF Joined, Put
<1> HIDE DEF r
<1>4. ASSUME NEW i \in Job
      PROVE  Ref(r, owners[s], i) = Ref(sess[s], owners[s], i) - Bit(i = j)
  BY <1>2, OverflowBeyond DEF Ref, Bit
<1>5. job' = Reaped(Unsub(job, j))
  BY DEF Joined
<1> HIDE DEF j
<1>6. Books(Unsub(job, j), Put(sess, s, r), owners, callback, ui, mutations)
  BY <1>2, <1>4, DropBooks, InvFacts
<1>7. Books(Reaped(Unsub(job, j)), Put(sess, s, r), owners, callback, ui, mutations)
  BY <1>6, ReapBooks
<1>8. QED BY <1>1, <1>2, <1>3, <1>5, <1>7, RecordInv DEF Joined, world

LEMMA InitializeInv ==
  ASSUME Inv, NEW s \in Session, Initialize(s)
  PROVE  Inv'
<1> DEFINE p == Belongs[s]
           js == Reaped(job)
           j == Chosen(js, p)
<1>1. /\ sess[s] \in SessionType /\ Tidy(sess[s]) /\ sess[s].auto # Overflow
      /\ sess[s].auto = 0 /\ p \in Project
  BY InvFacts, BelongsAssumption DEF Initialize
<1>2. Books(js, sess, owners, callback, ui, mutations)
  BY InvFacts, ReapBooks
<1>3. PICK wants \in BOOLEAN :
        /\ wants => HasRoom(js)
        /\ sess' = [sess EXCEPT ![s].evaluated = TRUE,
                                ![s].auto = IF wants THEN j ELSE 0,
                                ![s].pending = wants /\ j = 0]
        /\ job' = IF wants /\ j # 0 THEN Subscribe(js, p) ELSE js
  BY DEF Initialize
<1>4. j \in Job \cup {0, Overflow} /\ (wants /\ j # 0 => j \in Job)
  BY <1>3, ChosenInBound
<1>5. UNCHANGED <<owners, callback, ui, mutations, db, stopping>>
  BY DEF Initialize, world
<1>6. CASE wants /\ j # 0
  <2> DEFINE r == [sess[s] EXCEPT !.evaluated = TRUE, !.auto = j, !.pending = FALSE]
  <2>1. sess' = Put(sess, s, r) /\ job' = Subscribe(js, p)
    BY <1>3, <1>6 DEF Put
  <2>2. j \in Job /\ j # Overflow
    BY <1>4, <1>6, OverflowBeyond
  <2> HIDE DEF j
  <2>3. /\ r \in SessionType /\ Tidy(r) /\ r.auto = j
        /\ r.got = sess[s].got /\ r.active = sess[s].active /\ r.join = sess[s].join
    BY <1>1, <2>2 DEF SessionType, Tidy
  <2> HIDE DEF r
  <2>4. ASSUME NEW i \in Job
        PROVE  Ref(r, owners[s], i) = Ref(sess[s], owners[s], i) + Bit(i = j)
    BY <1>1, <2>3, OverflowBeyond DEF Ref, Bit
  <2>5. Books(Subscribe(js, p), Put(sess, s, r), owners, callback, ui, mutations)
    <3> HIDE DEF js, p
    <3>1. QED BY <1>1, <1>2, <1>6, <2>3, <2>4, GainBooks, InvFacts DEF j
  <2>6. QED BY <1>5, <2>1, <2>2, <2>3, <2>5, RecordInv
<1>7. CASE ~(wants /\ j # 0)
  <2> DEFINE b == wants /\ j = 0
             r == [sess[s] EXCEPT !.evaluated = TRUE, !.auto = 0, !.pending = b]
  <2>1. sess' = Put(sess, s, r) /\ job' = js
    <3> HIDE DEF j, js
    <3>1. (IF wants THEN j ELSE 0) = 0
      BY <1>7
    <3>2. QED BY <1>3, <1>7, <3>1 DEF Put
  <2>2. b \in BOOLEAN
    OBVIOUS
  <2> HIDE DEF b
  <2>3. /\ r \in SessionType /\ Tidy(r) /\ r.auto = 0
        /\ r.got = sess[s].got /\ r.active = sess[s].active /\ r.join = sess[s].join
    BY <1>1, <2>2 DEF SessionType, Tidy
  <2> HIDE DEF r
  <2>4. \A i \in Job : Ref(r, owners[s], i) = Ref(sess[s], owners[s], i)
    BY <1>1, <2>3 DEF Ref
  <2>5. Books(js, Put(sess, s, r), owners, callback, ui, mutations)
    BY <1>2, <2>3, <2>4, KeepBooks
  <2>6. QED BY <1>5, <2>1, <2>3, <2>5, RecordInv, OverflowBeyond
<1>8. QED BY <1>6, <1>7

\* A session that ends gives back the job it waits for in the background, or
\* keeps its reference until that job is terminal.
LEMMA ReleaseBooks ==
  ASSUME NEW js, NEW ss, NEW ow, NEW c, NEW u, NEW m, Books(js, ss, ow, c, u, m),
         NEW s \in Session, ss[s].join = 0, ss[s].auto # Overflow,
         NEW r \in SessionType, Tidy(r), r.got = ss[s].got, r.active = ss[s].active, r.auto = 0,
         r.join = IF ss[s].auto # 0 /\ Keeps(js, ss[s].auto) THEN ss[s].auto ELSE 0
  PROVE  Books(Release(js, ss[s].auto), Put(ss, s, r), ow, c, u, m)
<1> DEFINE j == ss[s].auto
<1>1. ss[s] \in SessionType /\ \A i \in Job : i # 0
  BY OverflowBeyond DEF Books, SessionBook
<1>2. CASE j = 0
  <2>1. \A i \in Job : Ref(r, ow[s], i) = Ref(ss[s], ow[s], i)
    BY <1>2 DEF Ref
  <2>2. Release(js, j) = js
    BY <1>2 DEF Release
  <2> HIDE DEF j
  <2>3. Books(js, Put(ss, s, r), ow, c, u, m)
    BY <2>1, KeepBooks
  <2>4. QED BY <2>2, <2>3 DEF j
<1>3. CASE j # 0 /\ Keeps(js, j)
  <2>1. \A i \in Job : Ref(r, ow[s], i) = Ref(ss[s], ow[s], i)
    BY <1>1, <1>3 DEF Ref, Bit
  <2>2. Books(js, Put(ss, s, r), ow, c, u, m)
    BY <2>1, KeepBooks
  <2>3. Release(js, j) = [js EXCEPT ![j].cancel = TRUE]
    BY <1>3 DEF Release
  <2>4. js \in [Job -> JobType] /\ j \in Live(js) /\ {j} \in SUBSET Live(js)
    BY <1>3 DEF Books, JobBook, Keeps
  <2> HIDE DEF j
  <2>5. Release(js, j) = [i \in Job |-> IF i \in {j} THEN [js[i] EXCEPT !.cancel = TRUE] ELSE js[i]]
    BY <2>3, <2>4 DEF Live
  <2>6. JobBook(Release(js, j), Uses2(Put(ss, s, r), ow, u), c, m)
    BY <2>2, <2>4, <2>5, UsesType, CancelBook DEF Books
  <2>7. QED BY <2>2, <2>6 DEF Books, j
<1>4. CASE j # 0 /\ ~Keeps(js, j)
  <2>1. j \in Job
    BY <1>1, <1>4 DEF SessionType
  <2>2. ASSUME NEW i \in Job PROVE Ref(r, ow[s], i) = Ref(ss[s], ow[s], i) - Bit(i = j)
    BY <1>1, <1>4 DEF Ref, Bit
  <2>3. Release(js, j) = Unsub(js, j)
    BY <1>4 DEF Release
  <2> HIDE DEF j
  <2>4. Books(Unsub(js, j), Put(ss, s, r), ow, c, u, m)
    BY <2>1, <2>2, DropBooks
  <2>5. QED BY <2>3, <2>4 DEF j
<1>5. QED BY <1>2, <1>3, <1>4

\* Its watch lets go of the jobs it owns.
LEMMA UnwatchBooks ==
  ASSUME NEW js, NEW ss, NEW c, NEW u, NEW m, Books(js, ss, owners, c, u, m),
         NEW s \in Session, NEW r \in SessionType, Tidy(r), r.got = ss[s].got, r.active = ss[s].active,
         r.auto = ss[s].auto, r.join = ss[s].join
  PROVE  Books(Disown(js, {s}), Put(ss, s, r), Put(owners, s, {}), c, u, m)
<1> DEFINE n == Uses2(ss, owners, u)
           n2 == Uses2(Put(ss, s, r), Put(owners, s, {}), u)
<1>1. /\ SessionBook(Put(ss, s, r), Put(owners, s, {}))
      /\ \A i \in Job : n2[i] = (n[i] - Ref(ss[s], owners[s], i)) + Ref(r, {}, i)
  <2>1. SessionBook(ss, owners) /\ {} \in SUBSET Job
    BY DEF Books
  <2>2. QED BY <2>1, SetSession
<1>2. n \in [Job -> Nat] /\ n2 \in [Job -> Nat] /\ JobBook(js, n, c, m)
  BY UsesType DEF Books
<1> HIDE DEF n, n2
<1>3. ASSUME NEW i \in Job PROVE n2[i] = n[i] - Owned({s}, i)
  <2>1. n[i] \in Nat
    BY <1>2
  <2>2. Owned({s}, i) = Bit(i \in owners[s])
    <3>1. {t \in {s} : i \in owners[t]} = IF i \in owners[s] THEN {s} ELSE {}
      OBVIOUS
    <3>2. QED BY <3>1, FS_Singleton, FS_EmptySet DEF Owned, Bit
  <2>3. Ref(ss[s], owners[s], i) = Ref(r, {}, i) + Bit(i \in owners[s])
    BY DEF Ref, Bit
  <2>4. Ref(r, {}, i) \in Nat /\ Bit(i \in owners[s]) \in Nat
    BY RefType DEF Bit
  <2>5. QED BY <1>1, <2>1, <2>2, <2>3, <2>4
<1>4. {s} \in SUBSET Session
  OBVIOUS
<1>5. JobBook(Disown(js, {s}), n2, c, m)
  BY <1>2, <1>3, <1>4, DisownBook
<1>6. QED BY <1>1, <1>5 DEF Books, n2

LEMMA CancelAllBooks ==
  ASSUME NEW js, NEW ss, NEW ow, NEW c, NEW u, NEW m, Books(js, ss, ow, c, u, m)
  PROVE  Books(CancelAll(js), ss, ow, c, u, m)
<1>1. Live(js) \in SUBSET Live(js)
  OBVIOUS
<1>2. JobBook(CancelAll(js), Uses2(ss, ow, u), c, m)
  BY <1>1, UsesType, CancelBook DEF Books, CancelAll
<1>3. QED BY <1>2 DEF Books

LEMMA SessionCancelInv ==
  ASSUME Inv, NEW s \in Session, SessionCancel(s)
  PROVE  Inv'
<1> DEFINE js1 == DropActive(s)
           a == sess[s].auto
           js2 == Release(js1, a)
           js3 == Disown(js2, {s})
           last == ~Permanent /\ \A t \in Session \ {s} : sess[t].at # "open"
           join == IF a # 0 /\ Keeps(js1, a) THEN a ELSE 0
           r1 == [sess[s] EXCEPT !.active = 0]
           r2 == [r1 EXCEPT !.at = "cancelled", !.auto = 0, !.join = join]
           r3 == [r2 EXCEPT !.watch = FALSE, !.pending = FALSE]
<1>1. /\ sess[s] \in SessionType /\ Tidy(sess[s]) /\ a # Overflow
      /\ sess \in [Session -> SessionType]
      /\ sess[s].at = "open" /\ sess[s].join = 0
  BY InvFacts DEF SessionCancel, Tidy
<1>2. a \in Job \cup {0} /\ join \in Job \cup {0}
  BY <1>1 DEF SessionType
<1>3. /\ job' = Reaped(IF last THEN CancelAll(js3) ELSE js3)
      /\ stopping' = (stopping \/ last)
      /\ sess' = [sess EXCEPT ![s].at = "cancelled", ![s].active = 0, ![s].auto = 0,
                      ![s].watch = FALSE, ![s].pending = FALSE, ![s].join = join]
      /\ owners' = Put(owners, s, {})
      /\ UNCHANGED <<callback, ui, mutations, db>>
  BY DEF SessionCancel, Put
<1>4. sess' = Put(sess, s, r3)
  <2>1. sess' = Put(sess, s, [sess[s] EXCEPT !.at = "cancelled", !.active = 0, !.auto = 0,
                      !.watch = FALSE, !.pending = FALSE, !.join = join])
    <3> HIDE DEF join
    <3>1. QED BY <1>3 DEF Put
  <2>2. r3 = [sess[s] EXCEPT !.at = "cancelled", !.active = 0, !.auto = 0,
                      !.watch = FALSE, !.pending = FALSE, !.join = join]
    <3> HIDE DEF join
    <3>1. QED BY <1>1 DEF SessionType
  <2>3. QED BY <2>1, <2>2
<1>5. /\ r1 \in SessionType /\ Tidy(r1) /\ r1.active = 0 /\ r1.at = "open"
      /\ r1.got = sess[s].got /\ r1.auto = a /\ r1.join = 0
  BY <1>1 DEF SessionType, Tidy
<1> HIDE DEF r1, join
<1>6. /\ r2 \in SessionType /\ Tidy(r2) /\ r2.got = r1.got /\ r2.active = r1.active /\ r2.auto = 0
      /\ r2.join = join
  BY <1>2, <1>5 DEF SessionType, Tidy
<1> HIDE DEF r2
<1>7. /\ r3 \in SessionType /\ Tidy(r3) /\ r3.got = r2.got /\ r3.active = r2.active
      /\ r3.auto = r2.auto /\ r3.join = r2.join
  BY <1>6 DEF SessionType, Tidy
<1> HIDE DEF r3
<1> DEFINE ss1 == Put(sess, s, r1)
           ss2 == Put(ss1, s, r2)
           ss3 == Put(ss2, s, r3)
<1>8. Books(js1, ss1, owners, callback, ui, mutations) /\ ss1[s] = r1
  <2>1. Books(js1, ss1, owners, callback, ui, mutations)
    BY <1>1, <1>5, DropActiveBooks
  <2>2. QED BY <1>1, <2>1 DEF Put
<1> HIDE DEF ss1, js1
<1>9. Books(js2, ss2, owners, callback, ui, mutations) /\ ss2[s] = r2
  <2>1. join = IF ss1[s].auto # 0 /\ Keeps(js1, ss1[s].auto) THEN ss1[s].auto ELSE 0
    BY <1>5, <1>8 DEF join
  <2>2. ss1[s].auto = a /\ ss1[s].join = 0 /\ ss1[s].auto # Overflow
    BY <1>1, <1>5, <1>8
  <2>3. Books(Release(js1, ss1[s].auto), ss2, owners, callback, ui, mutations)
    BY <1>6, <1>8, <2>1, <2>2, ReleaseBooks
  <2>4. ss2[s] = r2
    BY <1>8 DEF Put, Books, SessionBook
  <2>5. QED BY <2>2, <2>3, <2>4
<1> HIDE DEF ss2, js2
<1>10. Books(js3, ss3, Put(owners, s, {}), callback, ui, mutations)
  BY <1>7, <1>9, UnwatchBooks
<1>11. ss3 = Put(sess, s, r3)
  BY <1>1 DEF ss2, ss1, Put
<1> HIDE DEF ss3, js3, last
<1>12. Books(IF last THEN CancelAll(js3) ELSE js3, ss3, Put(owners, s, {}), callback, ui, mutations)
  BY <1>10, CancelAllBooks
<1>13. Books(job', sess', owners', callback', ui', mutations')
  BY <1>3, <1>4, <1>11, <1>12, ReapBooks
<1>14. \A t \in Session : sess'[t].auto # Overflow
  <2>1. r3.auto # Overflow
    BY <1>6, <1>7, OverflowBeyond
  <2>2. QED BY <1>4, <2>1, InvFacts DEF Put
<1>15. stopping' \in BOOLEAN
  BY <1>3 DEF Inv
<1>16. QED BY <1>3, <1>13, <1>14, <1>15 DEF Inv

-------------------------------------------------------------------------------
(* The watcher and the UI, the threads of jobs, mutations, and the shutdown. *)

LEMMA UiCallInv ==
  ASSUME Inv, NEW p \in Project, UiCall(p)
  PROVE  Inv'
<1> DEFINE js == Reaped(job)
           j == Chosen(js, p)
           n == Uses2(sess, owners, ui)
           n2 == Uses2(sess, owners, j)
<1>1. Books(js, sess, owners, callback, ui, mutations)
  BY InvFacts, ReapBooks
<1>2. j # 0 /\ j \in Job /\ ui = 0
  BY ChosenInBound DEF UiCall, Admits
<1>3. n \in [Job -> Nat] /\ n2 \in [Job -> Nat]
  BY UsesType
<1>4. \A i \in Job : n2[i] = n[i] + Bit(i = j)
  <2>1. ASSUME NEW i \in Job PROVE n2[i] = (n[i] - Bit(ui = i)) + Bit(j = i)
    BY UiChange
  <2> HIDE DEF n, n2, j
  <2>2. ASSUME NEW i \in Job PROVE n2[i] = n[i] + Bit(i = j)
    BY <1>2, <1>3, <2>1, OverflowBeyond DEF Bit
  <2>3. QED BY <2>2
<1>5. JobBook(Subscribe(js, p), n2, callback, mutations)
  <2>1. JobBook(js, n, callback, mutations)
    BY <1>1 DEF Books
  <2> HIDE DEF n, n2, js
  <2>2. QED BY <1>2, <1>3, <1>4, <2>1, SubscribeBook, InvFacts
<1>6. job' = Subscribe(js, p) /\ ui' = j /\ UNCHANGED <<sess, owners, callback, mutations, db, stopping>>
  BY DEF UiCall, world
<1>7. Books(job', sess', owners', callback', ui', mutations')
  BY <1>1, <1>5, <1>6 DEF Books
<1>8. QED BY <1>2, <1>6, <1>7 DEF Inv

LEMMA UiDoneInv ==
  ASSUME Inv, UiDone
  PROVE  Inv'
<1> DEFINE n == Uses2(sess, owners, ui)
           n2 == Uses2(sess, owners, 0)
<1>1. Books(job, sess, owners, callback, ui, mutations) /\ ui \in Job
  BY InvFacts DEF UiDone
<1>2. n \in [Job -> Nat] /\ n2 \in [Job -> Nat]
  BY UsesType
<1>3. \A i \in Job : n2[i] = n[i] - Bit(i = ui)
  <2>1. ASSUME NEW i \in Job PROVE n2[i] = (n[i] - Bit(ui = i)) + Bit(0 = i)
    BY UiChange
  <2> HIDE DEF n, n2
  <2>2. ASSUME NEW i \in Job PROVE n2[i] = n[i] - Bit(i = ui)
    BY <1>2, <2>1, OverflowBeyond DEF Bit
  <2>3. QED BY <2>2
<1>4. JobBook(Unsub(job, ui), n2, callback, mutations)
  <2>1. JobBook(job, n, callback, mutations)
    BY <1>1 DEF Books
  <2> HIDE DEF n, n2
  <2>2. QED BY <1>1, <1>2, <1>3, <2>1, UnsubBook
<1>5. JobBook(Reaped(Unsub(job, ui)), n2, callback, mutations)
  BY <1>4, ReapedBook
<1>6. job' = Reaped(Unsub(job, ui)) /\ ui' = 0 /\ UNCHANGED <<sess, owners, callback, mutations, db, stopping>>
  BY DEF UiDone, world
<1>7. Books(job', sess', owners', callback', ui', mutations')
  BY <1>1, <1>5, <1>6 DEF Books
<1>8. QED BY <1>6, <1>7 DEF Inv

\* A job goes on to a position where no mutation of its project is reserved.
LEMMA AdvanceInv ==
  ASSUME Inv, NEW j \in Job, NEW l \in Ahead, job[j].at \in {"linked", "cleared"}, ~job[j].cancel,
         \A k \in mutations : ~Conflict(k, job[j].project),
         job' = [job EXCEPT ![j].at = l],
         UNCHANGED <<sess, owners, callback, ui, mutations, db, stopping>>
  PROVE  Inv'
<1> DEFINE n == Uses2(sess, owners, ui)
<1>1. /\ JobBook(job, n, callback, mutations) /\ job \in [Job -> JobType]
      /\ job[j].at \in {"linked", "cleared"} /\ ~job[j].cancel /\ l \in {"cleared", "running"}
      /\ \A k \in mutations : ~Conflict(k, job[j].project)
      /\ job' = [job EXCEPT ![j].at = l]
  BY DEF Inv, Books, JobBook, Ahead
<1> HIDE DEF n
<1>2. ASSUME NEW i \in Job
      PROVE  /\ job'[i].project = job[i].project /\ job'[i].subs = job[i].subs
             /\ job'[i].waiter = job[i].waiter /\ job'[i].cancel = job[i].cancel
             /\ job'[i].at = IF i = j THEN l ELSE job[i].at
             /\ i # j => job'[i] = job[i]
  BY <1>1 DEF JobType
<1>3. job' \in [Job -> JobType]
  BY <1>1 DEF JobType
<1>4. Counted(job', n, callback)
  BY <1>1, <1>2 DEF JobBook, Counted
<1>5. Apart(job', mutations)
  BY <1>1, <1>2 DEF JobBook, Apart, Ahead
<1>6. ASSUME NEW i \in Live(job')
      PROVE  /\ i \in Live(job) /\ job'[i].project = job[i].project
             /\ job'[i].subs = 0 => job'[i].cancel
  <2>1. i \in Job /\ job'[i].at \in {"linked", "cleared", "running"}
    BY <1>6 DEF Live
  <2>2. i \in Live(job)
    BY <1>1, <1>2, <2>1 DEF Live
  <2>3. QED BY <1>1, <1>2, <2>1, <2>2 DEF JobBook, Wanted
<1>7. JobBook(job', n, callback, mutations)
  BY <1>1, <1>3, <1>4, <1>5, <1>6, Shrink
<1>8. Books(job', sess', owners', callback', ui', mutations')
  BY <1>7, InvFacts DEF Books, n
<1>9. QED BY <1>8 DEF Inv

LEMMA ClearInv ==
  ASSUME Inv, NEW j \in Job, Clear(j)
  PROVE  Inv'
<1>1. "cleared" \in Ahead
  BY DEF Ahead
<1>2. /\ job[j].at = "linked" /\ ~job[j].cancel /\ job' = [job EXCEPT ![j].at = "cleared"]
      /\ \A k \in mutations : ~Conflict(k, job[j].project)
      /\ UNCHANGED <<sess, owners, callback, ui, mutations, db, stopping>>
  BY DEF Clear, world
<1>3. QED BY <1>1, <1>2, AdvanceInv

LEMMA StartInv ==
  ASSUME Inv, NEW j \in Job, Start(j)
  PROVE  Inv'
<1>1. "running" \in Ahead
  BY DEF Ahead
<1>2. /\ job[j].at = "cleared" /\ ~job[j].cancel /\ job' = [job EXCEPT ![j].at = "running"]
      /\ UNCHANGED <<sess, owners, callback, ui, mutations, db, stopping>>
  BY DEF Start, world
<1>3. \A k \in mutations : ~Conflict(k, job[j].project)
  BY <1>2 DEF Inv, Books, JobBook, Apart, Ahead
<1>4. QED BY <1>1, <1>2, <1>3, AdvanceInv

LEMMA MutationBeginInv ==
  ASSUME Inv, NEW k \in Keys, MutationBegin(k)
  PROVE  Inv'
<1>1. Apart(job, mutations \cup {k})
  <2>1. ASSUME NEW j \in Job, NEW q \in mutations \cup {k}, job[j].at \in Ahead
        PROVE  ~Conflict(q, job[j].project)
    <3>1. j \in Live(job)
      BY <2>1 DEF Live, Ahead
    <3>2. QED BY <2>1, <3>1 DEF MutationBegin, Inv, Books, JobBook, Apart, Ahead
  <2>2. QED BY <2>1 DEF Apart, Ahead
<1>2. UNCHANGED <<job, sess, owners, callback, ui, db, stopping>> /\ mutations' = mutations \cup {k}
  BY DEF MutationBegin
<1>3. Books(job', sess', owners', callback', ui', mutations')
  BY <1>1, <1>2, InvFacts DEF Books, JobBook
<1>4. QED BY <1>2, <1>3 DEF Inv

LEMMA MutationEndInv ==
  ASSUME Inv, NEW k \in Keys, MutationEnd(k)
  PROVE  Inv'
<1>1. /\ UNCHANGED <<job, sess, owners, callback, ui, stopping>> /\ mutations' = mutations \ {k}
      /\ db' \in {db, db \ {k}}
  BY DEF MutationEnd
<1>2. Apart(job, mutations \ {k})
  BY DEF Inv, Books, JobBook, Apart, Ahead
<1>3. Books(job', sess', owners', callback', ui', mutations')
  BY <1>1, <1>2, InvFacts DEF Books, JobBook
<1>4. QED BY <1>1, <1>3 DEF Inv

LEMMA ShutdownInv ==
  ASSUME Inv, Shutdown
  PROVE  Inv'
<1> DEFINE autos(j) == {s \in Session : sess[s].auto = j}
           js1 == [j \in Job |-> [job[j] EXCEPT !.subs = @ - Cardinality(autos(j))]]
           ss2 == [s \in Session |-> [sess[s] EXCEPT !.auto = 0]]
           n == Uses2(sess, owners, ui)
           n2 == Uses2(ss2, owners, ui)
           B == [j \in Job |-> IF j \in Live(job) THEN TRUE ELSE job[j].cancel]
<1>1. /\ job' = CancelAll(js1) /\ sess' = ss2 /\ stopping' = TRUE
      /\ UNCHANGED <<owners, callback, ui, mutations, db>>
  BY DEF Shutdown
<1>2. /\ sess \in [Session -> SessionType] /\ owners \in [Session -> SUBSET Job]
      /\ \A s \in Session : Tidy(sess[s])
  BY InvFacts
<1>3. ASSUME NEW s \in Session
      PROVE  /\ ss2[s] \in SessionType /\ Tidy(ss2[s]) /\ ss2[s].auto = 0
             /\ ss2[s].got = sess[s].got /\ ss2[s].active = sess[s].active
             /\ ss2[s].join = sess[s].join
  <2>1. sess[s] \in SessionType /\ Tidy(sess[s]) /\ ss2[s] = [sess[s] EXCEPT !.auto = 0]
    BY <1>2
  <2> HIDE DEF ss2
  <2>2. QED BY <2>1 DEF SessionType, Tidy
<1>4. SessionBook(ss2, owners)
  BY <1>2, <1>3 DEF SessionBook
<1>5. ASSUME NEW j \in Job PROVE n2[j] = n[j] - Cardinality(autos(j))
  <2>1. "auto" \in Tags /\ autos(j) \in SUBSET Session
    BY DEF Tags
  <2>2. ASSUME NEW t \in Session, NEW f \in Tags
        PROVE  Refers(ss2[t], owners[t], f, j)
                 <=> Refers(sess[t], owners[t], f, j) /\ ~(f = "auto" /\ t \in autos(j))
    <3> HIDE DEF ss2
    <3>1. QED BY <1>3, OverflowBeyond DEF Refers, Tags
  <2>3. \A t \in autos(j) : Refers(sess[t], owners[t], "auto", j)
    BY DEF Refers
  <2> DEFINE S == autos(j)
  <2>4. Drop(sess, owners, ss2, owners, j, "auto", S)
    <3> HIDE DEF ss2
    <3>1. QED BY <2>1, <2>2, <2>3 DEF Drop
  <2> HIDE DEF S, ss2
  <2>5. Uses2(ss2, owners, ui)[j] = Uses2(sess, owners, ui)[j] - Cardinality(S)
    BY <2>4, Fewer
  <2>6. QED BY <2>5 DEF S
<1>6. n \in [Job -> Nat] /\ n2 \in [Job -> Nat] /\ JobBook(job, n, callback, mutations)
  BY UsesType, InvFacts DEF Books
<1>7. /\ job \in [Job -> JobType] /\ \A j \in Job : job[j].subs = n[j] /\ job[j].cancel \in BOOLEAN
  BY <1>6 DEF JobBook, Counted, JobType
<1>8. B \in [Job -> BOOLEAN]
  BY <1>7
<1>9. ASSUME NEW j \in Job
      PROVE  /\ n2[j] = n2[j]
             /\ job[j].at = "none" => n2[j] = 0 /\ B[j] = job[j].cancel
             /\ j \in Live(job) /\ n2[j] = 0 => B[j]
  <2>1. Cardinality(autos(j)) \in Nat
    BY SessionAssumption, FS_Subset, FS_CardinalityType
  <2>2. n[j] = 0 => n2[j] = 0
    <3> HIDE DEF n, n2, autos
    <3>1. QED BY <1>5, <1>6, <2>1
  <2>3. job[j].at = "none" => n[j] = 0 /\ j \notin Live(job)
    <3> HIDE DEF n
    <3>1. QED BY <1>6, NoneUnused
  <2>4. QED BY <2>2, <2>3
<1>10. JobBook(Records(job, n2, B), n2, callback, mutations)
  <2> HIDE DEF n, n2, B
  <2>1. QED BY <1>6, <1>8, <1>9, RecountBook
<1>11. CancelAll(js1) = Records(job, n2, B)
  <2>1. ASSUME NEW j \in Job
        PROVE  /\ js1[j] = [job[j] EXCEPT !.subs = n2[j]]
               /\ js1[j].at = job[j].at
    <3> HIDE DEF n, n2
    <3>1. js1[j] = [job[j] EXCEPT !.subs = n[j] - Cardinality(autos(j))]
      BY <1>7
    <3>2. job[j] \in JobType
      BY <1>7
    <3> HIDE DEF js1, autos
    <3>3. js1[j] = [job[j] EXCEPT !.subs = n2[j]]
      BY <1>5, <3>1
    <3>4. QED BY <3>2, <3>3 DEF JobType
  <2>2. Live(js1) = Live(job)
    <3> HIDE DEF js1
    <3>1. QED BY <2>1 DEF Live
  <2>3. ASSUME NEW j \in Job PROVE CancelAll(js1)[j] = Records(job, n2, B)[j]
    <3>1. job[j] \in JobType
      BY <1>7
    <3>2. CancelAll(js1)[j] = IF j \in Live(job) THEN [js1[j] EXCEPT !.cancel = TRUE] ELSE js1[j]
      BY <2>2 DEF CancelAll
    <3>3. Records(job, n2, B)[j] = [job[j] EXCEPT !.subs = n2[j], !.cancel = B[j]]
      BY DEF Records, Record
    <3> HIDE DEF js1, n2
    <3>4. CASE j \in Live(job)
      BY <2>1, <3>1, <3>2, <3>3, <3>4 DEF JobType
    <3>5. CASE j \notin Live(job)
      <4>1. B[j] = job[j].cancel
        BY <3>5
      <4> HIDE DEF B
      <4>2. [job[j] EXCEPT !.subs = n2[j], !.cancel = job[j].cancel] = [job[j] EXCEPT !.subs = n2[j]]
        BY <3>1 DEF JobType
      <4>3. QED BY <2>1, <3>2, <3>3, <3>5, <4>1, <4>2
    <3>6. QED BY <3>4, <3>5
  <2> HIDE DEF js1, n2, B
  <2>4. QED BY <2>3 DEF CancelAll, Records
<1>12. Books(job', sess', owners', callback', ui', mutations')
  BY <1>1, <1>4, <1>10, <1>11 DEF Books
<1>13. \A s \in Session : sess'[s].auto # Overflow
  BY <1>1, <1>3, OverflowBeyond
<1>14. QED BY <1>1, <1>12, <1>13 DEF Inv

\* The watcher's call adds its job to the watch of every session that does not
\* own it yet, and waits for that job.
LEMMA WatcherCallInv ==
  ASSUME Inv, NEW p \in Project, WatcherCall(p)
  PROVE  Inv'
<1> DEFINE js == Reaped(job)
           j == Chosen(js, p)
           new == {s \in Watchers(sess, p) : j \notin owners[s]}
           js1 == Subscribe(js, p)
           n == Uses2(sess, owners, ui)
           n2 == Uses2(sess, owners', ui)
           n1 == [i \in Job |-> n[i] + Bit(i = j)]
<1>1. /\ job' = [Sub(js1, j, Cardinality(new) - 1) EXCEPT ![j].waiter = TRUE]
      /\ owners' = [s \in Session |-> IF s \in new THEN owners[s] \cup {j} ELSE owners[s]]
      /\ callback' = j /\ callback = 0 /\ Watchers(sess, p) # {}
      /\ j # 0 /\ HasRoom(js)
      /\ UNCHANGED <<sess, ui, mutations, db, stopping>>
  BY DEF WatcherCall, Admits, world
<1>2. j \in Job
  BY <1>1, ChosenInBound
<1>3. new \in SUBSET Session /\ Watchers(sess, p) \subseteq Session
  BY DEF Watchers
<1>4. n \in [Job -> Nat] /\ n2 \in [Job -> Nat]
  BY UsesType
<1>5. n1 \in [Job -> Nat] /\ \A i \in Job : n1[i] = n[i] + Bit(i = j)
  BY <1>4 DEF Bit
<1>6. JobBook(js1, n1, 0, mutations)
  <2>1. JobBook(js, n, 0, mutations)
    BY <1>1, InvFacts, ReapBooks DEF Books
  <2> HIDE DEF n, n1, js
  <2>2. QED BY <1>1, <1>5, <2>1, SubscribeBook
<1>7. owners' \in [Session -> SUBSET Job]
  BY <1>1, <1>2, InvFacts
<1>8. ASSUME NEW i \in Job, i # j PROVE n2[i] = n[i]
  <2>1. ASSUME NEW t \in Session, NEW f \in Tags
        PROVE  Refers(sess[t], owners'[t], f, i) <=> Refers(sess[t], owners[t], f, i)
    <3> HIDE DEF j, new
    <3>1. QED BY <1>1, <1>8 DEF Refers
  <2>2. QED BY <2>1, SameLinks
<1>9. n2[j] = n[j] + Cardinality(new)
  <2>1. Drop(sess, owners', sess, owners, j, "owner", new)
    <3>1. ASSUME NEW t \in Session, NEW f \in Tags
          PROVE  Refers(sess[t], owners[t], f, j)
                   <=> Refers(sess[t], owners'[t], f, j) /\ ~(f = "owner" /\ t \in new)
      <4>1. t \in new => j \notin owners[t]
        OBVIOUS
      <4> HIDE DEF j, new
      <4>2. QED BY <1>1, <4>1 DEF Refers, Tags
    <3>2. \A t \in new : Refers(sess[t], owners'[t], "owner", j)
      <4> HIDE DEF j, new
      <4>1. QED BY <1>1, <1>3 DEF Refers
    <3> HIDE DEF j, new
    <3>3. QED BY <1>3, <3>1, <3>2 DEF Drop, Tags
  <2> HIDE DEF j, new
  <2>2. Uses2(sess, owners, ui)[j] = Uses2(sess, owners', ui)[j] - Cardinality(new)
    BY ONLY <1>2, <2>1, Fewer
  <2>3. Cardinality(new) \in Nat
    BY <1>3, SessionAssumption, FS_Subset, FS_CardinalityType
  <2> HIDE DEF n, n2
  <2>4. QED BY <1>2, <1>4, <2>2, <2>3 DEF n, n2
<1>10. n2[j] # 0
  <2>1. CASE new = {}
    <3>1. PICK s \in Watchers(sess, p) : TRUE
      BY <1>1
    <3>2. s \in Session /\ j \in owners[s]
      BY <1>3, <2>1
    <3> HIDE DEF j, new
    <3>3. <<s, "owner">> \in Links(sess, owners, ui, j)
      BY <3>2 DEF Links, Refers, Tags
    <3>4. n[j] # 0
      BY <1>2, <3>3, LinksFinite, FS_EmptySet DEF Uses2
    <3>5. QED BY <1>2, <1>4, <1>9, <2>1, <3>4, FS_EmptySet
  <2>2. CASE new # {}
    <3> HIDE DEF new, n, n2, j
    <3>1. Cardinality(new) \in Nat /\ Cardinality(new) # 0
      BY <1>3, <2>2, SessionAssumption, FS_Subset, FS_CardinalityType, FS_EmptySet
    <3>2. QED BY <1>2, <1>4, <1>9, <3>1
  <2>3. QED BY <2>1, <2>2
<1>11. Cardinality(new) \in Nat
  BY <1>3, SessionAssumption, FS_Subset, FS_CardinalityType
<1> HIDE DEF j, js, new, n, n1, n2, js1
<1>12. /\ js1 \in [Job -> JobType]
       /\ \A i \in Job : js1[i].subs = n1[i] /\ ~js1[i].waiter
  <2>1. \A i \in Job : 0 # i
    BY OverflowBeyond
  <2>2. QED BY <1>6, <2>1 DEF JobBook, Counted
<1>13. job' = [js1 EXCEPT ![j] = [js1[j] EXCEPT !.subs = n2[j], !.waiter = TRUE]]
  <2>1. js1[j].subs + (Cardinality(new) - 1) = n2[j]
    BY <1>2, <1>4, <1>5, <1>9, <1>11, <1>12 DEF Bit
  <2>2. QED BY <1>1, <1>2, <1>12, <2>1 DEF Sub
<1>14. /\ job' \in [Job -> JobType]
       /\ job'[j].at = js1[j].at /\ job'[j].project = js1[j].project
       /\ job'[j].subs = n2[j] /\ job'[j].waiter /\ job'[j].cancel = js1[j].cancel
       /\ \A i \in Job \ {j} : job'[i] = js1[i]
  BY <1>2, <1>4, <1>12, <1>13 DEF JobType
<1>15. js1[j].at # "none"
  <2>1. n1[j] # 0
    BY <1>2, <1>4, <1>5 DEF Bit
  <2>2. QED BY <1>2, <1>6, <2>1, NoneUnused
<1>16. Counted(job', n2, j)
  <2>1. ASSUME NEW i \in Job
        PROVE  /\ job'[i].subs = n2[i]
               /\ job'[i].waiter <=> j = i
               /\ job'[i].at = "none" => job'[i] = NoJob
    <3>1. CASE i = j
      BY <1>14, <1>15, <3>1
    <3>2. CASE i # j
      <4>1. n2[i] = n1[i]
        BY <1>4, <1>5, <1>8, <3>2 DEF Bit
      <4>2. job'[i] = js1[i]
        BY <1>14, <3>2
      <4>3. js1[i].at = "none" => js1[i] = NoJob
        BY <1>6 DEF JobBook, Counted
      <4>4. QED BY <1>12, <3>2, <4>1, <4>2, <4>3
    <3>3. QED BY <3>1, <3>2
  <2>2. QED BY <2>1 DEF Counted
<1>17. \A i \in Job : job'[i].at = js1[i].at /\ job'[i].project = js1[i].project
  BY <1>14
<1>18. Apart(job', mutations)
  BY <1>6, <1>17 DEF JobBook, Apart, Ahead
<1>19. ASSUME NEW i \in Live(job')
       PROVE  /\ i \in Live(js1) /\ job'[i].project = js1[i].project
              /\ job'[i].subs = 0 => job'[i].cancel
  <2>1. i \in Job /\ i \in Live(js1)
    BY <1>17 DEF Live
  <2>2. CASE i = j
    BY <1>10, <1>14, <1>17, <2>1, <2>2
  <2>3. CASE i # j
    BY <1>6, <1>14, <2>1, <2>3 DEF JobBook, Wanted
  <2>4. QED BY <2>2, <2>3, <1>17, <2>1
<1>20. JobBook(job', n2, j, mutations)
  BY <1>6, <1>14, <1>16, <1>18, <1>19, Shrink
<1>21. Books(job', sess', owners', callback', ui', mutations')
  BY <1>1, <1>7, <1>20, InvFacts DEF Books, SessionBook, n2
<1>22. QED BY <1>1, <1>2, <1>21 DEF Inv

\* When the job has ended, every session lets go of it, and so does the callback.
LEMMA WatcherDoneInv ==
  ASSUME Inv, WatcherDone
  PROVE  Inv'
<1> DEFINE c == callback
           S == {s \in Session : c \in owners[s]}
           js2 == [job EXCEPT ![c].subs = @ - Owned(Session, c), ![c].waiter = FALSE]
           ow2 == [s \in Session |-> owners[s] \ {c}]
           n == Uses2(sess, owners, ui)
           n2 == Uses2(sess, ow2, ui)
<1>1. /\ c \in Job /\ job[c].at = "terminal"
      /\ job' = Reaped(js2) /\ owners' = ow2 /\ callback' = 0
      /\ UNCHANGED <<sess, ui, mutations, db, stopping>>
  BY InvFacts DEF WatcherDone, world
<1>2. n \in [Job -> Nat] /\ n2 \in [Job -> Nat] /\ JobBook(job, n, c, mutations)
  BY UsesType, InvFacts DEF Books
<1>3. ow2 \in [Session -> SUBSET Job]
  BY InvFacts
<1>4. ASSUME NEW i \in Job, i # c PROVE n2[i] = n[i]
  <2>1. ASSUME NEW t \in Session, NEW f \in Tags
        PROVE  Refers(sess[t], ow2[t], f, i) <=> Refers(sess[t], owners[t], f, i)
    BY <1>4 DEF Refers
  <2> HIDE DEF ow2
  <2>2. QED BY <2>1, SameLinks
<1>5. n2[c] = n[c] - Owned(Session, c)
  <2>1. Drop(sess, owners, sess, ow2, c, "owner", S)
    BY DEF Drop, Refers, Tags
  <2>2. Owned(Session, c) = Cardinality(S)
    BY DEF Owned
  <2> HIDE DEF S, ow2
  <2>3. c \in Job
    BY <1>1
  <2>4. Uses2(sess, ow2, ui)[c] = Uses2(sess, owners, ui)[c] - Cardinality(S)
    BY ONLY <2>1, <2>3, Fewer
  <2>5. QED BY <2>2, <2>4
<1> HIDE DEF n, n2, S, ow2
<1>6. /\ job \in [Job -> JobType] /\ \A i \in Job : job[i].subs = n[i]
  BY <1>2 DEF JobBook, Counted
<1>7. js2 = [job EXCEPT ![c] = [job[c] EXCEPT !.subs = n2[c], !.waiter = FALSE]]
  BY <1>1, <1>5, <1>6
<1> HIDE DEF js2
<1>8. /\ js2 \in [Job -> JobType]
      /\ js2[c].at = "terminal" /\ js2[c].subs = n2[c] /\ js2[c].waiter = FALSE
      /\ \A i \in Job \ {c} : js2[i] = job[i]
  BY <1>1, <1>2, <1>6, <1>7 DEF JobType
<1>9. Counted(js2, n2, 0)
  <2>1. ASSUME NEW i \in Job
        PROVE  /\ js2[i].subs = n2[i]
               /\ js2[i].waiter <=> 0 = i
               /\ js2[i].at = "none" => js2[i] = NoJob
    <3>1. CASE i = c
      BY <1>8, <3>1, OverflowBeyond
    <3>2. CASE i # c
      <4>1. /\ job[i].subs = n[i] /\ (job[i].waiter <=> c = i)
            /\ job[i].at = "none" => job[i] = NoJob
        BY <1>2 DEF JobBook, Counted
      <4>2. QED BY <1>4, <1>8, <3>2, <4>1, OverflowBeyond
    <3>3. QED BY <3>1, <3>2
  <2>2. QED BY <2>1 DEF Counted
<1>10. Apart(js2, mutations)
  BY <1>2, <1>8 DEF JobBook, Apart, Ahead
<1>11. ASSUME NEW i \in Live(js2)
       PROVE  /\ i \in Live(job) /\ js2[i].project = job[i].project
              /\ js2[i].subs = 0 => js2[i].cancel
  <2>1. i \in Job /\ i # c
    BY <1>8 DEF Live
  <2>2. i \in Live(job) /\ js2[i] = job[i]
    BY <1>8, <2>1 DEF Live
  <2>3. QED BY <1>2, <2>2 DEF JobBook, Wanted
<1>12. JobBook(js2, n2, 0, mutations)
  BY <1>2, <1>8, <1>9, <1>10, <1>11, Shrink
<1>13. JobBook(Reaped(js2), n2, 0, mutations)
  BY <1>12, ReapedBook
<1>14. Books(job', sess', owners', callback', ui', mutations')
  BY <1>1, <1>3, <1>13, InvFacts DEF Books, SessionBook, n2
<1>15. QED BY <1>1, <1>14 DEF Inv

-------------------------------------------------------------------------------
(* Watches, and the walks of a publication.  acc is what a walk has come to. *)

AccType == [job : [Job -> JobType], sess : [Session -> SessionType],
            owners : [Session -> SUBSET Job], full : BOOLEAN]
AccBooks(acc) == /\ acc \in AccType
                 /\ Books(acc.job, acc.sess, acc.owners, callback, ui, mutations)

\* A session that is watched becomes an owner of the jobs late.
LEMMA LateBooks ==
  ASSUME NEW js, NEW ss, NEW ow, NEW c, NEW u, NEW m, Books(js, ss, ow, c, u, m),
         NEW s \in Session, NEW late \in SUBSET Live(js), late \cap ow[s] = {},
         NEW r \in SessionType, Tidy(r), r.got = ss[s].got, r.active = ss[s].active,
         r.auto = ss[s].auto, r.join = ss[s].join,
         NEW js2, js2 = [j \in Job |-> IF j \in late THEN Sub(js, j, 1)[j] ELSE js[j]]
  PROVE  Books(js2, Put(ss, s, r), Put(ow, s, ow[s] \cup late), c, u, m)
<1> DEFINE o == ow[s] \cup late
           n == Uses2(ss, ow, u)
           n2 == Uses2(Put(ss, s, r), Put(ow, s, o), u)
           B == [j \in Job |-> js[j].cancel]
<1>1. late \subseteq Job /\ o \in SUBSET Job /\ SessionBook(ss, ow)
  BY DEF Live, Books, SessionBook
<1>2. /\ SessionBook(Put(ss, s, r), Put(ow, s, o))
      /\ \A i \in Job : n2[i] = (n[i] - Ref(ss[s], ow[s], i)) + Ref(r, o, i)
  <2> HIDE DEF o
  <2>1. QED BY <1>1, SetSession
<1>3. n \in [Job -> Nat] /\ n2 \in [Job -> Nat] /\ JobBook(js, n, c, m)
  BY UsesType DEF Books
<1>4. /\ js \in [Job -> JobType] /\ \A i \in Job : js[i].subs = n[i] /\ js[i].cancel \in BOOLEAN
  BY <1>3 DEF JobBook, Counted, JobType
<1>5. ASSUME NEW i \in Job PROVE n2[i] = n[i] + Bit(i \in late)
  <2>1. i \in o <=> i \in ow[s] \/ i \in late
    OBVIOUS
  <2>2. ~(i \in ow[s] /\ i \in late)
    OBVIOUS
  <2> HIDE DEF o, n, n2
  <2>3. Ref(r, o, i) = Ref(ss[s], ow[s], i) + Bit(i \in late)
    BY <2>1, <2>2 DEF Ref, Bit
  <2>4. n[i] \in Nat /\ Ref(ss[s], ow[s], i) \in Nat /\ Bit(i \in late) \in Nat
    BY <1>3, RefType DEF Bit
  <2>5. QED BY <1>2, <2>3, <2>4
<1> HIDE DEF o, n, n2
<1>6. B \in [Job -> BOOLEAN]
  BY <1>4
<1>7. ASSUME NEW i \in Job
      PROVE  /\ n2[i] = n2[i]
             /\ js[i].at = "none" => n2[i] = 0 /\ B[i] = js[i].cancel
             /\ i \in Live(js) /\ n2[i] = 0 => B[i]
  <2>1. js[i].at = "none" => i \notin late /\ n[i] = 0
    BY <1>3, NoneUnused
  <2>2. i \in Live(js) /\ n[i] = 0 => js[i].cancel
    BY <1>3, <1>4 DEF JobBook, Wanted
  <2>3. n2[i] = n[i] + Bit(i \in late) /\ n[i] \in Nat /\ B[i] = js[i].cancel
    BY <1>3, <1>5
  <2> HIDE DEF B
  <2>4. QED BY <2>1, <2>2, <2>3 DEF Bit
<1>8. JobBook(Records(js, n2, B), n2, c, m)
  <2> HIDE DEF B
  <2>1. QED BY <1>3, <1>6, <1>7, RecountBook
<1>9. js2 = Records(js, n2, B)
  <2>1. ASSUME NEW i \in Job PROVE js2[i] = Records(js, n2, B)[i]
    <3>1. js[i] \in JobType /\ js[i].subs = n[i] /\ n[i] \in Nat
      BY <1>3, <1>4
    <3>2. CASE i \in late
      <4>1. n2[i] = js[i].subs + 1
        BY <1>5, <3>1, <3>2 DEF Bit
      <4>2. js2[i] = [js[i] EXCEPT !.subs = @ + 1]
        BY <1>4, <3>2 DEF Sub
      <4>3. Records(js, n2, B)[i] = [js[i] EXCEPT !.subs = n2[i], !.cancel = js[i].cancel]
        BY DEF Records, Record
      <4>4. [js[i] EXCEPT !.subs = js[i].subs + 1] = [js[i] EXCEPT !.subs = js[i].subs + 1, !.cancel = js[i].cancel]
        BY <3>1 DEF JobType
      <4>5. QED BY <4>1, <4>2, <4>3, <4>4
    <3>3. CASE i \notin late
      <4>1. n2[i] = js[i].subs
        BY <1>5, <3>1, <3>3 DEF Bit
      <4>2. js2[i] = js[i]
        BY <3>3
      <4>3. QED BY <3>1, <4>1, <4>2 DEF Records, Record, JobType
    <3>4. QED BY <3>2, <3>3
  <2>2. QED BY <2>1 DEF Records
<1>10. QED BY <1>2, <1>8, <1>9 DEF Books, n2, o

LEMMA WatchBooks ==
  ASSUME NEW acc, AccBooks(acc), NEW s \in Session
  PROVE  AccBooks(Watch(acc, s))
<1>1. CASE acc.sess[s].watch \/ ~MayRefresh(acc.sess, s)
  BY <1>1 DEF Watch
<1>2. CASE ~(acc.sess[s].watch \/ ~MayRefresh(acc.sess, s))
  <2> DEFINE late == LateJob(acc, s)
             r == [acc.sess[s] EXCEPT !.watch = TRUE]
             o == acc.owners[s] \cup late
             js2 == [j \in Job |-> IF j \in late THEN Sub(acc.job, j, 1)[j] ELSE acc.job[j]]
             new == [job |-> js2, sess |-> Put(acc.sess, s, r), owners |-> Put(acc.owners, s, o),
                     full |-> acc.full]
  <2>1. acc \in AccType /\ Books(acc.job, acc.sess, acc.owners, callback, ui, mutations)
    BY DEF AccBooks
  <2>2. acc.sess[s] \in SessionType /\ Tidy(acc.sess[s])
    BY <2>1 DEF Books, SessionBook
  <2>3. /\ r \in SessionType /\ Tidy(r) /\ r.got = acc.sess[s].got /\ r.active = acc.sess[s].active
        /\ r.auto = acc.sess[s].auto /\ r.join = acc.sess[s].join
    BY <2>2 DEF SessionType, Tidy
  <2>4. late \in SUBSET Live(acc.job) /\ late \cap acc.owners[s] = {}
    BY DEF LateJob, Of
  <2>5. Watch(acc, s) = new
    <3>1. Watch(acc, s) = [acc EXCEPT !.sess[s].watch = TRUE,
                     !.owners[s] = @ \cup LateJob(acc, s),
                     !.job = [j \in Job |-> IF j \in LateJob(acc, s) THEN Sub(@, j, 1)[j] ELSE @[j]]]
      BY <1>2 DEF Watch
    <3> HIDE DEF late
    <3>2. QED BY <2>1, <3>1 DEF AccType, Put, late
  <2> HIDE DEF late, r, js2
  <2>6. Books(js2, Put(acc.sess, s, r), Put(acc.owners, s, o), callback, ui, mutations)
    BY <2>1, <2>3, <2>4, LateBooks DEF js2
  <2>7. new \in AccType
    BY <2>1, <2>6 DEF AccType, Books, JobBook, SessionBook
  <2> HIDE DEF o
  <2>8. QED BY <2>5, <2>6, <2>7 DEF AccBooks
<1>3. QED BY <1>1, <1>2

LEMMA AccFields ==
  ASSUME NEW acc \in AccType, NEW js, NEW ss
  PROVE  [acc EXCEPT !.job = js, !.sess = ss]
           = [job |-> js, sess |-> ss, owners |-> acc.owners, full |-> acc.full]
<1> DEFINE first == [acc EXCEPT !.job = js]
<1>1. [acc EXCEPT !.job = js, !.sess = ss] = [first EXCEPT !.sess = ss]
  OBVIOUS
<1>2. first = [job |-> js, sess |-> acc.sess, owners |-> acc.owners, full |-> acc.full]
  BY DEF AccType
<1>3. first \in [job : {js}, sess : [Session -> SessionType],
                owners : [Session -> SUBSET Job], full : BOOLEAN]
  BY <1>2 DEF AccType
<1> HIDE DEF first
<1>4. [first EXCEPT !.sess = ss]
        = [job |-> first.job, sess |-> ss, owners |-> first.owners, full |-> first.full]
  BY <1>3
<1>5. first.job = js /\ first.owners = acc.owners /\ first.full = acc.full
  BY ONLY <1>2
<1>6. QED BY <1>1, <1>4, <1>5

LEMMA SettleBooks ==
  ASSUME NEW acc, AccBooks(acc), NEW s \in Session, NEW j \in Job, NEW ok
  PROVE  AccBooks(Settle(acc, s, j, ok))
<1> DEFINE free == [acc EXCEPT !.job = Unsub(acc.job, j), !.sess[s].auto = 0]
           r == [acc.sess[s] EXCEPT !.auto = 0]
<1>1. acc \in AccType /\ Books(acc.job, acc.sess, acc.owners, callback, ui, mutations)
  BY DEF AccBooks
<1>2. acc.sess[s] \in SessionType /\ Tidy(acc.sess[s])
  BY <1>1 DEF Books, SessionBook
<1>3. CASE acc.sess[s].auto # j
  BY <1>3 DEF Settle
<1>4. CASE acc.sess[s].auto = j
  <2>1. /\ r \in SessionType /\ Tidy(r) /\ r.got = acc.sess[s].got /\ r.active = acc.sess[s].active
        /\ r.auto = 0 /\ r.join = acc.sess[s].join
    BY <1>2 DEF SessionType, Tidy
  <2>2. free = [job |-> Unsub(acc.job, j), sess |-> Put(acc.sess, s, r), owners |-> acc.owners,
                full |-> acc.full]
    <3>1. free = [acc EXCEPT !.job = Unsub(acc.job, j), !.sess = Put(acc.sess, s, r)]
      BY <1>1 DEF Put
    <3> HIDE DEF r, free
    <3>2. QED BY <1>1, <3>1, AccFields
  <2> HIDE DEF r, free
  <2>3. ASSUME NEW i \in Job
        PROVE  Ref(r, acc.owners[s], i) = Ref(acc.sess[s], acc.owners[s], i) - Bit(i = j)
    BY <1>4, <2>1, OverflowBeyond DEF Ref, Bit
  <2>4. Books(Unsub(acc.job, j), Put(acc.sess, s, r), acc.owners, callback, ui, mutations)
    BY <1>1, <2>1, <2>3, DropBooks
  <2>5. AccBooks(free)
    <3>1. free \in AccType
      BY <1>1, <2>2, <2>4 DEF AccType, Books, JobBook, SessionBook
    <3>2. QED BY <2>2, <2>4, <3>1 DEF AccBooks
  <2>6. Settle(acc, s, j, ok) \in {free, Watch(free, s)}
    BY <1>4 DEF Settle, free
  <2>7. QED BY <2>5, <2>6, WatchBooks
<1>5. QED BY <1>3, <1>4

LEMMA RetryBooks ==
  ASSUME NEW acc, AccBooks(acc), NEW s \in Session, NEW dbs, callback \in Job \cup {0}
  PROVE  AccBooks(Retry(acc, s, dbs))
<1> DEFINE p == Belongs[s]
           j == Chosen(acc.job, p)
           calm == [acc EXCEPT !.sess[s].pending = FALSE]
           joined == [acc EXCEPT !.job = Subscribe(acc.job, p),
                           !.sess[s].pending = FALSE, !.sess[s].auto = j]
           blocked == [acc EXCEPT !.full = Of(acc.job, p) = {}]
<1>1. acc \in AccType /\ Books(acc.job, acc.sess, acc.owners, callback, ui, mutations)
  BY DEF AccBooks
<1>2. acc.sess[s] \in SessionType /\ Tidy(acc.sess[s]) /\ p \in Project
  BY <1>1, BelongsAssumption DEF Books, SessionBook
<1>3. CASE Retry(acc, s, dbs) = acc
  BY <1>3
<1>4. CASE Retry(acc, s, dbs) = Watch(calm, s)
  <2> DEFINE r == [acc.sess[s] EXCEPT !.pending = FALSE]
  <2>1. /\ r \in SessionType /\ Tidy(r)
        /\ \A i \in Job : Ref(r, acc.owners[s], i) = Ref(acc.sess[s], acc.owners[s], i)
    BY <1>2 DEF SessionType, Tidy, Ref
  <2>2. calm = [job |-> acc.job, sess |-> Put(acc.sess, s, r), owners |-> acc.owners,
                full |-> acc.full]
    <3>1. calm = [acc EXCEPT !.job = acc.job, !.sess = Put(acc.sess, s, r)]
      BY <1>1 DEF Put, AccType
    <3> HIDE DEF r, calm
    <3>2. QED BY <1>1, <3>1, AccFields
  <2> HIDE DEF r, calm
  <2>3. Books(acc.job, Put(acc.sess, s, r), acc.owners, callback, ui, mutations)
    BY <1>1, <2>1, KeepBooks
  <2>4. AccBooks(calm)
    <3>1. calm \in AccType
      BY <1>1, <2>2, <2>3 DEF AccType, Books, JobBook, SessionBook
    <3>2. QED BY <2>2, <2>3, <3>1 DEF AccBooks
  <2>5. QED BY <1>4, <2>4, WatchBooks
<1>5. CASE Retry(acc, s, dbs) = joined /\ j # 0 /\ acc.sess[s].auto = 0
  <2> DEFINE r == [acc.sess[s] EXCEPT !.pending = FALSE, !.auto = j]
  <2>1. j \in Job \cup {Overflow}
    BY <1>5, ChosenInBound
  <2>2. joined = [job |-> Subscribe(acc.job, p), sess |-> Put(acc.sess, s, r),
                  owners |-> acc.owners, full |-> acc.full]
    <3>1. joined = [acc EXCEPT !.job = Subscribe(acc.job, p), !.sess = Put(acc.sess, s, r)]
      <4> HIDE DEF j, p
      <4>1. QED BY <1>1 DEF Put
    <3> HIDE DEF r, j, p, joined
    <3>2. QED BY <1>1, <3>1, AccFields
  <2> HIDE DEF j
  <2>3. /\ r \in SessionType /\ Tidy(r) /\ r.got = acc.sess[s].got /\ r.active = acc.sess[s].active
        /\ r.auto = j /\ r.join = acc.sess[s].join
    BY <1>2, <2>1 DEF SessionType, Tidy
  <2> HIDE DEF r, joined
  <2>4. ASSUME NEW i \in Job
        PROVE  Ref(r, acc.owners[s], i) = Ref(acc.sess[s], acc.owners[s], i) + Bit(i = j)
    BY <1>5, <2>3, OverflowBeyond DEF Ref, Bit
  <2>5. Books(Subscribe(acc.job, p), Put(acc.sess, s, r), acc.owners, callback, ui, mutations)
    <3> HIDE DEF p
    <3>1. QED BY <1>1, <1>2, <1>5, <2>3, <2>4, GainBooks DEF j
  <2>6. joined \in AccType
    BY <1>1, <2>2, <2>5 DEF AccType, Books, JobBook, SessionBook
  <2>7. QED BY <1>5, <2>2, <2>5, <2>6 DEF AccBooks
<1>6. CASE Retry(acc, s, dbs) = blocked
  <2>1. /\ blocked = [job |-> acc.job, sess |-> acc.sess, owners |-> acc.owners,
                      full |-> Of(acc.job, p) = {}]
    BY <1>1 DEF AccType
  <2>2. (Of(acc.job, p) = {}) \in BOOLEAN
    OBVIOUS
  <2> HIDE DEF p, blocked
  <2>3. blocked \in AccType
    BY <1>1, <2>1, <2>2 DEF AccType
  <2>4. QED BY <1>1, <1>6, <2>1, <2>3 DEF AccBooks
<1>7. \/ Retry(acc, s, dbs) = acc
      \/ Retry(acc, s, dbs) = Watch(calm, s)
      \/ Retry(acc, s, dbs) = joined /\ j # 0 /\ acc.sess[s].auto = 0
      \/ Retry(acc, s, dbs) = blocked
  BY DEF Retry
<1>8. QED BY <1>3, <1>4, <1>5, <1>6, <1>7

LEMMA LeastExists ==
  ASSUME NEW I \in SUBSET Nat, I # {}
  PROVE  \E x \in I : \A y \in I : x <= y
<1> DEFINE R == OpToRel(<, Nat)
<1>1. PICK x \in I : \A y \in I : ~ (<<y, x>> \in R)
  BY NatLessThanWellFounded, WFMin
<1>2. ASSUME NEW y \in I PROVE x <= y
  <2>1. y \in Nat /\ x \in Nat /\ ~ (<<y, x>> \in R)
    BY <1>1
  <2>2. <<y, x>> \in R <=> y < x
    BY <2>1 DEF OpToRel
  <2> HIDE DEF R
  <2>3. QED BY <2>1, <2>2
<1>3. QED BY <1>2

\* One step of the walks: what they may have come to after prev.
WalkStep(prev, i, acc, order, j, ok, dbs) ==
    IF i = 0 THEN {acc}
    ELSE IF i <= Len(order) THEN {Settle(a, order[i], j, ok) : a \in prev}
    ELSE IF stopping THEN prev
    ELSE {Retry(a, order[i - Len(order)], dbs) : a \in prev}
IsWalk(w, k, acc, order, j, ok, dbs) ==
    w = [i \in 0 .. k |-> WalkStep(w[i - 1], i, acc, order, j, ok, dbs)]

\* The walks are well defined, whatever their length.
LEMMA WalkExists ==
  ASSUME NEW acc, NEW order, NEW j, NEW ok, NEW dbs, NEW k \in Nat
  PROVE  \E w : IsWalk(w, k, acc, order, j, ok, dbs)
<1> DEFINE P(i) == \E w : IsWalk(w, i, acc, order, j, ok, dbs)
           I == {i \in Nat : ~P(i)}
<1>1. SUFFICES ASSUME I # {} PROVE FALSE
  OBVIOUS
<1>2. PICK m \in I : \A i \in I : m <= i
  <2>1. I \in SUBSET Nat
    OBVIOUS
  <2> HIDE DEF I
  <2>2. QED BY <1>1, <2>1, LeastExists
<1>3. CASE m = 0
  <2> DEFINE w == [i \in 0 .. 0 |-> {acc}]
  <2>1. IsWalk(w, 0, acc, order, j, ok, dbs)
    BY DEF IsWalk, WalkStep
  <2>2. QED BY <1>3, <2>1
<1>4. CASE m # 0
  <2>1. m - 1 \in Nat /\ P(m - 1)
    BY <1>2, <1>4
  <2>2. PICK g : IsWalk(g, m - 1, acc, order, j, ok, dbs)
    BY <2>1
  <2> DEFINE w == [i \in 0 .. m |-> IF i = m THEN WalkStep(g[m - 1], m, acc, order, j, ok, dbs) ELSE g[i]]
  <2>3. ASSUME NEW i \in 0 .. m
        PROVE  w[i] = WalkStep(w[i - 1], i, acc, order, j, ok, dbs)
    <3>1. CASE i = m
      <4>1. w[i] = WalkStep(g[i - 1], i, acc, order, j, ok, dbs) /\ w[i - 1] = g[i - 1]
        BY <1>4, <3>1
      <4>2. QED BY <4>1
    <3>2. CASE i # m
      <4>1. w[i] = g[i] /\ i \in 0 .. m - 1
        BY <3>2
      <4>2. g[i] = WalkStep(g[i - 1], i, acc, order, j, ok, dbs)
        BY <2>2, <4>1 DEF IsWalk
      <4>3. CASE i = 0
        BY <4>1, <4>2, <4>3 DEF WalkStep
      <4>4. CASE i # 0
        <5>1. w[i - 1] = g[i - 1]
          BY <4>1, <4>4
        <5>2. QED BY <4>1, <4>2, <5>1
      <4>5. QED BY <4>3, <4>4
    <3>3. QED BY <3>1, <3>2
  <2>4. IsWalk(w, m, acc, order, j, ok, dbs)
    BY <2>3 DEF IsWalk
  <2>5. QED BY <2>4
<1>5. QED BY <1>3, <1>4

\* Whatever the order of the list, no walk loses count.
LEMMA WalkBooks ==
  ASSUME NEW acc, AccBooks(acc), callback \in Job \cup {0},
         NEW N \in Nat, NEW order \in [1 .. N -> Session], NEW j \in Job, NEW ok, NEW dbs,
         NEW end \in Walk(acc, order, j, ok, dbs)
  PROVE  AccBooks(end)
<1> DEFINE n == Len(order)
           f == CHOOSE w : IsWalk(w, 2 * n, acc, order, j, ok, dbs)
<1>1. n \in Nat /\ n = N /\ 2 * n \in Nat
  OBVIOUS
<1>2. \A i \in 1 .. n : order[i] \in Session
  BY <1>1
<1>3. Walk(acc, order, j, ok, dbs) = f[2 * n]
  BY DEF Walk, IsWalk, WalkStep
<1>4. IsWalk(f, 2 * n, acc, order, j, ok, dbs)
  BY <1>1, WalkExists
<1> HIDE DEF f
<1>5. \A i \in 0 .. 2 * n : f[i] = WalkStep(f[i - 1], i, acc, order, j, ok, dbs)
  <2> HIDE DEF n
  <2>1. QED BY <1>4 DEF IsWalk
<1> HIDE DEF n
<1> DEFINE P(i) == \A a \in f[i] : AccBooks(a)
           I == {i \in 0 .. 2 * n : ~P(i)}
<1>6. ASSUME NEW i \in 0 .. 2 * n, i # 0 => P(i - 1) PROVE P(i)
  <2> SUFFICES ASSUME NEW a \in f[i] PROVE AccBooks(a)
    OBVIOUS
  <2>1. a \in WalkStep(f[i - 1], i, acc, order, j, ok, dbs)
    BY <1>5
  <2>2. CASE i = 0
    BY <2>1, <2>2 DEF WalkStep
  <2>3. CASE i # 0 /\ i <= n
    <3>1. PICK b \in f[i - 1] : a = Settle(b, order[i], j, ok)
      BY <2>1, <2>3 DEF WalkStep, n
    <3>2. order[i] \in Session /\ AccBooks(b)
      BY <1>1, <1>2, <1>6, <2>3
    <3>3. QED BY <3>1, <3>2, SettleBooks
  <2>4. CASE i > n /\ stopping
    <3>1. a \in f[i - 1] /\ i # 0
      BY <1>1, <2>1, <2>4 DEF WalkStep, n
    <3>2. QED BY <1>6, <3>1
  <2>5. CASE i > n /\ ~stopping
    <3>1. i # 0 /\ i - n \in 1 .. n
      BY <1>1, <2>5
    <3>2. PICK b \in f[i - 1] : a = Retry(b, order[i - n], dbs)
      BY <1>1, <2>1, <2>5, <3>1 DEF WalkStep, n
    <3>3. order[i - n] \in Session /\ AccBooks(b)
      BY <1>2, <1>6, <3>1
    <3>4. QED BY <3>2, <3>3, RetryBooks
  <2>6. QED BY <1>1, <2>2, <2>3, <2>4, <2>5
<1>7. I = {}
  <2> SUFFICES ASSUME I # {} PROVE FALSE
    OBVIOUS
  <2>1. I \in SUBSET Nat
    BY <1>1
  <2>2. PICK m \in I : \A i \in I : m <= i
    <3> HIDE DEF I
    <3>1. QED BY <2>1, LeastExists
  <2>3. m \in 0 .. 2 * n /\ ~P(m) /\ (m # 0 => m - 1 \in 0 .. 2 * n /\ m - 1 \notin I)
    BY <1>1, <2>2
  <2>4. m # 0 => P(m - 1)
    BY <2>3
  <2> HIDE DEF P
  <2>5. QED BY <1>6, <2>3, <2>4
<1>8. 2 * n \in 0 .. 2 * n
  BY <1>1
<1>9. P(2 * n)
  BY <1>7, <1>8
<1>10. QED BY <1>3, <1>9 DEF n

-------------------------------------------------------------------------------
(* The sections that refresh watches. *)

LEMMA NowBooks ==
  ASSUME Inv
  PROVE  AccBooks(Now)
<1>1. Books(job, sess, owners, callback, ui, mutations)
  BY DEF Inv
<1>2. job \in [Job -> JobType] /\ sess \in [Session -> SessionType] /\ owners \in [Session -> SUBSET Job]
  BY <1>1 DEF Books, JobBook, SessionBook
<1>3. QED BY <1>1, <1>2 DEF AccBooks, AccType, Now

LEMMA WatchKeepsAuto ==
  ASSUME NEW acc \in AccType, NEW s \in Session, NEW t \in Session
  PROVE  Watch(acc, s).sess[t].auto = acc.sess[t].auto
<1>1. CASE Watch(acc, s) = acc
  BY <1>1
<1>2. CASE Watch(acc, s).sess = [acc.sess EXCEPT ![s].watch = TRUE]
  <2>1. acc.sess \in [Session -> SessionType]
    BY DEF AccType
  <2> HIDE DEF AccType
  <2>2. QED BY <1>2, <2>1 DEF SessionType
<1>3. Watch(acc, s) = acc \/ Watch(acc, s).sess = [acc.sess EXCEPT ![s].watch = TRUE]
  <2>1. CASE acc.sess[s].watch \/ ~MayRefresh(acc.sess, s)
    BY <2>1 DEF Watch
  <2>2. CASE ~(acc.sess[s].watch \/ ~MayRefresh(acc.sess, s))
    BY <2>2 DEF Watch, AccType
  <2>3. QED BY <2>1, <2>2
<1>4. QED BY <1>1, <1>2, <1>3

\* The watches of the sessions W end, with the jobs they own.
LEMMA UnwatchAllBooks ==
  ASSUME Inv, NEW W \in SUBSET Session,
         NEW ss, ss = [t \in Session |-> IF t \in W THEN [sess[t] EXCEPT !.watch = FALSE] ELSE sess[t]],
         NEW ow, ow = [t \in Session |-> IF t \in W THEN {} ELSE owners[t]]
  PROVE  /\ Books(Disown(job, W), ss, ow, callback, ui, mutations)
         /\ \A t \in Session : ss[t].auto = sess[t].auto
<1> DEFINE n == Uses2(sess, owners, ui)
           n2 == Uses2(ss, ow, ui)
<1>1. /\ JobBook(job, n, callback, mutations) /\ SessionBook(sess, owners)
      /\ sess \in [Session -> SessionType] /\ owners \in [Session -> SUBSET Job]
  BY DEF Inv, Books, SessionBook
<1>2. ASSUME NEW t \in Session
      PROVE  /\ ss[t] \in SessionType /\ Tidy(ss[t])
             /\ ss[t].got = sess[t].got /\ ss[t].active = sess[t].active
             /\ ss[t].auto = sess[t].auto /\ ss[t].join = sess[t].join
  <2>1. sess[t] \in SessionType /\ Tidy(sess[t])
    BY <1>1 DEF SessionBook
  <2>2. CASE t \in W
    BY <2>1, <2>2 DEF SessionType, Tidy
  <2>3. CASE t \notin W
    BY <2>1, <2>3
  <2>4. QED BY <2>2, <2>3
<1>3. SessionBook(ss, ow)
  <2>1. ss \in [Session -> SessionType] /\ ow \in [Session -> SUBSET Job]
    BY <1>1, <1>2
  <2>2. QED BY <1>2, <2>1 DEF SessionBook
<1>4. ASSUME NEW i \in Job PROVE n2[i] = n[i] - Owned(W, i)
  <2> DEFINE S == {t \in W : i \in owners[t]}
  <2>1. "owner" \in Tags /\ S \subseteq Session
    BY DEF Tags
  <2>2. ASSUME NEW t \in Session, NEW f \in Tags
        PROVE  Refers(ss[t], ow[t], f, i) <=> Refers(sess[t], owners[t], f, i) /\ ~(f = "owner" /\ t \in S)
    <3>1. i \in ow[t] <=> i \in owners[t] /\ t \notin S
      OBVIOUS
    <3> HIDE DEF S
    <3>2. QED BY ONLY <1>2, <3>1, t \in Session, f \in Tags DEF Refers, Tags
  <2>3. \A t \in S : Refers(sess[t], owners[t], "owner", i)
    BY DEF Refers
  <2>4. Drop(sess, owners, ss, ow, i, "owner", S)
    <3> HIDE DEF S
    <3>1. QED BY <2>1, <2>2, <2>3 DEF Drop
  <2>5. n2[i] = n[i] - Cardinality(S)
    <3> HIDE DEF S
    <3>1. QED BY ONLY <2>4, i \in Job, Fewer DEF n, n2
  <2>6. QED BY <2>5 DEF Owned
<1>5. n2 \in [Job -> Nat]
  BY UsesType
<1> HIDE DEF n, n2
<1>6. JobBook(Disown(job, W), n2, callback, mutations)
  BY <1>1, <1>4, <1>5, DisownBook
<1>7. QED BY <1>2, <1>3, <1>6 DEF Books, n2

LEMMA RefreshInv ==
  ASSUME Inv, NEW s \in Session, Refresh(s)
  PROVE  Inv'
<1> DEFINE W == Watchers(sess, Belongs[s])
           new == Watch(Now, s)
<1>1. UNCHANGED <<callback, ui, mutations, db, stopping>>
  BY DEF Refresh, world
<1>2. CASE job' = new.job /\ sess' = new.sess /\ owners' = new.owners
  <2>1. AccBooks(Now) /\ Now \in AccType /\ Now.sess = sess
    BY NowBooks DEF AccBooks, Now
  <2>2. AccBooks(new)
    BY <2>1, WatchBooks
  <2>3. \A t \in Session : new.sess[t].auto = sess[t].auto
    BY <2>1, WatchKeepsAuto
  <2> HIDE DEF new
  <2>4. Books(job', sess', owners', callback', ui', mutations')
    BY <1>1, <1>2, <2>2 DEF AccBooks
  <2>5. QED BY <1>1, <1>2, <2>3, <2>4 DEF Inv
<1>3. CASE /\ job' = Disown(job, W)
           /\ sess' = [t \in Session |-> IF t \in W THEN [sess[t] EXCEPT !.watch = FALSE] ELSE sess[t]]
           /\ owners' = [t \in Session |-> IF t \in W THEN {} ELSE owners[t]]
  <2>1. W \in SUBSET Session
    BY DEF Watchers
  <2> HIDE DEF W
  <2>2. /\ Books(Disown(job, W), sess', owners', callback, ui, mutations)
        /\ \A t \in Session : sess'[t].auto = sess[t].auto
    BY <1>3, <2>1, UnwatchAllBooks
  <2>3. QED BY <1>1, <1>3, <2>2 DEF Inv
<1>4. QED BY <1>2, <1>3 DEF Refresh

LEMMA EndedBooks ==
  ASSUME Inv, NEW j \in Job, job[j].at # "none",
         NEW ended, ended = [NoJob EXCEPT !.at = "terminal", !.waiter = job[j].waiter, !.subs = job[j].subs]
  PROVE  AccBooks([Now EXCEPT !.job[j] = ended])
<1> DEFINE n == Uses2(sess, owners, ui)
           js == [job EXCEPT ![j] = ended]
<1>1. JobBook(job, n, callback, mutations) /\ job \in [Job -> JobType]
  BY DEF Inv, Books, JobBook
<1> HIDE DEF n
<1>2. /\ ended \in JobType /\ ended.at = "terminal"
      /\ ended.subs = job[j].subs /\ ended.waiter = job[j].waiter
  <2>1. job[j] \in JobType
    BY <1>1
  <2>2. QED BY <2>1 DEF NoJob, JobType
<1>3. js \in [Job -> JobType]
  BY <1>1, <1>2
<1>4. \A i \in Job : js[i] = IF i = j THEN ended ELSE job[i]
  BY <1>1
<1> HIDE DEF js
<1>5. Counted(js, n, callback)
  BY <1>1, <1>2, <1>4 DEF JobBook, Counted
<1>6. Apart(js, mutations)
  BY <1>1, <1>2, <1>4 DEF JobBook, Apart, Ahead
<1>7. ASSUME NEW i \in Live(js)
      PROVE  /\ i \in Live(job) /\ js[i].project = job[i].project
             /\ js[i].subs = 0 => js[i].cancel
  <2>1. i \in Job /\ i # j
    BY <1>2, <1>4 DEF Live
  <2>2. js[i] = job[i] /\ i \in Live(job)
    BY <1>4, <2>1 DEF Live
  <2>3. QED BY <1>1, <2>2 DEF JobBook, Wanted
<1>8. JobBook(js, n, callback, mutations)
  BY <1>1, <1>3, <1>5, <1>6, <1>7, Shrink
<1>9. [Now EXCEPT !.job[j] = ended] = [job |-> js, sess |-> sess, owners |-> owners, full |-> FALSE]
  <2>1. /\ Now.job = job /\ Now.sess = sess /\ Now.owners = owners /\ Now.full = FALSE
        /\ Now \in [job : {job}, sess : {sess}, owners : {owners}, full : BOOLEAN]
    BY DEF Now
  <2>2. [Now EXCEPT !.job[j] = ended] = [Now EXCEPT !.job = js]
    BY <2>1 DEF js
  <2>3. [Now EXCEPT !.job = js] = [job |-> js, sess |-> Now.sess, owners |-> Now.owners, full |-> Now.full]
    BY <2>1
  <2>4. QED BY <2>1, <2>2, <2>3
<1>10. Books(js, sess, owners, callback, ui, mutations)
  BY <1>8 DEF Inv, Books, n
<1>11. [job |-> js, sess |-> sess, owners |-> owners, full |-> FALSE] \in AccType
  BY <1>3, InvFacts DEF AccType
<1>12. QED BY <1>9, <1>10, <1>11 DEF AccBooks

LEMMA PublishInv ==
  ASSUME Inv, NEW j \in Job, Publish(j)
  PROVE  Inv'
<1> DEFINE ended == [NoJob EXCEPT !.at = "terminal", !.waiter = job[j].waiter, !.subs = job[j].subs]
           start == [Now EXCEPT !.job[j] = ended]
           dbs(wrote) == IF wrote THEN db \cup {job[j].project} ELSE db
<1>1. /\ job[j].at \in {"running", "cleared", "linked"}
      /\ UNCHANGED <<callback, ui, mutations, stopping>>
  BY DEF Publish
<1>2. PICK wrote \in {job[j].at = "running", FALSE} : \E ok \in {wrote, FALSE} :
           \E order \in SetToSeqs(Session) : \E end \in Walk(start, order, j, ok, dbs(wrote)) :
              /\ \A s \in Session : end.sess[s].auto # Overflow
              /\ job' = end.job /\ sess' = end.sess /\ owners' = end.owners /\ db' = dbs(wrote)
  BY DEF Publish
<1> HIDE DEF start
<1>3. PICK ok \in {wrote, FALSE}, order \in SetToSeqs(Session) :
           \E end \in Walk(start, order, j, ok, dbs(wrote)) :
              /\ \A s \in Session : end.sess[s].auto # Overflow
              /\ job' = end.job /\ sess' = end.sess /\ owners' = end.owners /\ db' = dbs(wrote)
  BY <1>2
<1>4. PICK end \in Walk(start, order, j, ok, dbs(wrote)) :
              /\ \A s \in Session : end.sess[s].auto # Overflow
              /\ job' = end.job /\ sess' = end.sess /\ owners' = end.owners /\ db' = dbs(wrote)
  BY <1>3
<1>5. AccBooks(start)
  BY <1>1, EndedBooks DEF start
<1>6. Cardinality(Session) \in Nat /\ order \in [1 .. Cardinality(Session) -> Session]
  BY SessionAssumption, FS_CardinalityType DEF SetToSeqs
<1>7. job[j].project \in Project
  BY <1>1 DEF Inv, Books, JobBook, Placed, Live
<1>8. dbs(wrote) \subseteq Project
  BY <1>7 DEF Inv
<1> HIDE DEF dbs
<1>9. AccBooks(end)
  BY <1>4, <1>5, <1>6, InvFacts, WalkBooks
<1>10. Books(job', sess', owners', callback', ui', mutations')
  BY <1>1, <1>4, <1>9 DEF AccBooks
<1>11. QED BY <1>1, <1>4, <1>8, <1>10 DEF Inv

-------------------------------------------------------------------------------
(* The specification keeps the books. *)

LEMMA NoLinks ==
  ASSUME NEW ss, NEW ow, NEW u, NEW j \in Job,
         Uses2(ss, ow, u)[j] = 0
  PROVE  Links(ss, ow, u, j) = {}
<1>1. IsFiniteSet(Links(ss, ow, u, j)) /\ Cardinality(Links(ss, ow, u, j)) = 0
  BY LinksFinite DEF Uses2
<1>2. QED BY <1>1, FS_EmptySet

LEMMA InitInv == Init => Inv
<1> SUFFICES ASSUME Init PROVE Inv
  OBVIOUS
<1> DEFINE n == Uses2(sess, owners, ui)
<1>1. /\ job = [j \in Job |-> NoJob] /\ sess = [s \in Session |-> NewSession]
      /\ owners = [s \in Session |-> {}]
      /\ callback = 0 /\ ui = 0 /\ mutations = {} /\ db = {} /\ stopping = FALSE
  BY DEF Init
<1>2. NewSession \in SessionType /\ Tidy(NewSession) /\ NewSession.auto = 0
  BY DEF NewSession, SessionType, Tidy
<1>3. SessionBook(sess, owners)
  BY <1>1, <1>2 DEF SessionBook
<1>4. ASSUME NEW j \in Job PROVE n[j] = 0
  <2>1. \A s \in Session, f \in Tags : ~Refers(sess[s], owners[s], f, j)
    BY <1>1, OverflowBeyond DEF Refers, NewSession
  <2>2. Links(sess, owners, ui, j) = {}
    BY <1>1, <2>1, OverflowBeyond DEF Links, UiLink
  <2>3. QED BY <2>2, FS_EmptySet DEF Uses2
<1> HIDE DEF n
<1>5. Live(job) = {}
  BY <1>1 DEF Live, NoJob
<1>6. job \in [Job -> JobType]
  BY <1>1, NoJobType
<1>7. Counted(job, n, callback)
  BY <1>1, <1>4, OverflowBeyond DEF Counted, NoJob
<1>8. Limited(job)
  BY <1>5, FS_EmptySet, LimitAssumption DEF Limited
<1>9. Apart(job, mutations)
  BY <1>1 DEF Apart, Ahead
<1>10. JobBook(job, n, callback, mutations)
  BY <1>5, <1>6, <1>7, <1>8, <1>9 DEF JobBook, OnePerProject, Wanted, Placed
<1>11. Books(job, sess, owners, callback, ui, mutations)
  BY <1>3, <1>10 DEF Books, n
<1>12. \A s \in Session : sess[s].auto # Overflow
  BY <1>1, <1>2, OverflowBeyond
<1>13. QED BY <1>1, <1>11, <1>12 DEF Inv

LEMMA NextInv == Inv /\ [Next]_vars => Inv'
<1> SUFFICES ASSUME Inv, [Next]_vars PROVE Inv'
  OBVIOUS
<1>1. CASE UNCHANGED vars
  <2>1. UNCHANGED <<job, sess, owners, callback, ui, mutations, db, stopping>>
    BY <1>1 DEF vars
  <2>2. Books(job', sess', owners', callback', ui', mutations')
    BY <2>1 DEF Inv
  <2>3. QED BY <2>1, <2>2 DEF Inv
<1>2. CASE \E s \in Session : \/ Open(s) \/ Refresh(s) \/ Initialize(s) \/ Ask(s) \/ Serve(s)
                              \/ RequestCancel(s) \/ SessionCancel(s) \/ Joined(s)
  <2>1. PICK s \in Session : \/ Open(s) \/ Refresh(s) \/ Initialize(s) \/ Ask(s)
                             \/ TryAsk(s) \/ Activate(s) \/ Answer(s)
                             \/ RequestCancel(s) \/ SessionCancel(s) \/ Joined(s)
    BY <1>2 DEF Serve
  <2>2. CASE Open(s) \/ Refresh(s) \/ Initialize(s)
    BY <2>2, OpenInv, RefreshInv, InitializeInv
  <2>3. CASE Ask(s) \/ TryAsk(s) \/ Activate(s) \/ Answer(s)
    BY <2>3, AskInv, TryAskInv, ActivateInv, AnswerInv
  <2>4. CASE RequestCancel(s) \/ SessionCancel(s) \/ Joined(s)
    BY <2>4, RequestCancelInv, SessionCancelInv, JoinedInv
  <2>5. QED BY <2>1, <2>2, <2>3, <2>4
<1>3. CASE \E p \in Project : WatcherCall(p) \/ UiCall(p)
  BY <1>3, WatcherCallInv, UiCallInv
<1>4. CASE WatcherDone \/ UiDone
  BY <1>4, WatcherDoneInv, UiDoneInv
<1>5. CASE \E j \in Job : Clear(j) \/ Start(j) \/ Publish(j)
  BY <1>5, ClearInv, StartInv, PublishInv
<1>6. CASE \E k \in Keys : MutationBegin(k) \/ MutationEnd(k)
  BY <1>6, MutationBeginInv, MutationEndInv
<1>7. CASE Shutdown
  BY <1>7, ShutdownInv
<1>8. QED BY <1>1, <1>2, <1>3, <1>4, <1>5, <1>6, <1>7 DEF Next

LEMMA InvAlways == Spec => []Inv
  BY InitInv, NextInv, PTL DEF Spec

LEMMA TypeFromInv == Inv => TypeOK
<1> SUFFICES ASSUME Inv PROVE TypeOK
  OBVIOUS
<1>1. job \in [Job -> JobType]
  BY DEF Inv, Books, JobBook
<1>2. sess \in [Session -> SessionType] /\ \A s \in Session : sess[s].auto # Overflow
  BY InvFacts
<1>3. sess \in [Session ->
          [at : {"new", "open", "cancelled"}, req : {"none", "queued", "got", "waiting"},
           got : Job \cup {0}, active : Job \cup {0}, cut : BOOLEAN, auto : Job \cup {0},
           evaluated : BOOLEAN, pending : BOOLEAN, join : Job \cup {0}, watch : BOOLEAN]]
  <2>1. ASSUME NEW s \in Session
        PROVE  sess[s] \in
          [at : {"new", "open", "cancelled"}, req : {"none", "queued", "got", "waiting"},
           got : Job \cup {0}, active : Job \cup {0}, cut : BOOLEAN, auto : Job \cup {0},
           evaluated : BOOLEAN, pending : BOOLEAN, join : Job \cup {0}, watch : BOOLEAN]
    BY <1>2 DEF SessionType
  <2>2. QED BY <1>2, <2>1
<1>4. owners \in [Session -> SUBSET Job] /\ {callback, ui} \subseteq Job \cup {0}
  BY InvFacts
<1>5. mutations \subseteq Keys /\ db \subseteq Project /\ stopping \in BOOLEAN
  BY DEF Inv
<1>6. job \in [Job -> [at : {"none", "linked", "cleared", "running", "terminal"},
                        project : Project \cup {Star}, subs : Nat, waiter : BOOLEAN,
                        cancel : BOOLEAN]]
  BY <1>1 DEF JobType
<1>7. QED BY <1>3, <1>4, <1>5, <1>6 DEF TypeOK

LEMMA ReferencedFromInv == Inv => Referenced
<1> SUFFICES ASSUME Inv, NEW j \in Job
             PROVE  /\ job[j].subs = Cardinality(Uses(j))
                    /\ job[j].waiter <=> callback = j
                    /\ job[j].at = "none" => Uses(j) = {} /\ callback # j
  BY DEF Referenced
<1>1. JobBook(job, Uses2(sess, owners, ui), callback, mutations)
  BY DEF Inv, Books
<1>2. job[j].subs = Uses2(sess, owners, ui)[j] /\ (job[j].waiter <=> callback = j)
  BY <1>1 DEF JobBook, Counted
<1>3. Uses(j) = Links(sess, owners, ui, j)
  BY LinksUses
<1>4. job[j].at = "none" => Uses2(sess, owners, ui)[j] = 0 /\ callback # j
  BY <1>1, NoneUnused
<1>5. QED BY <1>2, <1>3, <1>4, NoLinks DEF Uses2

LEMMA DisciplinedFromInv == Inv => Disciplined
<1> SUFFICES ASSUME Inv PROVE Disciplined
  OBVIOUS
<1>1. OnePerProject(job) /\ Limited(job) /\ Wanted(job) /\ Apart(job, mutations)
  BY DEF Inv, Books, JobBook
<1>2. ASSUME NEW p \in Project PROVE Cardinality(Of(job, p)) <= 1
  <2>1. CASE Of(job, p) = {}
    BY <2>1, FS_EmptySet
  <2>2. CASE Of(job, p) # {}
    <3>1. PICK j \in Of(job, p) : TRUE
      BY <2>2
    <3>2. Of(job, p) = {j}
      BY <1>1, <3>1 DEF OnePerProject, Of
    <3>3. QED BY <3>2, FS_Singleton
  <2>3. QED BY <2>1, <2>2
<1>3. QED BY <1>1, <1>2 DEF Disciplined, Limited, Wanted, Apart, Ahead

\* The types, and no job beyond the bound after a step.
THEOREM TypeCorrect == Spec => []TypeOK
  BY InvAlways, TypeFromInv, PTL

\* The subscriber count of a job is the number of references to it, after any
\* number of requests, cancellations, callbacks, refreshed watches and
\* publications (whose walks visit the sessions in any order): a job is not
\* freed while it is referred to (application_job_unsubscribe_locked and
\* application_jobs_reap_completed).
THEOREM ReferencedAlways == Spec => []Referenced
  BY InvAlways, ReferencedFromInv, PTL

\* No worker runs in a project that a mutation has reserved, no project has two
\* workers, the limit of physical jobs holds, and a job without a subscriber is
\* being cancelled, for any number of sessions, projects and mutations.
THEOREM DisciplinedAlways == Spec => []Disciplined
  BY InvAlways, DisciplinedFromInv, PTL

===============================================================================
