--------------------------- MODULE LinkCheckerProofs ---------------------------
(***************************************************************************)
(* The clones of a site and its link checker, for any number of edits,     *)
(* repairs, resets and checks and any contents of the site.                *)
(*                                                                         *)
(* What was acknowledged is in the clone or on GitHub (KeptInv), and what  *)
(* the clone knows of master GitHub has (MasterInv).  A repair that has    *)
(* met nobody holds the lock (MeetInv), so nothing is edited or pushed     *)
(* between its steps and staging-lite is what it has built (BuiltInv).  A  *)
(* report is right from when it is computed (ReportsInv).                  *)
(***************************************************************************)
EXTENDS LinkChecker, FiniteSetTheorems, TLAPS

\* An acknowledged edit is in the clone or, while there is no whole one, on GitHub.
KeptInv == acked \ dropped \subseteq IF stg.dir = "repo" THEN stg.staging ELSE github.staging

\* What the clone knows of master GitHub has.
MasterInv == stg.origin \subseteq github.master /\ stg.master \subseteq github.master

\* Two repairs at work have met; one that has not still has the lock it took.
AtWork(j) == pc[j] \in Working \cup {"synced"}
Locks(j) == ModeOf[j] # "repair_without_lock" /\ site # "test"
MeetInv ==
  /\ \A j, k \in Repairs : j # k /\ AtWork(j) /\ AtWork(k) => j \in disturbed
  /\ \A j \in Repairs \ disturbed : AtWork(j) /\ Locks(j) => locked
  /\ \A j \in exact : pc[j] \in {"initLite", "pushLite", "synced", "done", "failed"}

\* So the clones are what it has made of them.
BuiltInv ==
  \A j \in exact \ disturbed :
    pc[j] \in {"initLite", "pushLite", "synced"} /\ Locks(j) =>
      /\ owed = {}
      /\ stg.dir = "repo" => stg.staging = github.staging
      /\ lite = IF pc[j] = "initLite" THEN [dir |-> "building", head |-> github.staging]
                ELSE [dir |-> "repo", head |-> github.staging \ Media]
      /\ pc[j] = "synced" => github.lite = lite.head

EfsInv == EfsTypeOK /\ KeptInv /\ MasterInv /\ MeetInv /\ BuiltInv

\* A report, or what is to become one: see ReportIsRight.
Right(r) ==
  r.whole =>
    LET trees == r.of IN
    /\ \A p \in Parsed(Always(trees)) : \A ref \in p.refs :
         ~ref.query /\ (ref.slash \/ ref.external) =>
           /\ Leads(Always(trees), AlwaysNames(trees), ref)
                => \A t \in trees : <<PathInCms(p.file, t.room), ref>> \notin r.links
           /\ ~Leads(Ever(trees), UNION {Names(t) : t \in trees}, ref) /\ p.file \notin r.unread
                => \E t \in trees : <<PathInCms(p.file, t.room), ref>> \in r.links
    /\ \A d \in r.duplicates :
         \E p, q \in Versions(trees) :
           /\ p.file # q.file
           /\ \E l \in p.permalink, m \in q.permalink : l.name = d /\ m.name = d
ReportsInv == Right(report) /\ \A c \in Checks : Right(found[c])

\* A check that is reading has seen the site change a finite number of times.
ShownInv == \A c \in Checks : shown[c] \subseteq Trees \cup {NoFiles} /\ IsFiniteSet(shown[c])

\* The types of what the checker keeps, but for what it has seen.
FilesTypeOK ==
  /\ checkerLock \in BOOLEAN /\ errorLog \in BOOLEAN /\ stuck \in BOOLEAN
  /\ at \in [Checks -> CheckSteps \cup {"idle", "done"}]
  /\ mine \subseteq Checks
  /\ DOMAIN found = Checks
  /\ report.exists \in BOOLEAN /\ report.whole \in BOOLEAN
  /\ \A c \in Checks : found[c].exists \in BOOLEAN /\ found[c].whole \in BOOLEAN
  /\ tail \in [Checks -> SUBSET {"unlock", "log"}]

IInv == EfsInv /\ TypeOK /\ ShownInv /\ LockHasOwner /\ ReportsInv

-----------------------------------------------------------------------------
(* The clones                                                              *)

StgRows == [dir : {"absent", "cloning", "repo", "foreign"}, branch : {"staging", "master"},
            staging : SUBSET Edits, master : SUBSET Edits, hasMaster : BOOLEAN, origin : SUBSET Edits]
LiteRows == [dir : {"absent", "empty", "building", "repo"}, head : SUBSET Edits]

\* The parts of the type, for steps that change few of them.
LEMMA TypeParts ==
  EfsTypeOK <=>
    /\ site \in {"test", "preview", "production"} /\ locked \in BOOLEAN
    /\ github \in [Branches -> SUBSET Edits] /\ stg \in StgRows /\ lite \in LiteRows
    /\ owed \subseteq {"staging", "lite"} /\ pc \in [Jobs -> Working \cup {"idle", "synced", "done", "failed"}]
    /\ exact \subseteq Repairs /\ disturbed \subseteq Repairs /\ acked \subseteq Edits /\ dropped \subseteq Edits
    /\ faults \in 0..MaxFaults
BY DEF EfsTypeOK, StgRows, LiteRows

\* What GitHub holds of a branch.
LEMMA Heads ==
  ASSUME EfsTypeOK
  PROVE  github.staging \subseteq Edits /\ github.lite \subseteq Edits /\ github.master \subseteq Edits
BY DEF EfsTypeOK, Branches

LEMMA Faults ==
  ASSUME EfsTypeOK, Fault \/ UNCHANGED faults
  PROVE  faults' \in 0..MaxFaults
BY EfsReposAssumption DEF EfsTypeOK, Fault

\* A repair that has built staging-lite and met nobody has the lock.
LEMMA BuilderLocks ==
  ASSUME EfsInv, NEW j \in exact \ disturbed, pc[j] \in {"initLite", "pushLite", "synced"}, Locks(j)
  PROVE  locked /\ j \in Repairs /\ AtWork(j) /\ owed = {}
BY DEF EfsInv, EfsTypeOK, MeetInv, BuiltInv, AtWork, Working

\* The repair j goes from one step to another.
LEMMA StepMeets ==
  ASSUME EfsInv, NEW j \in Repairs, AtWork(j), NEW p, pc' = [pc EXCEPT ![j] = p],
         disturbed' = disturbed, site' = site, exact' \subseteq exact \cup {j},
         j \in exact' => p \in {"initLite", "pushLite", "synced", "done", "failed"},
         locked' = locked \/ p \notin Working \cup {"synced"}
  PROVE  MeetInv'
<1>1. pc'[j] = p /\ \A k \in Repairs : k # j => pc'[k] = pc[k]
  BY DEF EfsInv, EfsTypeOK, Jobs
<1>2. exact \subseteq Repairs
  BY DEF EfsInv, EfsTypeOK
<1>3. \A k, l \in Repairs : k # l /\ AtWork(k)' /\ AtWork(l)' => k \in disturbed'
  BY <1>1 DEF EfsInv, MeetInv, AtWork
<1>4. \A k \in Repairs \ disturbed' : AtWork(k)' /\ Locks(k)' => locked'
  BY <1>1 DEF EfsInv, MeetInv, AtWork, Locks
<1>5. \A k \in exact' : pc'[k] \in {"initLite", "pushLite", "synced", "done", "failed"}
  BY <1>1, <1>2 DEF EfsInv, MeetInv
<1> QED
  BY <1>3, <1>4, <1>5 DEF MeetInv

LEMMA StepBuilds ==
  ASSUME EfsInv, NEW j \in Repairs, AtWork(j), NEW p, pc' = [pc EXCEPT ![j] = p],
         disturbed' = disturbed, site' = site, exact' \subseteq exact \cup {j},
         j \in exact' \ disturbed /\ p \in {"initLite", "pushLite", "synced"} /\ Locks(j) =>
           /\ owed' = {}
           /\ stg'.dir = "repo" => stg'.staging = github'.staging
           /\ lite' = IF p = "initLite" THEN [dir |-> "building", head |-> github'.staging]
                      ELSE [dir |-> "repo", head |-> github'.staging \ Media]
           /\ p = "synced" => github'.lite = lite'.head
  PROVE  BuiltInv'
<1>1. pc'[j] = p /\ \A k \in Repairs : k # j => pc'[k] = pc[k]
  BY DEF EfsInv, EfsTypeOK, Jobs
<1>2. exact \subseteq Repairs /\ exact' \subseteq Repairs
  BY DEF EfsInv, EfsTypeOK
<1> SUFFICES ASSUME NEW k \in exact' \ disturbed', pc'[k] \in {"initLite", "pushLite", "synced"}, Locks(k)'
             PROVE  /\ owed' = {}
                    /\ stg'.dir = "repo" => stg'.staging = github'.staging
                    /\ lite' = IF pc'[k] = "initLite" THEN [dir |-> "building", head |-> github'.staging]
                               ELSE [dir |-> "repo", head |-> github'.staging \ Media]
                    /\ pc'[k] = "synced" => github'.lite = lite'.head
  BY DEF BuiltInv
<1>3. CASE k = j
  <2>1. Locks(j)
    BY <1>3 DEF Locks
  <2> QED
    BY <1>1, <1>3, <2>1
<1>4. CASE k # j
  <2>1. k \in Repairs /\ AtWork(k)
    BY <1>1, <1>2, <1>4 DEF AtWork, Working
  <2>2. k \in disturbed
    BY <1>4, <2>1 DEF EfsInv, MeetInv
  <2> QED
    BY <2>2
<1> QED
  BY <1>3, <1>4

\* No job moves and nothing is built.
LEMMA QuietMeets ==
  ASSUME EfsInv, UNCHANGED <<site, locked, pc, exact, disturbed>>
  PROVE  MeetInv'
BY DEF EfsInv, MeetInv, AtWork, Locks

LEMMA QuietBuilds ==
  ASSUME EfsInv, UNCHANGED <<site, pc, exact, disturbed>>,
         \/ ~locked \/ owed # {}
         \/ /\ UNCHANGED <<github, lite, owed>>
            /\ stg'.dir = "repo" => \/ stg.dir = "repo" /\ stg'.staging = stg.staging
                                    \/ stg'.staging = github.staging
  PROVE  BuiltInv'
<1> SUFFICES ASSUME NEW k \in exact \ disturbed, pc[k] \in {"initLite", "pushLite", "synced"}, Locks(k)
             PROVE  /\ owed' = {}
                    /\ stg'.dir = "repo" => stg'.staging = github'.staging
                    /\ lite' = IF pc[k] = "initLite" THEN [dir |-> "building", head |-> github'.staging]
                               ELSE [dir |-> "repo", head |-> github'.staging \ Media]
                    /\ pc[k] = "synced" => github'.lite = lite'.head
  BY DEF BuiltInv, Locks
<1>1. locked /\ owed = {}
  BY BuilderLocks
<1> QED
  BY <1>1 DEF EfsInv, BuiltInv

\* The staging clone is made, removed or brought up to date.
LEMMA CloneKeeps ==
  ASSUME EfsInv, UNCHANGED <<site, locked, github, lite, owed, pc, acked, exact, disturbed>>,
         stg' \in StgRows, dropped' \subseteq Edits, Fault \/ UNCHANGED faults,
         stg'.origin \subseteq github.master, stg'.master \subseteq github.master, KeptInv',
         stg'.dir = "repo" => \/ stg.dir = "repo" /\ stg'.staging = stg.staging
                              \/ stg'.staging = github.staging
  PROVE  EfsInv'
<1>1. EfsTypeOK'
  BY TypeParts, Faults DEF EfsInv, EfsTypeOK, StgRows
<1>2. MasterInv'
  BY DEF MasterInv
<1>3. MeetInv' /\ BuiltInv'
  BY QuietMeets, QuietBuilds
<1> QED
  BY <1>1, <1>2, <1>3 DEF EfsInv

-----------------------------------------------------------------------------
(* Beside the jobs                                                         *)

\* An edit is made while nothing is locked: nobody is building who has met nobody.
LEMMA EditKeeps ==
  ASSUME EfsInv, NEW e \in Edits, Edit(e)
  PROVE  EfsInv'
<1> DEFINE next == [EnsureCorrectBranch(stg, "staging") EXCEPT !.staging = @ \cup {e}]
           grown == [lite EXCEPT !.head = @ \cup {e}]
<1>0. EfsTypeOK /\ KeptInv /\ MasterInv /\ stg \in StgRows /\ lite \in LiteRows
  BY TypeParts DEF EfsInv
<1>1. /\ ~locked /\ stg.dir = "repo" /\ stg' = next /\ lite' \in {lite, grown}
      /\ owed' \subseteq owed \cup {"staging", "lite"} /\ acked' = acked \cup {e}
      /\ UNCHANGED <<site, locked, github, pc, dropped, exact, disturbed, faults>>
  BY DEF Edit
<1>2. /\ next \in StgRows /\ next.dir = "repo" /\ next.staging = stg.staging \cup {e}
      /\ next.master = stg.master /\ next.origin = stg.origin
  BY <1>0, <1>1 DEF EnsureCorrectBranch, StgRows
<1>3. grown \in LiteRows
  BY <1>0 DEF LiteRows
<1> HIDE DEF next, grown
<1>4. EfsTypeOK'
  BY <1>0, <1>1, <1>2, <1>3, TypeParts DEF EfsTypeOK, StgRows, LiteRows
<1>5. KeptInv' /\ MasterInv'
  BY <1>0, <1>1, <1>2 DEF KeptInv, MasterInv
<1>6. MeetInv' /\ BuiltInv'
  BY <1>1, QuietMeets, QuietBuilds
<1> QED
  BY <1>4, <1>5, <1>6 DEF EfsInv

\* A push lands or is lost.
LEMMA PushKeeps ==
  ASSUME EfsInv, NEW b \in {"staging", "lite"}, PushLands(b) \/ PushIsLost(b)
  PROVE  EfsInv'
<1>0. EfsTypeOK /\ KeptInv /\ MasterInv /\ stg \in StgRows /\ lite \in LiteRows
  BY TypeParts DEF EfsInv
<1>1. /\ b \in owed /\ owed' = owed \ {b}
      /\ UNCHANGED <<site, locked, stg, lite, pc, acked, dropped, exact, disturbed>>
      /\ Fault \/ UNCHANGED faults
      /\ \/ github' = github
         \/ HasClone(b) /\ github' = [github EXCEPT ![b] = LocalHead(b)]
  BY DEF PushLands, PushIsLost, history
<1>2. LocalHead(b) \subseteq Edits
  BY <1>0 DEF LocalHead, StgRows, LiteRows
<1>3. /\ github' \in [Branches -> SUBSET Edits] /\ github'.master = github.master
      /\ github'.staging = github.staging \/ stg.dir = "repo"
  BY <1>0, <1>1, <1>2 DEF EfsTypeOK, Branches, HasClone
<1>4. EfsTypeOK'
  <2>1. faults' \in 0..MaxFaults
    BY <1>0, <1>1, Faults
  <2> QED
    BY <1>0, <1>1, <1>3, <2>1 DEF EfsTypeOK
<1>5. KeptInv' /\ MasterInv'
  BY <1>0, <1>1, <1>3 DEF KeptInv, MasterInv
<1>6. MeetInv' /\ BuiltInv'
  BY <1>1, QuietMeets, QuietBuilds
<1> QED
  BY <1>4, <1>5, <1>6 DEF EfsInv

LEMMA MergeKeeps ==
  ASSUME EfsInv, Merge
  PROVE  EfsInv'
<1>0. EfsTypeOK /\ KeptInv /\ MasterInv
  BY DEF EfsInv
<1>1. /\ github' = [github EXCEPT !.master = @ \cup github.staging]
      /\ UNCHANGED <<site, locked, stg, lite, owed, pc, acked, dropped, exact, disturbed, faults>>
  BY DEF Merge, history
<1>2. /\ github' \in [Branches -> SUBSET Edits] /\ github.master \subseteq github'.master
      /\ github'.staging = github.staging /\ github'.lite = github.lite
  BY <1>0, <1>1 DEF EfsTypeOK, Branches
<1>3. EfsTypeOK'
  BY <1>0, <1>1, <1>2 DEF EfsTypeOK
<1>4. KeptInv' /\ MasterInv'
  BY <1>0, <1>1, <1>2 DEF KeptInv, MasterInv
<1>5. MeetInv'
  BY <1>1, QuietMeets
<1>6. BuiltInv'
  BY <1>1, <1>2 DEF EfsInv, BuiltInv, Locks
<1> QED
  BY <1>3, <1>4, <1>5, <1>6 DEF EfsInv

\* A local master is made, and moves, where GitHub's is.
LEMMA Tracked ==
  ASSUME stg \in StgRows, MasterInv
  PROVE  /\ TrackingBranch(stg) \in StgRows /\ TrackingBranch(stg).dir = stg.dir
         /\ TrackingBranch(stg).staging = stg.staging /\ TrackingBranch(stg).origin = stg.origin
         /\ TrackingBranch(stg).master \subseteq github.master
BY DEF TrackingBranch, StgRows, MasterInv

LEMMA FastForwardKeeps ==
  ASSUME EfsInv, FastForwardMaster
  PROVE  EfsInv'
<1> DEFINE repo == TrackingBranch(stg)
           moved == [repo EXCEPT !.master = github.master, !.origin = github.master]
<1>0. EfsTypeOK /\ KeptInv /\ MasterInv /\ stg \in StgRows /\ github.master \subseteq Edits
  BY TypeParts, Heads DEF EfsInv
<1>1. /\ stg' \in {repo, moved} /\ stg.dir = "repo"
      /\ UNCHANGED <<site, locked, github, lite, owed, pc, acked, dropped, exact, disturbed, faults>>
  BY DEF FastForwardMaster, CanCheckout, history
<1>2. /\ repo \in StgRows /\ repo.dir = stg.dir /\ repo.staging = stg.staging
      /\ repo.origin = stg.origin /\ repo.master \subseteq github.master
  BY <1>0, Tracked
<1>3. /\ moved \in StgRows /\ moved.dir = stg.dir /\ moved.staging = stg.staging
      /\ moved.origin = github.master /\ moved.master = github.master
  <2> HIDE DEF repo
  <2> QED
    BY <1>0, <1>2 DEF StgRows
<1> HIDE DEF repo, moved
<1>4. /\ stg' \in StgRows /\ stg'.dir = "repo" /\ stg'.staging = stg.staging
      /\ stg'.origin \subseteq github.master /\ stg'.master \subseteq github.master
  BY <1>0, <1>1, <1>2, <1>3 DEF MasterInv
<1>5. KeptInv'
  BY <1>0, <1>1, <1>4 DEF KeptInv
<1>6. dropped' \subseteq Edits
  BY <1>0, <1>1 DEF EfsTypeOK
<1> QED
  BY <1>1, <1>4, <1>5, <1>6, CloneKeeps

\* The lock expires: whom it kept apart has been met.
LEMMA ExpireKeeps ==
  ASSUME EfsInv, Expire
  PROVE  EfsInv'
<1>0. EfsTypeOK /\ KeptInv /\ MasterInv /\ MeetInv /\ BuiltInv
  BY DEF EfsInv
<1>1. /\ locked' = FALSE
      /\ disturbed' = disturbed \cup {j \in Repairs : AtWork(j) /\ ModeOf[j] # "repair_without_lock"}
      /\ UNCHANGED <<site, github, stg, lite, owed, pc, acked, dropped, exact, faults>>
  BY DEF Expire, AtWork
<1>2. EfsTypeOK'
  BY <1>0, <1>1 DEF EfsTypeOK
<1>3. KeptInv' /\ MasterInv'
  BY <1>0, <1>1 DEF KeptInv, MasterInv
<1>4. MeetInv'
  BY <1>0, <1>1 DEF MeetInv, AtWork, Locks
<1>5. BuiltInv'
  BY <1>0, <1>1 DEF BuiltInv, Locks
<1> QED
  BY <1>2, <1>3, <1>4, <1>5 DEF EfsInv

\* The process dies, and with it who is at work.
LEMMA CrashKeeps ==
  ASSUME EfsInv, Crash
  PROVE  EfsInv'
<1>0. EfsTypeOK /\ KeptInv /\ MasterInv /\ MeetInv
  BY DEF EfsInv
<1>1. /\ Fault /\ owed' = {}
      /\ pc' = [j \in Jobs |-> IF pc[j] \in Working \cup {"synced"} THEN "failed" ELSE pc[j]]
      /\ UNCHANGED <<site, locked, github, stg, lite, acked, dropped, exact, disturbed>>
  BY DEF Crash, history
<1>2. \A j \in Repairs : pc'[j] = IF pc[j] \in Working \cup {"synced"} THEN "failed" ELSE pc[j]
  BY <1>1 DEF Jobs
<1>3. \A j \in Repairs : ~AtWork(j)'
  BY <1>2 DEF AtWork, Working
<1>4. EfsTypeOK'
  <2>1. faults' \in 0..MaxFaults
    BY <1>0, <1>1, Faults
  <2>2. pc' \in [Jobs -> Working \cup {"idle", "synced", "done", "failed"}]
    BY <1>0, <1>1 DEF EfsTypeOK
  <2> QED
    BY <1>0, <1>1, <2>1, <2>2 DEF EfsTypeOK
<1>5. KeptInv' /\ MasterInv'
  BY <1>0, <1>1 DEF KeptInv, MasterInv
<1>6. MeetInv'
  <2>1. \A j \in exact : pc'[j] \in {"initLite", "pushLite", "synced", "done", "failed"}
    BY <1>0, <1>2 DEF MeetInv, EfsTypeOK
  <2> QED
    BY <1>1, <1>3, <2>1 DEF MeetInv
<1>7. BuiltInv'
  BY <1>0, <1>1, <1>3 DEF BuiltInv, AtWork, Working, EfsTypeOK
<1> QED
  BY <1>4, <1>5, <1>6, <1>7 DEF EfsInv

-----------------------------------------------------------------------------
(* Repairs and resets                                                      *)

\* A repair begins, and meets those at work.
LEMMA LockKeeps ==
  ASSUME EfsInv, NEW j \in Repairs, RepairLock(j)
  PROVE  EfsInv'
<1> DEFINE met == {k \in Repairs \ {j} : AtWork(k)}
<1>0. EfsTypeOK /\ KeptInv /\ MasterInv /\ MeetInv /\ BuiltInv
  BY DEF EfsInv
<1>1. PICK p \in {"locked", "done", "failed"} :
        /\ pc' = [pc EXCEPT ![j] = p] /\ locked' \in {locked, TRUE}
        /\ p = "locked" /\ Locks(j) => locked'
  BY DEF RepairLock, Goto, Locks
<1>2. /\ pc[j] = "idle"
      /\ disturbed' = IF met = {} THEN disturbed ELSE disturbed \cup met \cup {j}
      /\ UNCHANGED <<site, github, stg, lite, owed, acked, dropped, exact, faults>>
  BY DEF RepairLock, AtWork
<1>3. pc'[j] = p /\ \A k \in Repairs : k # j => pc'[k] = pc[k]
  BY <1>0, <1>1 DEF EfsTypeOK, Jobs
<1>4. disturbed \subseteq disturbed' /\ disturbed' \subseteq Repairs /\ met \subseteq disturbed'
      /\ (met # {} => j \in disturbed')
  BY <1>0, <1>2 DEF EfsTypeOK
<1>5. j \notin exact
  BY <1>0, <1>2 DEF MeetInv
<1>6. \A k \in Repairs : k # j /\ AtWork(k)' => AtWork(k) /\ k \in met
  BY <1>3 DEF AtWork
<1> HIDE DEF met
<1>7. EfsTypeOK'
  <2>1. pc' \in [Jobs -> Working \cup {"idle", "synced", "done", "failed"}]
    BY <1>0, <1>1 DEF EfsTypeOK, Working
  <2> QED
    BY <1>0, <1>1, <1>2, <1>4, <2>1 DEF EfsTypeOK
<1>8. KeptInv' /\ MasterInv'
  BY <1>0, <1>2 DEF KeptInv, MasterInv
<1>9. MeetInv'
  <2>1. \A k, l \in Repairs : k # l /\ AtWork(k)' /\ AtWork(l)' => k \in disturbed'
    BY <1>4, <1>6
  <2>2. \A k \in Repairs \ disturbed' : AtWork(k)' /\ Locks(k)' => locked'
    <3> SUFFICES ASSUME NEW k \in Repairs \ disturbed', AtWork(k)', Locks(k)'
                 PROVE  locked'
      OBVIOUS
    <3>1. k = j
      BY <1>4, <1>6
    <3> QED
      BY <1>1, <1>2, <1>3, <3>1 DEF AtWork, Working, Locks
  <2>3. \A k \in exact' : pc'[k] \in {"initLite", "pushLite", "synced", "done", "failed"}
    BY <1>0, <1>2, <1>3, <1>5 DEF MeetInv, EfsTypeOK
  <2> QED
    BY <2>1, <2>2, <2>3 DEF MeetInv
<1>10. BuiltInv'
  <2>1. \A k \in exact' \ disturbed' : pc'[k] \notin {"initLite", "pushLite", "synced"}
    <3> SUFFICES ASSUME NEW k \in exact' \ disturbed', pc'[k] \in {"initLite", "pushLite", "synced"}
                 PROVE  FALSE
      OBVIOUS
    <3>1. k \in Repairs /\ k # j
      BY <1>0, <1>2, <1>5 DEF EfsTypeOK
    <3>2. AtWork(k)'
      BY DEF AtWork, Working
    <3> QED
      BY <1>4, <1>6, <3>1, <3>2
  <2> QED
    BY <2>1 DEF BuiltInv
<1> QED
  BY <1>7, <1>8, <1>9, <1>10 DEF EfsInv

\* A step of a repair, on the staging clone or on staging-lite.
LEMMA RepairStep ==
  ASSUME EfsInv, NEW j \in Repairs, AtWork(j), NEW p \in Working \cup {"synced", "done", "failed"},
         pc' = [pc EXCEPT ![j] = p], Fault \/ UNCHANGED faults,
         UNCHANGED <<site, owed, acked, dropped, disturbed>>,
         locked' \in BOOLEAN, locked' = locked \/ p \notin Working \cup {"synced"},
         stg' \in StgRows, stg'.origin \subseteq github.master, stg'.master \subseteq github.master,
         github' \in [Branches -> SUBSET Edits], github'.staging = github.staging, github'.master = github.master,
         lite' \in LiteRows, exact' \subseteq exact \cup {j}, KeptInv',
         j \in exact' => p \in {"initLite", "pushLite", "synced", "done", "failed"},
         j \in exact' \ disturbed /\ p \in {"initLite", "pushLite", "synced"} /\ Locks(j) =>
           /\ owed = {}
           /\ stg'.dir = "repo" => stg'.staging = github.staging
           /\ lite' = IF p = "initLite" THEN [dir |-> "building", head |-> github.staging]
                      ELSE [dir |-> "repo", head |-> github.staging \ Media]
           /\ p = "synced" => github'.lite = lite'.head
  PROVE  EfsInv'
<1>0. EfsTypeOK
  BY DEF EfsInv
<1>1. EfsTypeOK'
  <2>1. faults' \in 0..MaxFaults
    BY <1>0, Faults
  <2>2. pc' \in [Jobs -> Working \cup {"idle", "synced", "done", "failed"}]
    BY <1>0 DEF EfsTypeOK
  <2>3. exact' \subseteq Repairs
    BY <1>0 DEF EfsTypeOK
  <2> QED
    BY <1>0, <2>1, <2>2, <2>3 DEF EfsTypeOK, StgRows, LiteRows
<1>2. MasterInv'
  BY DEF MasterInv
<1>3. MeetInv'
  BY StepMeets
<1>4. BuiltInv'
  BY StepBuilds
<1> QED
  BY <1>1, <1>2, <1>3, <1>4 DEF EfsInv

\* A clone that is gone, or is being made, or is fresh.
LEMMA Clones ==
  ASSUME EfsTypeOK
  PROVE  /\ NoRepo \in StgRows /\ NoRepo.dir = "absent" /\ NoRepo.origin = {} /\ NoRepo.master = {}
         /\ [NoRepo EXCEPT !.dir = "cloning"] \in StgRows /\ [NoRepo EXCEPT !.dir = "cloning"].dir = "cloning"
         /\ [NoRepo EXCEPT !.dir = "cloning"].origin = {} /\ [NoRepo EXCEPT !.dir = "cloning"].master = {}
         /\ FreshClone \in StgRows /\ FreshClone.dir = "repo" /\ FreshClone.staging = github.staging
         /\ FreshClone.origin = github.master /\ FreshClone.master = {}
BY Heads DEF NoRepo, FreshClone, StgRows

LEMMA CloneStepKeeps ==
  ASSUME EfsInv, NEW j \in Repairs, CloneBranch(j) \/ CloneEnds(j)
  PROVE  EfsInv'
<1>0. EfsTypeOK /\ KeptInv /\ MasterInv /\ MeetInv /\ stg \in StgRows /\ lite \in LiteRows
      /\ locked \in BOOLEAN /\ github \in [Branches -> SUBSET Edits]
  BY TypeParts DEF EfsInv
<1>1. /\ pc[j] \in {"locked", "cloning"} /\ AtWork(j) /\ (Fault \/ UNCHANGED faults)
      /\ UNCHANGED <<site, locked, github, lite, owed, acked, dropped, exact, disturbed>>
  BY DEF CloneBranch, CloneEnds, GiveUp, history, AtWork, Working
<1>2. PICK p \in {"cloning", "pull", "failed"} : pc' = [pc EXCEPT ![j] = p]
  BY DEF CloneBranch, CloneEnds, GiveUp, Goto
<1>3. \/ stg' = stg
      \/ stg.dir # "repo" /\ stg' \in {NoRepo, [NoRepo EXCEPT !.dir = "cloning"], FreshClone}
  BY DEF CloneBranch, CloneEnds
<1>4. /\ stg' \in StgRows /\ stg'.origin \subseteq github.master /\ stg'.master \subseteq github.master
      /\ stg' = stg \/ (stg.dir # "repo" /\ (stg'.dir # "repo" \/ stg'.staging = github.staging))
  BY <1>0, <1>3, Clones DEF MasterInv
<1>5. KeptInv'
  BY <1>0, <1>1, <1>4 DEF KeptInv
<1>6. j \notin exact
  BY <1>0, <1>1 DEF MeetInv
<1> QED
  BY <1>0, <1>1, <1>2, <1>4, <1>5, <1>6, RepairStep DEF Working

LEMMA PullKeeps ==
  ASSUME EfsInv, NEW j \in Repairs, Pull(j)
  PROVE  EfsInv'
<1>0. EfsTypeOK /\ KeptInv /\ MasterInv /\ MeetInv /\ stg \in StgRows /\ lite \in LiteRows
      /\ locked \in BOOLEAN /\ github \in [Branches -> SUBSET Edits]
      /\ github.staging \subseteq Edits /\ github.master \subseteq Edits
  BY TypeParts, Heads DEF EfsInv
<1> DEFINE pulled == [EnsureCorrectBranch(stg, "staging") EXCEPT
                        !.staging = stg.staging \cup github.staging, !.origin = github.master]
<1>1. /\ pc[j] = "pull" /\ AtWork(j) /\ (Fault \/ UNCHANGED faults)
      /\ UNCHANGED <<site, locked, github, lite, owed, acked, dropped, exact, disturbed>>
  BY DEF Pull, GiveUp, history, AtWork, Working
<1>2. PICK p \in {"removeLite", "failed"} : pc' = [pc EXCEPT ![j] = p]
  BY DEF Pull, GiveUp, Goto
<1>3. stg' = stg \/ (stg.dir = "repo" /\ stg' = pulled)
  BY DEF Pull, Pulled, CanCheckout
<1>4. /\ pulled \in StgRows /\ pulled.dir = stg.dir /\ pulled.staging = stg.staging \cup github.staging
      /\ pulled.origin = github.master /\ pulled.master = stg.master
  BY <1>0 DEF EnsureCorrectBranch, StgRows
<1> HIDE DEF pulled
<1>5. /\ stg' \in StgRows /\ stg'.origin \subseteq github.master /\ stg'.master \subseteq github.master
  BY <1>0, <1>3, <1>4 DEF MasterInv
<1>6. KeptInv'
  BY <1>0, <1>1, <1>3, <1>4 DEF KeptInv
<1>7. j \notin exact
  BY <1>0, <1>1 DEF MeetInv
<1> QED
  BY <1>0, <1>1, <1>2, <1>5, <1>6, <1>7, RepairStep DEF Working

\* setUpStagingLite, as far as the clone.
LEMMA LiteStepKeeps ==
  ASSUME EfsInv, NEW j \in Repairs, RemoveLite(j) \/ CloneLite(j)
  PROVE  EfsInv'
<1>0. EfsTypeOK /\ KeptInv /\ MasterInv /\ MeetInv /\ stg \in StgRows /\ lite \in LiteRows
      /\ locked \in BOOLEAN /\ github \in [Branches -> SUBSET Edits] /\ github.staging \subseteq Edits
  BY TypeParts, Heads DEF EfsInv
<1>1. /\ pc[j] \in {"removeLite", "cloneLite"} /\ AtWork(j) /\ (Fault \/ UNCHANGED faults)
      /\ UNCHANGED <<site, locked, github, stg, owed, acked, dropped, disturbed>>
  BY DEF RemoveLite, CloneLite, GiveUp, history, AtWork, Working
<1>2. PICK p \in {"cloneLite", "initLite", "failed"} : pc' = [pc EXCEPT ![j] = p]
  BY DEF RemoveLite, CloneLite, GiveUp, Goto
<1>3. j \notin exact
  BY <1>0, <1>1 DEF MeetInv
<1>4. pc'[j] = p
  BY <1>0, <1>2 DEF EfsTypeOK, Jobs
<1>5. \/ exact' = exact /\ (lite' = lite \/ lite' = NoLite \/ lite' = [dir |-> "empty", head |-> {}]
                            \/ lite' = [dir |-> "building", head |-> github.staging])
      \/ /\ lite' = [dir |-> "building", head |-> github.staging] /\ pc' = [pc EXCEPT ![j] = "initLite"]
         /\ exact' = exact \cup {j} /\ github.staging = stg.staging /\ owed = {}
  BY DEF RemoveLite, CloneLite, history, Goto
<1>6. lite' \in LiteRows
  BY <1>0, <1>5 DEF LiteRows, NoLite
<1>7. pc' = [pc EXCEPT ![j] = "initLite"] => p = "initLite"
  BY <1>0, <1>4 DEF EfsTypeOK, Jobs
<1>8. KeptInv' /\ stg'.origin \subseteq github.master /\ stg'.master \subseteq github.master
  BY <1>0, <1>1 DEF KeptInv, MasterInv
<1>9. j \in exact' =>
        /\ p = "initLite" /\ github.staging = stg.staging /\ owed = {}
        /\ lite' = [dir |-> "building", head |-> github.staging]
  BY <1>3, <1>5, <1>7
<1>10. exact' \subseteq exact \cup {j}
  BY <1>5
<1> QED
  BY <1>0, <1>1, <1>2, <1>6, <1>8, <1>9, <1>10, RepairStep DEF Working

\* ... and from there to the end of the repair.
LEMMA BuildStepKeeps ==
  ASSUME EfsInv, NEW j \in Repairs, InitLite(j) \/ PushLite(j) \/ RepairUnlock(j)
  PROVE  EfsInv'
<1>0. EfsTypeOK /\ KeptInv /\ MasterInv /\ BuiltInv /\ stg \in StgRows /\ lite \in LiteRows
      /\ locked \in BOOLEAN /\ github \in [Branches -> SUBSET Edits]
  BY TypeParts DEF EfsInv
<1>1. /\ pc[j] \in {"initLite", "pushLite", "synced"} /\ AtWork(j) /\ (Fault \/ UNCHANGED faults)
      /\ UNCHANGED <<site, stg, owed, acked, dropped, exact, disturbed>>
  BY DEF InitLite, PushLite, RepairUnlock, GiveUp, history, AtWork, Working
<1> DEFINE built == [dir |-> "repo", head |-> InitialCommit(lite.head)]
<1>2. \/ /\ pc[j] = "initLite" /\ pc' = [pc EXCEPT ![j] = "pushLite"] /\ lite' = built
         /\ UNCHANGED <<locked, github>>
      \/ /\ pc[j] = "pushLite" /\ pc' = [pc EXCEPT ![j] = "synced"]
         /\ github' = [github EXCEPT !.lite = lite.head] /\ UNCHANGED <<locked, lite>>
      \/ /\ pc' = [pc EXCEPT ![j] = "done"] /\ locked' \in BOOLEAN /\ UNCHANGED <<github, lite>>
      \/ /\ pc' = [pc EXCEPT ![j] = "failed"] /\ UNCHANGED <<locked, github, lite>>
  BY <1>0 DEF InitLite, PushLite, RepairUnlock, GiveUp, Goto, history
<1>3. lite.head \subseteq Edits /\ InitialCommit(lite.head) = lite.head \ Media
  BY <1>0 DEF LiteRows, InitialCommit
<1>4. built \in LiteRows /\ built.head = lite.head \ Media /\ built.dir = "repo"
  BY <1>3 DEF LiteRows
<1>5. KeptInv /\ stg'.origin \subseteq github.master /\ stg'.master \subseteq github.master
  BY <1>0, <1>1 DEF MasterInv
<1>6. j \in exact \ disturbed /\ Locks(j) =>
        /\ owed = {} /\ (stg.dir = "repo" => stg.staging = github.staging)
        /\ lite = IF pc[j] = "initLite" THEN [dir |-> "building", head |-> github.staging]
                  ELSE [dir |-> "repo", head |-> github.staging \ Media]
  BY <1>0, <1>1 DEF BuiltInv
<1>7. CASE /\ pc[j] = "initLite" /\ pc' = [pc EXCEPT ![j] = "pushLite"] /\ lite' = built
           /\ UNCHANGED <<locked, github>>
  <2>1. KeptInv'
    BY <1>0, <1>1, <1>7 DEF KeptInv
  <2>2. j \in exact \ disturbed /\ Locks(j) => lite' = [dir |-> "repo", head |-> github.staging \ Media]
    BY <1>3, <1>6, <1>7
  <2> HIDE DEF built
  <2> QED
    BY <1>0, <1>1, <1>4, <1>5, <1>6, <1>7, <2>1, <2>2, RepairStep DEF Working
<1>8. CASE /\ pc[j] = "pushLite" /\ pc' = [pc EXCEPT ![j] = "synced"]
           /\ github' = [github EXCEPT !.lite = lite.head] /\ UNCHANGED <<locked, lite>>
  <2>1. /\ github' \in [Branches -> SUBSET Edits] /\ github'.staging = github.staging
        /\ github'.master = github.master /\ github'.lite = lite.head
    BY <1>0, <1>3, <1>8 DEF Branches
  <2>2. KeptInv'
    BY <1>0, <1>1, <2>1 DEF KeptInv
  <2> QED
    BY <1>0, <1>1, <1>5, <1>6, <1>8, <2>1, <2>2, RepairStep
<1>9. CASE /\ pc' = [pc EXCEPT ![j] = "done"] /\ locked' \in BOOLEAN /\ UNCHANGED <<github, lite>>
  <2>1. KeptInv' /\ "done" \notin Working \cup {"synced"}
    BY <1>0, <1>1, <1>9 DEF KeptInv, Working
  <2> QED
    BY <1>0, <1>1, <1>5, <1>9, <2>1, RepairStep
<1>10. CASE /\ pc' = [pc EXCEPT ![j] = "failed"] /\ UNCHANGED <<locked, github, lite>>
  <2>1. KeptInv'
    BY <1>0, <1>1, <1>10 DEF KeptInv
  <2> QED
    BY <1>0, <1>1, <1>5, <1>10, <2>1, RepairStep
<1> QED
  BY <1>2, <1>7, <1>8, <1>9, <1>10

\* A reset, which test sites only have.
LEMMA ResetKeeps ==
  ASSUME EfsInv, NEW j \in Resets, Reset(j)
  PROVE  EfsInv'
<1>0. EfsTypeOK /\ KeptInv /\ MasterInv /\ MeetInv /\ BuiltInv /\ stg \in StgRows
  BY TypeParts DEF EfsInv
<1>1. /\ UNCHANGED <<site, locked, github, lite, acked, exact, disturbed, faults>>
      /\ \/ pc' = [pc EXCEPT ![j] = "done"] /\ site = "test" /\ owed' = owed \cup {"staging"}
         \/ pc' = [pc EXCEPT ![j] = "failed"] /\ owed' = owed
      /\ \/ /\ stg.dir = "repo"
            /\ \E commit \in SUBSET stg.staging :
                 /\ stg' = [EnsureCorrectBranch(stg, "staging") EXCEPT !.staging = commit]
                 /\ dropped' = dropped \cup (stg.staging \ commit)
         \/ UNCHANGED <<stg, dropped>>
      /\ site = "test" \/ UNCHANGED <<stg, dropped, owed>>
  BY DEF Reset, MayReset, CanCheckout, Goto
<1>2. \A k \in Repairs : pc'[k] = pc[k]
  BY <1>0, <1>1, EfsReposAssumption DEF EfsTypeOK, Jobs
<1>3. pc' \in [Jobs -> Working \cup {"idle", "synced", "done", "failed"}]
  BY <1>0, <1>1 DEF EfsTypeOK
<1>4. /\ stg' \in StgRows /\ dropped' \subseteq Edits /\ KeptInv' /\ MasterInv'
  <2>1. ASSUME NEW commit \in SUBSET stg.staging, stg.dir = "repo",
               stg' = [EnsureCorrectBranch(stg, "staging") EXCEPT !.staging = commit],
               dropped' = dropped \cup (stg.staging \ commit)
        PROVE  stg' \in StgRows /\ dropped' \subseteq Edits /\ KeptInv' /\ MasterInv'
    <3>1. /\ stg' \in StgRows /\ stg'.dir = "repo" /\ stg'.staging = commit /\ stg'.master = stg.master
          /\ stg'.origin = stg.origin
      BY <1>0, <2>1 DEF EnsureCorrectBranch, StgRows
    <3>2. dropped' \subseteq Edits
      BY <1>0, <2>1 DEF EfsTypeOK, StgRows
    <3> QED
      BY <1>0, <1>1, <2>1, <3>1, <3>2 DEF KeptInv, MasterInv
  <2>2. CASE UNCHANGED <<stg, dropped>>
    BY <1>0, <1>1, <2>2 DEF KeptInv, MasterInv, EfsTypeOK
  <2> QED
    BY <1>1, <2>1, <2>2
<1>5. EfsTypeOK'
  BY <1>0, <1>1, <1>3, <1>4 DEF EfsTypeOK, StgRows
<1>6. MeetInv'
  BY <1>0, <1>1, <1>2 DEF MeetInv, AtWork, Locks, EfsTypeOK
<1>7. BuiltInv'
  BY <1>0, <1>1, <1>2 DEF BuiltInv, Locks, EfsTypeOK
<1> QED
  BY <1>4, <1>5, <1>6, <1>7 DEF EfsInv

\* All of EfsRepos.
LEMMA EfsKeeps ==
  ASSUME EfsInv, EfsStep
  PROVE  EfsInv'
<1>1. ASSUME NEW j \in Repairs, Repair(j)
      PROVE  EfsInv'
  BY <1>1, LockKeeps, CloneStepKeeps, PullKeeps, LiteStepKeeps, BuildStepKeeps DEF Repair
<1> QED
  BY <1>1, EditKeeps, PushKeeps, MergeKeeps, FastForwardKeeps, ExpireKeeps, ResetKeeps DEF EfsStep

-----------------------------------------------------------------------------
\* What a check reports is what the links of a site lead to.

\* Links are what their four parts are.
LEMMA SameLink ==
  ASSUME NEW l \in Links, NEW m \in Links,
         l.name = m.name, l.slash = m.slash, l.tail = m.tail, l.quoted = m.quoted
  PROVE  l = m
BY DEF Links

\* A permalink, normalised, begins with a slash and has no quotes.
LEMMA Normalised ==
  ASSUME NEW l \in Links
  PROVE  Normalise(l) = [name |-> l.name, slash |-> TRUE, tail |-> l.tail, quoted |-> FALSE]
<1> DEFINE m == [name |-> l.name, slash |-> TRUE, tail |-> l.tail, quoted |-> FALSE]
<1>1. m \in Links /\ m.name = l.name /\ m.slash = TRUE /\ m.tail = l.tail /\ m.quoted = FALSE
  BY DEF Links
<1>2. Normalise(l) \in Links
  BY DEF Normalise, Links
<1>3. /\ Normalise(l).name = l.name /\ Normalise(l).slash = TRUE
      /\ Normalise(l).tail = l.tail /\ Normalise(l).quoted = FALSE
  BY DEF Normalise, Links
<1> HIDE DEF m
<1>4. Normalise(l) = m
  BY <1>1, <1>2, <1>3, SameLink
<1> QED BY <1>4 DEF m

\* What a check can see of the site.
LEMMA SightParts ==
  ASSUME NEW trees \in SUBSET (Trees \cup {NoFiles})
  PROVE  /\ \A t \in trees : /\ t.pages \subseteq Pages /\ IsFiniteSet(t.pages)
                             /\ \A p, q \in t.pages : p.file = q.file => p = q
         /\ Versions(trees) \subseteq Pages
         /\ \A p \in Versions(trees) : p.permalink \subseteq Links /\ p.refs \subseteq References
<1>1. \A t \in Trees : /\ t.pages \subseteq Pages /\ IsFiniteSet(t.pages)
                       /\ \A p, q \in t.pages : p.file = q.file => p = q
  BY LinkCheckerAssumption DEF Contents
<1>2. NoFiles.pages = {}
  BY DEF NoFiles
<1>3. \A t \in trees : /\ t.pages \subseteq Pages /\ IsFiniteSet(t.pages)
                       /\ \A p, q \in t.pages : p.file = q.file => p = q
  BY <1>1, <1>2, FS_EmptySet
<1>4. Versions(trees) \subseteq Pages
  BY <1>3 DEF Versions
<1> QED BY <1>3, <1>4 DEF Pages

\* A finite number of trees has a finite number of pages.
LEMMA FewVersions ==
  ASSUME NEW trees \in SUBSET (Trees \cup {NoFiles}), IsFiniteSet(trees)
  PROVE  IsFiniteSet(Versions(trees))
<1> DEFINE books == {t.pages : t \in trees}
           of == [t \in trees |-> t.pages]
<1>1. of \in Surjection(trees, books)
  BY DEF Surjection
<1>2. \A b \in books : IsFiniteSet(b)
  BY SightParts
<1> HIDE DEF of
<1>3. IsFiniteSet(books)
  BY <1>1, FS_Surjection
<1> HIDE DEF books
<1>4. IsFiniteSet(UNION books)
  BY <1>2, <1>3, FS_UNION
<1> QED BY <1>4 DEF Versions, books

\* The permalinks among which a reference is looked for.
AllPaths(pages, room, media) == Permalinks(pages, room) \cup {Plain(m) : m \in media}
OtherNames(room, media) == media \cup ({room} \ {"none"})
LinksOf(pages) == UNION {p.permalink : p \in pages}

\* Which paths there are.
LEMMA PathsOf ==
  ASSUME NEW pages \in SUBSET Pages, NEW room, NEW media, NEW n, NEW s \in BOOLEAN, NEW e \in BOOLEAN
  PROVE  [name |-> n, slash |-> s, tail |-> e, quoted |-> FALSE] \in AllPaths(pages, room, media) <=>
           /\ s = TRUE
           /\ \/ \E l \in LinksOf(pages) : l.name = n /\ l.tail = e
              \/ e = FALSE /\ n \in OtherNames(room, media)
<1> DEFINE path == [name |-> n, slash |-> s, tail |-> e, quoted |-> FALSE]
<1>0. LinksOf(pages) \subseteq Links
  BY DEF LinksOf, Pages
<1>1. \A l \in LinksOf(pages) : path = Normalise(l) <=> s = TRUE /\ l.name = n /\ l.tail = e
  <2> TAKE l \in LinksOf(pages)
  <2>1. l \in Links
    BY <1>0
  <2>2. Normalise(l) = [name |-> l.name, slash |-> TRUE, tail |-> l.tail, quoted |-> FALSE]
    BY <2>1, Normalised
  <2>3. \A a, b : path = [name |-> a, slash |-> TRUE, tail |-> b, quoted |-> FALSE]
                    <=> s = TRUE /\ a = n /\ b = e
    OBVIOUS
  <2> HIDE DEF path
  <2> QED BY <2>2, <2>3
<1>2. \A m : path = Plain(m) <=> s = TRUE /\ e = FALSE /\ m = n
  BY DEF Plain
<1> HIDE DEF path
<1>3. path \in AllPaths(pages, room, media) <=>
        \/ \E l \in LinksOf(pages) : path = Normalise(l)
        \/ \E m \in OtherNames(room, media) : path = Plain(m)
  BY DEF AllPaths, Permalinks, OtherNames, LinksOf
<1>4. path \in AllPaths(pages, room, media) <=>
        \/ s = TRUE /\ \E l \in LinksOf(pages) : l.name = n /\ l.tail = e
        \/ s = TRUE /\ e = FALSE /\ n \in OtherNames(room, media)
  BY <1>1, <1>2, <1>3
<1> QED BY <1>4 DEF path

\* A reference from the root of the site and without a query string is found exactly if it
\* leads to one of the pages that were read for their permalinks, or one of the other names.
LEMMA ValidMeansLeads ==
  ASSUME NEW pages \in SUBSET Pages, NEW room, NEW media, NEW ref \in References, ~ref.query,
         ref.slash \/ ref.external
  PROVE  HasValidReference(AllPaths(pages, room, media), ref)
           <=> Leads(pages, OtherNames(room, media), ref)
<1> DEFINE paths == AllPaths(pages, room, media)
           asIs == [name |-> ref.name, slash |-> ref.slash, tail |-> ref.tail, quoted |-> FALSE]
           added == [name |-> ref.name, slash |-> ref.slash, tail |-> TRUE, quoted |-> FALSE]
           listed(e) == \E l \in LinksOf(pages) : l.name = ref.name /\ l.tail = e
           other == ref.name \in OtherNames(room, media)
<1>1. /\ ref.slash \in BOOLEAN /\ ref.tail \in BOOLEAN /\ ref.external \in BOOLEAN
      /\ ref.name \in STRING
  BY DEF References
<1>2. asIs \in paths <=> ref.slash = TRUE /\ (listed(ref.tail) \/ (ref.tail = FALSE /\ other))
  <2> DEFINE path(n, s, e) == [name |-> n, slash |-> s, tail |-> e, quoted |-> FALSE] \in paths
             leads(n, s, e) == /\ s = TRUE
                               /\ \/ \E l \in LinksOf(pages) : l.name = n /\ l.tail = e
                                  \/ e = FALSE /\ n \in OtherNames(room, media)
  <2>1. \A s \in BOOLEAN, e \in BOOLEAN : path(ref.name, s, e) <=> leads(ref.name, s, e)
    BY PathsOf
  <2>2. path(ref.name, ref.slash, ref.tail) <=> leads(ref.name, ref.slash, ref.tail)
    <3> HIDE DEF path, leads
    <3> QED BY <1>1, <2>1
  <2> QED BY <2>2
<1>3. added \in paths <=> ref.slash = TRUE /\ listed(TRUE)
  BY <1>1, PathsOf
<1>4. HasValidReference(paths, ref) <=>
        \/ ref.external
        \/ asIs \in paths
        \/ ~ref.tail /\ added \in paths
  <2>1. DecodesTo(ref) = {asIs}
    BY DEF DecodesTo
  <2>2. [asIs EXCEPT !.tail = TRUE] = added
    <3>1. asIs \in Links /\ added \in Links
      BY <1>1 DEF Links
    <3>2. /\ added.name = asIs.name /\ added.slash = asIs.slash
          /\ added.tail = TRUE /\ added.quoted = asIs.quoted
      OBVIOUS
    <3> HIDE DEF asIs, added
    <3>3. [asIs EXCEPT !.tail = TRUE] \in Links
      BY <3>1 DEF Links
    <3>4. LET a == [asIs EXCEPT !.tail = TRUE] IN
            a.name = asIs.name /\ a.slash = asIs.slash /\ a.tail = TRUE /\ a.quoted = asIs.quoted
      BY <3>1 DEF Links
    <3> QED BY <3>1, <3>2, <3>3, <3>4, SameLink
  <2>3. asIs.tail = ref.tail
    OBVIOUS
  <2> HIDE DEF asIs, added, paths
  <2> QED BY <2>1, <2>2, <2>3 DEF HasValidReference, IsExternal
<1>5. Leads(pages, OtherNames(room, media), ref) <=>
        \/ ref.external
        \/ \E l \in LinksOf(pages) : l.name = ref.name /\ (ref.tail => l.tail)
        \/ other /\ ~ref.tail
  BY DEF Leads, LinksOf
<1>6. \A l \in LinksOf(pages) : l.tail \in BOOLEAN
  BY DEF LinksOf, Pages, Links
<1>7. (\E l \in LinksOf(pages) : l.name = ref.name /\ (ref.tail => l.tail))
        <=> listed(TRUE) \/ (ref.tail = FALSE /\ listed(FALSE))
  BY <1>1, <1>6
<1> HIDE DEF asIs, added, listed, other
<1>8. CASE ref.tail = TRUE
  BY <1>1, <1>2, <1>3, <1>4, <1>5, <1>7, <1>8
<1>9. CASE ref.tail = FALSE
  BY <1>1, <1>2, <1>3, <1>4, <1>5, <1>7, <1>9
<1> QED BY <1>1, <1>8, <1>9

\* A permalink is called a duplicate if two of the files that were read have it.
LEMMA DuplicatesAreTwo ==
  ASSUME NEW first \in SUBSET Pages, IsFiniteSet(first),
         \A p, q \in first : p.file = q.file => p = q,
         NEW order \in SetToSeqs(first), NEW d \in DuplicatePermalinks(order)
  PROVE  \E p, q \in first :
           /\ p.file # q.file
           /\ \E l \in p.permalink, m \in q.permalink : l.name = d /\ m.name = d
<1> DEFINE n == Cardinality(first)
<1>1. n \in Nat
  BY FS_CardinalityType
<1>2. order \in [1..n -> first] /\ \A i, k \in 1..n : i # k => order[i] # order[k]
  BY DEF SetToSeqs
<1>3. PICK i \in 1..n : d \in {l.name : l \in order[i].permalink \cap ReadBefore(order, i)}
  BY <1>2 DEF DuplicatePermalinks
<1>4. PICK l \in order[i].permalink : d = l.name /\ l \in ReadBefore(order, i)
  BY <1>3
<1>5. PICK k \in 1..(i - 1) : \E m \in order[k].permalink : l = Normalise(m)
  BY <1>4 DEF ReadBefore
<1>6. PICK m \in order[k].permalink : l = Normalise(m)
  BY <1>5
<1>7. k \in 1..n /\ k # i
  BY <1>1, <1>3, <1>5
<1> HIDE DEF n
<1>8. order[i] \in first /\ order[k] \in first /\ order[i].file # order[k].file
  BY <1>2, <1>3, <1>7
<1>9. m \in Links
  BY <1>6, <1>8 DEF Pages
<1>10. Normalise(m).name = m.name
  BY <1>9, Normalised
<1> QED BY <1>4, <1>6, <1>8, <1>10

\* Wider pages and names lead to more.
LEMMA LeadsGrows ==
  ASSUME NEW ref, NEW few, NEW many, NEW names, NEW more, few \subseteq many, names \subseteq more,
         Leads(few, names, ref)
  PROVE  Leads(many, more, ref)
BY DEF Leads

\* The files of a listing.
FilesOf(places) == {x[1] : x \in places}

\* What a check has read of the site lies between what was there always and what was there
\* at some time.
LEMMA ReadBetween ==
  ASSUME NEW trees \in SUBSET (Trees \cup {NoFiles}),
         NEW places \in Listings(trees), NEW media \in MediaListings(trees), NEW room \in {t.room : t \in trees},
         NEW first \in Readings(trees, FilesOf(places)), ReadsAll(first, FilesOf(places))
  PROVE  /\ Always(trees) \subseteq first /\ first \subseteq Ever(trees)
         /\ AlwaysNames(trees) \subseteq OtherNames(room, media)
         /\ OtherNames(room, media) \subseteq UNION {Names(t) : t \in trees}
<1> DEFINE files == FilesOf(places)
<1>0. PICK u \in trees : room = u.room
  OBVIOUS
<1>1. /\ first \subseteq Versions(trees) /\ \A p \in first : p.file \in files
      /\ \A f \in files : \E p \in first : p.file = f
  BY DEF Readings, ReadsAll
<1>2. ASSUME NEW p \in Always(trees)
      PROVE  p \in first
  <2>1. p \in Versions(trees) /\ \A t \in trees : p \in t.pages /\ Listed(t, p.file)
    BY <1>2 DEF Always
  <2>2. \A t \in trees : HasFile(t, p.file) /\ Listed(t, p.file)
    BY <2>1 DEF HasFile
  <2>3. p.file \in files
    BY <2>1, <2>2 DEF Listings, FilesOf
  <2>4. PICK q \in first : q.file = p.file
    BY <1>1, <2>3
  <2>5. PICK t \in trees : q \in t.pages
    BY <1>1, <2>4 DEF Versions
  <2>6. q = p
    BY <2>1, <2>4, <2>5, SightParts
  <2> QED BY <2>4, <2>6
<1>3. ASSUME NEW p \in first
      PROVE  p \in Ever(trees)
  <2>1. PICK x \in places : x[1] = p.file
    BY <1>1, <1>3 DEF FilesOf
  <2>2. x \in Places(trees)
    BY <2>1 DEF Listings
  <2>3. PICK t \in trees, q \in Versions(trees) : Listed(t, q.file) /\ x = <<q.file, PathInCms(q.file, t.room)>>
    BY <2>2 DEF Places
  <2>4. Listed(t, p.file)
    BY <2>1, <2>3
  <2> QED BY <1>1, <1>3, <2>4 DEF Ever
<1>4. AlwaysNames(trees) \subseteq OtherNames(room, media)
  <2>1. /\ media \subseteq UNION {t.media : t \in trees}
        /\ \A m \in UNION {t.media : t \in trees} : (\A t \in trees : m \in t.media) => m \in media
    BY DEF MediaListings
  <2> SUFFICES ASSUME NEW n \in AlwaysNames(trees) PROVE n \in OtherNames(room, media)
    OBVIOUS
  <2>2. CASE \A t \in trees : n \in t.media
    BY <1>0, <2>1, <2>2 DEF OtherNames
  <2>3. CASE \A t \in trees : n = t.room /\ n # "none"
    BY <1>0, <2>3 DEF OtherNames
  <2> QED BY <2>2, <2>3 DEF AlwaysNames
<1>5. OtherNames(room, media) \subseteq UNION {Names(t) : t \in trees}
  BY <1>0 DEF OtherNames, Names, MediaListings
<1> QED BY <1>2, <1>3, <1>4, <1>5

\* So what a check finds is right, whatever order it reads in and whatever changes meanwhile.
LEMMA FoundIsRight ==
  ASSUME NEW trees \in SUBSET (Trees \cup {NoFiles}), IsFiniteSet(trees), NEW unread,
         NEW places \in Listings(trees), NEW media \in MediaListings(trees), NEW room \in {t.room : t \in trees},
         NEW first \in Readings(trees, FilesOf(places)), ReadsAll(first, FilesOf(places)),
         NEW pages \in Readings(trees, FilesOf(places) \ unread),
         ReadsAll(pages, {f \in FilesOf(places) \ unread : \A t \in trees : HasFile(t, f)}),
         NEW order \in SetToSeqs(first)
  PROVE  Right(Report(trees, unread, BrokenReferences(places, AllPaths(first, room, media), pages),
                      DuplicatePermalinks(order)))
<1> DEFINE paths == AllPaths(first, room, media)
           names == OtherNames(room, media)
           broken == BrokenReferences(places, paths, pages)
           r == Report(trees, unread, broken, DuplicatePermalinks(order))
<1>1. /\ Always(trees) \subseteq first /\ first \subseteq Ever(trees)
      /\ AlwaysNames(trees) \subseteq names /\ names \subseteq UNION {Names(t) : t \in trees}
  BY ReadBetween
<1>2. first \subseteq Versions(trees) /\ \A p, q \in first : p.file = q.file => p = q
  BY DEF Readings
<1>3. first \subseteq Pages /\ IsFiniteSet(first)
  BY <1>2, SightParts, FewVersions, FS_Subset
<1>4. \A y : y \in broken <=>
        \E x \in places, p \in Parsed(pages), ref \in References :
          /\ x[1] = p.file /\ ref \in p.refs /\ ~HasValidReference(paths, ref) /\ y = <<x[2], ref>>
  <2>1. \A p \in Parsed(pages) : p.refs \subseteq References
    BY SightParts DEF Parsed, Readings
  <2> DEFINE hits(a, p) == {<<a[2], ref>> : ref \in {ref \in p.refs : ~HasValidReference(paths, ref)}}
             pairs == {x \in places \X Parsed(pages) : x[1][1] = x[2].file}
  <2>2. broken = UNION {hits(x[1], x[2]) : x \in pairs}
    BY DEF BrokenReferences
  <2>3. \A a, p, y : y \in hits(a, p) <=>
          \E ref \in p.refs : ~HasValidReference(paths, ref) /\ y = <<a[2], ref>>
    OBVIOUS
  <2>4. \A x \in pairs : x[1] \in places /\ x[2] \in Parsed(pages) /\ x[1][1] = x[2].file
    OBVIOUS
  <2>5. \A a \in places, p \in Parsed(pages) : a[1] = p.file =>
          \E x \in pairs : x[1] = a /\ x[2] = p
    <3> TAKE a \in places, p \in Parsed(pages)
    <3> HAVE a[1] = p.file
    <3> WITNESS <<a, p>> \in pairs
    <3> QED OBVIOUS
  <2> HIDE DEF hits, pairs, broken, paths
  <2> SUFFICES ASSUME NEW y
               PROVE  y \in broken <=>
                        \E x \in places, p \in Parsed(pages), ref \in References :
                          /\ x[1] = p.file /\ ref \in p.refs /\ ~HasValidReference(paths, ref)
                          /\ y = <<x[2], ref>>
    OBVIOUS
  <2>6. ASSUME y \in broken
        PROVE  \E x \in places, p \in Parsed(pages), ref \in References :
                 /\ x[1] = p.file /\ ref \in p.refs /\ ~HasValidReference(paths, ref)
                 /\ y = <<x[2], ref>>
    <3>1. PICK x \in pairs : y \in hits(x[1], x[2])
      BY <2>2, <2>6
    <3>2. PICK ref \in x[2].refs : ~HasValidReference(paths, ref) /\ y = <<x[1][2], ref>>
      BY <2>3, <3>1
    <3> QED BY <2>1, <2>4, <3>2
  <2>7. ASSUME NEW a \in places, NEW p \in Parsed(pages), NEW ref \in References,
               a[1] = p.file, ref \in p.refs, ~HasValidReference(paths, ref), y = <<a[2], ref>>
        PROVE  y \in broken
    <3>1. PICK x \in pairs : x[1] = a /\ x[2] = p
      BY <2>5, <2>7
    <3>2. y \in hits(x[1], x[2])
      BY <2>3, <2>7, <3>1
    <3> QED BY <2>2, <3>2
  <2> QED BY <2>6, <2>7
<1>5. ASSUME NEW p \in Parsed(Always(trees)), NEW ref \in p.refs, ~ref.query, ref.slash \/ ref.external
      PROVE  /\ Leads(Always(trees), AlwaysNames(trees), ref)
                  => \A t \in trees : <<PathInCms(p.file, t.room), ref>> \notin broken
             /\ ~Leads(Ever(trees), UNION {Names(t) : t \in trees}, ref) /\ p.file \notin unread
                  => \E t \in trees : <<PathInCms(p.file, t.room), ref>> \in broken
  <2>1. /\ p \in Versions(trees) /\ p.permalink # {} /\ ref \in References
        /\ \A t \in trees : p \in t.pages /\ Listed(t, p.file)
    <3>1. p \in Always(trees) /\ p.permalink # {}
      BY <1>5 DEF Parsed
    <3>2. p \in Versions(trees) /\ \A t \in trees : p \in t.pages /\ Listed(t, p.file)
      BY <3>1 DEF Always
    <3> QED BY <1>5, <3>1, <3>2, SightParts
  <2>2. HasValidReference(paths, ref) <=> Leads(first, names, ref)
    BY <1>3, <1>5, <2>1, ValidMeansLeads
  <2>3. ASSUME Leads(Always(trees), AlwaysNames(trees), ref)
        PROVE  \A a : <<a, ref>> \notin broken
    <3>1. HasValidReference(paths, ref)
      BY <1>1, <2>2, <2>3, LeadsGrows
    <3> HIDE DEF paths, broken
    <3> QED BY <1>4, <3>1
  <2>4. ASSUME ~Leads(Ever(trees), UNION {Names(t) : t \in trees}, ref), p.file \notin unread
        PROVE  \E t \in trees : <<PathInCms(p.file, t.room), ref>> \in broken
    <3>1. ~HasValidReference(paths, ref)
      BY <1>1, <2>2, <2>4, LeadsGrows
    <3>2. \A t \in trees : HasFile(t, p.file) /\ Listed(t, p.file)
      BY <2>1 DEF HasFile
    <3>3. PICK x \in places : x[1] = p.file
      BY <2>1, <3>2 DEF Listings
    <3>4. PICK q \in pages : q.file = p.file
      BY <2>4, <3>2, <3>3 DEF ReadsAll, FilesOf
    <3>5. PICK u \in trees : q \in u.pages
      BY <3>4 DEF Readings, Versions
    <3>6. q = p
      BY <2>1, <3>4, <3>5, SightParts
    <3>7. p \in Parsed(pages)
      BY <2>1, <3>4, <3>6 DEF Parsed
    <3>8. PICK t \in trees, v \in Versions(trees) :
                 Listed(t, v.file) /\ x = <<v.file, PathInCms(v.file, t.room)>>
      BY <3>3 DEF Listings, Places
    <3>9. x[2] = PathInCms(p.file, t.room)
      BY <3>3, <3>8
    <3> HIDE DEF paths, broken
    <3> QED BY <1>4, <2>1, <1>5, <3>1, <3>3, <3>7, <3>9
  <2> QED BY <2>3, <2>4
<1>6. \A d \in DuplicatePermalinks(order) :
        \E p, q \in Versions(trees) :
          /\ p.file # q.file
          /\ \E l \in p.permalink, m \in q.permalink : l.name = d /\ m.name = d
  BY <1>2, <1>3, DuplicatesAreTwo
<1>7. /\ r.of = trees /\ r.links = broken /\ r.unread = unread
      /\ r.duplicates = DuplicatePermalinks(order)
  BY DEF Report
<1> HIDE DEF r, broken
<1>8. Right(r)
  BY <1>5, <1>6, <1>7 DEF Right
<1> QED BY <1>8 DEF r, broken

\* Finds finds such a report.
LEMMA FindsRight ==
  ASSUME NEW c \in Checks, NEW trees \in SUBSET (Trees \cup {NoFiles}), IsFiniteSet(trees),
         NEW unread, Finds(c, trees, unread)
  PROVE  \E r : /\ Right(r) /\ r.exists \in BOOLEAN /\ r.whole \in BOOLEAN
                /\ found' = [found EXCEPT ![c] = r]
<1>1. PICK places \in Listings(trees), media \in MediaListings(trees), room \in {t.room : t \in trees} :
        \E first \in Readings(trees, FilesOf(places)),
           pages \in Readings(trees, FilesOf(places) \ unread) :
          /\ ReadsAll(first, FilesOf(places))
          /\ ReadsAll(pages, {f \in FilesOf(places) \ unread : \A t \in trees : HasFile(t, f)})
          /\ \E duplicates \in {DuplicatePermalinks(order) : order \in SetToSeqs(first)} :
               found' = [found EXCEPT ![c] = Report(trees, unread,
                           BrokenReferences(places, AllPaths(first, room, media), pages), duplicates)]
  BY DEF Finds, AllPaths, FilesOf
<1>2. PICK first \in Readings(trees, FilesOf(places)),
           pages \in Readings(trees, FilesOf(places) \ unread) :
          /\ ReadsAll(first, FilesOf(places))
          /\ ReadsAll(pages, {f \in FilesOf(places) \ unread : \A t \in trees : HasFile(t, f)})
          /\ \E duplicates \in {DuplicatePermalinks(order) : order \in SetToSeqs(first)} :
               found' = [found EXCEPT ![c] = Report(trees, unread,
                           BrokenReferences(places, AllPaths(first, room, media), pages), duplicates)]
  BY <1>1
<1>3. PICK order \in SetToSeqs(first) :
        found' = [found EXCEPT ![c] = Report(trees, unread,
                    BrokenReferences(places, AllPaths(first, room, media), pages),
                    DuplicatePermalinks(order))]
  BY <1>2
<1> DEFINE r == Report(trees, unread, BrokenReferences(places, AllPaths(first, room, media), pages),
                       DuplicatePermalinks(order))
<1>4. Right(r)
  BY <1>2, FoundIsRight
<1>5. r.exists = TRUE /\ r.whole = TRUE
  BY DEF Report
<1>6. found' = [found EXCEPT ![c] = r]
  BY <1>3
<1> HIDE DEF r
<1> QED BY <1>4, <1>5, <1>6

\* Where no whole report is nothing is promised.
LEMMA NothingToBeRight ==
  /\ Right(NoReport) /\ NoReport.exists = FALSE /\ NoReport.whole = FALSE
  /\ Right(CutReport) /\ CutReport.exists = TRUE /\ CutReport.whole = FALSE
BY DEF NoReport, CutReport, Right

-----------------------------------------------------------------------------
\* The steps of the checker, for the clones.

\* What leaves the clones and the jobs alone.
LEMMA QuietEfs ==
  ASSUME EfsInv, UNCHANGED efsVars
  PROVE  EfsInv'
BY DEF efsVars, history, EfsInv, EfsTypeOK, Branches, KeptInv, MasterInv, MeetInv, BuiltInv, AtWork,
       Locks, Jobs, Working, Modes

\* A failure that touches no clone.
LEMMA FaultKeeps ==
  ASSUME EfsInv, FaultOnly
  PROVE  EfsInv'
<1>0. stg \in StgRows /\ dropped \subseteq Edits /\ KeptInv /\ MasterInv
  BY TypeParts DEF EfsInv
<1>1. /\ UNCHANGED <<site, locked, github, stg, lite, owed, pc, acked, dropped, exact, disturbed>>
      /\ Fault
  BY DEF FaultOnly, history
<1>2. KeptInv'
  BY <1>0, <1>1 DEF KeptInv
<1> QED BY <1>0, <1>1, <1>2, CloneKeeps DEF MasterInv

\* A clone that nothing is left of but its folder.
LEMMA Wreck ==
  LET wreck == [NoRepo EXCEPT !.dir = "foreign"] IN
  wreck \in StgRows /\ wreck.dir = "foreign" /\ wreck.origin = {} /\ wreck.master = {}
BY DEF NoRepo, StgRows

\* A check makes the clone of a site that has none, and takes it away again with what
\* GitHub has not got.
LEMMA CheckKeeps ==
  ASSUME EfsInv, NEW c \in Checks, Check(c)
  PROVE  EfsInv'
<1>0. /\ stg \in StgRows /\ acked \subseteq Edits /\ dropped \subseteq Edits /\ KeptInv /\ MasterInv
      /\ EfsTypeOK
  BY TypeParts DEF EfsInv
<1>1. CASE UNCHANGED efsVars
  BY <1>1, QuietEfs
<1>2. CASE Cloner(c) \/ ClonerEnds(c)
  <2>1. /\ UNCHANGED <<site, locked, github, lite, owed, pc, acked, dropped, exact, disturbed>>
        /\ Fault \/ UNCHANGED faults
        /\ \/ stg' = stg
           \/ stg.dir # "repo" /\ stg' \in {NoRepo, [NoRepo EXCEPT !.dir = "cloning"], FreshClone}
    BY <1>2 DEF Cloner, ClonerEnds, CloneFailed, IsValidGitRepo, history
  <2>2. /\ stg' \in StgRows /\ stg'.origin \subseteq github.master /\ stg'.master \subseteq github.master
        /\ stg'.dir = "repo" => \/ stg.dir = "repo" /\ stg'.staging = stg.staging
                                \/ stg'.staging = github.staging
        /\ stg.dir = "repo" => stg' = stg
    BY <1>0, <2>1, Clones DEF EfsInv, MasterInv
  <2>3. KeptInv'
    BY <1>0, <2>1, <2>2, Clones DEF EfsInv, KeptInv
  <2> QED BY <1>0, <2>1, <2>2, <2>3, CloneKeeps
<1>3. CASE FaultOnly
  BY <1>3, FaultKeeps
<1>4. CASE Remover(c)
  <2> DEFINE wreck == [NoRepo EXCEPT !.dir = "foreign"]
  <2>1. /\ UNCHANGED <<site, locked, github, lite, owed, pc, acked, exact, disturbed>>
        /\ Fault \/ UNCHANGED faults
        /\ \/ stg' = stg /\ dropped' = dropped
           \/ stg' \in {NoRepo, wreck} /\ dropped' = dropped \cup (stg.staging \ github.staging)
    BY <1>4 DEF Remover
  <2>2. /\ wreck \in StgRows /\ wreck.dir = "foreign" /\ wreck.origin = {} /\ wreck.master = {}
    BY Wreck
  <2> HIDE DEF wreck
  <2>3. /\ stg' \in StgRows /\ dropped' \subseteq Edits
        /\ stg'.origin \subseteq github.master /\ stg'.master \subseteq github.master
        /\ stg'.dir = "repo" => stg' = stg
    BY <1>0, <2>1, <2>2, Clones DEF MasterInv, StgRows
  <2>4. KeptInv'
    <3>1. CASE stg' = stg /\ dropped' = dropped
      BY <1>0, <2>1, <3>1 DEF KeptInv
    <3>2. CASE stg' \in {NoRepo, wreck} /\ dropped' = dropped \cup (stg.staging \ github.staging)
      <4>1. acked \ dropped' \subseteq github.staging
        BY <1>0, <3>2 DEF KeptInv
      <4> QED BY <1>0, <2>1, <2>2, <3>2, <4>1, Clones DEF KeptInv
    <3> QED BY <2>1, <3>1, <3>2
  <2> QED BY <1>0, <2>1, <2>3, <2>4, CloneKeeps
<1>5. UNCHANGED efsVars \/ FaultOnly \/ Cloner(c) \/ ClonerEnds(c) \/ Remover(c)
  BY DEF Check, IsCurrentlyLocked, IsCurrentlyErrored, DeleteErrorLog, CreateLock, Checker, Reporter,
         DeleteLock, TailUnlock, TailLog
<1> QED BY <1>1, <1>2, <1>3, <1>4, <1>5

-----------------------------------------------------------------------------
\* The steps of the checker, for its own files.

\* The check c goes from one step to another, or one of the calls it left behind ends.
LEMMA OwnKeeps ==
  ASSUME FilesTypeOK, LockHasOwner, ReportsInv, NEW c \in Checks,
         NEW p \in CheckSteps \cup {"idle", "done"}, at' = [at EXCEPT ![c] = p],
         NEW calls \in SUBSET {"unlock", "log"}, tail' = [tail EXCEPT ![c] = calls],
         NEW r, Right(r), r.exists \in BOOLEAN, r.whole \in BOOLEAN,
         found' = found \/ found' = [found EXCEPT ![c] = r],
         report' \in {report, found[c], CutReport},
         checkerLock' \in BOOLEAN, errorLog' \in BOOLEAN, mine' \subseteq Checks,
         stuck' \in BOOLEAN, stuck /\ checkerLock' => stuck',
         checkerLock' => \/ p \in Holding
                         \/ "unlock" \in calls
                         \/ stuck'
                         \/ checkerLock /\ at[c] \notin Holding /\ "unlock" \notin tail[c]
  PROVE  FilesTypeOK' /\ LockHasOwner' /\ ReportsInv'
<1> USE NothingToBeRight
<1>1. FilesTypeOK'
  BY DEF FilesTypeOK
<1>2. at'[c] = p /\ tail'[c] = calls /\ \A d \in Checks \ {c} : at'[d] = at[d] /\ tail'[d] = tail[d]
  BY DEF FilesTypeOK
<1>3. LockHasOwner'
  BY <1>2 DEF LockHasOwner
<1>4. /\ found'[c] = r \/ found'[c] = found[c]
      /\ \A d \in Checks \ {c} : found'[d] = found[d]
  BY DEF FilesTypeOK
<1>5. Right(found'[c]) /\ \A d \in Checks \ {c} : Right(found'[d])
  BY <1>4 DEF ReportsInv
<1>6. Right(report')
  BY DEF ReportsInv
<1>7. ReportsInv'
  <2>1. \A d \in Checks : Right(found'[d])
    BY <1>5
  <2> QED BY <1>6, <2>1 DEF ReportsInv, Right
<1> QED BY <1>1, <1>3, <1>7

\* A step that neither finds anything nor writes the report.
LEMMA MoveKeeps ==
  ASSUME FilesTypeOK, LockHasOwner, ReportsInv, NEW c \in Checks,
         NEW p \in CheckSteps \cup {"idle", "done"}, at' = [at EXCEPT ![c] = p],
         NEW calls \in SUBSET {"unlock", "log"}, tail' = [tail EXCEPT ![c] = calls],
         UNCHANGED <<report, found>>, checkerLock' \in BOOLEAN, errorLog' \in BOOLEAN,
         mine' \subseteq Checks, stuck' \in BOOLEAN, stuck /\ checkerLock' => stuck',
         checkerLock' => \/ p \in Holding
                         \/ "unlock" \in calls
                         \/ stuck'
                         \/ checkerLock /\ at[c] \notin Holding /\ "unlock" \notin tail[c]
  PROVE  FilesTypeOK' /\ LockHasOwner' /\ ReportsInv'
<1>1. Right(found[c]) /\ found[c].exists \in BOOLEAN /\ found[c].whole \in BOOLEAN
  BY DEF ReportsInv, FilesTypeOK
<1> HIDE DEF Right
<1> QED BY <1>1, OwnKeeps

\* What any step of a check starts from.
LEMMA Own ==
  ASSUME FilesTypeOK, NEW c \in Checks
  PROVE  /\ checkerLock \in BOOLEAN /\ errorLog \in BOOLEAN /\ stuck \in BOOLEAN /\ mine \subseteq Checks
         /\ tail[c] \in SUBSET {"unlock", "log"} /\ tail = [tail EXCEPT ![c] = tail[c]]
         /\ at[c] \in CheckSteps \cup {"idle", "done"} /\ at = [at EXCEPT ![c] = at[c]]
BY DEF FilesTypeOK

\* A check that ends with an error or with an exception.
LEMMA EndKeeps ==
  ASSUME FilesTypeOK, LockHasOwner, ReportsInv, NEW c \in Checks,
         \/ Failed(c)
         \/ Abandon(c) /\ UNCHANGED tail
         \/ CloneFailed(c),
         checkerLock' \in BOOLEAN, errorLog' = errorLog, mine' \subseteq Checks,
         UNCHANGED <<report, found>>
  PROVE  FilesTypeOK' /\ LockHasOwner' /\ ReportsInv'
<1>1. stuck \in BOOLEAN /\ errorLog \in BOOLEAN /\ "done" \in CheckSteps \cup {"idle", "done"}
      /\ {"unlock", "log"} \in SUBSET {"unlock", "log"} /\ {"log"} \in SUBSET {"unlock", "log"}
  BY Own
<1>2. CASE Failed(c)
  BY <1>1, <1>2, MoveKeeps DEF Failed, To
<1>3. CASE Abandon(c) /\ UNCHANGED tail
  BY <1>1, <1>3, Own, MoveKeeps DEF Abandon, To
<1>4. CASE CloneFailed(c)
  BY <1>1, <1>4, MoveKeeps DEF CloneFailed, Abandon, To
<1> QED BY <1>2, <1>3, <1>4

LEMMA StartKeeps ==
  ASSUME FilesTypeOK, LockHasOwner, ReportsInv, NEW c \in Checks,
         IsCurrentlyLocked(c) \/ IsCurrentlyErrored(c) \/ DeleteErrorLog(c) \/ CreateLock(c)
  PROVE  FilesTypeOK' /\ LockHasOwner' /\ ReportsInv'
<1>1. at[c] \notin Holding /\ mine' = mine /\ UNCHANGED <<report, found, tail>>
  BY DEF IsCurrentlyLocked, IsCurrentlyErrored, DeleteErrorLog, CreateLock, Holding,
         filesVars
<1>0. checkerLock \in BOOLEAN /\ errorLog \in BOOLEAN /\ stuck \in BOOLEAN
  BY Own
<1>2. checkerLock' \in BOOLEAN /\ errorLog' \in BOOLEAN /\ stuck' \in BOOLEAN /\ (stuck => stuck')
  BY <1>0 DEF IsCurrentlyLocked, IsCurrentlyErrored, DeleteErrorLog, CreateLock, Abandon,
             filesVars
<1>3. \E p \in CheckSteps \cup {"idle", "done"} :
        /\ at' = [at EXCEPT ![c] = p]
        /\ checkerLock' => p \in Holding \/ stuck' \/ checkerLock
  BY DEF IsCurrentlyLocked, IsCurrentlyErrored, DeleteErrorLog, CreateLock, Abandon, To, CheckSteps, Holding,
         filesVars
<1>4. PICK p \in CheckSteps \cup {"idle", "done"} :
        /\ at' = [at EXCEPT ![c] = p]
        /\ checkerLock' => p \in Holding \/ stuck' \/ checkerLock
  BY <1>3
<1> QED BY <1>1, <1>2, <1>4, Own, MoveKeeps

LEMMA ClonerKeeps ==
  ASSUME FilesTypeOK, LockHasOwner, ReportsInv, NEW c \in Checks, Cloner(c) \/ ClonerEnds(c)
  PROVE  FilesTypeOK' /\ LockHasOwner' /\ ReportsInv'
<1>1. UNCHANGED <<checkerLock, errorLog, report, found>> /\ mine' \subseteq Checks
  BY Own DEF Cloner, ClonerEnds, filesVars
<1>2. CASE \E p \in {"check", "cloning"} : To(c, p) /\ UNCHANGED <<tail, stuck>>
  <2>1. PICK p \in {"check", "cloning"} : at' = [at EXCEPT ![c] = p]
    BY <1>2 DEF To
  <2>2. p \in Holding /\ p \in CheckSteps \cup {"idle", "done"}
    BY DEF Holding, CheckSteps
  <2>3. /\ checkerLock' \in BOOLEAN /\ errorLog' \in BOOLEAN /\ stuck' \in BOOLEAN
        /\ tail[c] \in SUBSET {"unlock", "log"} /\ tail' = [tail EXCEPT ![c] = tail[c]]
        /\ stuck' = stuck
    BY <1>1, <1>2, Own
  <2> QED BY <1>1, <2>1, <2>2, <2>3, MoveKeeps
<1>3. CASE CloneFailed(c)
  BY <1>1, <1>3, Own, EndKeeps
<1> QED BY <1>2, <1>3 DEF Cloner, ClonerEnds

LEMMA CheckerKeeps ==
  ASSUME FilesTypeOK, ShownInv, LockHasOwner, ReportsInv, NEW c \in Checks, Checker(c)
  PROVE  FilesTypeOK' /\ LockHasOwner' /\ ReportsInv'
<1>1. UNCHANGED <<checkerLock, errorLog, report, mine>> /\ at[c] = "check"
  BY DEF Checker, filesVars
<1>2. CASE (Failed(c) \/ (Abandon(c) /\ UNCHANGED tail)) /\ UNCHANGED found
  BY <1>1, <1>2, Own, EndKeeps
<1>3. CASE To(c, "report") /\ UNCHANGED <<tail, stuck>> /\ \E unread : Finds(c, shown[c], unread)
  <2>1. PICK unread : Finds(c, shown[c], unread)
    BY <1>3
  <2>2. shown[c] \in SUBSET (Trees \cup {NoFiles}) /\ IsFiniteSet(shown[c])
    BY DEF ShownInv
  <2>3. PICK r : /\ Right(r) /\ r.exists \in BOOLEAN /\ r.whole \in BOOLEAN
                 /\ found' = [found EXCEPT ![c] = r]
    BY <2>1, <2>2, FindsRight
  <2>4. at' = [at EXCEPT ![c] = "report"] /\ "report" \in Holding /\ "report" \in CheckSteps
    BY <1>3 DEF To, Holding, CheckSteps
  <2> HIDE DEF Right
  <2> QED BY <1>1, <1>3, <2>3, <2>4, Own, OwnKeeps
<1>4. \/ (Failed(c) \/ (Abandon(c) /\ UNCHANGED tail)) /\ UNCHANGED found
      \/ To(c, "report") /\ UNCHANGED <<tail, stuck>> /\ \E unread : Finds(c, shown[c], unread)
  BY DEF Checker
<1> QED BY <1>2, <1>3, <1>4

LEMMA ReporterKeeps ==
  ASSUME FilesTypeOK, LockHasOwner, ReportsInv, NEW c \in Checks, Reporter(c)
  PROVE  FilesTypeOK' /\ LockHasOwner' /\ ReportsInv'
<1>1. /\ UNCHANGED <<checkerLock, errorLog, mine>>
      /\ found' = [found EXCEPT ![c] = NoReport]
      /\ report' \in {report, found[c], CutReport}
  BY DEF Reporter
<1>2. /\ Right(NoReport) /\ NoReport.exists \in BOOLEAN /\ NoReport.whole \in BOOLEAN
  BY NothingToBeRight
<1>3. CASE UNCHANGED <<tail, stuck>> /\ \E p \in {"remove", "unlock"} : To(c, p)
  <2>1. PICK p \in {"remove", "unlock"} : at' = [at EXCEPT ![c] = p]
    BY <1>3 DEF To
  <2>2. p \in Holding /\ p \in CheckSteps
    BY DEF Holding, CheckSteps
  <2> QED BY <1>1, <1>2, <1>3, <2>1, <2>2, Own, OwnKeeps
<1>4. CASE Failed(c)
  <2>1. at' = [at EXCEPT ![c] = "done"] /\ tail' = [tail EXCEPT ![c] = {"unlock", "log"}] /\ stuck' = stuck
    BY <1>4 DEF Failed, To
  <2>2. {"unlock", "log"} \in SUBSET {"unlock", "log"} /\ "done" \in CheckSteps \cup {"idle", "done"}
    OBVIOUS
  <2> QED BY <1>1, <1>2, <2>1, <2>2, Own, OwnKeeps
<1> QED BY <1>3, <1>4 DEF Reporter

LEMMA RemoverKeeps ==
  ASSUME FilesTypeOK, LockHasOwner, ReportsInv, NEW c \in Checks, Remover(c)
  PROVE  FilesTypeOK' /\ LockHasOwner' /\ ReportsInv'
<1>1. UNCHANGED <<checkerLock, errorLog, report, found, mine>>
  BY DEF Remover, filesVars
<1>2. CASE To(c, "unlock") /\ UNCHANGED <<tail, stuck>>
  <2>1. at' = [at EXCEPT ![c] = "unlock"] /\ "unlock" \in Holding /\ "unlock" \in CheckSteps
    BY <1>2 DEF To, Holding, CheckSteps
  <2> QED BY <1>1, <1>2, <2>1, Own, MoveKeeps
<1>3. CASE Failed(c)
  BY <1>1, <1>3, Own, EndKeeps
<1> QED BY <1>2, <1>3 DEF Remover

LEMMA UnlockKeeps ==
  ASSUME FilesTypeOK, LockHasOwner, ReportsInv, NEW c \in Checks,
         DeleteLock(c) \/ TailUnlock(c) \/ TailLog(c)
  PROVE  FilesTypeOK' /\ LockHasOwner' /\ ReportsInv'
<1>1. /\ checkerLock \in BOOLEAN /\ errorLog \in BOOLEAN /\ stuck \in BOOLEAN /\ mine \subseteq Checks
      /\ tail[c] \in SUBSET {"unlock", "log"} /\ tail = [tail EXCEPT ![c] = tail[c]]
      /\ at[c] \in CheckSteps \cup {"idle", "done"} /\ at = [at EXCEPT ![c] = at[c]]
      /\ tail[c] \ {"unlock"} \in SUBSET {"unlock", "log"} /\ tail[c] \ {"log"} \in SUBSET {"unlock", "log"}
  BY Own
<1>2. CASE DeleteLock(c)
  <2>1. UNCHANGED <<errorLog, report, mine, found>>
    BY <1>2 DEF DeleteLock
  <2>2. CASE Unlinked /\ To(c, "done") /\ UNCHANGED tail
    <3>1. checkerLock' = FALSE /\ stuck' \in BOOLEAN /\ at' = [at EXCEPT ![c] = "done"]
      BY <1>1, <2>2 DEF Unlinked, To
    <3>2. "done" \in CheckSteps \cup {"idle", "done"}
      OBVIOUS
    <3> QED BY <1>1, <2>1, <2>2, <3>1, <3>2, MoveKeeps
  <2>3. CASE Failed(c) /\ UNCHANGED checkerLock
    BY <1>1, <2>1, <2>3, EndKeeps
  <2> QED BY <1>2, <2>2, <2>3 DEF DeleteLock
<1>3. CASE TailUnlock(c)
  <2>1. /\ UNCHANGED <<errorLog, report, at, mine, found>>
        /\ tail' = [tail EXCEPT ![c] = tail[c] \ {"unlock"}]
        /\ checkerLock' \in BOOLEAN /\ stuck' \in BOOLEAN /\ (checkerLock' => stuck')
    BY <1>1, <1>3 DEF TailUnlock, Unlinked
  <2> QED BY <1>1, <2>1, MoveKeeps
<1>4. CASE TailLog(c)
  <2>1. /\ UNCHANGED <<checkerLock, report, at, mine, found, stuck>> /\ errorLog' \in BOOLEAN
        /\ tail' = [tail EXCEPT ![c] = tail[c] \ {"log"}]
    BY <1>1, <1>4 DEF TailLog
  <2>2. "unlock" \in tail[c] => "unlock" \in tail[c] \ {"log"}
    OBVIOUS
  <2> QED BY <1>1, <2>1, <2>2, MoveKeeps
<1> QED BY <1>2, <1>3, <1>4

\* The process dies: the checks that had the lock, or were about to delete it, leave it.
LEMMA DeathKeeps ==
  ASSUME FilesTypeOK, LockHasOwner, ReportsInv, ProcessDies
  PROVE  FilesTypeOK' /\ LockHasOwner' /\ ReportsInv'
<1>1. /\ UNCHANGED <<checkerLock, errorLog, report, mine>>
      /\ at' = [c \in Checks |-> IF at[c] \in CheckSteps THEN "done" ELSE at[c]]
      /\ tail' = [c \in Checks |-> {}]
      /\ found' = [c \in Checks |-> NoReport]
      /\ stuck' = (stuck \/ \E c \in Checks : at[c] \in Holding \/ "unlock" \in tail[c])
  BY DEF ProcessDies, filesVars
<1>2. FilesTypeOK'
  <2>1. at' \in [Checks -> CheckSteps \cup {"idle", "done"}]
    BY <1>1 DEF FilesTypeOK
  <2>2. stuck' \in BOOLEAN
    BY <1>1 DEF FilesTypeOK
  <2> QED BY <1>1, <2>1, <2>2, NothingToBeRight DEF FilesTypeOK
<1>3. LockHasOwner'
  BY <1>1 DEF LockHasOwner
<1>4. ReportsInv'
  <2>1. Right(report') /\ \A c \in Checks : Right(found'[c])
    BY <1>1, NothingToBeRight DEF ReportsInv
  <2> QED BY <2>1 DEF ReportsInv, Right
<1> QED BY <1>2, <1>3, <1>4

\* What a check has seen stays a finite number of trees.
LEMMA WatchedKeeps ==
  ASSUME ShownInv, tree' \in Trees, Watched
  PROVE  /\ shown' \in [Checks -> SUBSET (Trees \cup {NoFiles})]
         /\ ShownInv'
<1>1. Visible' \subseteq Trees \cup {NoFiles} /\ IsFiniteSet(Visible')
  <2>1. Visible' \in {{tree'}, {tree', NoFiles}, {NoFiles}}
    BY DEF Visible
  <2>2. {tree', NoFiles} = {tree'} \cup {NoFiles}
    OBVIOUS
  <2>3. IsFiniteSet({tree'}) /\ IsFiniteSet({NoFiles})
    BY FS_Singleton
  <2>4. IsFiniteSet({tree'} \cup {NoFiles})
    BY <2>3, FS_Union
  <2> QED BY <2>1, <2>2, <2>3, <2>4
<1>2. ASSUME NEW c \in Checks
      PROVE  shown'[c] \subseteq Trees \cup {NoFiles} /\ IsFiniteSet(shown'[c])
  <2>1. shown[c] \subseteq Trees \cup {NoFiles} /\ IsFiniteSet(shown[c])
    BY DEF ShownInv
  <2>2. \/ shown'[c] = {} \/ shown'[c] = Visible' \/ shown'[c] = Visible' \cup shown[c]
    BY DEF Watched
  <2> DEFINE now == Visible'
  <2>3. IsFiniteSet(now)
    BY <1>1
  <2> HIDE DEF now
  <2>4. IsFiniteSet(now \cup shown[c])
    BY <2>1, <2>3, FS_Union
  <2>5. IsFiniteSet({})
    BY FS_EmptySet
  <2> QED BY <1>1, <2>1, <2>2, <2>4, <2>5 DEF now
<1> QED BY <1>2 DEF Watched, ShownInv

-----------------------------------------------------------------------------
\* The whole.

LEMMA InitInv ==
  ASSUME Init
  PROVE  IInv
<1>1. EfsTypeOK
  <2>1. faults \in 0..MaxFaults
    BY EfsReposAssumption DEF Init, EfsInit
  <2>2. stg \in StgRows /\ lite \in LiteRows
    <3>1. NoRepo \in StgRows /\ [NoRepo EXCEPT !.dir = "foreign"] \in StgRows
      BY DEF NoRepo, StgRows
    <3>2. \A b \in {"staging", "master"} :
            [NoRepo EXCEPT !.dir = "repo", !.branch = b, !.hasMaster = (b = "master")] \in StgRows
      BY DEF NoRepo, StgRows
    <3>3. NoLite \in LiteRows /\ [NoLite EXCEPT !.dir = "repo"] \in LiteRows
      BY DEF NoLite, LiteRows
    <3> QED BY <3>1, <3>2, <3>3 DEF Init, EfsInit
  <2> QED BY <2>1, <2>2 DEF Init, EfsInit, EfsTypeOK, Branches, StgRows, LiteRows
<1>2. KeptInv /\ MeetInv /\ BuiltInv
  <2>1. \A j \in Repairs : pc[j] = "idle"
    BY DEF Init, EfsInit, Jobs
  <2> QED BY <2>1 DEF Init, EfsInit, KeptInv, MeetInv, BuiltInv, AtWork, Working
<1>3. MasterInv
  <2>1. /\ NoRepo.origin = {} /\ NoRepo.master = {}
        /\ [NoRepo EXCEPT !.dir = "foreign"].origin = {} /\ [NoRepo EXCEPT !.dir = "foreign"].master = {}
    BY DEF NoRepo
  <2>2. \A b \in {"staging", "master"} :
          LET r == [NoRepo EXCEPT !.dir = "repo", !.branch = b, !.hasMaster = (b = "master")] IN
          r.origin = {} /\ r.master = {}
    BY DEF NoRepo
  <2>3. stg.origin = {} /\ stg.master = {}
    BY <2>1, <2>2 DEF Init, EfsInit
  <2> QED BY <2>3 DEF MasterInv
<1>4. TypeOK
  <2>1. shown \in [Checks -> SUBSET (Trees \cup {NoFiles})]
    BY DEF Init
  <2> QED BY <1>1, <2>1, NothingToBeRight DEF Init, TypeOK
<1>5. LockHasOwner
  BY DEF Init, LockHasOwner
<1>6. ReportsInv
  BY NothingToBeRight DEF Init, ReportsInv
<1>7. ShownInv
  BY FS_EmptySet DEF Init, ShownInv
<1> QED BY <1>1, <1>2, <1>3, <1>4, <1>5, <1>6, <1>7 DEF IInv, EfsInv

\* The type of the whole, from its parts.
LEMMA WholeType ==
  TypeOK <=> /\ EfsTypeOK /\ FilesTypeOK /\ tree \in Trees
             /\ shown \in [Checks -> SUBSET (Trees \cup {NoFiles})]
BY DEF TypeOK, FilesTypeOK

LEMMA NextKeeps ==
  ASSUME IInv, Next
  PROVE  IInv'
<1>0. EfsInv /\ TypeOK /\ FilesTypeOK /\ ShownInv /\ LockHasOwner /\ ReportsInv /\ tree \in Trees
  BY WholeType DEF IInv
<1>1. tree' \in Trees /\ Watched
  BY <1>0 DEF Next, Check, IsCurrentlyLocked, IsCurrentlyErrored, DeleteErrorLog, CreateLock, Cloner,
              ClonerEnds, Checker, Reporter, Remover, DeleteLock, TailUnlock, TailLog, SiteChanges, Trees,
              ProcessDies
<1>2. shown' \in [Checks -> SUBSET (Trees \cup {NoFiles})] /\ ShownInv'
  BY <1>0, <1>1, WatchedKeeps
<1>3. SUFFICES EfsInv' /\ FilesTypeOK' /\ LockHasOwner' /\ ReportsInv'
  <2>1. ASSUME EfsInv', FilesTypeOK', LockHasOwner', ReportsInv'
        PROVE  IInv'
    <3>1. EfsTypeOK'
      BY <2>1 DEF EfsInv
    <3>2. TypeOK'
      BY <1>1, <1>2, <2>1, <3>1 DEF TypeOK, FilesTypeOK
    <3> QED BY <1>2, <2>1, <3>2 DEF IInv
  <2> QED BY <2>1
<1>4. CASE /\ UNCHANGED <<filesVars, at, mine, found, tail, stuck>>
           /\ EfsStep \/ UNCHANGED efsVars
  <2>1. EfsInv'
    BY <1>0, <1>4, EfsKeeps, QuietEfs
  <2>2. UNCHANGED <<checkerLock, errorLog, report, at, mine, found, tail, stuck>>
    BY <1>4 DEF filesVars
  <2>3. FilesTypeOK' /\ LockHasOwner'
    BY <1>0, <2>2 DEF FilesTypeOK, LockHasOwner
  <2>4. ReportsInv'
    <3>1. Right(report') /\ \A c \in Checks : Right(found'[c])
      BY <1>0, <2>2 DEF ReportsInv
    <3> QED BY <3>1 DEF ReportsInv, Right
  <2> QED BY <2>1, <2>3, <2>4
<1>5. ASSUME NEW c \in Checks, Check(c)
      PROVE  EfsInv' /\ FilesTypeOK' /\ LockHasOwner' /\ ReportsInv'
  <2>1. EfsInv'
    BY <1>0, <1>5, CheckKeeps
  <2> HIDE DEF Right
  <2>2. FilesTypeOK' /\ LockHasOwner' /\ ReportsInv'
    BY <1>0, <1>5, StartKeeps, ClonerKeeps, CheckerKeeps, ReporterKeeps, RemoverKeeps, UnlockKeeps
       DEF Check
  <2> QED BY <2>1, <2>2
<1>6. CASE ProcessDies
  <2>1. EfsInv'
    BY <1>0, <1>6, CrashKeeps DEF ProcessDies
  <2> QED BY <1>0, <1>6, <2>1, DeathKeeps
<1> QED BY <1>4, <1>5, <1>6 DEF Next, SiteChanges

LEMMA StepInv ==
  ASSUME IInv, [Next]_vars
  PROVE  IInv'
<1>1. CASE UNCHANGED vars
  <2>1. UNCHANGED efsVars /\ UNCHANGED <<tree, shown, checkerLock, errorLog, report, at, mine, found, tail, stuck>>
    BY <1>1 DEF vars, ownVars, filesVars
  <2>2. EfsInv'
    BY <2>1, QuietEfs DEF IInv
  <2>3. TypeOK'
    BY <2>1, <2>2 DEF IInv, EfsInv, TypeOK
  <2>4. LockHasOwner' /\ ShownInv'
    BY <2>1 DEF IInv, LockHasOwner, ShownInv
  <2>5. ReportsInv'
    <3>1. Right(report') /\ \A c \in Checks : Right(found'[c])
      BY <2>1 DEF IInv, ReportsInv
    <3> QED BY <3>1 DEF ReportsInv, Right
  <2> QED BY <2>2, <2>3, <2>4, <2>5 DEF IInv
<1> QED BY <1>1, NextKeeps

\* What holds of the clones and of the checker at every step, for any number of edits,
\* repairs, resets and checks.
THEOREM Invariance == Spec => []IInv
<1>1. Init => IInv
  BY InitInv
<1>2. IInv /\ [Next]_vars => IInv'
  BY StepInv
<1> QED BY <1>1, <1>2, PTL DEF Spec

\* The variables keep their types.
THEOREM TypeCorrect == Spec => []TypeOK
<1>1. IInv => TypeOK
  BY DEF IInv
<1> QED BY <1>1, Invariance, PTL

\* No repair, merge, fast-forward or check loses an acknowledged edit: a whole staging
\* clone has all of them that were not dropped on purpose.
THEOREM EditsAreKept == Spec => []AckedEditsKept
<1>1. IInv => AckedEditsKept
  BY DEF IInv, EfsInv, KeptInv, AckedEditsKept
<1> QED BY <1>1, Invariance, PTL

\* A repair that nothing met and that reports the site as synced has left staging-lite
\* with what staging has but for the media, in the clone and on GitHub.
THEOREM RepairsSync == Spec => []SyncedMeansSynced
<1>1. IInv => SyncedMeansSynced
  <2> SUFFICES ASSUME IInv, NEW j \in exact \ disturbed, pc[j] = "synced",
                      ModeOf[j] = "repair_with_lock", site # "test", stg.dir = "repo"
               PROVE  lite = [dir |-> "repo", head |-> stg.staging \ Media] /\ github.lite = lite.head
    BY DEF SyncedMeansSynced
  <2>1. BuiltInv /\ Locks(j)
    BY DEF IInv, EfsInv, Locks
  <2> QED BY <2>1 DEF BuiltInv
<1> QED BY <1>1, Invariance, PTL

\* The comparison with the local master shows all of staging that GitHub has not merged.
THEOREM ReviewsAreWhole == Spec => []ReviewHidesNothing
<1>1. IInv => ReviewHidesNothing
  <2> SUFFICES ASSUME IInv PROVE stg.staging \ github.master \subseteq FilesChanged
    BY DEF ReviewHidesNothing
  <2>1. stg \in StgRows /\ MasterInv
    BY TypeParts DEF IInv, EfsInv
  <2>2. TrackingBranch(stg).staging = stg.staging /\ TrackingBranch(stg).master \subseteq github.master
    BY <2>1, Tracked
  <2> QED BY <2>2 DEF FilesChanged
<1> QED BY <1>1, Invariance, PTL

\* The file checker.lock is there only for a check that is at work or about to delete it,
\* unless a check has ended since its last deletion that left it: by a clone that failed,
\* an exception, a write reported as failed, a death, or a deletion that failed last.
THEOREM LocksAreOwned == Spec => []LockHasOwner
<1>1. IInv => LockHasOwner
  BY DEF IInv
<1> QED BY <1>1, Invariance, PTL

\* Though the site changes while a check reads it, the report names no link of a page that
\* stays as it is that leads somewhere all the time, names every one that never leads
\* anywhere, and as duplicates only permalinks that two pages had.
THEOREM ReportsAreRight == Spec => []ReportIsRight
<1>1. IInv => ReportIsRight
  BY DEF IInv, ReportsInv, Right, ReportIsRight
<1> QED BY <1>1, Invariance, PTL
================
