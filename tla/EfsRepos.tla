------------------------------ MODULE EfsRepos -------------------------------
(***************************************************************************)
(* The two clones of a site on the EFS volume as a whole: how they come    *)
(* into being, are repaired, reset and brought up to date with GitHub      *)
(* (GitFileSystemService.clone, cloneBranch, pull, fastForwardMaster,      *)
(* updateRepoState, removeRepo; ReposService.setUpStagingLite; the support *)
(* form handled by formsgGGsRepair.ts).  Single edits are one step here:   *)
(* SiteEdit has their inside.                                              *)
(*                                                                         *)
(* Data.  An edit is an element of Edits and a commit is the set of edits  *)
(* in its history; a fast-forward is set inclusion and a merge is a union. *)
(* staging-lite carries the edits that are not in Media (images/, files/). *)
(***************************************************************************)
EXTENDS Naturals, FiniteSets

CONSTANTS
  Edits,       \* content edits, each saved at most once
  Media,       \* those that touch images/ and files/ only
  Repairs,     \* submissions of the repair form, one site each
  ModeOf,      \* their "Repair mode"
  Resets,      \* POST resetRepo requests
  MaxFaults    \* bound: commands that fail, pushes that are lost

Modes == {"repair_with_lock", "repair_without_lock", "only_lock"}

ASSUME EfsReposAssumption ==
  /\ Media \subseteq Edits
  /\ ModeOf \in [Repairs -> Modes]
  /\ Repairs \cap Resets = {}
  /\ MaxFaults \in Nat

VARIABLES
  site,      \* what kind of site and environment this is; never changes
  locked,    \* the site has an item in the mutex table
  github,    \* heads of staging, staging-lite and master on GitHub
  stg,       \* the clone on the staging volume
  lite,      \* the clone on the staging-lite volume
  owed,      \* branches with a push that has neither landed nor failed
  pc,        \* where each job is
  acked,     \* history: edits whose request was answered with success
  dropped,   \* history: edits removed on purpose, by a reset or by the remover
  exact,     \* history: repairs that rebuilt staging-lite while GitHub had all of staging
  disturbed, \* history: repairs that another job or the expiry of the lock item met at work
  faults

history == <<acked, dropped, exact, disturbed>>
efsVars == <<site, locked, github, stg, lite, owed, pc, history, faults>>

Branches == {"staging", "lite", "master"}
Jobs == Repairs \cup Resets
NoRepo == [dir |-> "absent", branch |-> "staging", staging |-> {}, master |-> {},
           hasMaster |-> FALSE, origin |-> {}]
NoLite == [dir |-> "absent", head |-> {}]
Working == {"locked", "cloning", "pull", "removeLite", "cloneLite", "initLite", "pushLite"}

EfsTypeOK ==
  /\ site \in {"test", "preview", "production"}
  /\ locked \in BOOLEAN
  /\ github \in [Branches -> SUBSET Edits]
  /\ stg \in [dir : {"absent", "cloning", "repo", "foreign"}, branch : {"staging", "master"},
              staging : SUBSET Edits, master : SUBSET Edits, hasMaster : BOOLEAN,
              origin : SUBSET Edits]
  /\ lite \in [dir : {"absent", "empty", "building", "repo"}, head : SUBSET Edits]
  /\ owed \subseteq {"staging", "lite"}
  /\ pc \in [Jobs -> Working \cup {"idle", "synced", "done", "failed"}]
  /\ exact \subseteq Repairs /\ disturbed \subseteq Repairs
  /\ acked \subseteq Edits /\ dropped \subseteq Edits
  /\ faults \in 0..MaxFaults

\* A site before its first edit: its clones may never have been made (the site is not on
\* EFS yet), be a folder that is no git repository, or be whole, with master checked out
\* where the creation of the site stopped half way (modifyDeploymentUrlsOnRepo, step 5).
EfsInit ==
  /\ site \in {"test", "preview", "production"}
  /\ locked = FALSE
  /\ github = [b \in Branches |-> {}]
  /\ \/ stg = NoRepo /\ lite = NoLite
     \/ stg = [NoRepo EXCEPT !.dir = "foreign"] /\ lite = NoLite
     \/ /\ lite = [NoLite EXCEPT !.dir = "repo"]
        /\ \E b \in {"staging", "master"} :
             stg = [NoRepo EXCEPT !.dir = "repo", !.branch = b, !.hasMaster = (b = "master")]
  /\ owed = {}
  /\ pc = [j \in Jobs |-> "idle"]
  /\ acked = {} /\ dropped = {} /\ exact = {} /\ disturbed = {}
  /\ faults = 0

Goto(j, p) == pc' = [pc EXCEPT ![j] = p]
Fault == faults < MaxFaults /\ faults' = faults + 1

\* A command of job j fails: the repair ends with an error, which only its report mentions.
GiveUp(j) == Goto(j, "failed") /\ Fault

-----------------------------------------------------------------------------
\* The checks the file system service makes before it touches a clone.

\* isGitInitialized: git rev-parse in the folder; .git is there as soon as a clone begins.
IsGitInitialized == stg.dir \in {"cloning", "repo"}

\* isOriginRemoteCorrect: git remote get-url origin; set as soon as a clone begins, and
\* a folder that is no repository has none.
IsOriginRemoteCorrect == stg.dir \in {"cloning", "repo"}

\* isValidGitRepo, for a clone of the staging volume.
IsValidGitRepo ==
  /\ stg.dir # "absent"
  /\ IsGitInitialized
  /\ IsOriginRemoteCorrect

\* isLocalBranchPresent(repo, "master")
IsLocalMasterPresent == stg.hasMaster

\* ensureCorrectBranch: the clone with branch b checked out; the checkout of a clone that
\* is still being made fails.
CanCheckout == stg.dir = "repo"
EnsureCorrectBranch(repo, b) == [repo EXCEPT !.branch = b]

\* Mutation: the branch is made to track origin/staging.
BugTrackingBranch(repo) ==
  IF repo.hasMaster THEN repo ELSE [repo EXCEPT !.hasMaster = TRUE, !.master = repo.staging]

\* createLocalTrackingBranchIfNotExists(repo, "master"): git branch --track master
\* origin/master, the remote head as of the last clone or fetch.
TrackingBranch(repo) ==
  IF repo.hasMaster THEN repo ELSE [repo EXCEPT !.hasMaster = TRUE, !.master = repo.origin]

-----------------------------------------------------------------------------
\* What goes on beside the jobs.

\* A content edit under the lock of its site: it needs both clones, commits on staging
\* and, unless it is a media file, on staging-lite; its pushes are awaited by nobody.
Edit(e) ==
  /\ ~locked
  /\ e \notin acked
  /\ stg.dir = "repo" /\ lite.dir = "repo"
  /\ stg' = [EnsureCorrectBranch(stg, "staging") EXCEPT !.staging = @ \cup {e}]
  /\ lite' = IF e \in Media THEN lite ELSE [lite EXCEPT !.head = @ \cup {e}]
  /\ owed' = owed \cup (IF e \in Media THEN {"staging"} ELSE {"staging", "lite"})
  /\ acked' = acked \cup {e}
  /\ UNCHANGED <<site, locked, github, pc, dropped, exact, disturbed, faults>>

LocalHead(b) == IF b = "staging" THEN stg.staging ELSE lite.head
HasClone(b) == IF b = "staging" THEN stg.dir = "repo" ELSE lite.dir = "repo"

\* push: the plain attempts need GitHub to be an ancestor of the clone, the last is by
\* force; whatever the clone holds when git runs is what it sends.
PushLands(b) ==
  /\ b \in owed /\ HasClone(b)
  /\ github' = [github EXCEPT ![b] = LocalHead(b)]
  /\ owed' = owed \ {b}
  /\ UNCHANGED <<site, locked, stg, lite, pc, history, faults>>

PushIsLost(b) ==
  /\ b \in owed
  /\ \/ HasClone(b) /\ Fault
     \/ ~HasClone(b) /\ UNCHANGED faults
  /\ owed' = owed \ {b}
  /\ UNCHANGED <<site, locked, github, stg, lite, pc, history>>

\* A review request is merged on GitHub and mergeReviewRequest fast-forwards the local
\* master, whatever comes of it: git fetch origin master:master refuses to move a branch
\* that is checked out, and the failure is logged and ignored.
Merge ==
  /\ ~(github.staging \subseteq github.master)
  /\ github' = [github EXCEPT !.master = @ \cup github.staging]
  /\ UNCHANGED <<site, locked, stg, lite, owed, pc, history, faults>>

FastForwardMaster ==
  /\ IsValidGitRepo
  /\ CanCheckout
  /\ LET repo == TrackingBranch(stg) IN
     IF repo.branch = "master" \/ ~(repo.master \subseteq github.master)
     THEN stg' = repo
     ELSE stg' = [repo EXCEPT !.master = github.master, !.origin = github.master]
  /\ stg' # stg
  /\ UNCHANGED <<site, locked, github, lite, owed, pc, history, faults>>

\* The Node.js process dies: the jobs are gone, the locks and the folders stay as they are.
Crash ==
  /\ Fault
  /\ pc' = [j \in Jobs |-> IF pc[j] \in Working \cup {"synced"} THEN "failed" ELSE pc[j]]
  /\ owed' = {}
  /\ UNCHANGED <<site, locked, github, stg, lite, history>>

\* DynamoDB deletes the item of the site once it is past its expdate.
Expire ==
  /\ locked
  /\ locked' = FALSE
  /\ disturbed' = disturbed \cup {j \in Repairs : pc[j] \in Working \cup {"synced"}
                                            /\ ModeOf[j] # "repair_without_lock"}
  /\ UNCHANGED <<site, github, stg, lite, owed, pc, acked, dropped, exact, faults>>

-----------------------------------------------------------------------------
\* handleGGsFormSubmission, for one repository of the form.

\* lock(repoName, 15 * 60), left out by one mode and all there is to another.
RepairLock(j) ==
  LET met == {k \in Repairs \ {j} : pc[k] \in Working \cup {"synced"}} IN
  /\ pc[j] = "idle"
  /\ disturbed' = IF met = {} THEN disturbed ELSE disturbed \cup met \cup {j}
  /\ \/ /\ ModeOf[j] = "repair_without_lock" \/ site = "test"
        /\ Goto(j, IF ModeOf[j] = "only_lock" THEN "done" ELSE "locked")
        /\ UNCHANGED locked
     \/ /\ ModeOf[j] # "repair_without_lock" /\ site # "test"
        /\ IF locked
           THEN Goto(j, "failed") /\ UNCHANGED locked
           ELSE /\ locked' = TRUE
                /\ Goto(j, IF ModeOf[j] = "only_lock" THEN "done" ELSE "locked")
  /\ UNCHANGED <<site, github, stg, lite, owed, acked, dropped, exact, faults>>

\* doesRepoNeedClone: true for a repository that is there too, because its own orElse
\* also catches the false it returns for one (so the report names it as cloned).
DoesRepoNeedClone == TRUE

\* cloneBranch(repo, true): a folder that is there is checked, not cloned again.
CloneBranch(j) ==
  /\ pc[j] = "locked"
  /\ DoesRepoNeedClone
  /\ \/ /\ stg.dir = "absent"
        /\ stg' = [NoRepo EXCEPT !.dir = "cloning"]
        /\ Goto(j, "cloning")
     \/ /\ stg.dir # "absent"
        /\ IsGitInitialized /\ IsOriginRemoteCorrect
        /\ Goto(j, "pull")
        /\ UNCHANGED stg
     \/ /\ stg.dir # "absent"
        /\ ~(IsGitInitialized /\ IsOriginRemoteCorrect)
        /\ Goto(j, "failed")
        /\ UNCHANGED stg
  /\ UNCHANGED <<site, locked, github, lite, owed, acked, dropped, exact, disturbed, faults>>

\* git clone ends with staging, the default branch, checked out and no local master.
FreshClone == [dir |-> "repo", branch |-> "staging", staging |-> github.staging,
               master |-> {}, hasMaster |-> FALSE, origin |-> github.master]

CloneEnds(j) ==
  /\ pc[j] = "cloning"
  /\ \/ /\ stg.dir = "cloning"
        /\ stg' = FreshClone
        /\ Goto(j, "pull")
        /\ UNCHANGED faults
     \/ /\ stg' = IF stg.dir = "cloning" THEN NoRepo ELSE stg   \* git removes what it made
        /\ GiveUp(j)
  /\ UNCHANGED <<site, locked, github, lite, owed, history>>

\* Mutation: a pull that is a reset to what GitHub has.
BugPulled(head) == {github.staging}

\* git pull: nothing, a fast-forward or a merge.
Pulled(head) == {head \cup github.staging}

\* pull(repo, "staging"): a merge that git refuses to make without being told how
\* (diverged branches) fails without one of the faults.
Pull(j) ==
  /\ pc[j] = "pull"
  /\ \/ /\ IsValidGitRepo /\ CanCheckout
        /\ \E head \in Pulled(stg.staging) :
             stg' = [EnsureCorrectBranch(stg, "staging") EXCEPT
                       !.staging = head, !.origin = github.master]
        /\ Goto(j, "removeLite")
        /\ UNCHANGED faults
     \/ /\ \/ ~IsValidGitRepo \/ ~CanCheckout
           \/ ~(github.staging \subseteq stg.staging \/ stg.staging \subseteq github.staging)
        /\ Goto(j, "failed")
        /\ UNCHANGED <<stg, faults>>
     \/ GiveUp(j) /\ UNCHANGED stg
  /\ UNCHANGED <<site, locked, github, lite, owed, history>>

-----------------------------------------------------------------------------
\* ReposService.setUpStagingLite: remove, mkdir and clone, strip and init, push by force.

RemoveLite(j) ==
  /\ pc[j] = "removeLite"
  /\ \/ lite' = [dir |-> "empty", head |-> {}] /\ Goto(j, "cloneLite") /\ UNCHANGED faults
     \/ lite' \in {lite, NoLite} /\ GiveUp(j)
  /\ UNCHANGED <<site, locked, github, stg, owed, history>>

\* git clone refuses a folder that is not empty; the branch it checks out is staging.
CloneLite(j) ==
  /\ pc[j] = "cloneLite"
  /\ \/ /\ lite.dir = "empty"
        /\ lite' = [dir |-> "building", head |-> github.staging]
        /\ exact' = IF github.staging = stg.staging /\ owed = {} THEN exact \cup {j} ELSE exact
        /\ Goto(j, "initLite")
        /\ UNCHANGED faults
     \/ lite.dir # "empty" /\ Goto(j, "failed") /\ UNCHANGED <<lite, exact, faults>>
     \/ GiveUp(j) /\ UNCHANGED <<lite, exact>>
  /\ UNCHANGED <<site, locked, github, stg, owed, acked, dropped, disturbed>>

\* Mutation: the folders are looked for in the wrong place and stay.
BugInitialCommit(head) == head

\* git rm -r images files; rm -r .git; git init; commit.
InitialCommit(head) == head \ Media

InitLite(j) ==
  /\ pc[j] = "initLite"
  /\ \/ /\ lite.dir = "building"
        /\ lite' = [dir |-> "repo", head |-> InitialCommit(lite.head)]
        /\ Goto(j, "pushLite")
        /\ UNCHANGED faults
     \/ lite.dir # "building" /\ Goto(j, "failed") /\ UNCHANGED <<lite, faults>>
     \/ GiveUp(j) /\ UNCHANGED lite
  /\ UNCHANGED <<site, locked, github, stg, owed, history>>

PushLite(j) ==
  /\ pc[j] = "pushLite"
  /\ \/ /\ lite.dir = "repo"
        /\ github' = [github EXCEPT !.lite = lite.head]
        /\ Goto(j, "synced")
        /\ UNCHANGED faults
     \/ lite.dir # "repo" /\ Goto(j, "failed") /\ UNCHANGED <<github, faults>>
     \/ GiveUp(j) /\ UNCHANGED github
  /\ UNCHANGED <<site, locked, stg, lite, owed, history>>

\* unlock(repoName), reached by a repair that went well only; nobody waits for it.
RepairUnlock(j) ==
  /\ pc[j] = "synced"
  /\ \/ locked' = (locked /\ site = "test") /\ UNCHANGED faults
     \/ Fault /\ UNCHANGED locked
  /\ Goto(j, "done")
  /\ UNCHANGED <<site, github, stg, lite, owed, history>>

Repair(j) ==
  \/ RepairLock(j) \/ CloneBranch(j) \/ CloneEnds(j) \/ Pull(j)
  \/ RemoveLite(j) \/ CloneLite(j) \/ InitLite(j) \/ PushLite(j) \/ RepairUnlock(j)

-----------------------------------------------------------------------------
\* resetRepo: only on the repositories of the end-to-end tests, whose lock and unlock do
\* nothing.  The commit may be any that the clone has ever had; updateRepoState resets
\* staging to it and pushes by force.
MayReset == site = "test"

Reset(j) ==
  /\ pc[j] = "idle"
  /\ \/ /\ MayReset /\ IsValidGitRepo /\ CanCheckout
        /\ \E commit \in SUBSET stg.staging :
             /\ stg' = [EnsureCorrectBranch(stg, "staging") EXCEPT !.staging = commit]
             /\ dropped' = dropped \cup (stg.staging \ commit)
        /\ owed' = owed \cup {"staging"}
        /\ Goto(j, "done")
     \/ /\ ~(MayReset /\ IsValidGitRepo /\ CanCheckout)
        /\ Goto(j, "failed")
        /\ UNCHANGED <<stg, dropped, owed>>
  /\ UNCHANGED <<site, locked, github, lite, acked, exact, disturbed, faults>>

EfsStep ==
  \/ \E e \in Edits : Edit(e)
  \/ \E b \in {"staging", "lite"} : PushLands(b) \/ PushIsLost(b)
  \/ Merge \/ FastForwardMaster \/ Expire
  \/ \E j \in Repairs : Repair(j)
  \/ \E j \in Resets : Reset(j)

-----------------------------------------------------------------------------
\* No repair, merge or fast-forward loses an edit that was acknowledged: it is in the
\* staging clone or, where there is no whole clone, on GitHub, unless it was dropped on
\* purpose or its push had failed before the clone went away.
AckedEditsKept ==
  stg.dir = "repo" => acked \ dropped \subseteq stg.staging

\* A repair that reports a site as synced, and that nothing met at its work, has left
\* staging-lite with exactly the edits of staging but for the media, on EFS and on
\* GitHub, as long as GitHub had all of staging when staging-lite was cloned.
SyncedMeansSynced ==
  \A j \in exact \ disturbed :
    /\ pc[j] = "synced" /\ ModeOf[j] = "repair_with_lock"
    /\ site # "test"
    /\ stg.dir = "repo"
    => lite = [dir |-> "repo", head |-> stg.staging \ Media] /\ github.lite = lite.head

\* getFilesChanged: git diff-tree master..staging in the clone, after the local master
\* has been made if there was none.
FilesChanged ==
  LET repo == TrackingBranch(stg) IN
  (repo.staging \ repo.master) \cup (repo.master \ repo.staging)

\* The changes shown to a reviewer leave out nothing that is on staging and has not been
\* merged: the local master, which moves only by fast-forwards that may fail, is never
\* ahead of the one on GitHub.
ReviewHidesNothing ==
  stg.dir = "repo" => stg.staging \ github.master \subseteq FilesChanged
=============================================================================
