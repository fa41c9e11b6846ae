------------------------------- MODULE SiteEdit -------------------------------
(***************************************************************************)
(* Content edits of one site, from the HTTP request to GitHub.             *)
(*                                                                         *)
(* An edit request goes through attachRollbackRouteHandlerWrapper          *)
(* (src/src/middleware/routeHandler.ts): it takes the site lock, remembers *)
(* the heads of the two EFS clones (branch staging and branch              *)
(* staging-lite), runs a handler that makes one or several commits with    *)
(* GitFileCommitService, and either answers and unlocks, or puts the       *)
(* clones and GitHub back to the remembered heads.  Every commit also      *)
(* starts a push to GitHub that nobody waits for.  Processes crash, locks  *)
(* expire, git commands fail.                                              *)
(*                                                                         *)
(* Data.  An edit is <<r, k>>, the k-th operation of request r; a commit   *)
(* is the set of edits in its history.  Histories are linear and an edit   *)
(* is committed once per branch, so "ancestor" is set inclusion, and the   *)
(* blob hash of a file is the set of the edits that touched it.            *)
(***************************************************************************)
EXTENDS Naturals, FiniteSets

CONSTANTS
  Requests,      \* edit requests, each served once
  OpsOf,         \* how many commits the handler of a request makes
  Files,
  FileOf,        \* the file each edit touches
  Renames,       \* requests that use renameSinglePath or moveFiles
  Assets,        \* requests on images/ or files/, which staging-lite does not carry
  LiteEnabled,   \* feature flag IS_BUILD_TIMES_REDUCTION_ENABLED of the site
  PlainPushes,   \* how often push tries without --force (2 in the code)
  MaxServed,     \* bound: requests that are served
  MaxFaults      \* bound: failures of git, disk, network, database and processes

EditsOf(r) == {<<r, k>> : k \in 1..OpsOf[r]}
AllEdits == UNION {EditsOf(r) : r \in Requests}
Branches == {"staging", "lite"}

ASSUME SiteEditAssumption ==
  /\ OpsOf \in [Requests -> Nat \ {0}]
  /\ FileOf \in [AllEdits -> Files]
  /\ Renames \subseteq Requests
  /\ Assets \subseteq Requests
  /\ LiteEnabled \in BOOLEAN
  /\ PlainPushes \in Nat
  /\ MaxServed \in Nat
  /\ MaxFaults \in Nat

VARIABLES
  locked,    \* the site has an item in the mutex table
  pc,        \* where each request is
  cur,       \* its operation, the branch it works on, and whether a branch has failed
  snap,      \* heads of the clones when the request began
  base,      \* head of the clone when the current operation began
  seen,      \* version of the file whose hash each edit carries (its sha parameter)
  shown,     \* version of the file whose content each edit was made from
  clone,     \* the two git clones on EFS
  remote,    \* heads of the two branches on GitHub
  pushes,    \* pushes that nobody waits for
  answer,    \* first response each client got
  overran,   \* history: requests whose lock expired while they ran
  broken,    \* history: requests whose rollback gave up
  crashed,   \* history: requests whose process died
  gaveUp,    \* history: edits whose push failed for good
  left,      \* history: requests that went and may have left their item behind
  faults     \* how many failures there have been

reqVars == <<cur, snap, base, seen, shown>>
history == <<overran, broken, crashed, gaveUp, left>>
vars == <<locked, pc, reqVars, clone, remote, pushes, answer, history, faults>>

InHandler == {"check", "commit"}
Inside == InHandler \cup {"locked", "rollback", "repush", "succeeded", "failed"}
PcValues == Inside \cup {"idle", "content", "hash", "opened", "checked", "done", "crashed"}
Clone == [head : SUBSET AllEdits, staged : SUBSET AllEdits,
          unstaged : SUBSET AllEdits, indexLock : BOOLEAN]
Push == [edit : AllEdits, branch : Branches, attempt : 1..(PlainPushes + 1),
         sent : BOOLEAN, sends : SUBSET AllEdits, sees : SUBSET AllEdits]

TypeOK ==
  /\ locked \in BOOLEAN
  /\ pc \in [Requests -> PcValues]
  /\ cur \in [Requests -> [op : Nat \ {0}, branch : Branches, failed : BOOLEAN]]
  /\ \A r \in Requests : cur[r].op <= OpsOf[r]
  /\ snap \in [Requests -> [Branches -> SUBSET AllEdits]]
  /\ base \in [Requests -> SUBSET AllEdits]
  /\ seen \in [AllEdits -> SUBSET AllEdits]
  /\ shown \in [AllEdits -> SUBSET AllEdits]
  /\ clone \in [Branches -> Clone]
  /\ remote \in [Branches -> SUBSET AllEdits]
  /\ pushes \subseteq Push
  /\ answer \in [Requests -> {"none", "ok", "error"}]
  /\ overran \subseteq Requests
  /\ broken \subseteq Requests
  /\ crashed \subseteq Requests
  /\ gaveUp \subseteq AllEdits
  /\ left \subseteq Requests
  /\ faults \in 0..MaxFaults

Start == [op |-> 1, branch |-> "staging", failed |-> FALSE]

Init ==
  /\ locked = FALSE
  /\ pc = [r \in Requests |-> "idle"]
  /\ cur = [r \in Requests |-> Start]
  /\ snap = [r \in Requests |-> [b \in Branches |-> {}]]
  /\ base = [r \in Requests |-> {}]
  /\ seen = [e \in AllEdits |-> {}]
  /\ shown = [e \in AllEdits |-> {}]
  /\ clone = [b \in Branches |-> [head |-> {}, staged |-> {}, unstaged |-> {},
                                  indexLock |-> FALSE]]
  /\ remote = [b \in Branches |-> {}]
  /\ pushes = {}
  /\ answer = [r \in Requests |-> "none"]
  /\ overran = {} /\ broken = {} /\ crashed = {} /\ gaveUp = {} /\ left = {}
  /\ faults = 0

Running(r) == pc[r] \in Inside
EditNow(r) == <<r, cur[r].op>>
UsesLite(r) == LiteEnabled /\ r \notin Assets
Version(history_, file) == {e \in history_ : FileOf[e] = file}
Turn(r, op, branch, failed) ==
  cur' = [cur EXCEPT ![r] = [op |-> op, branch |-> branch, failed |-> failed]]
Goto(r, label) == pc' = [pc EXCEPT ![r] = label]
Answer(r, a) == answer' = [answer EXCEPT ![r] = a]

\* A step in which the environment fails; every failure the code reacts to is one, a
\* conflict, a refusal by the lock or a push that comes too late is not.
Fault == faults < MaxFaults /\ faults' = faults + 1
NoFault == UNCHANGED faults
Served == Cardinality({r \in Requests : pc[r] # "idle"}) < MaxServed

-----------------------------------------------------------------------------
(* Before the lock                                                         *)

\* The client gets the page it will edit from read, which takes no lock and runs readFile
\* and git rev-parse at the same time, so either may come first.  readFile finds what is
\* in the work tree, where an operation that has not committed may have written.
OnDisk(b) == clone[b].head \cup clone[b].staged \cup clone[b].unstaged
Writing(b) == {EditNow(q) : q \in {x \in Requests : pc[x] = "commit" /\ cur[x].branch = b}}

ReadContent(r) ==
  LET e == <<r, 1>> IN
  /\ \/ pc[r] = "idle" /\ Served /\ Goto(r, "content")
     \/ pc[r] = "hash" /\ Goto(r, "opened")
  /\ \E w \in SUBSET Writing("staging") :
       shown' = [shown EXCEPT ![e] = Version(OnDisk("staging") \cup w, FileOf[e])]
  /\ UNCHANGED <<locked, cur, snap, base, seen, clone, remote, pushes, answer, history,
                 faults>>

\* git rev-parse HEAD:path
ReadHash(r) ==
  LET e == <<r, 1>> IN
  /\ \/ pc[r] = "idle" /\ Served /\ Goto(r, "hash")
     \/ pc[r] = "content" /\ Goto(r, "opened")
  /\ seen' = [seen EXCEPT ![e] = Version(clone["staging"].head, FileOf[e])]
  /\ UNCHANGED <<locked, cur, snap, base, shown, clone, remote, pushes, answer, history,
                 faults>>

Refuse(r) == Goto(r, "done") /\ Answer(r, "error")

\* handleGitFileLock: only the staging clone is looked at, before the lock is taken.
CheckGitFileLock(r) ==
  /\ pc[r] = "opened"
  /\ \/ ~clone["staging"].indexLock /\ Goto(r, "checked") /\ UNCHANGED <<answer, faults>>
     \/ clone["staging"].indexLock /\ Refuse(r) /\ NoFault
     \/ Refuse(r) /\ Fault
  /\ UNCHANGED <<locked, reqVars, clone, remote, pushes, history>>

\* A mutation of Lock: the put overwrites the item of another request.
BugLockIgnoresItem(r) ==
  /\ pc[r] = "checked"
  /\ locked' = TRUE
  /\ Goto(r, "locked")
  /\ UNCHANGED <<reqVars, clone, remote, pushes, answer, history, faults>>

\* lock(siteName), refused when the item is there, or when the put fails or seems to.
Lock(r) ==
  /\ pc[r] = "checked"
  /\ \/ ~locked /\ locked' = TRUE /\ Goto(r, "locked") /\ UNCHANGED <<answer, left, faults>>
     \/ locked /\ UNCHANGED <<locked, left>> /\ Refuse(r) /\ NoFault
     \/ /\ ~locked /\ locked' \in BOOLEAN
        /\ left' = IF locked' THEN left \cup {r} ELSE left
        /\ Refuse(r) /\ Fault
  /\ UNCHANGED <<reqVars, clone, remote, pushes, overran, broken, crashed, gaveUp>>

\* A mutation of Snapshot: the heads are the ones of the page view, not of the lock.
BugSnapshotBeforeLock(r) ==
  /\ pc[r] = "locked"
  /\ snap' = [snap EXCEPT ![r] = [b \in Branches |-> seen[<<r, 1>>]]]
  /\ Goto(r, "check")
  /\ UNCHANGED <<locked, cur, base, seen, shown, clone, remote, pushes, answer, history, faults>>

\* getLatestCommitOfBranch of both clones; an error unlocks and is passed on.
Snapshot(r) ==
  /\ pc[r] = "locked"
  /\ \/ /\ snap' = [snap EXCEPT ![r] = [b \in Branches |-> clone[b].head]]
        /\ Goto(r, "check") /\ NoFault
     \/ UNCHANGED snap /\ Goto(r, "failed") /\ Fault
  /\ UNCHANGED <<locked, cur, base, seen, shown, clone, remote, pushes, answer, history>>

-----------------------------------------------------------------------------
(* The handler: operations of GitFileCommitService on the clones           *)

\* pushToGithub starts with staging; staging-lite follows once staging has landed.
NewPush(e, b) == [edit |-> e, branch |-> b, attempt |-> 1, sent |-> FALSE,
                  sends |-> {}, sees |-> {}]

\* What follows the end of the operation on one branch.  create, update and delete go
\* on to staging-lite even when staging has failed, rename and move do not; then either
\* the handler rejects, or the push starts and the handler goes on to its next commit,
\* for which it reads the file afresh, or answers the client.
EndBranchOp(r, err) ==
  LET c == cur[r]
      failed == c.failed \/ err
      toLite == c.branch = "staging" /\ UsesLite(r) /\ ~(err /\ r \in Renames)
      next == <<r, c.op + 1>>
      found == Version(clone'["staging"].head, FileOf[next])
  IN
  \/ /\ toLite
     /\ Turn(r, c.op, "lite", failed)
     /\ Goto(r, "check")
     /\ UNCHANGED <<seen, shown, pushes, answer>>
  \/ /\ ~toLite /\ failed
     /\ Turn(r, c.op, "staging", TRUE)
     /\ Goto(r, "rollback")
     /\ UNCHANGED <<seen, shown, pushes, answer>>
  \/ /\ ~toLite /\ ~failed
     /\ pushes' = pushes \cup {NewPush(EditNow(r), "staging")}
     /\ \/ /\ c.op < OpsOf[r]
           /\ Turn(r, c.op + 1, "staging", FALSE)
           /\ seen' = [seen EXCEPT ![next] = found]
           /\ shown' = [shown EXCEPT ![next] = found]
           /\ Goto(r, "check")
           /\ UNCHANGED answer
        \/ /\ c.op = OpsOf[r]
           /\ Turn(r, c.op, "staging", FALSE)
           /\ Goto(r, "succeeded")
           /\ Answer(r, "ok")
           /\ UNCHANGED <<seen, shown>>

\* A mutation of CheckOp: the blob hash is not compared with the sha of the client.
BugNoShaCheck(r) ==
  /\ pc[r] = "check"
  /\ base' = [base EXCEPT ![r] = clone[cur[r].branch].head]
  /\ Goto(r, "commit")
  /\ UNCHANGED <<locked, cur, snap, seen, shown, clone, remote, pushes, answer, history, faults>>

\* The first half of an operation: remember the head, stat the path and, unless it is a
\* rename or a move, compare its blob hash with the sha the edit was made from.  The
\* same sha is used on both branches.
CheckOp(r) ==
  LET b == cur[r].branch
      e == EditNow(r)
      conflict == r \notin Renames /\ Version(clone[b].head, FileOf[e]) # seen[e]
  IN
  /\ pc[r] = "check"
  /\ \/ /\ ~conflict
        /\ base' = [base EXCEPT ![r] = clone[b].head]
        /\ Goto(r, "commit")
        /\ UNCHANGED <<cur, seen, shown, clone, pushes, answer, faults>>
     \/ conflict /\ UNCHANGED <<base, clone>> /\ EndBranchOp(r, TRUE) /\ NoFault
     \/ UNCHANGED <<base, clone>> /\ EndBranchOp(r, TRUE) /\ Fault
  /\ UNCHANGED <<locked, snap, remote, history>>

\* git commit takes what is in the index, leftovers of another request included.
Committed(c, e) ==
  LET others(S) == {d \in S : FileOf[d] # FileOf[e]} IN
  [c EXCEPT !.head = @ \cup {e} \cup others(c.staged),
            !.staged = {}, !.unstaged = others(@)]

\* git reset --hard and git clean -fd
Reset(c, head) == [c EXCEPT !.head = head, !.staged = {}, !.unstaged = {}]

\* The second half: write, git add, git commit.  It succeeds; or fails and is rolled
\* back to the head remembered by CheckOp; or fails and leaves the work tree or the
\* index changed, because the error is not one that rolls back (isValidGitRepo and
\* ensureCorrectBranch run after the write) or because the rollback fails too.
CommitOp(r) ==
  LET b == cur[r].branch
      e == EditNow(r)
      c == clone[b]
  IN
  /\ pc[r] = "commit"
  /\ \/ ~c.indexLock /\ clone' = [clone EXCEPT ![b] = Committed(c, e)]
        /\ EndBranchOp(r, FALSE) /\ NoFault
     \/ ~c.indexLock /\ clone' = [clone EXCEPT ![b] = Reset(c, base[r])]
        /\ EndBranchOp(r, TRUE) /\ Fault
     \/ ~c.indexLock /\ clone' = [clone EXCEPT ![b].staged = @ \cup {e}]
        /\ EndBranchOp(r, TRUE) /\ Fault
     \/ ~c.indexLock /\ clone' = [clone EXCEPT ![b].unstaged = @ \cup {e}]
        /\ EndBranchOp(r, TRUE) /\ Fault
     \/ c.indexLock /\ clone' = [clone EXCEPT ![b].unstaged = @ \cup {e}]
        /\ EndBranchOp(r, TRUE) /\ NoFault
  /\ UNCHANGED <<locked, snap, base, remote, history>>

-----------------------------------------------------------------------------
(* The wrapper after a rejection, and the unlock                           *)

GiveUp(r) == Goto(r, "failed") /\ broken' = broken \cup {r}

\* A mutation of Rollback: staging-lite is not put back.
BugRollbackStagingOnly(r) ==
  /\ pc[r] = "rollback"
  /\ clone' = [clone EXCEPT !["staging"] = Reset(@, snap[r]["staging"])]
  /\ Goto(r, "repush")
  /\ UNCHANGED <<locked, reqVars, remote, pushes, answer, history, faults>>

\* gitFileSystemService.rollback of staging, then of staging-lite, each tried five times
\* by backOff; the last failure is the one that is reported.
Rollback(r) ==
  LET b == cur[r].branch IN
  /\ pc[r] = "rollback"
  /\ \/ /\ ~clone[b].indexLock
        /\ clone' = [clone EXCEPT ![b] = Reset(@, snap[r][b])]
        /\ IF b = "staging" /\ LiteEnabled
           THEN cur' = [cur EXCEPT ![r].branch = "lite"] /\ UNCHANGED pc
           ELSE cur' = [cur EXCEPT ![r].branch = "staging"] /\ Goto(r, "repush")
        /\ UNCHANGED <<broken, faults>>
     \/ clone[b].indexLock /\ GiveUp(r) /\ UNCHANGED <<cur, clone, faults>>
     \/ GiveUp(r) /\ Fault /\ UNCHANGED <<cur, clone>>
  /\ UNCHANGED <<locked, snap, base, seen, shown, remote, pushes, answer, overran, crashed, gaveUp, left>>

\* push(..., isForce = true) of staging, then of staging-lite, awaited and retried.
ForcePush(r) ==
  LET b == cur[r].branch IN
  /\ pc[r] = "repush"
  /\ \/ /\ remote' = [remote EXCEPT ![b] = clone[b].head]
        /\ IF b = "staging" /\ LiteEnabled
           THEN cur' = [cur EXCEPT ![r].branch = "lite"] /\ UNCHANGED pc
           ELSE cur' = [cur EXCEPT ![r].branch = "staging"] /\ Goto(r, "failed")
        /\ UNCHANGED <<broken, faults>>
     \/ GiveUp(r) /\ Fault /\ UNCHANGED <<cur, remote>>
  /\ UNCHANGED <<locked, snap, base, seen, shown, clone, pushes, answer, overran, crashed, gaveUp, left>>

\* unlock deletes the item whoever put it.  If it throws after a rejection the client
\* never gets a response.
Unlock(r) ==
  /\ pc[r] \in {"succeeded", "failed"}
  /\ Goto(r, "done")
  /\ \/ /\ locked' = FALSE
        /\ IF pc[r] = "failed" THEN Answer(r, "error") ELSE UNCHANGED answer
        /\ UNCHANGED left /\ NoFault
     \/ locked' \in {locked, FALSE} /\ left' = left \cup {r} /\ UNCHANGED answer /\ Fault
  /\ UNCHANGED <<reqVars, clone, remote, pushes, overran, broken, crashed, gaveUp>>

\* The mutex item passes its expdate.
Expire ==
  /\ locked
  /\ IF \E r \in Requests : Running(r) THEN Fault ELSE NoFault
  /\ locked' = FALSE
  /\ overran' = overran \cup {r \in Requests : Running(r)}
  /\ UNCHANGED <<pc, reqVars, clone, remote, pushes, answer, broken, crashed, gaveUp, left>>

\* Half-done work, with or without the index.lock of the command that was doing it.
LeftUnstaged(c, e, stale) == [c EXCEPT !.unstaged = @ \cup {e}, !.indexLock = stale]
LeftStaged(c, e, stale) == [c EXCEPT !.staged = @ \cup {e}, !.indexLock = stale]

\* The process that serves r dies, and with it the pushes it started.  A git command it
\* was running leaves its index.lock, an operation its half-done work.
Crash(r) ==
  LET b == cur[r].branch
      e == EditNow(r)
  IN
  /\ Running(r) \/ pc[r] = "checked" \/ \E p \in pushes : p.edit[1] = r
  /\ Fault
  /\ crashed' = crashed \cup {r}
  /\ pushes' = {p \in pushes : p.edit[1] # r}
  /\ IF Running(r) \/ pc[r] = "checked" THEN Goto(r, "crashed") /\ left' = left \cup {r} ELSE UNCHANGED <<pc, left>>
  /\ \/ UNCHANGED clone
     \/ /\ pc[r] = "commit"
        /\ \E stale \in {clone[b].indexLock, TRUE} :
             \/ clone' = [clone EXCEPT ![b] = LeftUnstaged(@, e, stale)]
             \/ ~clone[b].indexLock /\ clone' = [clone EXCEPT ![b] = LeftStaged(@, e, stale)]
     \/ /\ pc[r] = "rollback"
        /\ clone' = [clone EXCEPT ![b].indexLock = TRUE]
  /\ UNCHANGED <<locked, reqVars, remote, answer, overran, broken, gaveUp>>

-----------------------------------------------------------------------------
(* Pushes that nobody waits for                                            *)

Forced(p) == p.attempt > PlainPushes
Again(p) == [p EXCEPT !.attempt = @ + 1, !.sent = FALSE, !.sends = {}, !.sees = {}]

\* GitHub moves a branch that is still where git push saw it and, unless the push is
\* forced, only forward.
Acceptable(p) == remote[p.branch] = p.sees /\ (Forced(p) \/ p.sees \subseteq p.sends)

\* push begins with isValidGitRepo, whose error or refusal is returned at once: no git push
\* is tried, none is tried again, nothing is forced.
PushRefused(p) ==
  /\ p \in pushes /\ ~p.sent /\ p.attempt = 1
  /\ Fault
  /\ pushes' = pushes \ {p}
  /\ gaveUp' = gaveUp \cup {p.edit}
  /\ UNCHANGED <<locked, pc, reqVars, clone, remote, answer, overran, broken, crashed, left>>

\* git push reads the local head and the head GitHub advertises.
PushStarts(p) ==
  /\ p \in pushes /\ ~p.sent
  /\ pushes' = (pushes \ {p}) \cup
       {[p EXCEPT !.sent = TRUE, !.sends = clone[p.branch].head, !.sees = remote[p.branch]]}
  /\ UNCHANGED <<locked, pc, reqVars, clone, remote, answer, history, faults>>

\* After staging the push of staging-lite starts.
PushLands(p) ==
  /\ p \in pushes /\ p.sent
  /\ Acceptable(p)
  /\ remote' = [remote EXCEPT ![p.branch] = p.sends]
  /\ pushes' = (pushes \ {p}) \cup
       (IF p.branch = "staging" /\ UsesLite(p.edit[1]) THEN {NewPush(p.edit, "lite")} ELSE {})
  /\ UNCHANGED <<locked, pc, reqVars, clone, answer, history, faults>>

\* A mutation of PushFails: the push is tried only once.
BugPushTriedOnce(p) ==
  /\ p \in pushes /\ p.sent
  /\ IF Acceptable(p) THEN Fault ELSE NoFault
  /\ pushes' = pushes \ {p}
  /\ gaveUp' = IF Forced(p) THEN gaveUp \cup {p.edit} ELSE gaveUp
  /\ UNCHANGED <<locked, pc, reqVars, clone, remote, answer, overran, broken, crashed, left>>

\* git push, or ensureCorrectBranch before it, fails: it is tried again, the last time with
\* --force; nobody hears of the last failure.
PushFails(p) ==
  /\ p \in pushes /\ p.sent
  /\ IF Acceptable(p) THEN Fault ELSE NoFault
  /\ IF Forced(p)
     THEN pushes' = pushes \ {p} /\ gaveUp' = gaveUp \cup {p.edit}
     ELSE pushes' = (pushes \ {p}) \cup {Again(p)} /\ UNCHANGED gaveUp
  /\ UNCHANGED <<locked, pc, reqVars, clone, remote, answer, overran, broken, crashed, left>>

-----------------------------------------------------------------------------
Step(r) ==
  \/ CheckGitFileLock(r) \/ Lock(r) \/ Snapshot(r) \/ CheckOp(r) \/ CommitOp(r)
  \/ Rollback(r) \/ ForcePush(r) \/ Unlock(r)

PushStep(p) == PushRefused(p) \/ PushStarts(p) \/ PushLands(p) \/ PushFails(p)

Next ==
  \/ \E r \in Requests : ReadContent(r) \/ ReadHash(r) \/ Step(r) \/ Crash(r)
  \/ \E p \in pushes : PushStep(p)
  \/ Expire

Spec == Init /\ [][Next]_vars

-----------------------------------------------------------------------------
(* Properties                                                              *)

Acked(r) == answer[r] = "ok"
NoOverrun == overran = {}

\* An edit the client was told is saved stays in the history of both clones: no commit,
\* failure, rollback or crash of another request takes it away, as long as no lock
\* expires under a running request.
AckedEditsSurvive ==
  NoOverrun => \A r \in Requests : Acked(r) =>
    /\ EditsOf(r) \subseteq clone["staging"].head
    /\ UsesLite(r) => EditsOf(r) \subseteq clone["lite"].head

\* S holds every acknowledged edit that branch b carries.
HasAcked(S, b) ==
  \A q \in Requests : Acked(q) /\ (b = "staging" \/ UsesLite(q)) => EditsOf(q) \subseteq S

\* What a request relies on while no lock has expired under a request.
LocalInv(r) ==
  /\ Acked(r) => pc[r] \in {"succeeded", "done", "crashed"}
  /\ pc[r] \in {"idle", "content", "hash", "opened", "checked", "locked"} => cur[r] = Start
  /\ pc[r] \in InHandler \cup {"rollback"} => \A b \in Branches : HasAcked(snap[r][b], b)
  /\ pc[r] = "commit" => HasAcked(base[r], cur[r].branch)
  /\ pc[r] \in InHandler /\ ~cur[r].failed =>
       \A k \in 1..(cur[r].op - 1) : /\ <<r, k>> \in clone["staging"].head
                                     /\ UsesLite(r) => <<r, k>> \in clone["lite"].head
  /\ pc[r] \in InHandler /\ cur[r].branch = "lite" =>
       UsesLite(r) /\ (~cur[r].failed => EditNow(r) \in clone["staging"].head)

\* The inductive invariant.  Only the request inside changes the clones, and what it may
\* put them back to has every acknowledged edit, because nobody acknowledges meanwhile.
IInv ==
  /\ TypeOK
  /\ NoOverrun =>
       /\ \A r, q \in Requests : Running(r) /\ Running(q) => r = q
       /\ \A r \in Requests : Running(r) => locked
       /\ \A b \in Branches : HasAcked(clone[b].head, b)
       /\ \A r \in Requests : LocalInv(r)

\* A request that failed and could be rolled back leaves nothing on disk, neither in the
\* histories nor in a work tree or an index, whichever of its commits failed; and while
\* nobody is editing, and nothing has crashed or failed to roll back, staging-lite is
\* staging without the edits of assets.
FailedLeavesNoTrace ==
  NoOverrun =>
    /\ \A r \in Requests :
         pc[r] \in {"failed", "done"} /\ ~Acked(r) /\ r \notin broken =>
           \A b \in Branches : EditsOf(r) \cap OnDisk(b) = {}
    /\ broken = {} /\ crashed = {} /\ (\A r \in Requests : ~Running(r)) =>
         clone["lite"].head = {e \in clone["staging"].head : UsesLite(e[1])}

\* Of two acknowledged edits that overwrite the same file, one carries the hash of a
\* version that has the other: the sha check under the lock is not passed by two edits
\* that carry the same hash.
NoLostUpdate ==
  NoOverrun => \A r, q \in {x \in Requests \ Renames : Acked(x)} :
    r # q => \A d \in EditsOf(r), e \in EditsOf(q) :
      FileOf[d] = FileOf[e] => d \in seen[e] \/ e \in seen[d]

\* GitHub never loses an acknowledged edit it has had: forced pushes, by a rollback or
\* as a last resort, only ever remove edits that were rolled back.
GitHubKeepsAckedEdits ==
  [][overran' = {} => \A r \in Requests, b \in Branches :
       Acked(r) => EditsOf(r) \cap remote[b] \subseteq remote'[b]]_vars

\* Every acknowledged edit is on GitHub, or a push that carries it is still to land,
\* unless the check its push begins with failed, or its forced push, or its process died,
\* or a lock expired under a request: nothing else loses it on the way.
AckedEditsArePushed ==
  \A e \in AllEdits : Acked(e[1]) =>
    \/ e \in remote["staging"]
    \/ \E p \in pushes : p.edit = e /\ p.branch = "staging" /\ (p.sent => e \in p.sends)
    \/ e \in gaveUp
    \/ e[1] \in crashed
    \/ ~NoOverrun

\* Edits hold the lock exactly as the other write handlers do: what happens to the clones
\* is a handler that runs, and lock, unlock, expiry and crash are those of the mutex.
MutexItems == IF locked THEN {"site"} ELSE {}
MutexPhase ==
  [r \in Requests |->
     CASE pc[r] \in {"idle", "content", "hash", "opened"} -> "idle"
       [] pc[r] \in InHandler \cup {"locked", "rollback", "repush"} -> "holding"
       [] OTHER -> pc[r]]

Mutex == INSTANCE SiteMutex WITH
  Sites <- {"site"},
  SiteOf <- [r \in Requests |-> "site"],
  E2eTestRepos <- {},
  items <- MutexItems,
  phase <- MutexPhase

ImplementsMutex == Mutex!Spec

-----------------------------------------------------------------------------
(* What comments of the code say, and the code does not do                 *)

\* GitFileCommitService.ts:28: "We don't want a case when staging lite updates but
\* staging doesn't".
LiteNotAheadOnGitHub == NoOverrun => remote["lite"] \subseteq remote["staging"]

\* GitFileSystemService.ts:1292: "File has been changed recently, please try again" is
\* what an edit is told that was made from the content of an older version.
NoUnseenOverwrite ==
  NoOverrun => \A r, q \in {x \in Requests \ Renames : Acked(x)} :
    r # q => \A d \in EditsOf(r), e \in EditsOf(q) :
      FileOf[d] = FileOf[e] => d \in shown[e] \/ e \in shown[d]

\* GitFileSystemService.ts:751: "EFS is the source of truth".  Once every request has
\* ended and every push has landed, with no crash and no failure that was given up on,
\* GitHub has what EFS has.
GitHubMirrorsEFS ==
  /\ NoOverrun /\ broken = {} /\ crashed = {} /\ gaveUp = {} /\ pushes = {}
  /\ \A r \in Requests : ~Running(r)
  => \A b \in Branches : remote[b] = clone[b].head
=============================================================================
