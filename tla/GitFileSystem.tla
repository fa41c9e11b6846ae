---------------------------- MODULE GitFileSystem ----------------------------
(***************************************************************************)
(* One git clone on EFS and the write operations of GitFileSystemService   *)
(* (src/src/services/db/GitFileSystemService.ts) on one of its branches.   *)
(*                                                                         *)
(* Every operation is a chain: remember the latest commit, stat and        *)
(* compare, write to the work tree, git add, git commit.  Each link may    *)
(* fail; only an error of class GitFileSystemNeedsRollbackError puts the   *)
(* clone back to the remembered commit.  The site lock keeps operations of *)
(* one clone apart, so there is one at a time; a process may die in the    *)
(* middle of one and the next one finds what it left.                      *)
(*                                                                         *)
(* A path is <<directory, name>>; the blob hash of a file is its content.  *)
(***************************************************************************)
EXTENDS Naturals, FiniteSets

CONSTANTS
  Dirs, Names,
  Contents,
  Absent,      \* what a tree holds at a path where there is no file
  MaxFaults    \* bound: git commands and system calls that fail, and crashes

ASSUME GitFileSystemAssumption ==
  /\ Absent \notin Contents
  /\ MaxFaults \in Nat

Files == Dirs \X Names
Tree == [Files -> Contents \cup {Absent}]
Empty == [f \in Files |-> Absent]
At(d, ns) == {d} \X ns
In(d) == At(d, Names)
Present(tree) == {f \in Files : tree[f] # Absent}

VARIABLES
  head,     \* tree of the latest commit
  index,
  work,     \* files on disk
  dirs,     \* directories on disk, which git does not track
  op,       \* the operation that runs, or ran last
  step,     \* the link of the chain it has come to
  start,    \* history: the tree of the commit it remembers as oldStateSha
  clean,    \* history: index and work tree were those of that commit
  result,
  faults

disk == <<head, index, work, dirs>>
gitVars == <<disk, op, step, start, clean, result, faults>>

\* write is what the operation puts at which path; from and to tell moves apart.
Kinds == {"create", "update", "delete", "deleteDir", "deleteMany", "rename", "renameDir",
          "move"}
Op(kind, from, to, content, hash) ==
  [kind |-> kind, from |-> from, to |-> to, content |-> content, hash |-> hash]

Ops ==
  {Op("create", {}, {f}, c, Absent) : f \in Files, c \in Contents}
  \cup {Op("update", {f}, {f}, c, h) : f \in Files, c \in Contents, h \in Contents}
  \cup {Op("delete", {f}, {}, Absent, h) : f \in Files, h \in Contents}
  \cup {Op("deleteDir", In(d), {}, Absent, Absent) : d \in Dirs}
  \cup {Op("deleteMany", fs, {}, Absent, h) : fs \in (SUBSET Files) \ {{}}, h \in Contents}
  \cup {Op("rename", {f}, {g}, Absent, Absent) : f \in Files, g \in Files}
  \cup {Op("renameDir", In(d), In(e), Absent, Absent) : d \in Dirs, e \in Dirs}
  \cup {Op("move", At(d, ns), At(e, ns), Absent, Absent) :
          d \in Dirs, e \in Dirs, ns \in (SUBSET Names) \ {{}}}

Results == {"none", "ok", "error", "rolledBack", "stuck", "crashed"}

GitTypeOK ==
  /\ head \in Tree /\ index \in Tree /\ work \in Tree /\ start \in Tree
  /\ dirs \subseteq Dirs /\ \A f \in Present(work) : f[1] \in dirs
  /\ op \in Ops
  /\ step \in {"idle", "write", "add", "commit", "rollback"}
  /\ clean \in BOOLEAN
  /\ result \in Results
  /\ faults \in 0..MaxFaults

GitInit ==
  /\ head = Empty /\ index = Empty /\ work = Empty /\ start = Empty
  /\ dirs = {}
  /\ op \in {o \in Ops : o.kind = "create"}
  /\ step = "idle"
  /\ clean = TRUE
  /\ result = "none"
  /\ faults = 0

Fault == faults < MaxFaults /\ faults' = faults + 1
NoFault == UNCHANGED faults
Goto(label) == step' = label /\ UNCHANGED result
Finish(r) == step' = "idle" /\ result' = r

-----------------------------------------------------------------------------
(* The checks that come before the first write                             *)

DirsOf(fs) == {f[1] : f \in fs}
HashMatches(o) == \A f \in o.from : head[f] = o.hash

MayCreate(o) == work[CHOOSE f \in o.to : TRUE] = Absent
MayUpdate(o) == o.from \subseteq Present(work) /\ HashMatches(o)
MayDelete(o) ==
  IF o.kind = "deleteDir" THEN DirsOf(o.from) \subseteq dirs
  ELSE o.from \subseteq Present(work) /\ HashMatches(o)

\* The hashes are compared by an async callback of Array.every, whose promise is always
\* true: no conflict is ever found.
MayDeleteMany(o) == o.from \subseteq Present(work)

MayRename(o) ==
  IF o.kind = "renameDir"
  THEN DirsOf(o.from) \subseteq dirs /\ DirsOf(o.to) \cap dirs = {}
  ELSE o.from \subseteq Present(work) /\ o.to \cap Present(work) = {}
MayMove(o) == DirsOf(o.from) \subseteq dirs

Passes(o) ==
  CASE o.kind = "create" -> MayCreate(o)
    [] o.kind = "update" -> MayUpdate(o)
    [] o.kind \in {"delete", "deleteDir"} -> MayDelete(o)
    [] o.kind = "deleteMany" -> MayDeleteMany(o)
    [] o.kind \in {"rename", "renameDir"} -> MayRename(o)
    [] o.kind = "move" -> MayMove(o)

\* create makes the directory of its file, move the one it moves to.
MadeDirs(o) == IF o.kind \in {"create", "move"} THEN DirsOf(o.to) ELSE {}

\* An operation that fails a check returns its error and has changed nothing; the chain
\* is followed from the first write of one that passes them.
Begin ==
  /\ step = "idle"
  /\ op' \in Ops
  /\ Passes(op')
  /\ start' = head
  /\ clean' = (index = head /\ work = head)
  /\ dirs' = dirs \cup MadeDirs(op')
  /\ step' = "write" /\ result' = "none"
  /\ NoFault
  /\ UNCHANGED <<head, index, work>>

-----------------------------------------------------------------------------
(* The writes                                                              *)

\* The path that f moves to.
Target(o, f) ==
  IF o.kind = "rename" THEN CHOOSE g \in o.to : TRUE
  ELSE <<(CHOOSE g \in o.to : g[2] = f[2])[1], f[2]>>

\* The tree in which the files fs of the operation have been moved.
Moved(tree, o, fs) ==
  [g \in Files |->
     IF \E f \in fs : Target(o, f) = g /\ tree[f] # Absent
     THEN tree[CHOOSE f \in fs : Target(o, f) = g]
     ELSE IF g \in fs THEN Absent ELSE tree[g]]

\* create, update and the deletions: each path by itself, some of them if one fails.
Written(fs) == [f \in Files |-> IF f \in fs THEN op.content ELSE work[f]]

WriteFiles ==
  LET paths == op.from \cup op.to IN
  /\ step = "write"
  /\ op.kind \in {"create", "update", "delete", "deleteDir", "deleteMany"}
  /\ \/ /\ work' = Written(paths)
        /\ dirs' = IF op.kind = "deleteDir" THEN dirs \ DirsOf(paths) ELSE dirs
        /\ Goto("add") /\ NoFault
     \/ /\ \E fs \in SUBSET paths : work' = Written(fs)
        /\ UNCHANGED dirs
        /\ Goto("rollback") /\ Fault
  /\ UNCHANGED <<head, index, op, start, clean>>

\* git mv moves the work tree and the index; it refuses a source that is not tracked and
\* a directory to move into that does not exist.
GitMv ==
  LET tracked == Present(index) \cap op.from IN
  /\ step = "write"
  /\ op.kind \in {"rename", "renameDir"}
  /\ IF tracked # {} /\ (op.kind = "renameDir" \/ DirsOf(op.to) \subseteq dirs)
     THEN \/ /\ work' = Moved(work, op, op.from)
             /\ index' = Moved(index, op, tracked)
             /\ dirs' = IF op.kind = "rename" THEN dirs
                        ELSE (dirs \ DirsOf(op.from)) \cup DirsOf(op.to)
             /\ Goto("commit") /\ NoFault
          \/ Goto("rollback") /\ Fault /\ UNCHANGED <<index, work, dirs>>
     ELSE Goto("rollback") /\ NoFault /\ UNCHANGED <<index, work, dirs>>
  /\ UNCHANGED <<head, op, start, clean>>

\* fs.rename of every target file, side by side.  A file that is in the way is a
\* conflict, which is not rolled back although others have moved; a missing one is an
\* error that is.
MoveFiles ==
  LET clash == {f \in op.from : work[Target(op, f)] # Absent}
      missing == (op.from \ clash) \ Present(work)
      rest == op.from \ (clash \cup missing)
  IN
  /\ step = "write"
  /\ op.kind = "move"
  /\ \/ /\ work' = Moved(work, op, rest)
        /\ \/ clash = {} /\ missing = {} /\ Goto("add")
           \/ clash # {} /\ Finish("error")
           \/ missing # {} /\ Goto("rollback")
        /\ NoFault
     \/ /\ \E fs \in SUBSET rest : work' = Moved(work, op, fs)
        /\ Goto("rollback") /\ Fault
  /\ UNCHANGED <<head, index, dirs, op, start, clean>>

-----------------------------------------------------------------------------
(* commit and rollback                                                     *)

\* Mutation of Added: only the paths that were written to are added.
BugAddTargetsOnly == IF op.to = {} THEN op.from ELSE op.to

\* The paths given to git add; a move gives it the two directories.
Added ==
  IF op.kind = "move" THEN UNION {In(d) : d \in DirsOf(op.from \cup op.to)}
  ELSE op.from \cup op.to

\* isValidGitRepo and ensureCorrectBranch, whose errors do not roll back, then git add,
\* which refuses a path that is neither in the index nor in the work tree.
GitAdd ==
  /\ step = "add"
  /\ IF Added \cap (Present(index) \cup Present(work)) # {}
     THEN \/ /\ index' = [f \in Files |-> IF f \in Added THEN work[f] ELSE index[f]]
             /\ Goto("commit") /\ NoFault
          \/ Finish("error") /\ Fault /\ UNCHANGED index
          \/ Goto("rollback") /\ Fault /\ UNCHANGED index
     ELSE Goto("rollback") /\ NoFault /\ UNCHANGED index
  /\ UNCHANGED <<head, work, dirs, op, start, clean>>

\* git commit; with nothing to commit simple-git reports no error.  An error may be
\* reported although the commit is there.  A rename, which has left out git add, comes to
\* the checks of commit (isValidGitRepo, ensureCorrectBranch) only here, after git mv, and
\* their error is passed on without a rollback.
GitCommit ==
  /\ step = "commit"
  /\ \/ head' = index /\ Finish("ok") /\ NoFault
     \/ head' \in {head, index} /\ Goto("rollback") /\ Fault
     \/ op.kind \in {"rename", "renameDir"} /\ UNCHANGED head /\ Finish("error") /\ Fault
  /\ UNCHANGED <<index, work, dirs, op, start, clean>>

\* Mutation of Rollback: HEAD is kept instead of oldStateSha.
BugResetToHead ==
  /\ step = "rollback"
  /\ index' = head /\ work' = head /\ dirs' = DirsOf(Present(head))
  /\ Finish("rolledBack")
  /\ NoFault
  /\ UNCHANGED <<head, op, start, clean>>
\* git reset --hard oldStateSha, git clean -fd
Rollback ==
  /\ step = "rollback"
  /\ \/ /\ head' = start /\ index' = start /\ work' = start
        /\ dirs' = DirsOf(Present(start))
        /\ Finish("rolledBack") /\ NoFault
     \/ Finish("stuck") /\ Fault /\ UNCHANGED disk
  /\ UNCHANGED <<op, start, clean>>

\* The process dies; a later request finds the clone as it is.
ProcessDies ==
  /\ step # "idle"
  /\ Finish("crashed")
  /\ Fault
  /\ UNCHANGED <<disk, op, start, clean>>

GitNext ==
  \/ Begin \/ WriteFiles \/ GitMv \/ MoveFiles \/ GitAdd \/ GitCommit \/ Rollback \/ ProcessDies

GitSpec == GitInit /\ [][GitNext]_gitVars

-----------------------------------------------------------------------------
(* Properties                                                              *)

\* What the caller asked for, as a function of the tree it asked it of.
Intended ==
  IF op.kind \in {"rename", "renameDir", "move"} THEN Moved(start, op, op.from)
  ELSE [f \in Files |-> IF f \in op.from \cup op.to THEN op.content ELSE start[f]]

\* An operation that succeeds on a clean clone has committed exactly what was asked, no
\* path more or less, and leaves the clone clean.
OkCommitsExactlyThat ==
  result = "ok" /\ clean => head = Intended /\ index = head /\ work = head

\* An operation that reports an error has not changed the branch, unless its own
\* rollback failed; and if it rolled back it has left nothing behind, not even what an
\* earlier operation had left.  A clean clone becomes dirty only by a failure of the
\* environment or by a move that finds one of its files in the way, whatever the sequence
\* of operations.
ErrorChangesNothing ==
  /\ result \in {"error", "rolledBack"} => head = start
  /\ result = "rolledBack" => index = start /\ work = start
  /\ faults = 0 /\ step = "idle" /\ clean /\ ~(op.kind = "move" /\ result = "error")
     => index = head /\ work = head

-----------------------------------------------------------------------------
(* What the code says, and does not do                                     *)

\* GitFileSystemService.ts:1512: "File has been changed recently, please try again" is
\* what deleteMultipleFiles answers for a file that is not the version of the caller's sha.
DeleteManyHashProtects ==
  result = "ok" /\ op.kind = "deleteMany" => \A f \in op.from : start[f] = op.hash
=============================================================================
