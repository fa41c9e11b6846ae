------------------------------ MODULE CloneProofs ------------------------------
(***************************************************************************)
(* The clone of a site on EFS, for one operation at a time, and the lock   *)
(* that keeps them to one at a time, for any number of requests and sites. *)
(***************************************************************************)
EXTENDS SiteMutex, GitFileSystem, TLAPS

-----------------------------------------------------------------------------
(* The lock of a site excludes, as long as no handler outlives its item    *)

(***************************************************************************)
(* The three parts of IInv need each other: a request that takes the lock  *)
(* is alone inside because a holder would still have its item, and a       *)
(* holder still has its item because only the holder itself unlocks.       *)
(***************************************************************************)

\* Every table, phase and answer stays within its type (mutex-utils.js, routeHandler.ts).
LEMMA TypeStep == TypeOK /\ [Next]_vars => TypeOK'
<1> SUFFICES ASSUME TypeOK, [Next]_vars
             PROVE  TypeOK'
  OBVIOUS
<1> USE SiteMutexAssumption DEF TypeOK, Phases, Answers
<1>1. ASSUME NEW r \in Requests, CheckGitFileLock(r)
      PROVE  TypeOK'
  BY <1>1 DEF CheckGitFileLock
<1>2. ASSUME NEW r \in Requests, Lock(r)
      PROVE  TypeOK'
  BY <1>2 DEF Lock, Refused
<1>3. ASSUME NEW r \in Requests, RunHandler(r)
      PROVE  TypeOK'
  BY <1>3 DEF RunHandler
<1>4. ASSUME NEW r \in Requests, UnlockSucceeds(r)
      PROVE  TypeOK'
  BY <1>4 DEF UnlockSucceeds, ItemsAfterUnlock
<1>5. ASSUME NEW r \in Requests, UnlockFails(r)
      PROVE  TypeOK'
  BY <1>5 DEF UnlockFails, ItemsAfterUnlock
<1>6. ASSUME NEW r \in Requests, Crash(r)
      PROVE  TypeOK'
  BY <1>6 DEF Crash
<1>7. ASSUME NEW s \in Sites, Expire(s)
      PROVE  TypeOK'
  BY <1>7 DEF Expire, OnSite
<1>8. CASE UNCHANGED vars
  BY <1>8 DEF vars
<1> QED
  BY <1>1, <1>2, <1>3, <1>4, <1>5, <1>6, <1>7, <1>8 DEF Next, Step

\* Who is inside and which items are there, seen from one site that locks.
SiteInv(s) ==
  ~OverranOn(s) =>
    /\ \A r, q \in OnSite(s) : Holds(r) /\ Holds(q) => r = q
    /\ \A r \in OnSite(s) : Holds(r) => s \in items

\* Each step of the lock and of the wrapper keeps one site's part of the invariant.
LEMMA SiteStep ==
  ASSUME TypeOK, [Next]_vars, NEW s \in Sites \ E2eTestRepos, SiteInv(s)
  PROVE  SiteInv(s)'
<1> USE SiteMutexAssumption DEF TypeOK, SiteInv, OverranOn, OnSite, Holds, Inside
<1>1. ASSUME NEW r \in Requests, CheckGitFileLock(r)
      PROVE  SiteInv(s)'
  BY <1>1 DEF CheckGitFileLock
<1>2. ASSUME NEW r \in Requests, Lock(r)
      PROVE  SiteInv(s)'
  <2>1. CASE SiteOf[r] # s
    BY <1>2, <2>1 DEF Lock, Refused
  <2>2. CASE SiteOf[r] = s /\ s \notin items
    BY <1>2, <2>2 DEF Lock, Refused
  <2>3. CASE SiteOf[r] = s /\ s \in items
    BY <1>2, <2>3 DEF Lock, Refused
  <2> QED
    BY <2>1, <2>2, <2>3
<1>3. ASSUME NEW r \in Requests, RunHandler(r)
      PROVE  SiteInv(s)'
  BY <1>3 DEF RunHandler
<1>4. ASSUME NEW r \in Requests, UnlockSucceeds(r)
      PROVE  SiteInv(s)'
  BY <1>4 DEF UnlockSucceeds, ItemsAfterUnlock
<1>5. ASSUME NEW r \in Requests, UnlockFails(r)
      PROVE  SiteInv(s)'
  BY <1>5 DEF UnlockFails, ItemsAfterUnlock
<1>6. ASSUME NEW r \in Requests, Crash(r)
      PROVE  SiteInv(s)'
  BY <1>6 DEF Crash
<1>7. ASSUME NEW t \in Sites, Expire(t)
      PROVE  SiteInv(s)'
  <2>1. CASE t = s /\ \E r \in OnSite(s) : Holds(r)
    BY <1>7, <2>1 DEF Expire
  <2>2. CASE t = s /\ ~\E r \in OnSite(s) : Holds(r)
    BY <1>7, <2>2 DEF Expire
  <2>3. CASE t # s
    BY <1>7, <2>3 DEF Expire
  <2> QED
    BY <2>1, <2>2, <2>3
<1>8. CASE UNCHANGED vars
  BY <1>8 DEF vars
<1> QED
  BY <1>1, <1>2, <1>3, <1>4, <1>5, <1>6, <1>7, <1>8 DEF Next, Step

\* The inductive invariant of the lock and its wrapper.
THEOREM Invariance == Spec => []IInv
<1>1. Init => IInv
  BY SiteMutexAssumption
     DEF Init, IInv, TypeOK, Phases, Answers, ExclusiveUnlessOverrun,
         ItemBacksHolder, Holds, Inside, OnSite
<1>2. IInv /\ [Next]_vars => IInv'
  <2> SUFFICES ASSUME IInv, [Next]_vars
               PROVE  IInv'
    OBVIOUS
  <2>1. TypeOK /\ TypeOK'
    BY TypeStep DEF IInv
  <2>2. \A s \in Sites \ E2eTestRepos : SiteInv(s)
    BY DEF IInv, ExclusiveUnlessOverrun, ItemBacksHolder, SiteInv
  <2>3. \A s \in Sites \ E2eTestRepos : SiteInv(s)'
    BY <2>1, <2>2, SiteStep
  <2> QED
    BY <2>1, <2>3 DEF IInv, ExclusiveUnlessOverrun, ItemBacksHolder, SiteInv
<1> QED
  BY <1>1, <1>2, PTL DEF Spec

\* Two write handlers of a site overlap only after one of them has outlived its item:
\* lock and unlock, which know no owner, exclude each other until then.
THEOREM MutualExclusion == Spec => []ExclusiveUnlessOverrun
  BY Invariance, PTL DEF IInv

\* A request inside loses its item, to its expiry or to the unlock of another request,
\* only if a request of its site has outlived its item by then.
THEOREM LockNotStolen == Spec => NoTheftWithoutOverrun
<1> DEFINE NoTheftStep ==
      \A r \in Requests :
        /\ SiteOf[r] \in items \ items'
        /\ Holds(r)
        /\ phase'[r] \in Inside
        => overran' \cap OnSite(SiteOf[r]) # {}
<1>1. IInv /\ [Next]_vars => [NoTheftStep]_vars
  <2> SUFFICES ASSUME IInv, [Next]_vars, NEW r \in Requests,
                      SiteOf[r] \in items \ items', Holds(r), phase'[r] \in Inside
               PROVE  overran' \cap OnSite(SiteOf[r]) # {}
    BY DEF NoTheftStep
  <2> USE SiteMutexAssumption DEF IInv, TypeOK, OnSite, Holds, Inside
  <2>1. ASSUME NEW q \in Requests,
               CheckGitFileLock(q) \/ Lock(q) \/ RunHandler(q) \/ Crash(q)
        PROVE  FALSE
    BY <2>1 DEF CheckGitFileLock, Lock, Refused, RunHandler, Crash
  <2>2. ASSUME NEW q \in Requests, UnlockSucceeds(q) \/ UnlockFails(q)
        PROVE  overran' \cap OnSite(SiteOf[r]) # {}
    <3>1. /\ SiteOf[q] = SiteOf[r]
          /\ SiteOf[q] \notin E2eTestRepos
          /\ Holds(q)
          /\ q # r
          /\ overran' = overran
      BY <2>2 DEF UnlockSucceeds, UnlockFails, ItemsAfterUnlock
    <3> QED
      BY <3>1 DEF ExclusiveUnlessOverrun, OverranOn
  <2>3. ASSUME NEW s \in Sites, Expire(s)
        PROVE  overran' \cap OnSite(SiteOf[r]) # {}
    BY <2>3 DEF Expire
  <2>4. CASE UNCHANGED vars
    BY <2>4 DEF vars
  <2> QED
    BY <2>1, <2>2, <2>3, <2>4 DEF Next, Step
<1> QED
  BY <1>1, Invariance, PTL DEF Spec, NoTheftWithoutOverrun

\* The items of the lock and the phases and answers of the wrapped handlers keep their
\* types, whoever crashes and whatever expires.
THEOREM TypeCorrect == Spec => []TypeOK
  BY Invariance, PTL DEF IInv

-----------------------------------------------------------------------------
(* What an operation on a clone keeps up                                    *)

\* What the checks of an operation have seen to by its first write.
RoomInv ==
  step = "write" =>
    /\ op.kind \in {"create", "update", "move"} => DirsOf(op.to) \subseteq dirs
    /\ op.kind = "renameDir" => DirsOf(op.to) \cap dirs = {}

\* How far an operation on a clean clone has come.
ChainInv ==
  /\ step # "idle" => result = "none"
  /\ step \in {"write", "add", "commit"} => head = start
  /\ clean =>
       /\ step = "write" => index = start /\ work = start
       /\ step = "add" => index = start /\ work = Intended
       /\ step = "commit" => index = Intended /\ work = Intended

GitInv == GitTypeOK /\ RoomInv /\ ChainInv /\ OkCommitsExactlyThat /\ ErrorChangesNothing

-----------------------------------------------------------------------------
(* The operations on a clone: what they move and write                     *)

\* The operations, one kind after the other.
Shape(o) ==
  \/ /\ o.kind \in {"create", "update"} /\ o.content \in Contents
     /\ \E f \in Files : /\ o.to = {f}
                        /\ (o.kind = "create" => o.from = {})
                        /\ (o.kind = "update" => o.from = {f})
  \/ /\ o.kind \in {"delete", "deleteMany"} /\ o.content = Absent
     /\ o.to = {} /\ o.from \subseteq Files
  \/ /\ o.kind = "deleteDir" /\ o.content = Absent
     /\ o.to = {} /\ \E d \in Dirs : o.from = In(d)
  \/ /\ o.kind = "rename"
     /\ \E f, g \in Files : o.from = {f} /\ o.to = {g}
  \/ /\ o.kind = "renameDir"
     /\ \E d, e \in Dirs : o.from = In(d) /\ o.to = In(e)
  \/ /\ o.kind = "move"
     /\ \E d, e \in Dirs, ns \in SUBSET Names : o.from = At(d, ns) /\ o.to = At(e, ns)

LEMMA OpParts ==
  ASSUME NEW o \in Ops
  PROVE  Shape(o)
<1> DEFINE Creations == {Op("create", {}, {f}, c, Absent) : f \in Files, c \in Contents}
           Updates == {Op("update", {f}, {f}, c, h) :
                         f \in Files, c \in Contents, h \in Contents}
           Deletions == {Op("delete", {f}, {}, Absent, h) : f \in Files, h \in Contents}
           DirDeletions == {Op("deleteDir", In(d), {}, Absent, Absent) : d \in Dirs}
           ManyDeletions == {Op("deleteMany", fs, {}, Absent, h) :
                               fs \in (SUBSET Files) \ {{}}, h \in Contents}
           Renamings == {Op("rename", {f}, {g}, Absent, Absent) : f \in Files, g \in Files}
           DirRenamings == {Op("renameDir", In(d), In(e), Absent, Absent) :
                              d \in Dirs, e \in Dirs}
           Moves == {Op("move", At(d, ns), At(e, ns), Absent, Absent) :
                       d \in Dirs, e \in Dirs, ns \in (SUBSET Names) \ {{}}}
<1>0. Ops = Creations \cup Updates \cup Deletions \cup DirDeletions \cup ManyDeletions
            \cup Renamings \cup DirRenamings \cup Moves
  BY DEF Ops
<1>1. CASE o \in Creations
  BY <1>1 DEF Op, Shape
<1>2. CASE o \in Updates
  BY <1>2 DEF Op, Shape
<1>3. CASE o \in Deletions
  BY <1>3 DEF Op, Shape
<1>4. CASE o \in DirDeletions
  BY <1>4 DEF Op, Shape
<1>5. CASE o \in ManyDeletions
  BY <1>5 DEF Op, Shape
<1>6. CASE o \in Renamings
  BY <1>6 DEF Op, Shape
<1>7. CASE o \in DirRenamings
  BY <1>7 DEF Op, Shape
<1>8. CASE o \in Moves
  <2>1. PICK d \in Dirs, e \in Dirs, ns \in (SUBSET Names) \ {{}} :
          o = Op("move", At(d, ns), At(e, ns), Absent, Absent)
    BY <1>8
  <2>2. ns \in SUBSET Names /\ o.kind = "move" /\ o.from = At(d, ns) /\ o.to = At(e, ns)
    BY <2>1 DEF Op
  <2> QED BY <2>2 DEF Shape
<1> HIDE DEF Creations, Updates, Deletions, DirDeletions, ManyDeletions, Renamings,
             DirRenamings, Moves
<1> QED BY <1>0, <1>1, <1>2, <1>3, <1>4, <1>5, <1>6, <1>7, <1>8

Moving == {"rename", "renameDir", "move"}
Writing == {"create", "update", "delete", "deleteDir", "deleteMany"}

LEMMA OpFiles ==
  ASSUME NEW o \in Ops
  PROVE  /\ o.from \subseteq Files /\ o.to \subseteq Files
         /\ o.kind \in Moving \cup Writing
         /\ o.kind \in Writing => o.content \in Contents \cup {Absent}
BY OpParts DEF Shape, Files, In, At, Moving, Writing

\* A move takes each of its files to a path of its own.
LEMMA Targets ==
  ASSUME NEW o \in Ops, o.kind \in Moving
  PROVE  /\ \A f \in o.from : Target(o, f) \in o.to
         /\ \A f, h \in o.from : Target(o, f) = Target(o, h) => f = h
<1>1. CASE o.kind = "rename"
  <2>1. PICK f \in Files, g \in Files : o.from = {f} /\ o.to = {g}
    BY <1>1, OpParts DEF Shape
  <2>2. Target(o, f) = g
    BY <1>1, <2>1 DEF Target
  <2> QED BY <2>1, <2>2
<1>2. CASE o.kind \in {"renameDir", "move"}
  <2>1. PICK d \in Dirs, e \in Dirs, ns \in SUBSET Names : o.from = At(d, ns) /\ o.to = At(e, ns)
    <3>1. Names \in SUBSET Names
      OBVIOUS
    <3>2. CASE o.kind = "renameDir"
      BY <3>1, <3>2, OpParts DEF Shape, In
    <3>3. CASE o.kind = "move"
      BY <3>3, OpParts DEF Shape
    <3> QED BY <1>2, <3>2, <3>3
  <2>2. ASSUME NEW f \in o.from
        PROVE  Target(o, f) = <<e, f[2]>> /\ f[2] \in ns /\ f = <<d, f[2]>>
    <3>1. f[2] \in ns /\ f = <<d, f[2]>>
      BY <2>1 DEF At
    <3>2. \E g \in o.to : g[2] = f[2]
      <4>1. <<e, f[2]>> \in o.to /\ <<e, f[2]>>[2] = f[2]
        BY <2>1, <3>1 DEF At
      <4> QED BY <4>1
    <3>3. \A g \in o.to : g[1] = e
      BY <2>1 DEF At
    <3>4. (CHOOSE g \in o.to : g[2] = f[2])[1] = e
      BY <3>2, <3>3
    <3> QED BY <1>2, <3>1, <3>4 DEF Target
  <2>3. \A f \in o.from : Target(o, f) \in o.to
    BY <2>1, <2>2 DEF At
  <2>4. \A f, h \in o.from : Target(o, f) = Target(o, h) => f = h
    BY <2>2
  <2> QED BY <2>3, <2>4
<1> QED BY <1>1, <1>2 DEF Moving

\* What a tree holds after some of the files of a move have moved.
LEMMA MovedParts ==
  ASSUME NEW tree \in Tree, NEW o \in Ops, o.kind \in Moving, NEW fs \in SUBSET o.from
  PROVE  /\ Moved(tree, o, fs) \in Tree
         /\ \A f \in fs : tree[f] # Absent => Moved(tree, o, fs)[Target(o, f)] = tree[f]
         /\ \A g \in Files : (\A f \in fs : tree[f] # Absent => Target(o, f) # g) =>
              Moved(tree, o, fs)[g] = IF g \in fs THEN Absent ELSE tree[g]
<1>0. /\ fs \subseteq Files /\ \A f \in fs : Target(o, f) \in Files
      /\ \A f, h \in fs : Target(o, f) = Target(o, h) => f = h
  BY Targets, OpFiles
<1> DEFINE M == Moved(tree, o, fs)
<1>1. \A g \in Files :
        M[g] = IF \E f \in fs : Target(o, f) = g /\ tree[f] # Absent
               THEN tree[CHOOSE f \in fs : Target(o, f) = g]
               ELSE IF g \in fs THEN Absent ELSE tree[g]
  BY DEF Moved
<1>2. \A f \in fs : (CHOOSE h \in fs : Target(o, h) = Target(o, f)) = f
  <2> TAKE f \in fs
  <2> DEFINE h == CHOOSE h \in fs : Target(o, h) = Target(o, f)
  <2>1. h \in fs /\ Target(o, h) = Target(o, f)
    OBVIOUS
  <2> HIDE DEF h
  <2>2. h = f
    BY <1>0, <2>1
  <2> QED BY <2>2 DEF h
<1> HIDE DEF M
<1>3. \A f \in fs : tree[f] # Absent => M[Target(o, f)] = tree[f]
  <2> SUFFICES ASSUME NEW f \in fs, tree[f] # Absent
               PROVE  M[Target(o, f)] = tree[f]
    OBVIOUS
  <2>1. M[Target(o, f)] = tree[CHOOSE h \in fs : Target(o, h) = Target(o, f)]
    BY <1>0, <1>1
  <2> QED BY <1>2, <2>1
<1>4. \A g \in Files : (\A f \in fs : tree[f] # Absent => Target(o, f) # g) =>
        M[g] = IF g \in fs THEN Absent ELSE tree[g]
  BY <1>1
<1>5. \A g \in Files : M[g] \in Contents \cup {Absent}
  <2> TAKE g \in Files
  <2>1. \A f \in Files : tree[f] \in Contents \cup {Absent}
    BY DEF Tree
  <2>2. CASE \E f \in fs : tree[f] # Absent /\ Target(o, f) = g
    BY <1>0, <1>3, <2>1, <2>2
  <2>3. CASE ~ \E f \in fs : tree[f] # Absent /\ Target(o, f) = g
    BY <1>4, <2>1, <2>3
  <2> QED BY <2>2, <2>3
<1>6. M = [g \in Files |-> M[g]]
  BY DEF M, Moved
<1>7. M \in Tree
  BY <1>5, <1>6 DEF Tree
<1> QED BY <1>3, <1>4, <1>7 DEF M

\* git mv of the files that are tracked moves as much as a move of all of them.
LEMMA MovedTracked ==
  ASSUME NEW tree \in Tree, NEW o \in Ops, o.kind \in Moving
  PROVE  Moved(tree, o, Present(tree) \cap o.from) = Moved(tree, o, o.from)
<1> DEFINE fs == Present(tree) \cap o.from
           M == Moved(tree, o, fs)
           A == Moved(tree, o, o.from)
<1>1. \A f \in o.from : f \in fs <=> tree[f] # Absent
  BY OpFiles DEF Present
<1>2. fs \in SUBSET o.from
  OBVIOUS
<1>3. /\ M \in Tree
      /\ \A f \in fs : tree[f] # Absent => M[Target(o, f)] = tree[f]
      /\ \A g \in Files : (\A f \in fs : tree[f] # Absent => Target(o, f) # g) =>
           M[g] = IF g \in fs THEN Absent ELSE tree[g]
  BY <1>2, MovedParts
<1>4. /\ A \in Tree
      /\ \A f \in o.from : tree[f] # Absent => A[Target(o, f)] = tree[f]
      /\ \A g \in Files : (\A f \in o.from : tree[f] # Absent => Target(o, f) # g) =>
           A[g] = IF g \in o.from THEN Absent ELSE tree[g]
  BY MovedParts
<1> HIDE DEF M, A, fs
<1>5. \A g \in Files : M[g] = A[g]
  <2> TAKE g \in Files
  <2>1. CASE \E f \in fs : tree[f] # Absent /\ Target(o, f) = g
    BY <1>2, <1>3, <1>4, <2>1
  <2>2. CASE ~ \E f \in fs : tree[f] # Absent /\ Target(o, f) = g
    <3>1. \A f \in o.from : tree[f] # Absent => Target(o, f) # g
      BY <1>1, <2>2
    <3>2. M[g] = IF g \in fs THEN Absent ELSE tree[g]
      BY <1>3, <2>2
    <3>3. A[g] = IF g \in o.from THEN Absent ELSE tree[g]
      BY <1>4, <3>1
    <3> QED BY <1>1, <1>2, <3>2, <3>3
  <2> QED BY <2>1, <2>2
<1>6. M = A
  BY <1>3, <1>4, <1>5 DEF Tree
<1> QED BY <1>6 DEF M, A, fs

\* No move touches a path that is neither one it moves from nor one it moves to.
LEMMA MovedElsewhere ==
  ASSUME NEW tree \in Tree, NEW o \in Ops, o.kind \in Moving, NEW fs \in SUBSET o.from
  PROVE  \A g \in Files \ (o.from \cup o.to) : Moved(tree, o, fs)[g] = tree[g]
<1>1. \A f \in fs : Target(o, f) \in o.to
  BY Targets
<1> QED BY <1>1, MovedParts

\* The directory of a path, and the paths of a directory.
LEMMA Paths ==
  /\ \A fs \in SUBSET Files : DirsOf(fs) \subseteq Dirs /\ \A f \in fs : f[1] \in DirsOf(fs)
  /\ \A d \in Dirs : DirsOf(In(d)) \subseteq {d} /\ In(d) \subseteq Files
  /\ \A f \in Files : f[1] \in Dirs /\ f \in In(f[1])
  /\ \A d \in Dirs, f \in Files : f \notin In(d) => f[1] # d
BY DEF DirsOf, Files, In, At

\* git add is given every path of the operation.
LEMMA AddedAll ==
  ASSUME GitTypeOK
  PROVE  op.from \cup op.to \subseteq Added
<1>1. op.from \cup op.to \subseteq Files
  BY OpFiles DEF GitTypeOK
<1>2. CASE op.kind = "move"
  <2> SUFFICES ASSUME NEW f \in op.from \cup op.to
               PROVE  f \in Added
    OBVIOUS
  <2>1. f \in In(f[1]) /\ f[1] \in DirsOf(op.from \cup op.to)
    BY <1>1, Paths
  <2> QED BY <1>2, <2>1 DEF Added
<1>3. CASE op.kind # "move"
  BY <1>3 DEF Added
<1> QED BY <1>2, <1>3

\* What is asked for is a tree, and differs from the old one at the paths of the operation
\* at most.
LEMMA IntendedElsewhere ==
  ASSUME GitTypeOK
  PROVE  /\ Intended \in Tree
         /\ \A f \in Files \ (op.from \cup op.to) : Intended[f] = start[f]
<1>1. op \in Ops /\ start \in Tree /\ op.kind \in Moving \cup Writing
      /\ (op.kind \in Writing => op.content \in Contents \cup {Absent})
  BY OpFiles DEF GitTypeOK
<1>2. CASE op.kind \in Moving
  <2>1. Intended = Moved(start, op, op.from)
    BY <1>2 DEF Intended, Moving
  <2>2. op.from \in SUBSET op.from
    OBVIOUS
  <2>3. Moved(start, op, op.from) \in Tree
    BY <1>1, <1>2, <2>2, MovedParts
  <2>4. \A f \in Files \ (op.from \cup op.to) : Moved(start, op, op.from)[f] = start[f]
    BY <1>1, <1>2, <2>2, MovedElsewhere
  <2> QED BY <2>1, <2>3, <2>4
<1>3. CASE op.kind \in Writing
  <2>1. Intended = [f \in Files |-> IF f \in op.from \cup op.to THEN op.content ELSE start[f]]
    BY <1>3 DEF Intended, Writing
  <2> QED BY <1>1, <1>3, <2>1 DEF Tree
<1> QED BY <1>1, <1>2, <1>3

-----------------------------------------------------------------------------
(* Each step of an operation keeps GitInv                                   *)

\* The checks before the first write see to the directories that the writes rely on.
LEMMA BeginKeeps ==
  ASSUME GitInv, Begin
  PROVE  GitInv'
<1> USE DEF GitInv
<1>1. /\ step = "idle" /\ op' \in Ops /\ Passes(op') /\ start' = head
      /\ clean' = (index = head /\ work = head)
      /\ dirs' = dirs \cup MadeDirs(op') /\ step' = "write" /\ result' = "none"
      /\ faults' = faults /\ head' = head /\ index' = index /\ work' = work
  BY DEF Begin, NoFault
<1>2. op'.from \subseteq Files /\ op'.to \subseteq Files
  BY <1>1, OpFiles
<1>3. MadeDirs(op') \subseteq Dirs
  BY <1>2, Paths DEF MadeDirs
<1>4. Present(work)' = Present(work)
  BY <1>1 DEF Present
<1>5. GitTypeOK'
  BY <1>1, <1>3, <1>4 DEF GitTypeOK, Results
<1>6. RoomInv'
  <2>1. CASE op'.kind \in {"create", "move"}
    BY <1>1, <2>1 DEF RoomInv, MadeDirs
  <2>2. CASE op'.kind = "update"
    <3>1. PICK f \in Files : op'.to = {f} /\ op'.from = {f}
      BY <1>1, <2>2, OpParts DEF Shape
    <3>2. f \in Present(work)
      BY <1>1, <2>2, <3>1 DEF Passes, MayUpdate
    <3>3. f[1] \in dirs'
      BY <1>1, <3>2 DEF GitTypeOK
    <3> QED BY <1>1, <2>2, <3>1, <3>3 DEF RoomInv, DirsOf
  <2>3. CASE op'.kind = "renameDir"
    <3>1. DirsOf(op'.to) \cap dirs = {}
      BY <1>1, <2>3 DEF Passes, MayRename
    <3>2. dirs' = dirs
      BY <1>1, <2>3 DEF MadeDirs
    <3> QED BY <2>3, <3>1, <3>2 DEF RoomInv
  <2>4. CASE op'.kind \notin {"create", "move", "update", "renameDir"}
    BY <2>4 DEF RoomInv
  <2> QED BY <2>1, <2>2, <2>3, <2>4
<1>7. ChainInv'
  BY <1>1 DEF ChainInv
<1>8. OkCommitsExactlyThat' /\ ErrorChangesNothing'
  BY <1>1 DEF OkCommitsExactlyThat, ErrorChangesNothing
<1> QED BY <1>5, <1>6, <1>7, <1>8

\* Writing the files of a create, an update or a deletion, or some of them.
LEMMA WrittenIsTyped ==
  ASSUME GitInv, op.kind \in Writing, step = "write", NEW fs \in SUBSET (op.from \cup op.to)
  PROVE  /\ Written(fs) \in Tree
         /\ \A g \in Files : Written(fs)[g] # Absent => g[1] \in dirs
         /\ \A g \in fs : op.kind = "deleteDir" => Written(fs)[g] = Absent
<1>1. /\ op \in Ops /\ work \in Tree /\ op.content \in Contents \cup {Absent}
      /\ op.from \cup op.to \subseteq Files
      /\ \A f \in Present(work) : f[1] \in dirs
  BY OpFiles DEF GitInv, GitTypeOK
<1>2. \A g \in Files : Written(fs)[g] = IF g \in fs THEN op.content ELSE work[g]
  BY DEF Written
<1>3. Written(fs) \in Tree
  BY <1>1 DEF Written, Tree
<1>4. ASSUME NEW g \in Files, Written(fs)[g] # Absent
      PROVE  g[1] \in dirs
  <2>1. CASE g \in fs
    <3>1. op.content # Absent
      BY <1>2, <1>4, <2>1
    <3>2. op.kind \in {"create", "update"}
      BY <1>1, <3>1, OpParts DEF Shape, Writing
    <3>3. PICK f \in Files : op.to = {f} /\ op.from \subseteq {f}
      BY <1>1, <3>2, OpParts DEF Shape
    <3>4. g \in op.to
      BY <2>1, <3>3
    <3>5. DirsOf(op.to) \subseteq dirs
      BY <3>2 DEF GitInv, RoomInv
    <3> QED BY <3>4, <3>5 DEF DirsOf
  <2>2. CASE g \notin fs
    BY <1>1, <1>2, <1>4, <2>2 DEF Present
  <2> QED BY <2>1, <2>2
<1>5. ASSUME NEW g \in fs, op.kind = "deleteDir"
      PROVE  Written(fs)[g] = Absent
  <2>1. op.content = Absent
    BY <1>1, <1>5, OpParts DEF Shape
  <2> QED BY <1>1, <1>2, <2>1
<1> QED BY <1>3, <1>4, <1>5

\* With every path written the work tree is what was asked for.
LEMMA WriteFilesKeeps ==
  ASSUME GitInv, WriteFiles
  PROVE  GitInv'
<1> USE DEF GitInv
<1> DEFINE paths == op.from \cup op.to
<1>1. /\ step = "write" /\ op.kind \in Writing
      /\ head' = head /\ index' = index /\ op' = op /\ start' = start /\ clean' = clean
  BY DEF WriteFiles, Writing
<1>2. op \in Ops /\ paths \subseteq Files
  BY OpFiles DEF GitTypeOK
<1>3. head = start /\ result = "none" /\ (clean => index = start /\ work = start)
  BY <1>1 DEF ChainInv
<1>4. CASE /\ work' = Written(paths)
           /\ dirs' = IF op.kind = "deleteDir" THEN dirs \ DirsOf(paths) ELSE dirs
           /\ Goto("add") /\ NoFault
  <2>1. step' = "add" /\ result' = "none" /\ faults' = faults
    BY <1>3, <1>4 DEF Goto, NoFault
  <2>2. paths \in SUBSET (op.from \cup op.to)
    OBVIOUS
  <2>3. /\ Written(paths) \in Tree
        /\ \A g \in Files : Written(paths)[g] # Absent => g[1] \in dirs
        /\ \A g \in paths : op.kind = "deleteDir" => Written(paths)[g] = Absent
    BY <1>1, <2>2, WrittenIsTyped
  <2>4. dirs' \subseteq Dirs
    BY <1>4 DEF GitTypeOK
  <2>5. ASSUME NEW g \in Files, work'[g] # Absent
        PROVE  g[1] \in dirs'
    <3>1. g[1] \in dirs
      BY <1>4, <2>3, <2>5
    <3>2. CASE op.kind = "deleteDir"
      <4>1. PICK d \in Dirs : op.from = In(d) /\ op.to = {}
        BY <1>2, <3>2, OpParts DEF Shape
      <4>2. g \notin In(d)
        BY <1>4, <2>3, <2>5, <3>2, <4>1
      <4>3. g[1] \notin DirsOf(paths)
        BY <4>1, <4>2, Paths
      <4> QED BY <1>4, <3>1, <3>2, <4>3
    <3>3. CASE op.kind # "deleteDir"
      BY <1>4, <3>1, <3>3
    <3> QED BY <3>2, <3>3
  <2>6. GitTypeOK'
    BY <1>1, <1>4, <2>1, <2>3, <2>4, <2>5 DEF GitTypeOK, Present, Results
  <2>7. clean => work' = Intended'
    <3>1. op.kind \notin {"rename", "renameDir", "move"}
      BY <1>1 DEF Writing
    <3> QED BY <1>1, <1>3, <1>4, <3>1 DEF Intended, Written
  <2>8. ChainInv'
    BY <1>1, <1>3, <2>1, <2>7 DEF ChainInv
  <2> QED BY <2>1, <2>6, <2>8 DEF RoomInv, OkCommitsExactlyThat, ErrorChangesNothing
<1>5. CASE /\ \E fs \in SUBSET paths : work' = Written(fs)
           /\ UNCHANGED dirs
           /\ Goto("rollback") /\ Fault
  <2>1. /\ step' = "rollback" /\ result' = "none" /\ dirs' = dirs
        /\ faults < MaxFaults /\ faults' = faults + 1
    BY <1>3, <1>5 DEF Goto, Fault
  <2>2. PICK fs \in SUBSET (op.from \cup op.to) : work' = Written(fs)
    BY <1>5
  <2>3. /\ Written(fs) \in Tree
        /\ \A g \in Files : Written(fs)[g] # Absent => g[1] \in dirs
    BY <1>1, WrittenIsTyped
  <2>4. faults' \in 0..MaxFaults
    BY <2>1, GitFileSystemAssumption DEF GitTypeOK
  <2>5. GitTypeOK'
    BY <1>1, <2>1, <2>2, <2>3, <2>4 DEF GitTypeOK, Present, Results
  <2> QED BY <2>1, <2>5 DEF RoomInv, ChainInv, OkCommitsExactlyThat, ErrorChangesNothing
<1> QED BY <1>4, <1>5 DEF WriteFiles

\* git mv moves only what is tracked, which on a clean clone is all there is.
LEMMA GitMvKeeps ==
  ASSUME GitInv, GitMv
  PROVE  GitInv'
<1> USE DEF GitInv
<1> DEFINE tracked == Present(index) \cap op.from
<1>1. /\ step = "write" /\ op.kind \in {"rename", "renameDir"} /\ op.kind \in Moving
      /\ head' = head /\ op' = op /\ start' = start /\ clean' = clean
  BY DEF GitMv, Moving
<1>2. /\ op \in Ops /\ op.from \subseteq Files /\ op.to \subseteq Files
      /\ work \in Tree /\ index \in Tree
  BY OpFiles DEF GitTypeOK
<1>3. head = start /\ result = "none" /\ (clean => index = start /\ work = start)
  BY <1>1 DEF ChainInv
<1>4. CASE /\ op.kind = "renameDir" \/ DirsOf(op.to) \subseteq dirs
           /\ work' = Moved(work, op, op.from)
           /\ index' = Moved(index, op, tracked)
           /\ dirs' = IF op.kind = "rename" THEN dirs
                      ELSE (dirs \ DirsOf(op.from)) \cup DirsOf(op.to)
           /\ Goto("commit") /\ NoFault
  <2>1. step' = "commit" /\ result' = "none" /\ faults' = faults
    BY <1>3, <1>4 DEF Goto, NoFault
  <2>2. index' = Moved(index, op, op.from)
    BY <1>1, <1>2, <1>4, MovedTracked
  <2>3. op.from \in SUBSET op.from
    OBVIOUS
  <2>4. work' \in Tree /\ index' \in Tree
    BY <1>1, <1>2, <1>4, <2>2, <2>3, MovedParts
  <2>5. dirs' \subseteq Dirs
    BY <1>2, <1>4, Paths DEF GitTypeOK
  <2>6. ASSUME NEW g \in Files, work'[g] # Absent
        PROVE  g[1] \in dirs'
    <3>1. CASE g \in op.to
      <4>1. g[1] \in DirsOf(op.to)
        BY <3>1 DEF DirsOf
      <4> QED BY <1>1, <1>4, <4>1
    <3>2. CASE g \notin op.to
      <4>1. \A f \in op.from : Target(op, f) # g
        BY <1>1, <1>2, <3>2, Targets
      <4>2. work'[g] = IF g \in op.from THEN Absent ELSE work[g]
        BY <1>1, <1>2, <1>4, <2>3, <4>1, MovedParts
      <4>3. g \notin op.from /\ g[1] \in dirs
        BY <2>6, <4>2 DEF GitTypeOK, Present
      <4>4. CASE op.kind = "rename"
        BY <1>4, <4>3, <4>4
      <4>5. CASE op.kind = "renameDir"
        <5>1. PICK d \in Dirs : op.from = In(d)
          BY <1>2, <4>5, OpParts DEF Shape
        <5>2. g[1] \notin DirsOf(op.from)
          BY <4>3, <5>1, Paths
        <5> QED BY <1>4, <4>3, <4>5, <5>2
      <4> QED BY <1>1, <4>4, <4>5
    <3> QED BY <3>1, <3>2
  <2>7. GitTypeOK'
    BY <1>1, <2>1, <2>4, <2>5, <2>6 DEF GitTypeOK, Present, Results
  <2>8. clean => index' = Intended' /\ work' = Intended'
    BY <1>1, <1>3, <1>4, <2>2 DEF Intended
  <2>9. ChainInv'
    BY <1>1, <1>3, <2>1, <2>8 DEF ChainInv
  <2> QED BY <2>1, <2>7, <2>9 DEF RoomInv, OkCommitsExactlyThat, ErrorChangesNothing
<1>5. CASE Goto("rollback") /\ (Fault \/ NoFault) /\ UNCHANGED <<index, work, dirs>>
  <2>1. /\ step' = "rollback" /\ result' = "none"
        /\ index' = index /\ work' = work /\ dirs' = dirs
    BY <1>3, <1>5 DEF Goto
  <2>2. faults' \in 0..MaxFaults
    BY <1>5, GitFileSystemAssumption DEF GitTypeOK, Fault, NoFault
  <2>3. GitTypeOK'
    BY <1>1, <2>1, <2>2 DEF GitTypeOK, Present, Results
  <2> QED BY <2>1, <2>3 DEF RoomInv, ChainInv, OkCommitsExactlyThat, ErrorChangesNothing
<1> QED BY <1>4, <1>5 DEF GitMv

\* Files that move into directories that are there have one.
LEMMA MovedIsTyped ==
  ASSUME GitInv, step = "write", op.kind = "move", NEW fs \in SUBSET op.from
  PROVE  /\ Moved(work, op, fs) \in Tree
         /\ \A g \in Files : Moved(work, op, fs)[g] # Absent => g[1] \in dirs
<1>1. /\ op \in Ops /\ op.kind \in Moving /\ work \in Tree
      /\ DirsOf(op.to) \subseteq dirs
  BY DEF GitInv, GitTypeOK, RoomInv, Moving
<1>2. Moved(work, op, fs) \in Tree
  BY <1>1, MovedParts
<1>3. ASSUME NEW g \in Files, Moved(work, op, fs)[g] # Absent
      PROVE  g[1] \in dirs
  <2>1. CASE g \in op.to
    BY <1>1, <2>1 DEF DirsOf
  <2>2. CASE g \notin op.to
    <3>1. \A f \in fs : Target(op, f) # g
      BY <1>1, <2>2, Targets
    <3>2. Moved(work, op, fs)[g] = IF g \in fs THEN Absent ELSE work[g]
      BY <1>1, <3>1, MovedParts
    <3> QED BY <1>3, <3>2 DEF GitInv, GitTypeOK, Present
  <2> QED BY <2>1, <2>2
<1> QED BY <1>2, <1>3

\* A move that is not hindered by a file in its way or a missing one moves all.
LEMMA MoveFilesKeeps ==
  ASSUME GitInv, MoveFiles
  PROVE  GitInv'
<1> USE DEF GitInv
<1> DEFINE clash == {f \in op.from : work[Target(op, f)] # Absent}
           missing == (op.from \ clash) \ Present(work)
           rest == op.from \ (clash \cup missing)
<1>1. /\ step = "write" /\ op.kind = "move" /\ head' = head /\ index' = index
      /\ dirs' = dirs /\ op' = op /\ start' = start /\ clean' = clean
  BY DEF MoveFiles
<1>2. head = start /\ result = "none" /\ (clean => index = start /\ work = start)
  BY <1>1 DEF ChainInv
<1>3. ASSUME NEW fs \in SUBSET op.from, work' = Moved(work, op, fs),
             step' \in {"add", "rollback", "idle"}, result' \in Results,
             faults' \in 0..MaxFaults
      PROVE  GitTypeOK'
  <2>1. /\ Moved(work, op, fs) \in Tree
        /\ \A g \in Files : Moved(work, op, fs)[g] # Absent => g[1] \in dirs
    BY <1>1, MovedIsTyped
  <2> QED BY <1>1, <1>3, <2>1 DEF GitTypeOK, Present
<1>4. rest \in SUBSET op.from /\ (\A fs \in SUBSET rest : fs \in SUBSET op.from)
  OBVIOUS
<1>5. faults \in 0..MaxFaults
  BY DEF GitTypeOK
<1>6. CASE work' = Moved(work, op, rest) /\ clash = {} /\ missing = {} /\ Goto("add") /\ NoFault
  <2>1. step' = "add" /\ result' = "none" /\ faults' = faults
    BY <1>2, <1>6 DEF Goto, NoFault
  <2>2. work' = Moved(work, op, op.from)
    <3>1. rest = op.from
      BY <1>6
    <3> QED BY <1>6, <3>1
  <2>3. GitTypeOK'
    BY <1>3, <1>4, <1>5, <1>6, <2>1 DEF Results
  <2>4. clean => work' = Intended'
    BY <1>1, <1>2, <2>2 DEF Intended
  <2>5. ChainInv'
    BY <1>1, <1>2, <2>1, <2>4 DEF ChainInv
  <2> QED BY <2>1, <2>3, <2>5 DEF RoomInv, OkCommitsExactlyThat, ErrorChangesNothing
<1>7. CASE work' = Moved(work, op, rest) /\ Finish("error") /\ NoFault
  <2>1. step' = "idle" /\ result' = "error" /\ faults' = faults
    BY <1>7 DEF Finish, NoFault
  <2>2. GitTypeOK'
    BY <1>3, <1>4, <1>5, <1>7, <2>1 DEF Results
  <2> QED BY <1>1, <1>2, <2>1, <2>2
          DEF RoomInv, ChainInv, OkCommitsExactlyThat, ErrorChangesNothing
<1>8. CASE /\ \E fs \in SUBSET op.from : work' = Moved(work, op, fs)
           /\ Goto("rollback") /\ (Fault \/ NoFault)
  <2>1. step' = "rollback" /\ result' = "none"
    BY <1>2, <1>8 DEF Goto
  <2>2. faults' \in 0..MaxFaults
    BY <1>5, <1>8, GitFileSystemAssumption DEF Fault, NoFault
  <2>3. PICK fs \in SUBSET op.from : work' = Moved(work, op, fs)
    BY <1>8
  <2>4. GitTypeOK'
    BY <1>3, <2>1, <2>2, <2>3 DEF Results
  <2> QED BY <2>1, <2>4 DEF RoomInv, ChainInv, OkCommitsExactlyThat, ErrorChangesNothing
<1> QED BY <1>4, <1>6, <1>7, <1>8 DEF MoveFiles

\* What is added are the paths of the operation at least, and the others are as in the index.
LEMMA GitAddKeeps ==
  ASSUME GitInv, GitAdd
  PROVE  GitInv'
<1> USE DEF GitInv
<1>1. /\ step = "add" /\ head' = head /\ work' = work /\ dirs' = dirs
      /\ op' = op /\ start' = start /\ clean' = clean
  BY DEF GitAdd
<1>2. head = start /\ result = "none" /\ (clean => index = start /\ work = Intended)
  BY <1>1 DEF ChainInv
<1>3. faults \in 0..MaxFaults
  BY DEF GitTypeOK
<1>4. CASE /\ index' = [f \in Files |-> IF f \in Added THEN work[f] ELSE index[f]]
           /\ Goto("commit") /\ NoFault
  <2>1. step' = "commit" /\ result' = "none" /\ faults' = faults
    BY <1>2, <1>4 DEF Goto, NoFault
  <2>2. index' \in Tree
    BY <1>4 DEF GitTypeOK, Tree
  <2>3. GitTypeOK'
    BY <1>1, <2>1, <2>2 DEF GitTypeOK, Present, Results
  <2>4. Intended' = Intended
    BY <1>1 DEF Intended
  <2>5. clean => index' = Intended
    <3> SUFFICES ASSUME clean
                 PROVE  index' = Intended
      OBVIOUS
    <3>1. /\ Intended \in Tree
          /\ \A f \in Files \ (op.from \cup op.to) : Intended[f] = start[f]
          /\ op.from \cup op.to \subseteq Added
      BY IntendedElsewhere, AddedAll
    <3>2. \A f \in Files : index'[f] = Intended[f]
      BY <1>2, <1>4, <3>1
    <3> QED BY <2>2, <3>1, <3>2 DEF Tree
  <2>6. ChainInv'
    BY <1>1, <1>2, <2>1, <2>4, <2>5 DEF ChainInv
  <2> QED BY <2>1, <2>3, <2>6 DEF RoomInv, OkCommitsExactlyThat, ErrorChangesNothing
<1>5. CASE Finish("error") /\ Fault /\ UNCHANGED index
  <2>1. step' = "idle" /\ result' = "error" /\ index' = index /\ faults' = faults + 1
        /\ faults < MaxFaults
    BY <1>5 DEF Finish, Fault
  <2>2. faults' \in 0..MaxFaults /\ faults' # 0
    BY <1>3, <2>1, GitFileSystemAssumption
  <2>3. GitTypeOK'
    BY <1>1, <2>1, <2>2 DEF GitTypeOK, Present, Results
  <2> QED BY <1>1, <1>2, <2>1, <2>2, <2>3
          DEF RoomInv, ChainInv, OkCommitsExactlyThat, ErrorChangesNothing
<1>6. CASE Goto("rollback") /\ (Fault \/ NoFault) /\ UNCHANGED index
  <2>1. step' = "rollback" /\ result' = "none" /\ index' = index
    BY <1>2, <1>6 DEF Goto
  <2>2. faults' \in 0..MaxFaults
    BY <1>3, <1>6, GitFileSystemAssumption DEF Fault, NoFault
  <2>3. GitTypeOK'
    BY <1>1, <2>1, <2>2 DEF GitTypeOK, Present, Results
  <2> QED BY <2>1, <2>3 DEF RoomInv, ChainInv, OkCommitsExactlyThat, ErrorChangesNothing
<1> QED BY <1>4, <1>5, <1>6 DEF GitAdd

\* The commit is of the index.
LEMMA GitCommitKeeps ==
  ASSUME GitInv, GitCommit
  PROVE  GitInv'
<1> USE DEF GitInv
<1>1. /\ step = "commit" /\ index' = index /\ work' = work /\ dirs' = dirs
      /\ op' = op /\ start' = start /\ clean' = clean
  BY DEF GitCommit
<1>2. result = "none" /\ (clean => index = Intended /\ work = Intended)
  BY <1>1 DEF ChainInv
<1>3. faults \in 0..MaxFaults
  BY DEF GitTypeOK
<1>4. Intended' = Intended
  BY <1>1 DEF Intended
<1>5. CASE head' = index /\ Finish("ok") /\ NoFault
  <2>1. step' = "idle" /\ result' = "ok" /\ head' = index /\ faults' = faults
    BY <1>5 DEF Finish, NoFault
  <2>2. GitTypeOK'
    BY <1>1, <2>1 DEF GitTypeOK, Present, Results
  <2> QED BY <1>1, <1>2, <1>4, <2>1, <2>2
          DEF RoomInv, ChainInv, OkCommitsExactlyThat, ErrorChangesNothing
<1>6. CASE head' \in {head, index} /\ Goto("rollback") /\ Fault
  <2>1. step' = "rollback" /\ result' = "none" /\ head' \in {head, index}
    BY <1>2, <1>6 DEF Goto
  <2>2. faults' \in 0..MaxFaults
    BY <1>3, <1>6, GitFileSystemAssumption DEF Fault
  <2>3. GitTypeOK'
    BY <1>1, <2>1, <2>2 DEF GitTypeOK, Present, Results
  <2> QED BY <2>1, <2>3 DEF RoomInv, ChainInv, OkCommitsExactlyThat, ErrorChangesNothing
<1>7. CASE op.kind \in {"rename", "renameDir"} /\ UNCHANGED head /\ Finish("error") /\ Fault
  <2>1. step' = "idle" /\ result' = "error" /\ head' = head /\ faults' = faults + 1
    BY <1>7 DEF Finish, Fault
  <2>2. faults' \in 0..MaxFaults /\ faults' # 0
    BY <1>3, <1>7, <2>1, GitFileSystemAssumption DEF Fault
  <2>3. GitTypeOK'
    BY <1>1, <2>1, <2>2 DEF GitTypeOK, Present, Results
  <2>4. head = start
    BY <1>1 DEF ChainInv
  <2> QED BY <1>1, <2>1, <2>2, <2>3, <2>4
          DEF RoomInv, ChainInv, OkCommitsExactlyThat, ErrorChangesNothing
<1> QED BY <1>5, <1>6, <1>7 DEF GitCommit

\* The remembered commit is what the branch, the index and the work tree go back to.
LEMMA RollbackKeeps ==
  ASSUME GitInv, Rollback
  PROVE  GitInv'
<1> USE DEF GitInv
<1>1. step = "rollback" /\ op' = op /\ start' = start /\ clean' = clean
  BY DEF Rollback
<1>2. faults \in 0..MaxFaults /\ start \in Tree
  BY DEF GitTypeOK
<1>3. CASE /\ head' = start /\ index' = start /\ work' = start
           /\ dirs' = DirsOf(Present(start))
           /\ Finish("rolledBack") /\ NoFault
  <2>1. step' = "idle" /\ result' = "rolledBack" /\ faults' = faults
    BY <1>3 DEF Finish, NoFault
  <2>2. dirs' \subseteq Dirs /\ \A f \in Present(work') : f[1] \in dirs'
    BY <1>3, Paths DEF Present
  <2>3. GitTypeOK'
    BY <1>1, <1>2, <1>3, <2>1, <2>2 DEF GitTypeOK, Present, Results
  <2> QED BY <1>1, <1>3, <2>1, <2>3
          DEF RoomInv, ChainInv, OkCommitsExactlyThat, ErrorChangesNothing
<1>4. CASE Finish("stuck") /\ Fault /\ UNCHANGED disk
  <2>1. /\ step' = "idle" /\ result' = "stuck" /\ faults' = faults + 1 /\ faults < MaxFaults
        /\ head' = head /\ index' = index /\ work' = work /\ dirs' = dirs
    BY <1>4 DEF Finish, Fault, disk
  <2>2. faults' \in 0..MaxFaults /\ faults' # 0
    BY <1>2, <2>1, GitFileSystemAssumption
  <2>3. GitTypeOK'
    BY <1>1, <2>1, <2>2 DEF GitTypeOK, Present, Results
  <2> QED BY <2>1, <2>2, <2>3 DEF RoomInv, ChainInv, OkCommitsExactlyThat, ErrorChangesNothing
<1> QED BY <1>3, <1>4 DEF Rollback

\* Nothing is promised of an operation whose process has died.
LEMMA ProcessDiesKeeps ==
  ASSUME GitInv, ProcessDies
  PROVE  GitInv'
<1> USE DEF GitInv
<1>1. /\ step' = "idle" /\ result' = "crashed" /\ faults' = faults + 1 /\ faults < MaxFaults
      /\ head' = head /\ index' = index /\ work' = work /\ dirs' = dirs
      /\ op' = op /\ start' = start /\ clean' = clean
  BY DEF ProcessDies, Finish, Fault, disk
<1>2. faults' \in 0..MaxFaults /\ faults' # 0
  BY <1>1, GitFileSystemAssumption DEF GitTypeOK
<1>3. GitTypeOK'
  BY <1>1, <1>2 DEF GitTypeOK, Present, Results
<1> QED BY <1>1, <1>2, <1>3 DEF RoomInv, ChainInv, OkCommitsExactlyThat, ErrorChangesNothing

-----------------------------------------------------------------------------
(* The results about one clone                                              *)

\* GitInv holds in every state of a clone, whatever was asked of it, whichever step failed
\* and however often the process died.
THEOREM CloneInvariance == GitSpec => []GitInv
<1>1. ASSUME GitInit
      PROVE  GitInv
  <2>1. Empty \in Tree /\ Present(Empty) = {}
    BY DEF Empty, Tree, Present
  <2>2. 0 \in 0..MaxFaults
    BY GitFileSystemAssumption
  <2>3. GitTypeOK
    BY <1>1, <2>1, <2>2 DEF GitInit, GitTypeOK, Results
  <2> QED BY <1>1, <2>3
          DEF GitInit, GitInv, RoomInv, ChainInv, OkCommitsExactlyThat, ErrorChangesNothing
<1>2. ASSUME GitInv, [GitNext]_gitVars
      PROVE  GitInv'
  <2>1. CASE Begin
    BY <1>2, <2>1, BeginKeeps
  <2>2. CASE WriteFiles
    BY <1>2, <2>2, WriteFilesKeeps
  <2>3. CASE GitMv
    BY <1>2, <2>3, GitMvKeeps
  <2>4. CASE MoveFiles
    BY <1>2, <2>4, MoveFilesKeeps
  <2>5. CASE GitAdd
    BY <1>2, <2>5, GitAddKeeps
  <2>6. CASE GitCommit
    BY <1>2, <2>6, GitCommitKeeps
  <2>7. CASE Rollback
    BY <1>2, <2>7, RollbackKeeps
  <2>8. CASE ProcessDies
    BY <1>2, <2>8, ProcessDiesKeeps
  <2>9. CASE UNCHANGED gitVars
    BY <1>2, <2>9
       DEF gitVars, disk, GitInv, GitTypeOK, Present, RoomInv, ChainInv, Intended,
           OkCommitsExactlyThat, ErrorChangesNothing
  <2> QED BY <1>2, <2>1, <2>2, <2>3, <2>4, <2>5, <2>6, <2>7, <2>8, <2>9 DEF GitNext
<1> QED BY <1>1, <1>2, PTL DEF GitSpec

\* The trees of a clone are trees over its paths, every file on disk has its directory, and
\* no more has failed than the bound allows.
THEOREM CloneTypes == GitSpec => []GitTypeOK
BY CloneInvariance, PTL DEF GitInv

\* An operation of GitFileSystemService that succeeds on a clean clone has committed what
\* was asked, path for path, and leaves the index and the work tree at its commit.
THEOREM CommitsAreExact == GitSpec => []OkCommitsExactlyThat
BY CloneInvariance, PTL DEF GitInv

\* An operation that answers with an error has not moved the branch, and one that has rolled
\* back leaves the commit it started from and nothing else; without failures of the
\* environment only a move that finds a file in its way leaves a clone dirty.
THEOREM ErrorsAreClean == GitSpec => []ErrorChangesNothing
BY CloneInvariance, PTL DEF GitInv
================
