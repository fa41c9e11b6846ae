---------------------------- MODULE SiteEditProofs ----------------------------
(***************************************************************************)
(* What IInv promises holds for any requests, files, kinds of edit and     *)
(* failures.                                                               *)
(*                                                                         *)
(* While no lock expires under a request one request is inside at a time.  *)
(* It alone changes the heads of the clones and it alone acknowledges, so  *)
(* the heads it remembered when it began (snap, base) have every edit that *)
(* anyone else was told is saved, and a reset to them loses none; its own  *)
(* edits it acknowledges only when the heads of both branches have them.   *)
(*                                                                         *)
(* The second half proves the other properties.  MoreInv says for each     *)
(* edit where it may be at each point of its request (nowhere before it is *)
(* made, on no disk once its request has failed and been rolled back), and *)
(* that GitHub and the pushes under way have no edit, of those that are    *)
(* kept, which the clone does not have.  SafeInv is proved first, without  *)
(* it; its own proof uses SafeInv in every step.                           *)
(***************************************************************************)
EXTENDS SiteEdit, TLAPS

-----------------------------------------------------------------------------
(* Types                                                                   *)

\* The k-th operation of a request is one of its edits.
LEMMA EditType ==
  ASSUME NEW r \in Requests, NEW k \in 1..OpsOf[r]
  PROVE  <<r, k>> \in AllEdits
  BY DEF AllEdits, EditsOf

\* So is the operation a request is at.
LEMMA NowType ==
  ASSUME TypeOK, NEW r \in Requests
  PROVE  /\ cur[r].op \in 1..OpsOf[r]
         /\ EditNow(r) \in AllEdits
         /\ EditNow(r)[1] = r
<1>1. cur[r].op \in Nat \ {0} /\ cur[r].op <= OpsOf[r] /\ OpsOf[r] \in Nat
  BY SiteEditAssumption DEF TypeOK
<1>2. cur[r].op \in 1..OpsOf[r]
  BY <1>1
<1> QED
  BY <1>2, EditType DEF EditNow

\* The next step of a request keeps its type.
LEMMA GotoType ==
  ASSUME TypeOK, NEW r \in Requests, NEW label \in PcValues, Goto(r, label)
  PROVE  pc' \in [Requests -> PcValues]
  BY DEF TypeOK, Goto

\* So do its operation and branch.
LEMMA TurnType ==
  ASSUME TypeOK, NEW r \in Requests, NEW op \in 1..OpsOf[r], NEW b \in Branches,
         NEW failed \in BOOLEAN, Turn(r, op, b, failed)
  PROVE  /\ cur' \in [Requests -> [op : Nat \ {0}, branch : Branches, failed : BOOLEAN]]
         /\ \A q \in Requests : cur'[q].op <= OpsOf[q]
<1>1. OpsOf[r] \in Nat
  BY SiteEditAssumption
<1>2. [op |-> op, branch |-> b, failed |-> failed]
        \in [op : Nat \ {0}, branch : Branches, failed : BOOLEAN]
  BY <1>1
<1> QED
  BY <1>1, <1>2 DEF TypeOK, Turn

\* A commit keeps what the history had and adds the edit.
LEMMA CommittedType ==
  ASSUME NEW c \in Clone, NEW e \in AllEdits
  PROVE  /\ Committed(c, e) \in Clone
         /\ c.head \subseteq Committed(c, e).head
         /\ e \in Committed(c, e).head
  BY DEF Committed, Clone

\* A reset leaves the history it is given.
LEMMA ResetType ==
  ASSUME NEW c \in Clone, NEW h \in SUBSET AllEdits
  PROVE  Reset(c, h) \in Clone /\ Reset(c, h).head = h
  BY DEF Reset, Clone

\* Work left half-done does not touch the history.
LEMMA LeftType ==
  ASSUME NEW c \in Clone, NEW e \in AllEdits, NEW stale \in BOOLEAN
  PROVE  /\ [c EXCEPT !.staged = @ \cup {e}] \in Clone
         /\ [c EXCEPT !.unstaged = @ \cup {e}] \in Clone
         /\ LeftStaged(c, e, stale) \in Clone /\ LeftStaged(c, e, stale).head = c.head
         /\ LeftUnstaged(c, e, stale) \in Clone /\ LeftUnstaged(c, e, stale).head = c.head
         /\ [c EXCEPT !.indexLock = stale] \in Clone
  BY DEF Clone, LeftStaged, LeftUnstaged

\* A push that has not read its head yet.
LEMMA PushType ==
  ASSUME NEW e \in AllEdits, NEW b \in Branches
  PROVE  NewPush(e, b) \in Push
  BY SiteEditAssumption DEF NewPush, Push

\* What an operation does to its clone, and that it then ends on its branch.
LEMMA CommitEffect ==
  ASSUME TypeOK, NEW r \in Requests, CommitOp(r)
  PROVE  LET b == cur[r].branch IN
         /\ clone' \in [Branches -> Clone]
         /\ \A x \in Branches \ {b} : clone'[x] = clone[x]
         /\ \/ EndBranchOp(r, TRUE) /\ clone'[b].head \in {clone[b].head, base[r]}
            \/ /\ EndBranchOp(r, FALSE)
               /\ clone[b].head \cup {EditNow(r)} \subseteq clone'[b].head
<1> DEFINE b == cur[r].branch
           c == clone[b]
           e == EditNow(r)
<1>1. /\ b \in Branches /\ c \in Clone /\ e \in AllEdits /\ base[r] \in SUBSET AllEdits
      /\ clone \in [Branches -> Clone]
  BY NowType DEF TypeOK
<1>2. CASE clone' = [clone EXCEPT ![b] = Committed(c, e)] /\ EndBranchOp(r, FALSE)
  BY <1>1, <1>2, CommittedType
<1>3. CASE clone' = [clone EXCEPT ![b] = Reset(c, base[r])] /\ EndBranchOp(r, TRUE)
  BY <1>1, <1>3, ResetType
<1>4. CASE clone' = [clone EXCEPT ![b].staged = @ \cup {e}] /\ EndBranchOp(r, TRUE)
  <2>1. clone' = [clone EXCEPT ![b] = [c EXCEPT !.staged = @ \cup {e}]]
    BY <1>4
  <2>2. [c EXCEPT !.staged = @ \cup {e}] \in Clone
    BY <1>1, LeftType
  <2>3. [c EXCEPT !.staged = @ \cup {e}].head = c.head
    BY <1>1 DEF Clone
  <2> QED
    BY <1>1, <1>4, <2>1, <2>2, <2>3
<1>5. CASE clone' = [clone EXCEPT ![b].unstaged = @ \cup {e}] /\ EndBranchOp(r, TRUE)
  <2>1. clone' = [clone EXCEPT ![b] = [c EXCEPT !.unstaged = @ \cup {e}]]
    BY <1>5
  <2>2. [c EXCEPT !.unstaged = @ \cup {e}] \in Clone
    BY <1>1, LeftType
  <2>3. [c EXCEPT !.unstaged = @ \cup {e}].head = c.head
    BY <1>1 DEF Clone
  <2> QED
    BY <1>1, <1>5, <2>1, <2>2, <2>3
<1> QED
  BY <1>2, <1>3, <1>4, <1>5 DEF CommitOp

\* How the end of an operation on one branch moves its request on.
LEMMA EndEffect ==
  ASSUME TypeOK, NEW r \in Requests, NEW err \in BOOLEAN, EndBranchOp(r, err)
  PROVE  LET op == cur[r].op
             failed == cur[r].failed \/ err
         IN
         \/ /\ Goto(r, "check") /\ Turn(r, op, "lite", failed)
            /\ cur[r].branch = "staging" /\ UsesLite(r)
            /\ UNCHANGED <<seen, shown, pushes, answer>>
         \/ /\ failed /\ Goto(r, "rollback") /\ Turn(r, op, "staging", TRUE)
            /\ UNCHANGED <<seen, shown, pushes, answer>>
         \/ /\ ~failed /\ (cur[r].branch = "lite" \/ ~UsesLite(r))
            /\ pushes' = pushes \cup {NewPush(EditNow(r), "staging")}
            /\ op + 1 \in 1..OpsOf[r]
            /\ Goto(r, "check") /\ Turn(r, op + 1, "staging", FALSE)
            /\ seen' = [seen EXCEPT ![<<r, op + 1>>] =
                          Version(clone'["staging"].head, FileOf[<<r, op + 1>>])]
            /\ shown' = [shown EXCEPT ![<<r, op + 1>>] =
                           Version(clone'["staging"].head, FileOf[<<r, op + 1>>])]
            /\ UNCHANGED answer
         \/ /\ ~failed /\ (cur[r].branch = "lite" \/ ~UsesLite(r))
            /\ pushes' = pushes \cup {NewPush(EditNow(r), "staging")}
            /\ op = OpsOf[r]
            /\ Goto(r, "succeeded") /\ Turn(r, op, "staging", FALSE)
            /\ Answer(r, "ok")
            /\ UNCHANGED <<seen, shown>>
<1>1. cur[r].op \in 1..OpsOf[r] /\ OpsOf[r] \in Nat /\ cur[r].branch \in Branches
  BY NowType, SiteEditAssumption DEF TypeOK
<1>2. cur[r].op < OpsOf[r] => cur[r].op + 1 \in 1..OpsOf[r]
  BY <1>1
<1> QED
  BY <1>1, <1>2 DEF EndBranchOp, Branches

\* The end of an operation keeps the types.
LEMMA EndType ==
  ASSUME TypeOK, NEW r \in Requests, NEW err \in BOOLEAN, EndBranchOp(r, err),
         clone' \in [Branches -> Clone]
  PROVE  /\ pc' \in [Requests -> PcValues]
         /\ cur' \in [Requests -> [op : Nat \ {0}, branch : Branches, failed : BOOLEAN]]
         /\ \A q \in Requests : cur'[q].op <= OpsOf[q]
         /\ seen' \in [AllEdits -> SUBSET AllEdits]
         /\ shown' \in [AllEdits -> SUBSET AllEdits]
         /\ pushes' \subseteq Push
         /\ answer' \in [Requests -> {"none", "ok", "error"}]
<1> DEFINE op == cur[r].op
<1>1. /\ op \in 1..OpsOf[r] /\ EditNow(r) \in AllEdits
      /\ "staging" \in Branches /\ "lite" \in Branches
      /\ cur[r].failed \in BOOLEAN
      /\ {"check", "rollback", "succeeded"} \subseteq PcValues
  BY NowType DEF TypeOK, Branches, PcValues, Inside, InHandler
<1>2. NewPush(EditNow(r), "staging") \in Push
  BY <1>1, PushType
<1>3. \A f : Version(clone'["staging"].head, f) \in SUBSET AllEdits
  BY <1>1 DEF Version, Clone
<1>4. CASE Goto(r, "check") /\ Turn(r, op, "lite", cur[r].failed \/ err)
           /\ UNCHANGED <<seen, shown, pushes, answer>>
  BY <1>1, <1>4, GotoType, TurnType DEF TypeOK
<1>5. CASE Goto(r, "rollback") /\ Turn(r, op, "staging", TRUE)
           /\ UNCHANGED <<seen, shown, pushes, answer>>
  BY <1>1, <1>5, GotoType, TurnType DEF TypeOK
<1>6. CASE /\ pushes' = pushes \cup {NewPush(EditNow(r), "staging")}
           /\ op + 1 \in 1..OpsOf[r]
           /\ Goto(r, "check") /\ Turn(r, op + 1, "staging", FALSE)
           /\ seen' = [seen EXCEPT ![<<r, op + 1>>] =
                         Version(clone'["staging"].head, FileOf[<<r, op + 1>>])]
           /\ shown' = [shown EXCEPT ![<<r, op + 1>>] =
                          Version(clone'["staging"].head, FileOf[<<r, op + 1>>])]
           /\ UNCHANGED answer
  <2>1. seen' \in [AllEdits -> SUBSET AllEdits] /\ shown' \in [AllEdits -> SUBSET AllEdits]
    BY <1>3, <1>6 DEF TypeOK
  <2>2. pushes' \subseteq Push /\ UNCHANGED answer
    BY <1>2, <1>6 DEF TypeOK
  <2> QED
    BY <1>1, <1>6, <2>1, <2>2, GotoType, TurnType DEF TypeOK
<1>7. CASE /\ pushes' = pushes \cup {NewPush(EditNow(r), "staging")}
           /\ Goto(r, "succeeded") /\ Turn(r, op, "staging", FALSE)
           /\ Answer(r, "ok")
           /\ UNCHANGED <<seen, shown>>
  <2>1. pushes' \subseteq Push
    BY <1>2, <1>7 DEF TypeOK
  <2>2. answer' \in [Requests -> {"none", "ok", "error"}]
    BY <1>7 DEF TypeOK, Answer
  <2> QED
    BY <1>1, <1>7, <2>1, <2>2, GotoType, TurnType DEF TypeOK
<1> QED
  BY <1>4, <1>5, <1>6, <1>7, EndEffect

\* Every step keeps the types.
LEMMA TypeStep == TypeOK /\ [Next]_vars => TypeOK'
<1> SUFFICES ASSUME TypeOK, [Next]_vars
             PROVE  TypeOK'
  OBVIOUS
<1> USE DEF reqVars, history
<1>a. NoFault \/ Fault => faults' \in 0..MaxFaults
  BY SiteEditAssumption DEF TypeOK, NoFault, Fault
<1>b. ASSUME NEW r \in Requests, NEW a \in {"ok", "error"}, Answer(r, a)
      PROVE  answer' \in [Requests -> {"none", "ok", "error"}]
  BY <1>b DEF Answer, TypeOK
<1>c. ASSUME NEW r \in Requests,
             NEW l \in {"content", "hash", "opened", "checked", "locked", "check", "commit",
                        "rollback", "repush", "succeeded", "failed", "done", "crashed"},
             Goto(r, l)
      PROVE  pc' \in [Requests -> PcValues]
  BY <1>c, GotoType DEF PcValues, Inside, InHandler
<1>d. ASSUME NEW r \in Requests, NEW b \in Branches, cur' = [cur EXCEPT ![r].branch = b]
      PROVE  /\ cur' \in [Requests -> [op : Nat \ {0}, branch : Branches, failed : BOOLEAN]]
             /\ \A q \in Requests : cur'[q].op <= OpsOf[q]
  BY <1>d DEF TypeOK
<1>e. "staging" \in Branches /\ "lite" \in Branches
  BY DEF Branches
<1>1. ASSUME NEW r \in Requests, ReadContent(r) \/ ReadHash(r)
      PROVE  TypeOK'
  <2>1. pc' \in [Requests -> PcValues]
    BY <1>1, <1>c DEF ReadContent, ReadHash
  <2>2. OnDisk("staging") \subseteq AllEdits /\ Writing("staging") \subseteq AllEdits
        /\ clone["staging"].head \subseteq AllEdits
    BY <1>e, NowType DEF TypeOK, Clone, OnDisk, Writing
  <2> HIDE DEF reqVars, history
  <2>3. shown' \in [AllEdits -> SUBSET AllEdits]
    <3>1. CASE ReadContent(r)
      <4>1. PICK w \in SUBSET Writing("staging") :
              shown' = [shown EXCEPT ![<<r, 1>>] =
                          Version(OnDisk("staging") \cup w, FileOf[<<r, 1>>])]
        BY <3>1 DEF ReadContent
      <4>2. Version(OnDisk("staging") \cup w, FileOf[<<r, 1>>]) \in SUBSET AllEdits
        BY <2>2 DEF Version
      <4> QED
        BY <4>1, <4>2 DEF TypeOK
    <3>2. CASE ReadHash(r)
      BY <3>2 DEF ReadHash, TypeOK
    <3> QED
      BY <1>1, <3>1, <3>2
  <2>4. seen' \in [AllEdits -> SUBSET AllEdits]
    <3>1. CASE ReadHash(r)
      <4>1. Version(clone["staging"].head, FileOf[<<r, 1>>]) \in SUBSET AllEdits
        BY <2>2 DEF Version
      <4> QED
        BY <3>1, <4>1 DEF ReadHash, TypeOK
    <3>2. CASE ReadContent(r)
      BY <3>2 DEF ReadContent, TypeOK
    <3> QED
      BY <1>1, <3>1, <3>2
  <2> QED
    BY <1>1, <2>1, <2>3, <2>4 DEF ReadContent, ReadHash, TypeOK, reqVars, history
<1>2. ASSUME NEW r \in Requests, CheckGitFileLock(r)
      PROVE  TypeOK'
  <2>1. pc' \in [Requests -> PcValues] /\ answer' \in [Requests -> {"none", "ok", "error"}]
    BY <1>2, <1>b, <1>c DEF CheckGitFileLock, Refuse, TypeOK
  <2>2. faults' \in 0..MaxFaults
    BY <1>2, <1>a DEF CheckGitFileLock, TypeOK
  <2> QED
    BY <1>2, <2>1, <2>2 DEF CheckGitFileLock, TypeOK
<1>3. ASSUME NEW r \in Requests, Lock(r)
      PROVE  TypeOK'
  <2>1. pc' \in [Requests -> PcValues] /\ answer' \in [Requests -> {"none", "ok", "error"}]
    BY <1>3, <1>b, <1>c DEF Lock, Refuse, TypeOK
  <2>2. faults' \in 0..MaxFaults /\ locked' \in BOOLEAN
    BY <1>3, <1>a DEF Lock, TypeOK
  <2> QED
    BY <1>3, <2>1, <2>2 DEF Lock, TypeOK
<1>4. ASSUME NEW r \in Requests, Snapshot(r)
      PROVE  TypeOK'
  <2>1. pc' \in [Requests -> PcValues]
    BY <1>4, <1>c DEF Snapshot
  <2>2. [b \in Branches |-> clone[b].head] \in [Branches -> SUBSET AllEdits]
    BY DEF TypeOK, Clone
  <2>3. snap' \in [Requests -> [Branches -> SUBSET AllEdits]]
    BY <1>4, <2>2 DEF Snapshot, TypeOK
  <2>4. faults' \in 0..MaxFaults
    BY <1>4, <1>a DEF Snapshot
  <2> QED
    BY <1>4, <2>1, <2>3, <2>4 DEF Snapshot, TypeOK
<1>5. ASSUME NEW r \in Requests, CheckOp(r)
      PROVE  TypeOK'
  <2>1. CASE UNCHANGED <<base, clone>> /\ EndBranchOp(r, TRUE) /\ (NoFault \/ Fault)
    <3>1. clone' \in [Branches -> Clone] /\ base' \in [Requests -> SUBSET AllEdits]
      BY <2>1 DEF TypeOK
    <3> QED
      BY <1>5, <1>a, <2>1, <3>1, EndType DEF CheckOp, TypeOK
  <2>2. CASE /\ base' = [base EXCEPT ![r] = clone[cur[r].branch].head]
             /\ Goto(r, "commit")
             /\ UNCHANGED <<cur, seen, shown, clone, pushes, answer, faults>>
    <3>1. clone[cur[r].branch].head \in SUBSET AllEdits
      BY DEF TypeOK, Clone
    <3>2. base' \in [Requests -> SUBSET AllEdits] /\ pc' \in [Requests -> PcValues]
      BY <1>c, <2>2, <3>1 DEF TypeOK
    <3> QED
      BY <1>5, <2>2, <3>2 DEF CheckOp, TypeOK
  <2> QED
    BY <1>5, <2>1, <2>2 DEF CheckOp
<1>6. ASSUME NEW r \in Requests, CommitOp(r)
      PROVE  TypeOK'
  <2>1. PICK err \in BOOLEAN : EndBranchOp(r, err)
    BY <1>6 DEF CommitOp
  <2>2. clone' \in [Branches -> Clone]
    BY <1>6, CommitEffect
  <2>3. faults' \in 0..MaxFaults
    BY <1>6, <1>a DEF CommitOp
  <2> QED
    BY <1>6, <2>1, <2>2, <2>3, EndType DEF CommitOp, TypeOK
<1>7. ASSUME NEW r \in Requests, Rollback(r)
      PROVE  TypeOK'
  <2>1. /\ cur' \in [Requests -> [op : Nat \ {0}, branch : Branches, failed : BOOLEAN]]
        /\ \A q \in Requests : cur'[q].op <= OpsOf[q]
    BY <1>7, <1>d, <1>e DEF Rollback, TypeOK
  <2>2. pc' \in [Requests -> PcValues]
    BY <1>7, <1>c DEF Rollback, GiveUp, TypeOK
  <2>3. clone' \in [Branches -> Clone]
    <3>1. /\ cur[r].branch \in Branches
          /\ clone[cur[r].branch] \in Clone
          /\ snap[r][cur[r].branch] \in SUBSET AllEdits
      BY DEF TypeOK
    <3>2. Reset(clone[cur[r].branch], snap[r][cur[r].branch]) \in Clone
      BY <3>1, ResetType
    <3> QED
      BY <1>7, <3>2 DEF Rollback, TypeOK
  <2>4. faults' \in 0..MaxFaults /\ broken' \subseteq Requests
    BY <1>7, <1>a DEF Rollback, GiveUp, TypeOK
  <2> QED
    BY <1>7, <2>1, <2>2, <2>3, <2>4 DEF Rollback, TypeOK
<1>8. ASSUME NEW r \in Requests, ForcePush(r)
      PROVE  TypeOK'
  <2>1. /\ cur' \in [Requests -> [op : Nat \ {0}, branch : Branches, failed : BOOLEAN]]
        /\ \A q \in Requests : cur'[q].op <= OpsOf[q]
    BY <1>8, <1>d, <1>e DEF ForcePush, TypeOK
  <2>2. pc' \in [Requests -> PcValues]
    BY <1>8, <1>c DEF ForcePush, GiveUp, TypeOK
  <2>3. remote' \in [Branches -> SUBSET AllEdits]
    BY <1>8 DEF ForcePush, TypeOK, Clone
  <2>4. faults' \in 0..MaxFaults /\ broken' \subseteq Requests
    BY <1>8, <1>a DEF ForcePush, GiveUp, TypeOK
  <2> QED
    BY <1>8, <2>1, <2>2, <2>3, <2>4 DEF ForcePush, TypeOK
<1>9. ASSUME NEW r \in Requests, Unlock(r)
      PROVE  TypeOK'
  <2>1. pc' \in [Requests -> PcValues] /\ answer' \in [Requests -> {"none", "ok", "error"}]
    BY <1>9, <1>b, <1>c DEF Unlock, TypeOK
  <2>2. faults' \in 0..MaxFaults /\ locked' \in BOOLEAN
    BY <1>9, <1>a DEF Unlock, TypeOK
  <2> QED
    BY <1>9, <2>1, <2>2 DEF Unlock, TypeOK
<1>10. ASSUME NEW r \in Requests, Crash(r)
       PROVE  TypeOK'
  <2>1. pc' \in [Requests -> PcValues]
    BY <1>10, <1>c DEF Crash, TypeOK
  <2>2. clone' \in [Branches -> Clone]
    <3> DEFINE b == cur[r].branch
               e == EditNow(r)
    <3>1. b \in Branches /\ clone[b] \in Clone /\ clone[b].indexLock \in BOOLEAN
          /\ e \in AllEdits
      BY NowType DEF TypeOK, Clone
    <3>2. ASSUME NEW stale \in {clone[b].indexLock, TRUE}
          PROVE  LeftStaged(clone[b], e, stale) \in Clone /\ LeftUnstaged(clone[b], e, stale) \in Clone
      BY <3>1, LeftType
    <3>3. [clone[b] EXCEPT !.indexLock = TRUE] \in Clone
      BY <3>1, LeftType
    <3> HIDE DEF b, e
    <3>4. CASE UNCHANGED clone
      BY <3>4 DEF TypeOK
    <3>5. CASE \E stale \in {clone[b].indexLock, TRUE} :
                 \/ clone' = [clone EXCEPT ![b] = LeftUnstaged(@, e, stale)]
                 \/ clone' = [clone EXCEPT ![b] = LeftStaged(@, e, stale)]
      BY <3>2, <3>5 DEF TypeOK
    <3>6. CASE clone' = [clone EXCEPT ![b].indexLock = TRUE]
      BY <3>3, <3>6 DEF TypeOK
    <3> QED
      BY <1>10, <3>4, <3>5, <3>6, Zenon DEF Crash, b, e
  <2>3. faults' \in 0..MaxFaults /\ crashed' \subseteq Requests /\ pushes' \subseteq Push
    BY <1>10, <1>a DEF Crash, TypeOK
  <2> QED
    BY <1>10, <2>1, <2>2, <2>3 DEF Crash, TypeOK
<1>11. ASSUME NEW p \in pushes, PushStep(p)
       PROVE  TypeOK'
  <2>1. p \in Push /\ p.branch \in Branches /\ p.edit \in AllEdits
        /\ p.sends \in SUBSET AllEdits
    BY DEF TypeOK, Push
  <2>2. CASE PushStarts(p)
    <3>1. clone[p.branch].head \in SUBSET AllEdits /\ remote[p.branch] \in SUBSET AllEdits
      BY <2>1 DEF TypeOK, Clone
    <3>2. [p EXCEPT !.sent = TRUE, !.sends = clone[p.branch].head, !.sees = remote[p.branch]]
            \in Push
      BY <2>1, <3>1 DEF Push
    <3>3. pushes' \subseteq Push
      BY <2>2, <3>2 DEF PushStarts, TypeOK
    <3> QED
      BY <2>2, <3>3 DEF PushStarts, TypeOK
  <2>3. CASE PushLands(p)
    <3>1. NewPush(p.edit, "lite") \in Push
      BY <1>e, <2>1, PushType
    <3>2. pushes' \subseteq Push /\ remote' \in [Branches -> SUBSET AllEdits]
      BY <2>1, <2>3, <3>1 DEF PushLands, TypeOK
    <3> QED
      BY <2>3, <3>2 DEF PushLands, TypeOK
  <2>4. CASE PushFails(p)
    <3>1. ~Forced(p) => Again(p) \in Push
      <4>1. PlainPushes \in Nat /\ p.attempt \in 1..(PlainPushes + 1)
        BY <2>1, SiteEditAssumption DEF Push
      <4>2. ~Forced(p) => p.attempt + 1 \in 1..(PlainPushes + 1)
        BY <4>1 DEF Forced
      <4> QED
        BY <2>1, <4>2 DEF Again, Push
    <3>2. pushes' \subseteq Push /\ gaveUp' \subseteq AllEdits
      BY <2>1, <2>4, <3>1 DEF PushFails, TypeOK
    <3>3. faults' \in 0..MaxFaults
      BY <1>a, <2>4 DEF PushFails
    <3> QED
      BY <2>4, <3>2, <3>3 DEF PushFails, TypeOK
  <2>5. CASE PushRefused(p)
    BY <1>a, <2>1, <2>5 DEF PushRefused, TypeOK
  <2> QED
    BY <1>11, <2>2, <2>3, <2>4, <2>5 DEF PushStep
<1>12. CASE Expire
  <2>1. faults' \in 0..MaxFaults /\ overran' \subseteq Requests
    BY <1>12, <1>a DEF Expire, TypeOK
  <2> QED
    BY <1>12, <2>1 DEF Expire, TypeOK
<1>13. CASE UNCHANGED vars
  BY <1>13 DEF vars, TypeOK
<1> QED
  BY <1>1, <1>2, <1>3, <1>4, <1>5, <1>6, <1>7, <1>8, <1>9, <1>10, <1>11, <1>12, <1>13
     DEF Next, Step

-----------------------------------------------------------------------------
(* No acknowledged edit is lost                                            *)

\* What IInv says while no lock has expired under a request.
SafeInv ==
  /\ \A r, q \in Requests : Running(r) /\ Running(q) => r = q
  /\ \A r \in Requests : Running(r) => locked
  /\ \A b \in Branches : HasAcked(clone[b].head, b)
  /\ \A r \in Requests : LocalInv(r)

\* A request that does not move keeps its part, if nobody else is at work while it is
\* inside.
LEMMA Bystander ==
  ASSUME NEW q \in Requests, LocalInv(q),
         pc'[q] = pc[q], cur'[q] = cur[q], snap'[q] = snap[q], base'[q] = base[q],
         answer'[q] = answer[q],
         Running(q) => /\ \A b \in Branches : clone'[b].head = clone[b].head
                       /\ \A x \in Requests : Acked(x)' => Acked(x)
  PROVE  LocalInv(q)'
<1>1. CASE ~Running(q)
  BY <1>1 DEF LocalInv, Running, Inside, InHandler, Acked, Start
<1>2. CASE Running(q)
  <2>1. \A b \in Branches : clone'[b].head = clone[b].head
    BY <1>2
  <2>2. pc[q] \in InHandler \cup {"rollback"} => \A b \in Branches : HasAcked(snap[q][b], b)'
    BY <1>2 DEF LocalInv, HasAcked
  <2>3. pc[q] = "commit" => HasAcked(base[q], cur[q].branch)'
    BY <1>2 DEF LocalInv, HasAcked
  <2> QED
    BY <2>1, <2>2, <2>3 DEF LocalInv, Acked, Start, EditNow, Branches
<1> QED
  BY <1>1, <1>2

\* The invariant after a step of r, from what the step may do: only a request that is
\* inside changes a head or acknowledges, and only one that leaves takes the item away.
LEMMA StepOf ==
  ASSUME SafeInv, NEW r \in Requests,
         \A q \in Requests \ {r} :
           /\ pc'[q] = pc[q] /\ cur'[q] = cur[q] /\ snap'[q] = snap[q] /\ base'[q] = base[q]
           /\ answer'[q] = answer[q],
         Running(r)' => locked' /\ (Running(r) \/ ~locked),
         locked' \/ ~locked \/ Running(r),
         ~Running(r) => /\ \A b \in Branches : clone'[b].head = clone[b].head
                        /\ Acked(r)' => Acked(r),
         \A b \in Branches : HasAcked(clone[b].head, b)',
         LocalInv(r)'
  PROVE  SafeInv'
<1>1. \A x \in Requests \ {r} : Acked(x)' <=> Acked(x)
  BY DEF Acked
<1>2. \A q \in Requests \ {r} : Running(q)' <=> Running(q)
  BY DEF Running
<1>3. ASSUME NEW q \in Requests \ {r}, Running(q)
      PROVE  /\ ~Running(r) /\ locked /\ locked' /\ ~Running(r)'
             /\ \A b \in Branches : clone'[b].head = clone[b].head
             /\ \A x \in Requests : Acked(x)' => Acked(x)
  BY <1>1, <1>3 DEF SafeInv
<1>4. \A q \in Requests \ {r} : LocalInv(q)'
  BY <1>3, Bystander DEF SafeInv
<1>5. \A q \in Requests : Running(q)' => locked'
  BY <1>2, <1>3
<1>6. \A p, q \in Requests : Running(p)' /\ Running(q)' => p = q
  BY <1>2, <1>3 DEF SafeInv
<1> QED
  BY <1>4, <1>5, <1>6 DEF SafeInv

\* Steps outside the lock.
LEMMA OutsideStep ==
  ASSUME SafeInv, TypeOK, NEW r \in Requests,
         ReadContent(r) \/ ReadHash(r) \/ CheckGitFileLock(r) \/ Lock(r)
  PROVE  SafeInv'
<1> USE DEF reqVars
<1>1. LocalInv(r) /\ pc[r] \in {"idle", "content", "hash", "opened", "checked"}
  BY DEF SafeInv, ReadContent, ReadHash, CheckGitFileLock, Lock
<1>2. /\ ~Running(r) /\ ~Acked(r) /\ cur[r] = Start
  BY <1>1 DEF LocalInv, Running, Inside, InHandler
<1>3. /\ UNCHANGED <<cur, snap, base, clone>>
      /\ UNCHANGED answer \/ Answer(r, "error")
      /\ \E l \in {"content", "hash", "opened", "checked", "locked", "done"} : Goto(r, l)
      /\ UNCHANGED locked \/ ~locked
  BY DEF ReadContent, ReadHash, CheckGitFileLock, Lock, Refuse
<1>4. ~Acked(r)' /\ \A q \in Requests \ {r} : answer'[q] = answer[q]
  BY <1>2, <1>3 DEF Answer, Acked, TypeOK
<1>5. /\ pc'[r] \in {"content", "hash", "opened", "checked", "locked", "done"}
      /\ \A q \in Requests \ {r} : pc'[q] = pc[q]
  BY <1>3 DEF Goto, TypeOK
<1>6. Running(r)' => locked' /\ ~locked
  BY <1>5 DEF Running, Inside, InHandler, ReadContent, ReadHash, CheckGitFileLock, Lock, Refuse,
              Goto, TypeOK
<1>7. \A b \in Branches : HasAcked(clone[b].head, b)'
  BY <1>3, <1>4 DEF SafeInv, HasAcked, Acked
<1>8. LocalInv(r)'
  BY <1>2, <1>3, <1>4, <1>5 DEF LocalInv, InHandler, Start
<1> QED
  BY <1>2, <1>3, <1>4, <1>5, <1>6, <1>7, <1>8, StepOf

\* Steps of the request inside that leave the heads alone.
LEMMA SnapshotStep ==
  ASSUME SafeInv, TypeOK, NEW r \in Requests, Snapshot(r)
  PROVE  SafeInv'
<1>1. LocalInv(r) /\ pc[r] = "locked" /\ Running(r) /\ locked
  BY DEF SafeInv, Snapshot, Running, Inside
<1>2. ~Acked(r) /\ cur[r] = Start
  BY <1>1 DEF LocalInv
<1>3. /\ UNCHANGED <<cur, base, clone, answer, locked>>
      /\ \A q \in Requests \ {r} : pc'[q] = pc[q] /\ snap'[q] = snap[q]
      /\ pc'[r] \in {"check", "failed"}
      /\ pc'[r] = "check" => \A b \in Branches : snap'[r][b] = clone[b].head
  BY DEF Snapshot, Goto, TypeOK
<1>4. \A b \in Branches : HasAcked(clone[b].head, b)'
  BY <1>3 DEF SafeInv, HasAcked, Acked
<1>5. pc'[r] = "check" => \A b \in Branches : HasAcked(snap[r][b], b)'
  BY <1>3, <1>4 DEF HasAcked
<1>6. LocalInv(r)'
  <2>1. ~Acked(r)' /\ cur'[r] = Start
    BY <1>2, <1>3 DEF Acked
  <2>2. cur'[r].op = 1 /\ cur'[r].branch = "staging"
    BY <2>1 DEF Start
  <2> QED
    BY <1>3, <1>5, <2>1, <2>2 DEF LocalInv, InHandler
<1> QED
  BY <1>1, <1>3, <1>4, <1>6, StepOf DEF Acked

\* The end of an operation on one branch, for a request inside whose clones have just
\* changed to clone' (or not at all).
LEMMA EndStep ==
  ASSUME SafeInv, TypeOK, TypeOK', NEW r \in Requests, NEW err \in BOOLEAN,
         pc[r] \in InHandler, EndBranchOp(r, err),
         UNCHANGED <<locked, snap>>,
         \A q \in Requests \ {r} : base'[q] = base[q],
         \A b \in Branches : HasAcked(clone'[b].head, b),
         err \/ /\ \A b \in Branches : clone[b].head \subseteq clone'[b].head
                /\ EditNow(r) \in clone'[cur[r].branch].head
  PROVE  SafeInv'
<1> DEFINE op == cur[r].op
<1>a. LocalInv(r) /\ Running(r) /\ locked
  BY DEF SafeInv, Running, Inside
<1>b. ~Acked(r) /\ op \in 1..OpsOf[r] /\ OpsOf[r] \in Nat
  BY <1>a, NowType, SiteEditAssumption DEF LocalInv, InHandler
<1>c. \A b \in Branches : HasAcked(snap[r][b], b)
  BY <1>a DEF LocalInv
<1>d. ASSUME ~cur[r].failed, ~err
      PROVE  /\ \A k \in 1..(op - 1) : /\ <<r, k>> \in clone'["staging"].head
                                       /\ UsesLite(r) => <<r, k>> \in clone'["lite"].head
             /\ <<r, op>> \in clone'[cur[r].branch].head
             /\ cur[r].branch = "lite" => <<r, op>> \in clone'["staging"].head
  BY <1>a, <1>d DEF LocalInv, Branches, EditNow
<1>1. CASE /\ Goto(r, "check") /\ Turn(r, op, "lite", cur[r].failed \/ err)
           /\ cur[r].branch = "staging" /\ UsesLite(r)
           /\ UNCHANGED answer
  <2>1. /\ pc'[r] = "check" /\ cur'[r] = [op |-> op, branch |-> "lite",
                                          failed |-> cur[r].failed \/ err]
        /\ \A q \in Requests \ {r} : pc'[q] = pc[q] /\ cur'[q] = cur[q]
        /\ UNCHANGED answer
    BY <1>1 DEF Goto, Turn, TypeOK
  <2>2. \A b \in Branches : HasAcked(clone[b].head, b)' /\ HasAcked(snap[r][b], b)'
    BY <1>c, <2>1 DEF HasAcked, Acked
  <2>3. LocalInv(r)'
    <3>1. /\ cur'[r].op = op /\ cur'[r].branch = "lite"
          /\ cur'[r].failed = (cur[r].failed \/ err)
      BY <2>1
    <3>2. ~cur'[r].failed =>
            /\ \A k \in 1..(op - 1) : /\ <<r, k>> \in clone'["staging"].head
                                      /\ UsesLite(r) => <<r, k>> \in clone'["lite"].head
            /\ <<r, op>> \in clone'["staging"].head
      BY <1>1, <1>d, <3>1
    <3>3. ~Acked(r)' /\ UsesLite(r)'
      BY <1>1, <1>b, <2>1 DEF Acked, UsesLite
    <3>4. EditNow(r)' = <<r, op>>
      BY <3>1 DEF EditNow
    <3> QED
      BY <2>1, <2>2, <3>1, <3>2, <3>3, <3>4 DEF LocalInv, InHandler, UsesLite
  <2> QED
    BY <1>a, <2>1, <2>2, <2>3, StepOf DEF Acked
<1>2. CASE Goto(r, "rollback") /\ Turn(r, op, "staging", TRUE) /\ UNCHANGED answer
  <2>1. /\ pc'[r] = "rollback"
        /\ \A q \in Requests \ {r} : pc'[q] = pc[q] /\ cur'[q] = cur[q]
        /\ UNCHANGED answer
    BY <1>2 DEF Goto, Turn, TypeOK
  <2>2. \A b \in Branches : HasAcked(clone[b].head, b)' /\ HasAcked(snap[r][b], b)'
    BY <1>c, <2>1 DEF HasAcked, Acked
  <2>3. LocalInv(r)'
    BY <1>b, <2>1, <2>2 DEF LocalInv, Acked, InHandler
  <2> QED
    BY <1>a, <2>1, <2>2, <2>3, StepOf DEF Acked
<1>3. CASE /\ ~(cur[r].failed \/ err) /\ (cur[r].branch = "lite" \/ ~UsesLite(r))
           /\ Goto(r, "check") /\ Turn(r, op + 1, "staging", FALSE)
           /\ UNCHANGED answer
  <2>1. /\ pc'[r] = "check" /\ cur'[r] = [op |-> op + 1, branch |-> "staging", failed |-> FALSE]
        /\ \A q \in Requests \ {r} : pc'[q] = pc[q] /\ cur'[q] = cur[q]
        /\ UNCHANGED answer
    BY <1>3 DEF Goto, Turn, TypeOK
  <2>2. \A b \in Branches : HasAcked(clone[b].head, b)' /\ HasAcked(snap[r][b], b)'
    BY <1>c, <2>1 DEF HasAcked, Acked
  <2>3. \A k \in 1..op : /\ <<r, k>> \in clone'["staging"].head
                         /\ UsesLite(r) => <<r, k>> \in clone'["lite"].head
    <3> SUFFICES ASSUME NEW k \in 1..op
                 PROVE  /\ <<r, k>> \in clone'["staging"].head
                        /\ UsesLite(r) => <<r, k>> \in clone'["lite"].head
      OBVIOUS
    <3>1. k \in 1..(op - 1) \/ k = op
      BY <1>b
    <3>2. cur[r].branch \in Branches
      BY DEF TypeOK
    <3> QED
      BY <1>3, <1>d, <3>1, <3>2 DEF Branches
  <2>4. LocalInv(r)'
    BY <1>b, <2>1, <2>2, <2>3 DEF LocalInv, Acked, InHandler, UsesLite
  <2> QED
    BY <1>a, <2>1, <2>2, <2>4, StepOf DEF Acked
<1>4. CASE /\ ~(cur[r].failed \/ err) /\ (cur[r].branch = "lite" \/ ~UsesLite(r))
           /\ op = OpsOf[r]
           /\ Goto(r, "succeeded") /\ Turn(r, op, "staging", FALSE)
           /\ Answer(r, "ok")
  <2>1. /\ pc'[r] = "succeeded"
        /\ \A q \in Requests \ {r} : pc'[q] = pc[q] /\ cur'[q] = cur[q] /\ answer'[q] = answer[q]
    BY <1>4 DEF Goto, Turn, Answer, TypeOK
  <2>2. /\ EditsOf(r) \subseteq clone'["staging"].head
        /\ UsesLite(r) => EditsOf(r) \subseteq clone'["lite"].head
    <3> SUFFICES ASSUME NEW k \in 1..op
                 PROVE  /\ <<r, k>> \in clone'["staging"].head
                        /\ UsesLite(r) => <<r, k>> \in clone'["lite"].head
      BY <1>4 DEF EditsOf
    <3>1. k \in 1..(op - 1) \/ k = op
      BY <1>b
    <3>2. cur[r].branch \in Branches
      BY DEF TypeOK
    <3> QED
      BY <1>4, <1>d, <3>1, <3>2 DEF Branches
  <2>3. \A b \in Branches : HasAcked(clone[b].head, b)'
    BY <2>1, <2>2 DEF HasAcked, Acked, Branches, UsesLite, EditsOf
  <2>4. LocalInv(r)'
    BY <2>1 DEF LocalInv, InHandler
  <2> QED
    BY <1>a, <2>1, <2>3, <2>4, StepOf DEF Running, Inside
<1> QED
  BY <1>1, <1>2, <1>3, <1>4, EndEffect

\* The two halves of an operation: the first remembers a head that has every acknowledged
\* edit, and the second adds to the head or goes back to that one.
LEMMA OperationStep ==
  ASSUME SafeInv, TypeOK, TypeOK', NEW r \in Requests, CheckOp(r) \/ CommitOp(r)
  PROVE  SafeInv'
<1>a. /\ LocalInv(r) /\ Running(r) /\ locked /\ pc[r] \in InHandler
      /\ UNCHANGED <<locked, snap>>
  BY DEF SafeInv, CheckOp, CommitOp, Running, Inside, InHandler
<1>b. cur[r].branch \in Branches
  BY DEF TypeOK
<1>c. \A b \in Branches : HasAcked(clone[b].head, b)
  BY DEF SafeInv
<1>1. CASE UNCHANGED <<base, clone>> /\ EndBranchOp(r, TRUE)
  BY <1>a, <1>c, <1>1, EndStep
<1>2. CASE /\ CheckOp(r)
           /\ base' = [base EXCEPT ![r] = clone[cur[r].branch].head]
           /\ Goto(r, "commit")
           /\ UNCHANGED <<cur, clone, answer>>
  <2>1. /\ pc'[r] = "commit" /\ pc[r] = "check"
        /\ base'[r] = clone[cur[r].branch].head
        /\ \A q \in Requests \ {r} : pc'[q] = pc[q] /\ base'[q] = base[q]
    BY <1>2 DEF Goto, TypeOK, CheckOp
  <2>2. \A b \in Branches : HasAcked(clone[b].head, b)' /\ HasAcked(snap[r][b], b)'
    BY <1>a, <1>c, <1>2 DEF HasAcked, Acked, LocalInv
  <2>3. HasAcked(base[r], cur[r].branch)'
    BY <1>b, <1>c, <1>2, <2>1 DEF HasAcked, Acked
  <2>4. LocalInv(r)'
    BY <1>a, <1>2, <2>1, <2>2, <2>3 DEF LocalInv, Acked, InHandler, EditNow
  <2> QED
    BY <1>a, <1>2, <2>1, <2>2, <2>4, StepOf DEF Acked
<1>3. CASE CommitOp(r)
  <2> DEFINE b == cur[r].branch
  <2>1. /\ UNCHANGED base
        /\ \A x \in Branches \ {b} : clone'[x] = clone[x]
    BY <1>3, CommitEffect DEF CommitOp
  <2>2. HasAcked(base[r], b)
    BY <1>a, <1>3 DEF LocalInv, CommitOp
  <2>3. CASE EndBranchOp(r, TRUE) /\ clone'[b].head \in {clone[b].head, base[r]}
    <3>1. \A x \in Branches : HasAcked(clone'[x].head, x)
      BY <1>b, <1>c, <2>1, <2>2, <2>3
    <3> QED
      BY <1>a, <2>1, <2>3, <3>1, EndStep
  <2>4. CASE EndBranchOp(r, FALSE) /\ clone[b].head \cup {EditNow(r)} \subseteq clone'[b].head
    <3>1. \A x \in Branches : clone[x].head \subseteq clone'[x].head
      BY <2>1, <2>4
    <3>2. \A x \in Branches : HasAcked(clone'[x].head, x)
      BY <1>c, <3>1 DEF HasAcked
    <3> QED
      BY <1>a, <2>1, <2>4, <3>1, <3>2, EndStep
  <2> QED
    BY <1>3, <2>3, <2>4, CommitEffect
<1> QED
  BY <1>1, <1>2, <1>3 DEF CheckOp

\* A rollback puts a clone back to a head that has every acknowledged edit.
LEMMA RollbackStep ==
  ASSUME SafeInv, TypeOK, NEW r \in Requests, Rollback(r) \/ ForcePush(r)
  PROVE  SafeInv'
<1> DEFINE b == cur[r].branch
<1>a. /\ LocalInv(r) /\ Running(r) /\ locked /\ pc[r] \in {"rollback", "repush"}
      /\ UNCHANGED <<locked, snap, base, answer>>
  BY DEF SafeInv, Rollback, ForcePush, Running, Inside
<1>b. ~Acked(r) /\ b \in Branches
  BY <1>a DEF LocalInv, TypeOK
<1>1. /\ pc'[r] \in {"rollback", "repush", "failed"}
      /\ pc'[r] = "rollback" => pc[r] = "rollback"
      /\ \A q \in Requests \ {r} : pc'[q] = pc[q] /\ cur'[q] = cur[q]
  BY DEF Rollback, ForcePush, GiveUp, Goto, TypeOK
<1>2. \A x \in Branches : \/ clone'[x].head = clone[x].head
                          \/ pc[r] = "rollback" /\ clone'[x].head = snap[r][x]
  <2>1. clone[b] \in Clone /\ snap[r][b] \in SUBSET AllEdits /\ clone \in [Branches -> Clone]
    BY <1>b DEF TypeOK
  <2>2. Reset(clone[b], snap[r][b]).head = snap[r][b]
    BY <2>1, ResetType
  <2> QED
    BY <1>b, <2>1, <2>2 DEF Rollback, ForcePush
<1>3. \A x \in Branches : HasAcked(clone[x].head, x)'
  BY <1>a, <1>2 DEF SafeInv, LocalInv, HasAcked, Acked
<1>4. LocalInv(r)'
  BY <1>a, <1>b, <1>1 DEF LocalInv, HasAcked, Acked, InHandler
<1> QED
  BY <1>a, <1>1, <1>3, <1>4, StepOf DEF Running, Inside

\* Whoever unlocks was alone inside.
LEMMA UnlockStep ==
  ASSUME SafeInv, TypeOK, NEW r \in Requests, Unlock(r)
  PROVE  SafeInv'
<1>1. /\ LocalInv(r) /\ Running(r) /\ locked /\ pc[r] \in {"succeeded", "failed"}
      /\ UNCHANGED <<cur, snap, base, clone>>
  BY DEF SafeInv, Unlock, Running, Inside, reqVars
<1>2. /\ pc'[r] = "done" /\ (Acked(r)' => Acked(r))
      /\ \A q \in Requests \ {r} : pc'[q] = pc[q] /\ answer'[q] = answer[q]
  BY DEF Unlock, Goto, Answer, Acked, TypeOK
<1>3. \A b \in Branches : HasAcked(clone[b].head, b)'
  BY <1>1, <1>2 DEF SafeInv, HasAcked, Acked
<1>4. LocalInv(r)'
  BY <1>2 DEF LocalInv, InHandler
<1> QED
  BY <1>1, <1>2, <1>3, <1>4, StepOf DEF Running, Inside, InHandler

\* A crash leaves files and index.locks, never another head.
LEMMA CrashStep ==
  ASSUME SafeInv, TypeOK, NEW r \in Requests, Crash(r)
  PROVE  SafeInv'
<1> DEFINE b == cur[r].branch
           e == EditNow(r)
<1>a. /\ UNCHANGED <<locked, cur, snap, base, answer>>
      /\ b \in Branches /\ clone[b] \in Clone /\ e \in AllEdits
      /\ clone \in [Branches -> Clone] /\ clone[b].indexLock \in BOOLEAN
  BY NowType DEF Crash, reqVars, TypeOK, Clone
<1>b. LocalInv(r)
  BY DEF SafeInv
<1>1. /\ pc'[r] = "crashed" \/ (~Running(r) /\ pc'[r] = pc[r])
      /\ \A q \in Requests \ {r} : pc'[q] = pc[q]
  BY DEF Crash, Goto, TypeOK
<1>2. \A x \in Branches : clone'[x].head = clone[x].head
  <2>1. ASSUME NEW stale \in {clone[b].indexLock, TRUE}
        PROVE  /\ LeftStaged(clone[b], e, stale).head = clone[b].head
               /\ LeftUnstaged(clone[b], e, stale).head = clone[b].head
    <3>1. stale \in BOOLEAN
      BY <1>a, <2>1
    <3> HIDE DEF b, e
    <3> QED
      BY <1>a, <3>1, LeftType
  <2>2. [clone[b] EXCEPT !.indexLock = TRUE].head = clone[b].head
    BY <1>a DEF Clone
  <2> HIDE DEF b, e
  <2>3. CASE UNCHANGED clone
    BY <2>3
  <2>4. CASE \E stale \in {clone[b].indexLock, TRUE} :
               \/ clone' = [clone EXCEPT ![b] = LeftUnstaged(@, e, stale)]
               \/ clone' = [clone EXCEPT ![b] = LeftStaged(@, e, stale)]
    BY <1>a, <2>1, <2>4
  <2>5. CASE clone' = [clone EXCEPT ![b].indexLock = TRUE]
    BY <1>a, <2>2, <2>5
  <2> QED
    BY <2>3, <2>4, <2>5, Zenon DEF Crash, b, e
<1>3. \A x \in Branches : HasAcked(clone[x].head, x)'
  BY <1>a, <1>2 DEF SafeInv, HasAcked, Acked
<1>4. LocalInv(r)'
  <2>1. CASE pc'[r] = "crashed"
    BY <2>1 DEF LocalInv, InHandler
  <2>2. CASE ~Running(r) /\ pc'[r] = pc[r]
    BY <1>a, <1>b, <2>2 DEF LocalInv, Running, Inside, InHandler, Acked, Start
  <2> QED
    BY <1>1, <2>1, <2>2
<1>5. Running(r)' => FALSE
  BY <1>1 DEF Running, Inside, InHandler
<1> QED
  BY <1>a, <1>1, <1>2, <1>3, <1>4, <1>5, StepOf DEF SafeInv, Acked

\* Steps that leave everything alone that the invariant reads.
LEMMA QuietStep ==
  ASSUME SafeInv, UNCHANGED <<pc, cur, snap, base, clone, answer>>,
         \A r \in Requests : Running(r) => locked' = locked
  PROVE  SafeInv'
<1>1. \A r \in Requests : (Running(r)' <=> Running(r)) /\ (Acked(r)' <=> Acked(r))
  BY DEF Running, Acked
<1>2. \A r \in Requests : Running(r)' => locked'
  BY <1>1 DEF SafeInv
<1>3. \A b \in Branches : HasAcked(clone[b].head, b)'
  BY DEF SafeInv, HasAcked, Acked
<1>4. \A r \in Requests : LocalInv(r)'
  BY <1>1, Bystander DEF SafeInv
<1> QED
  BY <1>1, <1>2, <1>3, <1>4 DEF SafeInv

\* Every step after which no lock has expired under a request keeps it.
LEMMA SafeStep ==
  ASSUME TypeOK, TypeOK', [Next]_vars, SafeInv, NoOverrun'
  PROVE  SafeInv'
<1>1. ASSUME NEW r \in Requests, ReadContent(r) \/ ReadHash(r) \/ Step(r) \/ Crash(r)
      PROVE  SafeInv'
  BY <1>1, OutsideStep, SnapshotStep, OperationStep, RollbackStep, UnlockStep, CrashStep
     DEF Step
<1>2. ASSUME NEW p \in pushes, PushStep(p)
      PROVE  SafeInv'
  BY <1>2, QuietStep DEF PushStep, PushRefused, PushStarts, PushLands, PushFails, reqVars
<1>3. CASE Expire
  <2>1. \A r \in Requests : ~Running(r)
    BY <1>3 DEF Expire, NoOverrun
  <2> QED
    BY <1>3, <2>1, QuietStep DEF Expire, reqVars
<1>4. CASE UNCHANGED vars
  BY <1>4, QuietStep DEF vars, reqVars
<1> QED
  BY <1>1, <1>2, <1>3, <1>4 DEF Next

\* An expiry under a request is never forgotten.
LEMMA OverrunStays == TypeOK /\ [Next]_vars /\ NoOverrun' => NoOverrun
<1> SUFFICES ASSUME [Next]_vars, NoOverrun'
             PROVE  NoOverrun
  OBVIOUS
<1>1. ASSUME NEW r \in Requests, ReadContent(r) \/ ReadHash(r) \/ Step(r) \/ Crash(r)
      PROVE  overran' = overran
  BY <1>1 DEF Step, ReadContent, ReadHash, CheckGitFileLock, Lock, Snapshot, CheckOp, CommitOp,
              Rollback, ForcePush, Unlock, Crash, history
<1>2. ASSUME NEW p \in pushes, PushStep(p)
      PROVE  overran' = overran
  BY <1>2 DEF PushStep, PushRefused, PushStarts, PushLands, PushFails, history
<1>3. CASE Expire
  BY <1>3 DEF Expire, NoOverrun
<1>4. CASE UNCHANGED vars
  BY <1>4 DEF vars, history, NoOverrun
<1> QED
  BY <1>1, <1>2, <1>3, <1>4 DEF Next, NoOverrun

\* A site nobody has edited satisfies it.
LEMMA InitInv == Init => IInv
<1> SUFFICES ASSUME Init
             PROVE  IInv
  OBVIOUS
<1> USE SiteEditAssumption DEF Init
<1>1. TypeOK
  <2>1. \A r \in Requests : OpsOf[r] \in Nat /\ 1 <= OpsOf[r]
    OBVIOUS
  <2>2. Start \in [op : Nat \ {0}, branch : Branches, failed : BOOLEAN] /\ Start.op = 1
    BY DEF Start, Branches
  <2>3. "idle" \in PcValues
    BY DEF PcValues
  <2>4. clone \in [Branches -> Clone]
    BY DEF Clone
  <2>5. /\ cur \in [Requests -> [op : Nat \ {0}, branch : Branches, failed : BOOLEAN]]
        /\ \A r \in Requests : cur[r].op <= OpsOf[r]
    BY <2>1, <2>2
  <2>6. faults \in 0..MaxFaults
    OBVIOUS
  <2> QED
    BY <2>3, <2>4, <2>5, <2>6 DEF TypeOK
<1>2. SafeInv
  <2>1. \A r \in Requests : ~Running(r) /\ ~Acked(r)
    BY DEF Running, Inside, InHandler, Acked
  <2> QED
    BY <2>1 DEF SafeInv, HasAcked, LocalInv, InHandler
<1> QED
  BY <1>1, <1>2 DEF IInv, SafeInv

\* The inductive invariant of the edits of a site, for any requests, files, kinds of edit
\* and failures.
THEOREM Invariance == Spec => []IInv
<1>1. Init => IInv
  BY InitInv
<1>2. IInv /\ [Next]_vars => IInv'
  <2> SUFFICES ASSUME IInv, [Next]_vars
               PROVE  IInv'
    OBVIOUS
  <2>1. TypeOK /\ TypeOK'
    BY TypeStep DEF IInv
  <2>2. NoOverrun' => SafeInv'
    <3>1. NoOverrun' => SafeInv
      BY <2>1, OverrunStays DEF IInv, SafeInv
    <3> QED
      BY <2>1, <3>1, SafeStep
  <2> QED
    BY <2>1, <2>2 DEF IInv, SafeInv
<1> QED
  BY <1>1, <1>2, PTL DEF Spec

\* An edit the client was told is saved is in the history of both clones for good, as
\* long as no lock expires under a running request: neither the commits of other requests
\* nor their rollbacks, which reset the clones and lose what they do not have, nor a crash
\* between any two steps takes it away.
THEOREM SavedIsSafe == Spec => []AckedEditsSurvive
<1>1. IInv => AckedEditsSurvive
  BY DEF IInv, AckedEditsSurvive, HasAcked, Branches
<1> QED
  BY <1>1, Invariance, PTL

\* The two branches on EFS and on GitHub, the edits under way and the pushes that run
\* behind them keep their types.
THEOREM TypeCorrect == Spec => []TypeOK
  BY Invariance, PTL DEF IInv

-----------------------------------------------------------------------------
(* Edits hold the lock as other write handlers do                          *)

\* What a step of the mutex sees of a step of request r: where it is afterwards.
LEMMA PhaseAfter ==
  ASSUME TypeOK, NEW r \in Requests, NEW l \in PcValues, Goto(r, l)
  PROVE  /\ l \in {"content", "hash", "opened"} => MutexPhase' = [MutexPhase EXCEPT ![r] = "idle"]
         /\ l \in {"locked", "check", "commit", "rollback", "repush"} =>
              MutexPhase' = [MutexPhase EXCEPT ![r] = "holding"]
         /\ l \in {"checked", "succeeded", "failed", "done", "crashed"} =>
              MutexPhase' = [MutexPhase EXCEPT ![r] = l]
<1>1. pc' = [pc EXCEPT ![r] = l] /\ pc'[r] = l /\ DOMAIN pc = Requests
  BY DEF TypeOK, Goto
<1> QED
  BY <1>1 DEF MutexPhase, InHandler

\* ... and before it.
LEMMA PhaseBefore ==
  ASSUME NEW r \in Requests
  PROVE  /\ pc[r] \in {"idle", "content", "hash", "opened"} => MutexPhase[r] = "idle"
         /\ pc[r] \in {"locked", "check", "commit", "rollback", "repush"} => MutexPhase[r] = "holding"
         /\ pc[r] \in {"checked", "succeeded", "failed", "done", "crashed"} => MutexPhase[r] = pc[r]
  BY DEF MutexPhase, InHandler

\* A step that keeps the request's phase is none of the mutex.
LEMMA PhaseKept ==
  ASSUME NEW r \in Requests, MutexPhase' = [MutexPhase EXCEPT ![r] = MutexPhase[r]]
  PROVE  UNCHANGED MutexPhase
  BY DEF MutexPhase

\* Steps before the lock: reading is nothing to the mutex, the check of the index.lock is its own.
LEMMA BeforeLockMapped ==
  ASSUME TypeOK, NEW r \in Requests, ReadContent(r) \/ ReadHash(r) \/ CheckGitFileLock(r)
  PROVE  [Mutex!Next]_(Mutex!vars)
<1>1. /\ UNCHANGED MutexItems /\ UNCHANGED <<overran, left>>
      /\ MutexPhase[r] = "idle"
  BY PhaseBefore DEF ReadContent, ReadHash, CheckGitFileLock, MutexItems, history
<1>2. CASE ReadContent(r) \/ ReadHash(r)
  <2>1. \E l \in {"content", "hash", "opened"} : Goto(r, l)
    BY <1>2 DEF ReadContent, ReadHash
  <2>2. UNCHANGED MutexPhase
    BY <1>1, <2>1, PhaseAfter, PhaseKept DEF PcValues
  <2> QED
    BY <1>1, <1>2, <2>2 DEF ReadContent, ReadHash, Mutex!vars
<1>3. CASE CheckGitFileLock(r)
  <2>1. \/ Goto(r, "checked") /\ UNCHANGED answer
        \/ Goto(r, "done") /\ Answer(r, "error")
    BY <1>3 DEF CheckGitFileLock, Refuse
  <2>2. Mutex!CheckGitFileLock(r)
    BY <1>1, <2>1, PhaseAfter DEF PcValues, Answer, Mutex!CheckGitFileLock
  <2> QED
    BY <2>2 DEF Mutex!Next, Mutex!Step
<1> QED
  BY <1>2, <1>3

\* Lock and its refusals are the Lock of the mutex.
LEMMA LockMapped ==
  ASSUME TypeOK, NEW r \in Requests, Lock(r)
  PROVE  Mutex!Lock(r)
<1>1. MutexPhase[r] = "checked" /\ UNCHANGED overran /\ [q \in Requests |-> "site"][r] = "site"
  BY PhaseBefore DEF Lock, history
<1>2. CASE ~locked /\ locked' = TRUE /\ Goto(r, "locked") /\ UNCHANGED <<answer, left>>
  <2>1. MutexPhase' = [MutexPhase EXCEPT ![r] = "holding"]
    BY <1>2, PhaseAfter DEF PcValues, Inside
  <2>2. MutexItems = {} /\ MutexItems' = {"site"}
    BY <1>2 DEF MutexItems
  <2> QED
    BY <1>1, <1>2, <2>1, <2>2 DEF Mutex!Lock
<1>3. CASE /\ Refuse(r) /\ (~locked \/ UNCHANGED locked) /\ locked' \in BOOLEAN
           /\ left' = IF locked' = locked THEN left ELSE left \cup {r}
  <2>1. MutexPhase' = [MutexPhase EXCEPT ![r] = "done"] /\ Answer(r, "error")
    BY <1>3, PhaseAfter DEF PcValues, Refuse
  <2>2. /\ MutexItems' \in {MutexItems, MutexItems \cup {"site"}}
        /\ MutexItems' = MutexItems <=> locked' = locked
    <3>1. locked \in BOOLEAN /\ locked' \in BOOLEAN
      BY <1>3 DEF TypeOK
    <3>2. CASE locked = locked'
      BY <3>2 DEF MutexItems
    <3>3. CASE ~locked /\ locked'
      BY <3>3 DEF MutexItems
    <3> QED
      BY <1>3, <3>1, <3>2, <3>3
  <2>3. left' = IF MutexItems' = MutexItems THEN left ELSE left \cup {r}
    BY <1>3, <2>2, Zenon
  <2> QED
    BY <1>1, <2>1, <2>2, <2>3 DEF Mutex!Lock, Mutex!Refused, Answer
<1>4. CASE ~locked /\ locked' = TRUE /\ Goto(r, "locked") /\ UNCHANGED <<answer, left, faults>>
  BY <1>2, <1>4
<1>5. CASE locked /\ UNCHANGED <<locked, left>> /\ Refuse(r) /\ NoFault
  BY <1>3, <1>5 DEF TypeOK
<1>6. CASE /\ ~locked /\ locked' \in BOOLEAN
           /\ left' = IF locked' THEN left \cup {r} ELSE left
           /\ Refuse(r) /\ Fault
  <2>1. left' = IF locked' = locked THEN left ELSE left \cup {r}
    BY <1>6 DEF TypeOK
  <2> QED
    BY <1>3, <1>6, <2>1
<1> QED
  BY <1>4, <1>5, <1>6 DEF Lock

\* The handler as the mutex sees it: it goes on, resolves or rejects.
LEMMA HandlerMapped ==
  ASSUME TypeOK, NEW r \in Requests,
         Snapshot(r) \/ CheckOp(r) \/ CommitOp(r) \/ Rollback(r) \/ ForcePush(r)
  PROVE  [Mutex!RunHandler(r)]_(Mutex!vars)
<1>1. MutexPhase[r] = "holding" /\ UNCHANGED MutexItems /\ UNCHANGED <<overran, left>>
  <2>1. pc[r] \in {"locked", "check", "commit", "rollback", "repush"}
    BY DEF Snapshot, CheckOp, CommitOp, Rollback, ForcePush
  <2>2. UNCHANGED locked /\ UNCHANGED <<overran, left>>
    BY DEF Snapshot, CheckOp, CommitOp, Rollback, ForcePush, history
  <2> QED
    BY <2>1, <2>2, PhaseBefore DEF MutexItems
<1>2. \/ UNCHANGED pc /\ UNCHANGED answer
      \/ (\E l \in {"check", "commit", "rollback", "repush"} : Goto(r, l)) /\ UNCHANGED answer
      \/ Goto(r, "succeeded") /\ Answer(r, "ok")
      \/ Goto(r, "failed") /\ UNCHANGED answer
  <2>1. CASE \E err \in BOOLEAN : EndBranchOp(r, err)
    BY <2>1, EndEffect
  <2>2. CASE ~\E err \in BOOLEAN : EndBranchOp(r, err)
    BY <2>2 DEF Snapshot, CheckOp, CommitOp, Rollback, ForcePush, GiveUp
  <2> QED
    BY <2>1, <2>2
<1>3. CASE UNCHANGED pc /\ UNCHANGED answer
  BY <1>1, <1>3 DEF MutexPhase, Mutex!vars
<1>4. CASE (\E l \in {"check", "commit", "rollback", "repush"} : Goto(r, l)) /\ UNCHANGED answer
  <2>1. UNCHANGED MutexPhase
    BY <1>1, <1>4, PhaseAfter, PhaseKept DEF PcValues, Inside, InHandler
  <2> QED
    BY <1>1, <1>4, <2>1 DEF Mutex!vars
<1>5. CASE Goto(r, "succeeded") /\ Answer(r, "ok")
  <2>1. MutexPhase' = [MutexPhase EXCEPT ![r] = "succeeded"]
    BY <1>5, PhaseAfter DEF PcValues, Inside
  <2> QED
    BY <1>1, <1>5, <2>1 DEF Mutex!RunHandler, Answer
<1>6. CASE Goto(r, "failed") /\ UNCHANGED answer
  <2>1. MutexPhase' = [MutexPhase EXCEPT ![r] = "failed"]
    BY <1>6, PhaseAfter DEF PcValues, Inside
  <2> QED
    BY <1>1, <1>6, <2>1 DEF Mutex!RunHandler
<1> QED
  BY <1>2, <1>3, <1>4, <1>5, <1>6

\* So is the unlock, whoever put the item.
LEMMA UnlockMapped ==
  ASSUME TypeOK, NEW r \in Requests, Unlock(r)
  PROVE  Mutex!UnlockSucceeds(r) \/ Mutex!UnlockFails(r)
<1>1. /\ MutexPhase[r] = pc[r] /\ pc[r] \in {"succeeded", "failed"} /\ UNCHANGED overran
      /\ [q \in Requests |-> "site"][r] = "site"
  BY PhaseBefore DEF Unlock, history
<1>2. MutexPhase' = [MutexPhase EXCEPT ![r] = "done"]
  BY PhaseAfter DEF Unlock, PcValues
<1>3. CASE /\ locked' = FALSE /\ UNCHANGED left
           /\ IF pc[r] = "failed" THEN Answer(r, "error") ELSE UNCHANGED answer
  <2>1. MutexItems' = MutexItems \ {"site"}
    BY <1>3 DEF MutexItems
  <2> QED
    BY <1>1, <1>2, <1>3, <2>1 DEF Mutex!UnlockSucceeds, Mutex!ItemsAfterUnlock, Answer
<1>4. CASE locked' \in {locked, FALSE} /\ left' = left \cup {r} /\ UNCHANGED answer
  <2>1. MutexItems' \in {MutexItems, MutexItems \ {"site"}}
    <3>1. CASE locked' = locked
      BY <3>1 DEF MutexItems
    <3>2. CASE locked' = FALSE
      BY <3>2 DEF MutexItems
    <3> QED
      BY <1>4, <3>1, <3>2
  <2>2. \E deleted \in BOOLEAN : MutexItems' = Mutex!ItemsAfterUnlock("site", deleted)
    BY <2>1 DEF Mutex!ItemsAfterUnlock
  <2> QED
    BY <1>1, <1>2, <1>4, <2>2 DEF Mutex!UnlockFails
<1> QED
  BY <1>3, <1>4 DEF Unlock

\* A process that dies with nothing but pushes left is nothing to the mutex.
LEMMA CrashMapped ==
  ASSUME TypeOK, NEW r \in Requests, Crash(r)
  PROVE  [Mutex!Crash(r)]_(Mutex!vars)
<1>1. UNCHANGED <<MutexItems, answer, overran>>
  BY DEF Crash, MutexItems
<1>4. Running(r) \/ pc[r] = "checked" \/ UNCHANGED <<pc, left>>
  BY DEF Crash
<1>2. CASE Running(r) \/ pc[r] = "checked"
  <2>1. MutexPhase' = [MutexPhase EXCEPT ![r] = "crashed"] /\ left' = left \cup {r}
    BY <1>2, PhaseAfter DEF Crash, PcValues
  <2>2. MutexPhase[r] \in {"holding", "succeeded", "failed", "checked"}
    BY <1>2, PhaseBefore DEF Running, Inside, InHandler
  <2> QED
    BY <1>1, <2>1, <2>2 DEF Mutex!Crash, Mutex!Inside
<1>3. CASE UNCHANGED <<pc, left>>
  BY <1>1, <1>3 DEF MutexPhase, Mutex!vars
<1> QED
  BY <1>2, <1>3, <1>4

\* And the expiry of the item, under a request or not.
LEMMA ExpireMapped ==
  ASSUME TypeOK, Expire
  PROVE  Mutex!Expire("site")
<1>1. MutexItems = {"site"} /\ MutexItems' = {}
  BY DEF Expire, MutexItems
<1>2. \A r \in Requests : Mutex!Holds(r) <=> Running(r)
  <2> SUFFICES ASSUME NEW r \in Requests
               PROVE  Mutex!Holds(r) <=> Running(r)
    OBVIOUS
  <2>1. pc[r] \in PcValues
    BY DEF TypeOK
  <2> QED
    BY <2>1, PhaseBefore DEF Mutex!Holds, Mutex!Inside, Running, PcValues, Inside, InHandler
<1>3. {r \in Mutex!OnSite("site") : Mutex!Holds(r)} = {r \in Requests : Running(r)}
  BY <1>2 DEF Mutex!OnSite
<1>4. UNCHANGED <<MutexPhase, answer, left>>
  BY DEF Expire, MutexPhase
<1> QED
  BY <1>1, <1>3, <1>4 DEF Expire, Mutex!Expire

\* Content edits hold the lock of the site exactly as any write handler does (SiteMutex):
\* every step of an edit, and every failure, is one the wrapper and the lock allow there,
\* so what is proved of the lock holds of content edits.
THEOREM EditsUseMutex == Spec => ImplementsMutex
<1>1. Init => Mutex!Init
  <2> SUFFICES ASSUME Init
               PROVE  Mutex!Init
    OBVIOUS
  <2>1. MutexItems = {} /\ MutexPhase = [r \in Requests |-> "idle"]
    <3>1. MutexItems = {}
      BY DEF Init, MutexItems
    <3>2. \A r \in Requests : MutexPhase[r] = "idle"
      BY PhaseBefore DEF Init
    <3>3. MutexPhase = [r \in Requests |-> MutexPhase[r]]
      BY DEF MutexPhase
    <3> QED
      BY <3>1, <3>2, <3>3
  <2> QED
    BY <2>1 DEF Init, Mutex!Init
<1>2. TypeOK /\ [Next]_vars => [Mutex!Next]_(Mutex!vars)
  <2> SUFFICES ASSUME TypeOK, [Next]_vars
               PROVE  [Mutex!Next]_(Mutex!vars)
    OBVIOUS
  <2>1. ASSUME NEW r \in Requests, ReadContent(r) \/ ReadHash(r) \/ Step(r) \/ Crash(r)
        PROVE  [Mutex!Next]_(Mutex!vars)
    BY <2>1, BeforeLockMapped, LockMapped, HandlerMapped, UnlockMapped, CrashMapped
       DEF Step, Mutex!Next, Mutex!Step
  <2>2. ASSUME NEW p \in pushes, PushStep(p)
        PROVE  UNCHANGED Mutex!vars
    BY <2>2 DEF PushStep, PushRefused, PushStarts, PushLands, PushFails, Mutex!vars, MutexItems, MutexPhase, history
  <2>3. CASE Expire
    BY <2>3, ExpireMapped DEF Mutex!Next
  <2>4. CASE UNCHANGED vars
    BY <2>4 DEF vars, Mutex!vars, MutexItems, MutexPhase, history
  <2> QED
    BY <2>1, <2>2, <2>3, <2>4 DEF Next
<1> QED
  BY <1>1, <1>2, TypeCorrect, PTL DEF Spec, ImplementsMutex, Mutex!Spec

-----------------------------------------------------------------------------
(* What else holds while no lock has expired under a request               *)

\* A request that has not begun to work on the clones; one that may still succeed.
Waiting(r) == pc[r] \in {"idle", "content", "hash", "opened", "checked", "locked"}
Doing(r) == pc[r] \in InHandler /\ ~cur[r].failed

\* Edits of requests that have succeeded or may, which are in the history of staging; and
\* edits nobody has made yet.
Done(r, k) == k < cur[r].op \/ (k = cur[r].op /\ cur[r].branch = "lite")
Kept(r, k) == Acked(r) \/ (Doing(r) /\ Done(r, k))
Fresh(r, k) == Waiting(r) \/ (Doing(r) /\ ~Done(r, k))

\* Where an edit of a branch may turn up: on disk, on GitHub, in a head that a request or a
\* push remembers.
OnBranch(e, b) ==
  \/ e \in OnDisk(b) \cup remote[b]
  \/ \E q \in Requests : e \in snap[q][b]
  \/ \E q \in Requests : pc[q] = "commit" /\ cur[q].branch = b /\ e \in base[q]
  \/ \E p \in pushes : p.branch = b /\ e \in p.sends \cup p.sees

\* An edit is nowhere before it is made.
FreshInv ==
  \A r \in Requests : \A k \in 1..OpsOf[r] :
    Fresh(r, k) => \A b \in Branches : ~OnBranch(<<r, k>>, b)

\* staging-lite has no edits of assets.
LiteInv ==
  \A r \in Requests : \A k \in 1..OpsOf[r] : ~UsesLite(r) => ~OnBranch(<<r, k>>, "lite")

\* GitHub has of the kept edits what the clone has, and no push would take one away.
RemoteInv ==
  \A r \in Requests : \A k \in 1..OpsOf[r] : Kept(r, k) =>
    /\ \A b \in Branches : <<r, k>> \in remote[b] => <<r, k>> \in clone[b].head
    /\ \A p \in pushes : /\ <<r, k>> \in p.sends => <<r, k>> \in clone[p.branch].head
                         /\ <<r, k>> \in p.sees => <<r, k>> \in p.sends

OnTheWay(e) ==
  \/ e \in remote["staging"]
  \/ \E p \in pushes : p.edit = e /\ p.branch = "staging" /\ (p.sent => e \in p.sends)
  \/ e \in gaveUp
  \/ e[1] \in crashed

PushInv ==
  \A r \in Requests : \A k \in 1..OpsOf[r] :
    Acked(r) \/ (Doing(r) /\ k < cur[r].op) => OnTheWay(<<r, k>>)

\* What has passed the check of its hash has every acknowledged edit of its file.
Passed(r, k) == Kept(r, k) \/ (Doing(r) /\ pc[r] = "commit" /\ k = cur[r].op)

SeenInv ==
  \A r, q \in Requests \ Renames : r # q /\ Acked(q) =>
    \A k \in 1..OpsOf[r], l \in 1..OpsOf[q] :
      Passed(r, k) /\ FileOf[<<r, k>>] = FileOf[<<q, l>>] =>
        \/ <<q, l>> \in seen[<<r, k>>]
        \/ Acked(r) /\ <<r, k>> \in seen[<<q, l>>]

\* Requests that have left nothing behind.
Traceless(r) == Waiting(r) \/ (pc[r] \in {"failed", "done"} /\ ~Acked(r) /\ r \notin broken)
Reverting == {"check", "commit", "rollback"}

TraceInv ==
  \A r \in Requests : \A k \in 1..OpsOf[r] :
    /\ Traceless(r) => /\ \A b \in Branches : <<r, k>> \notin OnDisk(b)
                       /\ \A q \in Requests : pc[q] \in Reverting => \A b \in Branches : <<r, k>> \notin snap[q][b]
                       /\ \A q \in Requests : pc[q] = "commit" => <<r, k>> \notin base[q]
    /\ pc[r] = "succeeded" => Acked(r)
    /\ pc[r] \in Reverting => \A b \in Branches : <<r, k>> \notin snap[r][b]
    /\ pc[r] = "rollback" /\ cur[r].branch = "lite" => <<r, k>> \notin OnDisk("staging")
    /\ pc[r] = "repush" => \A b \in Branches : <<r, k>> \notin OnDisk(b)

Agree(staging, lite) == lite = {e \in staging : UsesLite(e[1])}
Clean(b) == clone[b].staged = {} /\ clone[b].unstaged = {}

AgreeInv ==
  broken = {} /\ crashed = {} =>
    /\ \A r \in Requests : pc[r] \in Reverting => Agree(snap[r]["staging"], snap[r]["lite"])
    /\ \A r \in Requests : pc[r] = "rollback" /\ cur[r].branch = "lite" =>
         Clean("staging") /\ clone["staging"].head = snap[r]["staging"]
    /\ \A r \in Requests : Doing(r) /\ cur[r].branch = "lite" =>
         /\ Agree(clone["staging"].head, clone["lite"].head \cup {EditNow(r)})
         /\ \A b \in Branches : Clean(b)
    /\ (\A r \in Requests : pc[r] \in Reverting => Doing(r) /\ cur[r].branch = "staging") =>
         /\ Agree(clone["staging"].head, clone["lite"].head)
         /\ \A b \in Branches : Clean(b)

MoreInv == FreshInv /\ LiteInv /\ RemoteInv /\ PushInv /\ SeenInv /\ TraceInv /\ AgreeInv

-----------------------------------------------------------------------------
(* What a step changes, for these invariants                               *)

\* Nothing of another request changes in a step of r.
Alone(r) ==
  \A q \in Requests \ {r} :
    /\ pc'[q] = pc[q] /\ cur'[q] = cur[q] /\ answer'[q] = answer[q]
    /\ snap'[q] = snap[q] /\ base'[q] = base[q]

\* ... so what it is counted as stays.
LEMMA AloneKeeps ==
  ASSUME NEW r \in Requests, Alone(r), NEW q \in Requests \ {r}
  PROVE  /\ Waiting(q)' <=> Waiting(q)
         /\ Doing(q)' <=> Doing(q)
         /\ Acked(q)' <=> Acked(q)
         /\ \A k : /\ Kept(q, k)' <=> Kept(q, k)
                   /\ Fresh(q, k)' <=> Fresh(q, k)
                   /\ Passed(q, k)' <=> Passed(q, k)
  BY DEF Alone, Waiting, Doing, Acked, Kept, Fresh, Passed, Done

\* While r is inside, nobody else is.
LEMMA NobodyElse ==
  ASSUME SafeInv, NEW r \in Requests, Running(r), NEW q \in Requests \ {r}
  PROVE  ~Running(q) /\ ~Doing(q) /\ pc[q] \notin Reverting \cup {"repush", "commit"}
  BY DEF SafeInv, Running, Doing, Inside, InHandler, Reverting

\* Before it has the lock a request changes nothing but what it has seen itself.
LEMMA OutsideEffect ==
  ASSUME SafeInv, TypeOK, NEW r \in Requests,
         ReadContent(r) \/ ReadHash(r) \/ CheckGitFileLock(r) \/ Lock(r)
  PROVE  /\ Waiting(r) /\ (Waiting(r)' \/ pc'[r] = "done")
         /\ ~Acked(r) /\ ~Acked(r)'
         /\ Alone(r)
         /\ UNCHANGED <<cur, snap, base, clone, remote, pushes, broken, crashed, gaveUp>>
         /\ \A e \in AllEdits : e # <<r, 1>> => seen'[e] = seen[e]
<1>1. /\ LocalInv(r) /\ pc[r] \in {"idle", "content", "hash", "opened", "checked"}
      /\ UNCHANGED <<cur, snap, base, clone, remote, pushes, broken, crashed, gaveUp>>
  BY DEF SafeInv, ReadContent, ReadHash, CheckGitFileLock, Lock, reqVars, history
<1>2. /\ UNCHANGED answer \/ Answer(r, "error")
      /\ \E l \in {"content", "hash", "opened", "checked", "locked", "done"} : Goto(r, l)
  BY DEF ReadContent, ReadHash, CheckGitFileLock, Lock, Refuse
<1>3. ~Acked(r)
  BY <1>1 DEF LocalInv
<1>4. \A e \in AllEdits : e # <<r, 1>> => seen'[e] = seen[e]
  BY DEF ReadContent, ReadHash, CheckGitFileLock, Lock, reqVars, TypeOK
<1>5. \A q \in Requests \ {r} : pc'[q] = pc[q] /\ answer'[q] = answer[q]
  BY <1>2 DEF Goto, Answer, TypeOK
<1>6. ~Acked(r)' /\ pc'[r] \in {"content", "hash", "opened", "checked", "locked", "done"}
  BY <1>2, <1>3 DEF Goto, Answer, Acked, TypeOK
<1> QED
  BY <1>1, <1>3, <1>4, <1>5, <1>6 DEF Alone, Waiting

\* A snapshot remembers the heads, or the request fails before it has worked on anything.
LEMMA SnapshotEffect ==
  ASSUME SafeInv, TypeOK, NEW r \in Requests, Snapshot(r)
  PROVE  /\ Waiting(r) /\ Running(r) /\ ~Acked(r) /\ ~Acked(r)' /\ cur[r] = Start
         /\ Alone(r)
         /\ UNCHANGED <<cur, base, seen, clone, remote, pushes, broken, crashed, gaveUp>>
         /\ \/ pc'[r] = "check" /\ \A b \in Branches : snap'[r][b] = clone[b].head
            \/ pc'[r] = "failed" /\ UNCHANGED snap
<1>1. LocalInv(r) /\ pc[r] = "locked"
  BY DEF SafeInv, Snapshot
<1>2. /\ UNCHANGED <<cur, base, seen, clone, answer, remote, pushes, broken, crashed, gaveUp>>
      /\ \A q \in Requests \ {r} : pc'[q] = pc[q] /\ snap'[q] = snap[q]
      /\ \/ pc'[r] = "check" /\ \A b \in Branches : snap'[r][b] = clone[b].head
         \/ pc'[r] = "failed" /\ UNCHANGED snap
  BY DEF Snapshot, Goto, TypeOK, history
<1> QED
  BY <1>1, <1>2 DEF LocalInv, Alone, Waiting, Running, Inside, Acked

\* The disk of a clone.
DiskOf(c) == c.head \cup c.staged \cup c.unstaged

\* OnDisk in terms of it, before and after a step.
LEMMA DiskAfter ==
  ASSUME NEW b \in Branches
  PROVE  OnDisk(b) = DiskOf(clone[b]) /\ OnDisk(b)' = DiskOf(clone'[b])
  BY DEF OnDisk, DiskOf

\* The disk of a clone after an operation on it, and an operation that failed.
LEMMA FailedDisk ==
  ASSUME TypeOK, NEW r \in Requests, CommitOp(r)
  PROVE  LET b == cur[r].branch
             e == EditNow(r)
         IN \/ clone'[b] = Committed(clone[b], e) /\ EndBranchOp(r, FALSE)
            \/ /\ EndBranchOp(r, TRUE)
               /\ clone'[b].head \in {clone[b].head, base[r]}
               /\ DiskOf(clone'[b]) \subseteq DiskOf(clone[b]) \cup base[r] \cup {e}
<1> DEFINE b == cur[r].branch
           c == clone[b]
           e == EditNow(r)
<1>1. /\ b \in Branches /\ c \in Clone /\ e \in AllEdits /\ base[r] \in SUBSET AllEdits
      /\ clone \in [Branches -> Clone]
  BY NowType DEF TypeOK
<1>2. \/ clone'[b] = Committed(c, e) /\ EndBranchOp(r, FALSE)
      \/ clone'[b] = Reset(c, base[r]) /\ EndBranchOp(r, TRUE)
      \/ clone'[b] = [c EXCEPT !.staged = @ \cup {e}] /\ EndBranchOp(r, TRUE)
      \/ clone'[b] = [c EXCEPT !.unstaged = @ \cup {e}] /\ EndBranchOp(r, TRUE)
  BY <1>1 DEF CommitOp
<1> HIDE DEF b, e
<1>3. ASSUME \/ clone'[b] = Reset(c, base[r])
             \/ clone'[b] = [c EXCEPT !.staged = @ \cup {e}]
             \/ clone'[b] = [c EXCEPT !.unstaged = @ \cup {e}]
      PROVE  /\ clone'[b].head \in {clone[b].head, base[r]}
             /\ DiskOf(clone'[b]) \subseteq DiskOf(clone[b]) \cup base[r] \cup {e}
  BY <1>1, <1>3 DEF Reset, DiskOf, Clone
<1> QED
  BY <1>2, <1>3 DEF b, e

\* What the end of an operation on one branch leaves its request with.
LEMMA EndValues ==
  ASSUME TypeOK, NEW r \in Requests, NEW err \in BOOLEAN, EndBranchOp(r, err)
  PROVE  LET op == cur[r].op
             failed == cur[r].failed \/ err
         IN
         /\ \A q \in Requests \ {r} : pc'[q] = pc[q] /\ cur'[q] = cur[q] /\ answer'[q] = answer[q]
         /\ \/ /\ pc'[r] = "check" /\ cur'[r] = [op |-> op, branch |-> "lite", failed |-> failed]
               /\ cur[r].branch = "staging" /\ UsesLite(r)
               /\ UNCHANGED <<seen, pushes, answer>>
            \/ /\ failed /\ pc'[r] = "rollback"
               /\ cur'[r] = [op |-> op, branch |-> "staging", failed |-> TRUE]
               /\ UNCHANGED <<seen, pushes, answer>>
            \/ /\ ~failed /\ (cur[r].branch = "lite" \/ ~UsesLite(r))
               /\ pushes' = pushes \cup {NewPush(EditNow(r), "staging")}
               /\ op + 1 \in 1..OpsOf[r]
               /\ pc'[r] = "check" /\ cur'[r] = [op |-> op + 1, branch |-> "staging", failed |-> FALSE]
               /\ seen'[<<r, op + 1>>] = Version(clone'["staging"].head, FileOf[<<r, op + 1>>])
               /\ \A e \in AllEdits : e # <<r, op + 1>> => seen'[e] = seen[e]
               /\ UNCHANGED answer
            \/ /\ ~failed /\ (cur[r].branch = "lite" \/ ~UsesLite(r))
               /\ pushes' = pushes \cup {NewPush(EditNow(r), "staging")}
               /\ op = OpsOf[r]
               /\ pc'[r] = "succeeded" /\ cur'[r] = [op |-> op, branch |-> "staging", failed |-> FALSE]
               /\ Acked(r)' /\ UNCHANGED seen
<1>1. /\ DOMAIN pc = Requests /\ DOMAIN cur = Requests /\ DOMAIN answer = Requests
      /\ DOMAIN seen = AllEdits
  BY DEF TypeOK
<1>2. \A op \in 1..OpsOf[r] : <<r, op>> \in AllEdits
  BY EditType
<1>3. Answer(r, "ok") => Acked(r)' /\ \A q \in Requests \ {r} : answer'[q] = answer[q]
  BY <1>1 DEF Answer, Acked
<1> DEFINE op == cur[r].op
           failed == cur[r].failed \/ err
<1>4. CASE /\ Goto(r, "check") /\ Turn(r, op, "lite", failed)
           /\ cur[r].branch = "staging" /\ UsesLite(r)
           /\ UNCHANGED <<seen, shown, pushes, answer>>
  BY <1>1, <1>4 DEF Goto, Turn
<1>5. CASE /\ failed /\ Goto(r, "rollback") /\ Turn(r, op, "staging", TRUE)
           /\ UNCHANGED <<seen, shown, pushes, answer>>
  BY <1>1, <1>5 DEF Goto, Turn
<1>6. CASE /\ ~failed /\ (cur[r].branch = "lite" \/ ~UsesLite(r))
           /\ pushes' = pushes \cup {NewPush(EditNow(r), "staging")}
           /\ op + 1 \in 1..OpsOf[r]
           /\ Goto(r, "check") /\ Turn(r, op + 1, "staging", FALSE)
           /\ seen' = [seen EXCEPT ![<<r, op + 1>>] =
                         Version(clone'["staging"].head, FileOf[<<r, op + 1>>])]
           /\ UNCHANGED answer
  <2>1. <<r, op + 1>> \in AllEdits
    BY <1>2, <1>6
  <2>2. /\ seen'[<<r, op + 1>>] = Version(clone'["staging"].head, FileOf[<<r, op + 1>>])
        /\ \A e \in AllEdits : e # <<r, op + 1>> => seen'[e] = seen[e]
    BY <1>1, <1>6, <2>1
  <2>3. /\ pc'[r] = "check" /\ cur'[r] = [op |-> op + 1, branch |-> "staging", failed |-> FALSE]
        /\ \A q \in Requests \ {r} : pc'[q] = pc[q] /\ cur'[q] = cur[q]
    BY <1>1, <1>6 DEF Goto, Turn
  <2> QED
    BY <1>6, <2>2, <2>3
<1>7. CASE /\ ~failed /\ (cur[r].branch = "lite" \/ ~UsesLite(r))
           /\ pushes' = pushes \cup {NewPush(EditNow(r), "staging")}
           /\ op = OpsOf[r]
           /\ Goto(r, "succeeded") /\ Turn(r, op, "staging", FALSE)
           /\ Answer(r, "ok")
           /\ UNCHANGED <<seen, shown>>
  BY <1>1, <1>3, <1>7 DEF Goto, Turn
<1> QED
  BY <1>4, <1>5, <1>6, <1>7, EndEffect

\* What an operation does, in either half.
LEMMA OperationEffect ==
  ASSUME SafeInv, TypeOK, NEW r \in Requests, CheckOp(r) \/ CommitOp(r)
  PROVE  LET b == cur[r].branch
             e == EditNow(r)
         IN
         /\ Running(r) /\ pc[r] \in InHandler /\ ~Acked(r) /\ Alone(r)
         /\ UNCHANGED <<snap, remote, broken, crashed, gaveUp>>
         /\ \A x \in Branches \ {b} : clone'[x] = clone[x]
         /\ \/ /\ pc[r] = "check" /\ pc'[r] = "commit"
               /\ UNCHANGED <<cur, seen, clone, pushes, answer>>
               /\ base'[r] = clone[b].head
               /\ r \notin Renames => Version(clone[b].head, FileOf[e]) = seen[e]
            \/ /\ pc[r] = "commit" /\ EndBranchOp(r, FALSE) /\ UNCHANGED base
               /\ clone'[b] = Committed(clone[b], e)
            \/ /\ EndBranchOp(r, TRUE) /\ UNCHANGED base
               /\ \/ UNCHANGED clone
                  \/ /\ pc[r] = "commit"
                     /\ clone'[b].head \in {clone[b].head, base[r]}
                     /\ DiskOf(clone'[b]) \subseteq DiskOf(clone[b]) \cup base[r] \cup {e}
<1> DEFINE b == cur[r].branch
           e == EditNow(r)
<1>1. /\ LocalInv(r) /\ pc[r] \in InHandler
      /\ UNCHANGED <<snap, remote, broken, crashed, gaveUp>>
  BY DEF SafeInv, CheckOp, CommitOp, InHandler, history
<1>2. \A x \in Branches \ {b} : clone'[x] = clone[x]
  <2>1. CASE CommitOp(r)
    BY <2>1, CommitEffect
  <2>2. CASE CheckOp(r)
    BY <2>2 DEF CheckOp
  <2> QED
    BY <2>1, <2>2
<1>3. CASE /\ CheckOp(r)
           /\ r \notin Renames => Version(clone[b].head, FileOf[e]) = seen[e]
           /\ base' = [base EXCEPT ![r] = clone[b].head]
           /\ Goto(r, "commit")
           /\ UNCHANGED <<cur, seen, clone, pushes, answer>>
  <2>1. /\ pc'[r] = "commit" /\ base'[r] = clone[b].head
        /\ \A q \in Requests \ {r} : pc'[q] = pc[q] /\ base'[q] = base[q]
    BY <1>3 DEF Goto, TypeOK
  <2> QED
    BY <1>1, <1>2, <1>3, <2>1 DEF CheckOp, LocalInv, Running, Inside, InHandler, Alone, Acked
<1>4. ASSUME \E err \in BOOLEAN : EndBranchOp(r, err), UNCHANGED base
      PROVE  Running(r) /\ ~Acked(r) /\ Alone(r)
  <2>1. PICK err \in BOOLEAN : EndBranchOp(r, err)
    BY <1>4
  <2>2. \A q \in Requests \ {r} : pc'[q] = pc[q] /\ cur'[q] = cur[q] /\ answer'[q] = answer[q]
    BY <2>1, EndValues
  <2> QED
    BY <1>1, <1>4, <2>2 DEF LocalInv, Running, Inside, InHandler, Alone, Acked
<1>5. CASE CheckOp(r) /\ UNCHANGED <<base, clone>> /\ EndBranchOp(r, TRUE)
  BY <1>1, <1>2, <1>4, <1>5
<1>6. CASE CommitOp(r)
  BY <1>1, <1>2, <1>4, <1>6, FailedDisk DEF CommitOp
<1> QED
  <2>1. CASE CheckOp(r)
    BY <1>3, <1>5, <2>1 DEF CheckOp
  <2> QED
    BY <1>6, <2>1

\* What the wrapper does after a rejection.
LEMMA RevertEffect ==
  ASSUME SafeInv, TypeOK, NEW r \in Requests, Rollback(r) \/ ForcePush(r)
  PROVE  LET b == cur[r].branch IN
         /\ Running(r) /\ ~Acked(r) /\ ~Acked(r)' /\ Alone(r)
         /\ UNCHANGED <<snap, base, seen, pushes, answer, crashed, gaveUp>>
         /\ \A x \in Branches \ {b} : clone'[x] = clone[x] /\ remote'[x] = remote[x]
         /\ \/ /\ pc[r] = "rollback" /\ UNCHANGED <<remote, broken>>
               /\ clone'[b].head = snap[r][b] /\ clone'[b].staged = {} /\ clone'[b].unstaged = {}
               /\ IF b = "staging" /\ LiteEnabled
                  THEN cur'[r].branch = "lite" /\ pc'[r] = "rollback"
                  ELSE pc'[r] = "repush"
            \/ /\ pc[r] = "repush" /\ UNCHANGED <<clone, broken>>
               /\ remote'[b] = clone[b].head
               /\ pc'[r] \in {"repush", "failed"}
            \/ /\ UNCHANGED <<clone, remote>>
               /\ pc'[r] = "failed" /\ broken' = broken \cup {r}
<1> DEFINE b == cur[r].branch
<1>1. /\ LocalInv(r) /\ pc[r] \in {"rollback", "repush"}
      /\ UNCHANGED <<snap, base, seen, pushes, answer, crashed, gaveUp>>
      /\ b \in Branches /\ clone[b] \in Clone /\ snap[r][b] \in SUBSET AllEdits
  BY DEF SafeInv, Rollback, ForcePush, TypeOK
<1>2. /\ \A q \in Requests \ {r} : pc'[q] = pc[q] /\ cur'[q] = cur[q]
      /\ \A x \in Branches \ {b} : clone'[x] = clone[x] /\ remote'[x] = remote[x]
  BY DEF Rollback, ForcePush, GiveUp, Goto, TypeOK
<1>3. Running(r) /\ ~Acked(r) /\ ~Acked(r)' /\ Alone(r)
  BY <1>1, <1>2 DEF LocalInv, Running, Inside, Acked, Alone
<1>4. CASE /\ Rollback(r)
           /\ clone' = [clone EXCEPT ![b] = Reset(@, snap[r][b])]
           /\ IF b = "staging" /\ LiteEnabled
              THEN cur' = [cur EXCEPT ![r].branch = "lite"] /\ UNCHANGED pc
              ELSE cur' = [cur EXCEPT ![r].branch = "staging"] /\ Goto(r, "repush")
           /\ UNCHANGED broken
  <2>1. Reset(clone[b], snap[r][b]).head = snap[r][b]
        /\ Reset(clone[b], snap[r][b]).staged = {} /\ Reset(clone[b], snap[r][b]).unstaged = {}
    BY <1>1 DEF Reset, Clone
  <2>2. /\ clone'[b] = Reset(clone[b], snap[r][b]) /\ UNCHANGED <<remote, broken>>
        /\ pc[r] = "rollback"
        /\ IF b = "staging" /\ LiteEnabled
           THEN cur'[r].branch = "lite" /\ pc'[r] = "rollback"
           ELSE pc'[r] = "repush"
    BY <1>1, <1>4 DEF Rollback, Goto, TypeOK
  <2> QED
    BY <1>1, <1>2, <1>3, <2>1, <2>2
<1>5. CASE /\ ForcePush(r)
           /\ remote' = [remote EXCEPT ![b] = clone[b].head]
           /\ UNCHANGED pc \/ Goto(r, "failed")
           /\ UNCHANGED broken
  <2>1. /\ pc[r] = "repush" /\ remote'[b] = clone[b].head /\ UNCHANGED <<clone, broken>>
        /\ pc'[r] \in {"repush", "failed"}
    BY <1>1, <1>5 DEF ForcePush, Goto, TypeOK
  <2> QED
    BY <1>1, <1>2, <1>3, <2>1
<1>6. CASE GiveUp(r) /\ UNCHANGED <<clone, remote>>
  <2>1. pc'[r] = "failed" /\ broken' = broken \cup {r}
    BY <1>6 DEF GiveUp, Goto, TypeOK
  <2> QED
    BY <1>1, <1>2, <1>3, <1>6, <2>1
<1> QED
  BY <1>4, <1>5, <1>6 DEF Rollback, ForcePush

\* An unlock ends the request and moves nothing else.
LEMMA UnlockEffect ==
  ASSUME SafeInv, TypeOK, NEW r \in Requests, Unlock(r)
  PROVE  /\ Running(r) /\ pc[r] \in {"succeeded", "failed"} /\ pc'[r] = "done"
         /\ Acked(r)' <=> Acked(r)
         /\ Alone(r)
         /\ UNCHANGED <<cur, snap, base, seen, clone, remote, pushes, broken, crashed, gaveUp>>
<1>1. LocalInv(r)
  BY DEF SafeInv
<1>2. /\ pc[r] \in {"succeeded", "failed"} /\ pc'[r] = "done"
      /\ UNCHANGED <<cur, snap, base, seen, clone, remote, pushes, broken, crashed, gaveUp>>
      /\ \A q \in Requests \ {r} : pc'[q] = pc[q] /\ answer'[q] = answer[q]
      /\ UNCHANGED answer \/ (pc[r] = "failed" /\ answer'[r] = "error")
  BY DEF Unlock, Goto, Answer, TypeOK, reqVars, history
<1> QED
  BY <1>1, <1>2 DEF LocalInv, Running, Inside, Acked, Alone

\* A process that dies leaves half-done work, of the operation it was at.
LEMMA CrashEffect ==
  ASSUME SafeInv, TypeOK, NEW r \in Requests, Crash(r)
  PROVE  /\ UNCHANGED <<cur, snap, base, seen, answer, remote, broken, gaveUp>>
         /\ Alone(r) /\ (Acked(r)' <=> Acked(r))
         /\ crashed' = crashed \cup {r}
         /\ pushes' = {p \in pushes : p.edit[1] # r}
         /\ pc'[r] = "crashed" \/ (~Running(r) /\ pc'[r] = pc[r])
         /\ \A x \in Branches : clone'[x].head = clone[x].head
         /\ \/ \A x \in Branches : DiskOf(clone'[x]) = DiskOf(clone[x])
            \/ /\ pc[r] = "commit"
               /\ \A x \in Branches \ {cur[r].branch} : clone'[x] = clone[x]
               /\ DiskOf(clone'[cur[r].branch]) \subseteq DiskOf(clone[cur[r].branch]) \cup {EditNow(r)}
<1> DEFINE b == cur[r].branch
           e == EditNow(r)
<1>1. /\ UNCHANGED <<cur, snap, base, seen, answer, remote, broken, gaveUp>>
      /\ crashed' = crashed \cup {r}
      /\ pushes' = {p \in pushes : p.edit[1] # r}
      /\ b \in Branches /\ clone[b] \in Clone /\ e \in AllEdits
      /\ clone \in [Branches -> Clone]
  BY NowType DEF Crash, reqVars, TypeOK
<1>2. /\ pc'[r] = "crashed" \/ (~Running(r) /\ pc'[r] = pc[r])
      /\ \A q \in Requests \ {r} : pc'[q] = pc[q]
  BY DEF Crash, Goto, TypeOK
<1>3. Alone(r) /\ (Acked(r)' <=> Acked(r))
  BY <1>1, <1>2 DEF Alone, Acked
<1> HIDE DEF b, e
<1>4. CASE UNCHANGED clone
  BY <1>1, <1>2, <1>3, <1>4
<1>5. CASE /\ pc[r] = "commit"
           /\ \E stale \in {clone[b].indexLock, TRUE} :
                \/ clone' = [clone EXCEPT ![b] = LeftUnstaged(@, e, stale)]
                \/ clone' = [clone EXCEPT ![b] = LeftStaged(@, e, stale)]
  <2>1. PICK stale : \/ clone'[b] = LeftUnstaged(clone[b], e, stale)
                     \/ clone'[b] = LeftStaged(clone[b], e, stale)
    BY <1>1, <1>5
  <2>2. \A x \in Branches \ {b} : clone'[x] = clone[x]
    BY <1>1, <1>5
  <2>3. clone'[b].head = clone[b].head /\ DiskOf(clone'[b]) \subseteq DiskOf(clone[b]) \cup {e}
    BY <1>1, <2>1 DEF LeftUnstaged, LeftStaged, DiskOf, Clone
  <2> QED
    BY <1>1, <1>2, <1>3, <1>5, <2>2, <2>3 DEF b, e
<1>6. CASE clone' = [clone EXCEPT ![b].indexLock = TRUE]
  <2>1. \A x \in Branches : clone'[x].head = clone[x].head /\ DiskOf(clone'[x]) = DiskOf(clone[x])
    BY <1>1, <1>6 DEF DiskOf, Clone
  <2> QED
    BY <1>1, <1>2, <1>3, <2>1
<1> QED
  BY <1>4, <1>5, <1>6, Zenon DEF Crash, b, e

\* What a push does to itself and to GitHub.
LEMMA PushEffect ==
  ASSUME SafeInv, TypeOK, NEW p \in pushes, PushStep(p)
  PROVE  /\ p \in Push
         /\ UNCHANGED <<pc, cur, snap, base, seen, clone, answer, broken, crashed>>
         /\ \/ /\ UNCHANGED <<remote, gaveUp>>
               /\ pushes' = (pushes \ {p}) \cup {[p EXCEPT !.sent = TRUE, !.sends = clone[p.branch].head,
                                                          !.sees = remote[p.branch]]}
            \/ /\ p.sent /\ remote[p.branch] = p.sees /\ remote'[p.branch] = p.sends
               /\ \A x \in Branches \ {p.branch} : remote'[x] = remote[x]
               /\ UNCHANGED gaveUp
               /\ pushes' \in {pushes \ {p}, (pushes \ {p}) \cup {NewPush(p.edit, "lite")}}
            \/ /\ UNCHANGED remote
               /\ \/ pushes' = pushes \ {p} /\ gaveUp' = gaveUp \cup {p.edit}
                  \/ pushes' = (pushes \ {p}) \cup {Again(p)} /\ UNCHANGED gaveUp
<1>1. p \in Push
  BY DEF TypeOK
<1>2. UNCHANGED <<pc, cur, snap, base, seen, clone, answer, broken, crashed>>
  BY DEF PushStep, PushRefused, PushStarts, PushLands, PushFails, reqVars, history
<1>3. CASE PushStarts(p)
  BY <1>1, <1>2, <1>3 DEF PushStarts, history
<1>4. CASE PushLands(p)
  BY <1>1, <1>2, <1>4 DEF PushLands, history, Acceptable, TypeOK, Push
<1>5. CASE PushFails(p)
  BY <1>1, <1>2, <1>5 DEF PushFails
<1>6. CASE PushRefused(p)
  BY <1>1, <1>2, <1>6 DEF PushRefused
<1> QED
  BY <1>3, <1>4, <1>5, <1>6 DEF PushStep

\* What a push knows after a step it knew before, or it has just read it.
LEMMA PushesRead ==
  ASSUME SafeInv, TypeOK, [Next]_vars, NEW x \in pushes'
  PROVE  \/ x \in pushes
         \/ x.sends = {} /\ x.sees = {} /\ x.branch \in Branches
         \/ x.sends = clone[x.branch].head /\ x.sees = remote[x.branch] /\ x.branch \in Branches
<1>1. ASSUME NEW r \in Requests, ReadContent(r) \/ ReadHash(r) \/ Step(r) \/ Crash(r)
      PROVE  x \in pushes \/ x = NewPush(EditNow(r), "staging")
  <2>1. CASE \E err \in BOOLEAN : EndBranchOp(r, err)
    BY <2>1 DEF EndBranchOp
  <2>2. CASE ~\E err \in BOOLEAN : EndBranchOp(r, err)
    BY <1>1, <2>2 DEF Step, ReadContent, ReadHash, CheckGitFileLock, Lock, Snapshot, CheckOp, CommitOp,
                      Rollback, ForcePush, Unlock, Crash
  <2> QED
    BY <2>1, <2>2
<1> DEFINE Old == x \in pushes
           Empty == x.sends = {} /\ x.sees = {} /\ x.branch \in Branches
           Read == x.sends = clone[x.branch].head /\ x.sees = remote[x.branch] /\ x.branch \in Branches
<1>2. \A d : \A b \in Branches : x = NewPush(d, b) => Empty
  BY DEF NewPush
<1>3. ASSUME NEW p \in pushes, PushStep(p)
      PROVE  Old \/ Empty \/ Read
  <2>1. p \in Push
    BY <1>3, PushEffect
  <2>2. CASE x = [p EXCEPT !.sent = TRUE, !.sends = clone[p.branch].head, !.sees = remote[p.branch]]
    <3>1. x.branch = p.branch /\ x.sends = clone[p.branch].head /\ x.sees = remote[p.branch]
      BY <2>1, <2>2 DEF Push
    <3> QED
      BY <2>1, <3>1 DEF Push
  <2>3. CASE x = Again(p)
    BY <2>1, <2>3 DEF Push, Again
  <2>4. CASE x = NewPush(p.edit, "lite")
    BY <1>2, <2>4 DEF Branches
  <2>5. \/ x \in pushes \/ x = NewPush(p.edit, "lite") \/ x = Again(p)
        \/ x = [p EXCEPT !.sent = TRUE, !.sends = clone[p.branch].head, !.sees = remote[p.branch]]
    <3> HIDE DEF Old, Empty, Read
    <3>1. \/ pushes' = (pushes \ {p}) \cup {[p EXCEPT !.sent = TRUE, !.sends = clone[p.branch].head,
                                                        !.sees = remote[p.branch]]}
          \/ pushes' \in {pushes \ {p}, (pushes \ {p}) \cup {NewPush(p.edit, "lite")}}
          \/ pushes' = pushes \ {p}
          \/ pushes' = (pushes \ {p}) \cup {Again(p)}
      BY <1>3, PushEffect
    <3> QED
      BY <3>1, Zenon
  <2> QED
    <3> HIDE DEF Old, Empty, Read
    <3> QED
      BY <2>2, <2>3, <2>4, <2>5 DEF Old
<1>4. CASE Expire \/ UNCHANGED vars
  BY <1>4 DEF Expire, vars
<1>5. ASSUME NEW r \in Requests, ReadContent(r) \/ ReadHash(r) \/ Step(r) \/ Crash(r)
      PROVE  Old \/ Empty
  BY <1>1, <1>2, <1>5 DEF Branches
<1> QED
  BY <1>3, <1>4, <1>5 DEF Next

\* An edit turns up only where it is made.
LEMMA Spread ==
  ASSUME SafeInv, TypeOK, [Next]_vars, NEW e, NEW b \in Branches, OnBranch(e, b)'
  PROVE  \/ OnBranch(e, b)
         \/ \E r \in Requests : /\ CommitOp(r) \/ (Crash(r) /\ pc[r] = "commit")
                                /\ e = EditNow(r) /\ b = cur[r].branch
<1> DEFINE Made == \E r \in Requests : /\ CommitOp(r) \/ (Crash(r) /\ pc[r] = "commit")
                                       /\ e = EditNow(r) /\ b = cur[r].branch
<1>a. DiskOf(clone[b]) = OnDisk(b) /\ DiskOf(clone'[b]) = OnDisk(b)'
  BY DiskAfter
<1>b. clone[b].head \subseteq OnDisk(b)
  BY DEF OnDisk
<1>1. \A x \in pushes' : x.branch = b /\ e \in x.sends \cup x.sees => OnBranch(e, b)
  BY <1>b, PushesRead DEF OnBranch
<1>2. ASSUME NEW r \in Requests, ReadContent(r) \/ ReadHash(r) \/ CheckGitFileLock(r) \/ Lock(r)
      PROVE  OnBranch(e, b)
  <2>1. /\ UNCHANGED <<cur, snap, base, clone, remote>> /\ Alone(r) /\ pc'[r] # "commit"
    BY <1>2, OutsideEffect DEF Waiting
  <2> QED
    BY <1>1, <1>a, <2>1 DEF OnBranch, Alone
<1>3. ASSUME NEW r \in Requests, Snapshot(r)
      PROVE  OnBranch(e, b)
  <2>1. /\ UNCHANGED <<cur, base, clone, remote>> /\ Alone(r) /\ pc'[r] # "commit"
        /\ snap'[r][b] \in {snap[r][b], clone[b].head}
    BY <1>3, SnapshotEffect
  <2> QED
    BY <1>1, <1>a, <1>b, <2>1 DEF OnBranch, Alone
<1>4. ASSUME NEW r \in Requests, CheckOp(r) \/ CommitOp(r)
      PROVE  OnBranch(e, b) \/ Made
  <2>1. /\ UNCHANGED <<snap, remote>> /\ Alone(r)
        /\ clone'[b] = clone[b] \/ b = cur[r].branch
    BY <1>4, OperationEffect
  <2>2. pc'[r] = "commit" => base'[r] = clone[cur[r].branch].head /\ cur'[r] = cur[r]
    <3>1. ASSUME NEW err \in BOOLEAN, EndBranchOp(r, err)
          PROVE  pc'[r] # "commit"
      BY <3>1, EndValues
    <3> QED
      BY <1>4, <3>1, OperationEffect
  <2>3. OnDisk(b)' \subseteq OnDisk(b)
          \cup (IF pc[r] = "commit" /\ b = cur[r].branch THEN base[r] \cup {EditNow(r)} ELSE {})
    <3>1. CASE b # cur[r].branch \/ UNCHANGED clone
      BY <1>a, <2>1, <3>1
    <3>2. CASE b = cur[r].branch /\ clone'[b] = Committed(clone[b], EditNow(r)) /\ pc[r] = "commit"
      <4>1. clone[b] \in Clone
        BY DEF TypeOK
      <4>2. DiskOf(Committed(clone[b], EditNow(r))) \subseteq DiskOf(clone[b]) \cup {EditNow(r)}
        BY <4>1 DEF DiskOf, Committed, Clone
      <4> QED
        BY <1>a, <3>2, <4>2
    <3>3. CASE b = cur[r].branch /\ pc[r] = "commit"
               /\ DiskOf(clone'[b]) \subseteq DiskOf(clone[b]) \cup base[r] \cup {EditNow(r)}
      BY <1>a, <3>3
    <3> QED
      BY <1>4, <3>1, <3>2, <3>3, OperationEffect
  <2>4. pc[r] = "commit" => CommitOp(r)
    BY <1>4 DEF CheckOp
  <2> QED
    BY <1>1, <1>b, <2>1, <2>2, <2>3, <2>4 DEF OnBranch, Alone
<1>5. ASSUME NEW r \in Requests, Rollback(r) \/ ForcePush(r)
      PROVE  OnBranch(e, b)
  <2>1. /\ UNCHANGED <<snap, base>> /\ Alone(r) /\ pc'[r] # "commit"
        /\ OnDisk(b)' \subseteq OnDisk(b) \cup snap[r][b]
        /\ remote'[b] \in {remote[b], clone[b].head}
    BY <1>5, <1>a, RevertEffect DEF DiskOf
  <2> QED
    BY <1>1, <1>b, <2>1 DEF OnBranch, Alone
<1>6. ASSUME NEW r \in Requests, Unlock(r)
      PROVE  OnBranch(e, b)
  BY <1>1, <1>6, <1>a, UnlockEffect DEF OnBranch, Alone
<1>7. ASSUME NEW r \in Requests, Crash(r)
      PROVE  OnBranch(e, b) \/ Made
  <2>1. /\ UNCHANGED <<cur, snap, base, remote>> /\ Alone(r) /\ (pc'[r] = "commit" => pc[r] = "commit")
        /\ OnDisk(b)' \subseteq OnDisk(b)
             \cup (IF pc[r] = "commit" /\ b = cur[r].branch THEN {EditNow(r)} ELSE {})
    BY <1>7, <1>a, CrashEffect
  <2> QED
    BY <1>1, <1>7, <2>1 DEF OnBranch, Alone
<1>8. ASSUME NEW p \in pushes, PushStep(p)
      PROVE  OnBranch(e, b)
  <2>1. /\ UNCHANGED <<pc, cur, snap, base, clone>>
        /\ remote'[b] = remote[b] \/ (b = p.branch /\ remote'[b] = p.sends)
    BY <1>8, PushEffect
  <2> QED
    BY <1>1, <1>a, <2>1 DEF OnBranch
<1>9. CASE Expire \/ UNCHANGED vars
  <2>1. UNCHANGED <<pc, cur, snap, base, clone, remote>>
    BY <1>9 DEF Expire, vars, reqVars
  <2> QED
    BY <1>1, <1>a, <2>1 DEF OnBranch
<1> QED
  BY <1>2, <1>3, <1>4, <1>5, <1>6, <1>7, <1>8, <1>9 DEF Next, Step

-----------------------------------------------------------------------------
(* Fresh and kept edits                                                    *)

\* A push, an expiry or a stutter leaves every request as it was.
LEMMA RestEffect ==
  ASSUME SafeInv, TypeOK, (\E p \in pushes : PushStep(p)) \/ Expire \/ UNCHANGED vars
  PROVE  /\ UNCHANGED <<pc, cur, snap, base, seen, clone, answer, broken, crashed>>
         /\ \A q \in Requests : /\ Waiting(q)' <=> Waiting(q)
                                /\ Doing(q)' <=> Doing(q)
                                /\ Acked(q)' <=> Acked(q)
                                /\ \A k : /\ Kept(q, k)' <=> Kept(q, k)
                                          /\ Fresh(q, k)' <=> Fresh(q, k)
                                          /\ Passed(q, k)' <=> Passed(q, k)
<1>1. UNCHANGED <<pc, cur, snap, base, seen, clone, answer, broken, crashed>>
  BY PushEffect DEF Expire, vars, reqVars, history
<1> QED
  BY <1>1 DEF Waiting, Doing, Acked, Kept, Fresh, Passed, Done

\* An operation that fails on a branch does not succeed on the other.
LEMMA FailedEnd ==
  ASSUME TypeOK, NEW r \in Requests, EndBranchOp(r, TRUE)
  PROVE  /\ UNCHANGED <<seen, pushes, answer>> /\ ~Doing(r)'
         /\ pc'[r] \in {"check", "rollback"}
<1>1. cur[r].failed \in BOOLEAN
  BY DEF TypeOK
<1>2. (cur[r].failed \/ TRUE) = TRUE
  BY <1>1
<1>3. \/ pc'[r] = "check" /\ cur'[r] = [op |-> cur[r].op, branch |-> "lite", failed |-> TRUE]
         /\ UNCHANGED <<seen, pushes, answer>>
      \/ pc'[r] = "rollback" /\ UNCHANGED <<seen, pushes, answer>>
  BY <1>2, EndValues
<1> QED
  BY <1>3 DEF Doing, InHandler

\* Edits stop being fresh when they are committed or their request fails, and none is kept
\* that was not.
LEMMA OwnStep ==
  ASSUME SafeInv, TypeOK, NEW r \in Requests, NEW k \in 1..OpsOf[r],
         ReadContent(r) \/ ReadHash(r) \/ Step(r) \/ Crash(r)
  PROVE  /\ Fresh(r, k)' => Fresh(r, k)
         /\ Kept(r, k)' => Kept(r, k) \/ (Fresh(r, k) /\ CommitOp(r) /\ k = cur[r].op)
         /\ CommitOp(r) /\ k = cur[r].op => ~Fresh(r, k)'
         /\ Acked(r) => Acked(r)'
<1>a. cur[r].op \in 1..OpsOf[r] /\ OpsOf[r] \in Nat /\ cur[r].branch \in Branches
  BY NowType, SiteEditAssumption DEF TypeOK
<1>b. LocalInv(r)
  BY DEF SafeInv
<1>1. CASE ReadContent(r) \/ ReadHash(r) \/ CheckGitFileLock(r) \/ Lock(r)
  <2>1. Waiting(r) /\ ~Acked(r) /\ ~Acked(r)' /\ (Waiting(r)' \/ pc'[r] = "done")
    BY <1>1, OutsideEffect
  <2> QED
    BY <1>1, <2>1 DEF Fresh, Kept, Doing, Waiting, InHandler, CommitOp, ReadContent, ReadHash,
                      CheckGitFileLock, Lock
<1>2. CASE Snapshot(r)
  <2>1. /\ Waiting(r) /\ ~Acked(r) /\ ~Acked(r)' /\ cur'[r] = Start
        /\ pc'[r] \in {"check", "failed"}
    BY <1>2, SnapshotEffect
  <2>2. ~Kept(r, k)'
    BY <2>1 DEF Kept, Done, Start
  <2> QED
    BY <1>2, <2>1, <2>2 DEF Fresh, Snapshot, CommitOp
<1>3. CASE CheckOp(r) \/ CommitOp(r)
  <2>1. ~Acked(r) /\ pc[r] \in InHandler
    BY <1>3, OperationEffect
  <2>2. CASE pc[r] = "check" /\ pc'[r] = "commit" /\ UNCHANGED <<cur, answer>>
    BY <2>1, <2>2 DEF Fresh, Kept, Doing, Done, Waiting, Acked, InHandler, CommitOp
  <2>3. ASSUME NEW err \in BOOLEAN, EndBranchOp(r, err), CheckOp(r) => err
        PROVE  /\ Fresh(r, k)' => Fresh(r, k) /\ k # cur[r].op
               /\ Kept(r, k)' => Kept(r, k) \/ (Fresh(r, k) /\ CommitOp(r) /\ k = cur[r].op)
    <3>1. CASE /\ pc'[r] = "check"
               /\ cur'[r] = [op |-> cur[r].op, branch |-> "lite", failed |-> cur[r].failed \/ err]
               /\ cur[r].branch = "staging" /\ UNCHANGED answer
      <4>1. /\ cur'[r].op = cur[r].op /\ cur'[r].branch = "lite"
            /\ cur'[r].failed = (cur[r].failed \/ err)
        BY <3>1
      <4>2. Done(r, k)' <=> Done(r, k) \/ k = cur[r].op
        BY <3>1, <4>1 DEF Done
      <4>3. Doing(r)' <=> Doing(r) /\ ~err
        BY <2>1, <3>1, <4>1 DEF Doing, InHandler
      <4>4. ~Waiting(r)' /\ ~Waiting(r) /\ ~Acked(r)'
        BY <2>1, <3>1 DEF Waiting, Acked, InHandler
      <4> QED
        BY <1>3, <2>1, <2>3, <4>2, <4>3, <4>4 DEF Fresh, Kept
    <3>2. CASE pc'[r] = "rollback" /\ UNCHANGED answer
      BY <2>1, <3>2 DEF Fresh, Kept, Waiting, Doing, Acked, InHandler
    <3>3. CASE /\ ~(cur[r].failed \/ err) /\ UNCHANGED answer /\ pc'[r] = "check"
               /\ cur'[r] = [op |-> cur[r].op + 1, branch |-> "staging", failed |-> FALSE]
      <4>1. /\ Done(r, k)' <=> k <= cur[r].op
            /\ Doing(r) /\ Doing(r)' /\ ~Waiting(r) /\ ~Waiting(r)' /\ ~Acked(r)'
            /\ Done(r, k) => k <= cur[r].op
            /\ k < cur[r].op => Done(r, k)
        BY <1>a, <2>1, <3>3 DEF Done, Doing, Waiting, Acked, InHandler
      <4> QED
        BY <1>3, <1>a, <2>3, <3>3, <4>1 DEF Fresh, Kept
    <3>4. CASE /\ ~(cur[r].failed \/ err) /\ cur[r].op = OpsOf[r] /\ pc'[r] = "succeeded"
      <4>1. /\ Doing(r) /\ ~Doing(r)' /\ ~Waiting(r) /\ ~Waiting(r)'
            /\ k < cur[r].op => Done(r, k)
        BY <1>a, <2>1, <3>4 DEF Done, Doing, Waiting, InHandler
      <4> QED
        BY <1>3, <1>a, <2>3, <3>4, <4>1 DEF Fresh, Kept
    <3> QED
      BY <2>3, <3>1, <3>2, <3>3, <3>4, EndValues
  <2> QED
    <3>1. \/ pc[r] = "check" /\ pc'[r] = "commit" /\ UNCHANGED <<cur, answer>>
          \/ EndBranchOp(r, FALSE) /\ CommitOp(r)
          \/ EndBranchOp(r, TRUE)
      BY <1>3, OperationEffect DEF CheckOp, CommitOp
    <3> QED
      BY <2>1, <2>2, <2>3, <3>1 DEF CheckOp, CommitOp
<1>4. CASE Rollback(r) \/ ForcePush(r)
  <2>1. ~Acked(r) /\ ~Acked(r)' /\ pc'[r] \in {"rollback", "repush", "failed"}
        /\ pc[r] # "commit"
    BY <1>4, RevertEffect DEF Rollback, ForcePush
  <2> QED
    BY <2>1 DEF Fresh, Kept, Waiting, Doing, InHandler, CommitOp
<1>5. CASE Unlock(r)
  <2>1. (Acked(r)' <=> Acked(r)) /\ pc'[r] = "done" /\ pc[r] # "commit"
    BY <1>5, UnlockEffect
  <2> QED
    BY <2>1 DEF Fresh, Kept, Waiting, Doing, InHandler, CommitOp
<1>6. CASE Crash(r)
  <2>1. /\ Acked(r)' <=> Acked(r)
        /\ pc'[r] = "crashed" \/ (~Running(r) /\ pc'[r] = pc[r] /\ UNCHANGED cur)
    BY <1>6, CrashEffect
  <2>2. pc[r] = "commit" => Running(r)
    BY DEF Running, Inside, InHandler
  <2> QED
    BY <2>1, <2>2 DEF Fresh, Kept, Waiting, Doing, Done, InHandler, CommitOp
<1> QED
  BY <1>1, <1>2, <1>3, <1>4, <1>5, <1>6 DEF Step

\* The same of a step of anybody.
LEMMA AnyStep ==
  ASSUME SafeInv, TypeOK, [Next]_vars, NEW r \in Requests, NEW k \in 1..OpsOf[r]
  PROVE  /\ Fresh(r, k)' => Fresh(r, k)
         /\ Kept(r, k)' => Kept(r, k) \/ (Fresh(r, k) /\ CommitOp(r) /\ k = cur[r].op)
         /\ Acked(r) => Acked(r)'
<1>1. ASSUME NEW q \in Requests, ReadContent(q) \/ ReadHash(q) \/ Step(q) \/ Crash(q), q # r
      PROVE  (Fresh(r, k)' <=> Fresh(r, k)) /\ (Kept(r, k)' <=> Kept(r, k))
             /\ (Acked(r)' <=> Acked(r))
  <2>1. Alone(q)
    BY <1>1, OutsideEffect, SnapshotEffect, OperationEffect, RevertEffect, UnlockEffect,
       CrashEffect DEF Step
  <2> QED
    BY <1>1, <2>1, AloneKeeps
<1> QED
  BY <1>1, OwnStep, RestEffect DEF Next

\* An edit that nobody has made stays nowhere.
LEMMA FreshStep ==
  ASSUME SafeInv, TypeOK, [Next]_vars, FreshInv
  PROVE  FreshInv'
<1> SUFFICES ASSUME NEW r \in Requests, NEW k \in 1..OpsOf[r], Fresh(r, k)',
                    NEW b \in Branches, OnBranch(<<r, k>>, b)'
             PROVE  FALSE
  BY DEF FreshInv
<1>1. Fresh(r, k)
  BY AnyStep
<1>2. ~OnBranch(<<r, k>>, b)
  BY <1>1 DEF FreshInv
<1>3. PICK q \in Requests : /\ CommitOp(q) \/ (Crash(q) /\ pc[q] = "commit")
                            /\ <<r, k>> = EditNow(q)
  BY <1>2, Spread
<1>4. q = r /\ k = cur[r].op
  BY <1>3 DEF EditNow
<1>5. CASE CommitOp(r)
  BY <1>4, <1>5, OwnStep DEF Step
<1>6. CASE Crash(r) /\ pc[r] = "commit"
  <2>1. pc'[r] = "crashed"
    BY <1>6, CrashEffect DEF Running, Inside, InHandler
  <2> QED
    BY <2>1 DEF Fresh, Waiting, Doing, InHandler
<1> QED
  BY <1>3, <1>4, <1>5, <1>6

\* Nobody writes an edit of an asset to staging-lite.
LEMMA LiteStep ==
  ASSUME SafeInv, TypeOK, [Next]_vars, LiteInv
  PROVE  LiteInv'
<1> SUFFICES ASSUME NEW r \in Requests, NEW k \in 1..OpsOf[r], ~UsesLite(r),
                    OnBranch(<<r, k>>, "lite")'
             PROVE  FALSE
  BY DEF LiteInv, UsesLite
<1>1. ~OnBranch(<<r, k>>, "lite")
  BY DEF LiteInv
<1>2. PICK q \in Requests : /\ CommitOp(q) \/ (Crash(q) /\ pc[q] = "commit")
                            /\ <<r, k>> = EditNow(q) /\ cur[q].branch = "lite"
  BY <1>1, Spread DEF Branches
<1>3. q = r /\ pc[q] = "commit"
  BY <1>2 DEF EditNow, CommitOp
<1> QED
  BY <1>2, <1>3 DEF SafeInv, LocalInv, InHandler

-----------------------------------------------------------------------------
(* GitHub and the pushes                                                   *)

\* No commit, reset or crash takes a kept edit from the head of a clone.
LEMMA HeadsKeep ==
  ASSUME SafeInv, TypeOK, [Next]_vars, LiteInv,
         NEW r \in Requests, NEW k \in 1..OpsOf[r], Kept(r, k), Kept(r, k)',
         NEW b \in Branches, <<r, k>> \in clone[b].head
  PROVE  <<r, k>> \in clone'[b].head
<1> DEFINE e == <<r, k>>
<1>a. e \in EditsOf(r)
  BY DEF EditsOf
<1>b. b = "staging" \/ UsesLite(r)
  BY DEF LiteInv, OnBranch, OnDisk, Branches
<1>1. ASSUME NEW q \in Requests, NEW S, HasAcked(S, b), Running(q), q # r
      PROVE  e \in S
  <2>1. Acked(r)
    BY <1>1, NobodyElse DEF Kept
  <2> QED
    BY <1>1, <1>a, <1>b, <2>1 DEF HasAcked
<1>2. ASSUME NEW q \in Requests,
             ReadContent(q) \/ ReadHash(q) \/ CheckGitFileLock(q) \/ Lock(q) \/ Snapshot(q)
             \/ Unlock(q) \/ Crash(q)
      PROVE  e \in clone'[b].head
  BY <1>2, OutsideEffect, SnapshotEffect, UnlockEffect, CrashEffect
<1>3. ASSUME NEW q \in Requests, CheckOp(q) \/ CommitOp(q)
      PROVE  e \in clone'[b].head
  <2>1. Running(q) /\ pc[q] \in InHandler /\ LocalInv(q)
    BY <1>3, OperationEffect DEF SafeInv
  <2>2. CASE b # cur[q].branch \/ UNCHANGED clone
    BY <1>3, <2>2, OperationEffect
  <2>3. CASE b = cur[q].branch /\ clone'[b] = Committed(clone[b], EditNow(q))
    <3>1. clone[b] \in Clone
      BY DEF TypeOK
    <3>2. clone[b].head \subseteq Committed(clone[b], EditNow(q)).head
      BY <3>1, CommittedType, NowType
    <3> QED
      BY <2>3, <3>2
  <2>4. CASE /\ b = cur[q].branch /\ pc[q] = "commit" /\ EndBranchOp(q, TRUE)
             /\ clone'[b].head \in {clone[b].head, base[q]}
    <3>1. HasAcked(base[q], b)
      BY <2>1, <2>4 DEF LocalInv
    <3>2. CASE q # r
      BY <1>1, <2>1, <2>4, <3>1, <3>2
    <3>3. CASE q = r
      <4>1. ~Acked(r)' /\ ~Doing(r)'
        <5>1. UNCHANGED answer /\ ~Doing(r)'
          BY <2>4, <3>3, FailedEnd
        <5>2. ~Acked(r)
          BY <1>3, <3>3, OperationEffect
        <5> QED
          BY <5>1, <5>2 DEF Acked
      <4> QED
        BY <4>1 DEF Kept
    <3> QED
      BY <3>2, <3>3
  <2> QED
    BY <1>3, <2>2, <2>3, <2>4, OperationEffect
<1>4. ASSUME NEW q \in Requests, Rollback(q) \/ ForcePush(q)
      PROVE  e \in clone'[b].head
  <2>1. Running(q) /\ ~Acked(q) /\ LocalInv(q) /\ ~Doing(q)
        /\ pc[q] \in {"rollback", "repush"}
    BY <1>4, RevertEffect DEF SafeInv, Doing, InHandler, Rollback, ForcePush
  <2>2. q # r
    BY <2>1 DEF Kept
  <2>3. clone'[b].head \in {clone[b].head, snap[q][b]}
        /\ (clone'[b].head # clone[b].head => pc[q] = "rollback")
    BY <1>4, RevertEffect
  <2>4. pc[q] = "rollback" => HasAcked(snap[q][b], b)
    BY <2>1 DEF LocalInv
  <2> QED
    BY <1>1, <2>1, <2>2, <2>3, <2>4
<1> QED
  BY <1>2, <1>3, <1>4, RestEffect DEF Next, Step

\* Nor does a push take one from GitHub, forced or not.
LEMMA RemoteKeeps ==
  ASSUME SafeInv, TypeOK, [Next]_vars, RemoteInv,
         NEW r \in Requests, NEW k \in 1..OpsOf[r], Kept(r, k),
         NEW b \in Branches, <<r, k>> \in remote[b]
  PROVE  <<r, k>> \in remote'[b]
<1>1. <<r, k>> \in clone[b].head
      /\ \A p \in pushes : <<r, k>> \in p.sees => <<r, k>> \in p.sends
  BY DEF RemoteInv
<1>2. ASSUME NEW q \in Requests,
             ReadContent(q) \/ ReadHash(q) \/ CheckGitFileLock(q) \/ Lock(q) \/ Snapshot(q)
             \/ CheckOp(q) \/ CommitOp(q) \/ Unlock(q) \/ Crash(q)
      PROVE  UNCHANGED remote
  BY <1>2, OutsideEffect, SnapshotEffect, OperationEffect, UnlockEffect, CrashEffect
<1>3. ASSUME NEW q \in Requests, Rollback(q) \/ ForcePush(q)
      PROVE  remote'[b] \in {remote[b], clone[b].head}
  BY <1>3, RevertEffect
<1>4. ASSUME NEW p \in pushes, PushStep(p)
      PROVE  <<r, k>> \in remote'[b]
  <2>1. \/ remote'[b] = remote[b]
        \/ b = p.branch /\ remote[b] = p.sees /\ remote'[b] = p.sends
    BY <1>4, PushEffect
  <2> QED
    BY <1>1, <2>1
<1>5. CASE Expire \/ UNCHANGED vars
  BY <1>5 DEF Expire, vars
<1> QED
  BY <1>1, <1>2, <1>3, <1>4, <1>5 DEF Next, Step

\* GitHub and the pushes have no edit that the clones could lose.
LEMMA RemoteStep ==
  ASSUME SafeInv, TypeOK, [Next]_vars, FreshInv, LiteInv, RemoteInv
  PROVE  RemoteInv'
<1> SUFFICES ASSUME NEW r \in Requests, NEW k \in 1..OpsOf[r], Kept(r, k)'
             PROVE  /\ \A b \in Branches : <<r, k>> \in remote'[b] => <<r, k>> \in clone'[b].head
                    /\ \A p \in pushes' : /\ <<r, k>> \in p.sends => <<r, k>> \in clone'[p.branch].head
                                          /\ <<r, k>> \in p.sees => <<r, k>> \in p.sends
  BY DEF RemoteInv
<1> DEFINE e == <<r, k>>
<1>p. \A p \in pushes : p.branch \in Branches
  BY DEF TypeOK, Push
<1>1. CASE Kept(r, k)
  <2>1. \A b \in Branches : e \in remote[b] => e \in clone[b].head
    BY <1>1 DEF RemoteInv
  <2>2. \A p \in pushes : /\ e \in p.sends => e \in clone[p.branch].head
                          /\ e \in p.sees => e \in p.sends
    BY <1>1 DEF RemoteInv
  <2>3. \A b \in Branches : e \in clone[b].head => e \in clone'[b].head
    BY <1>1, HeadsKeep
  <2>4. ASSUME NEW b \in Branches, e \in remote'[b]
        PROVE  e \in clone[b].head
    <3>1. ASSUME NEW q \in Requests,
                 ReadContent(q) \/ ReadHash(q) \/ CheckGitFileLock(q) \/ Lock(q) \/ Snapshot(q)
                 \/ CheckOp(q) \/ CommitOp(q) \/ Unlock(q) \/ Crash(q)
          PROVE  UNCHANGED remote
      BY <3>1, OutsideEffect, SnapshotEffect, OperationEffect, UnlockEffect, CrashEffect
    <3>2. ASSUME NEW q \in Requests, Rollback(q) \/ ForcePush(q)
          PROVE  remote'[b] \in {remote[b], clone[b].head}
      BY <3>2, RevertEffect
    <3>3. ASSUME NEW p \in pushes, PushStep(p)
          PROVE  remote'[b] = remote[b] \/ (b = p.branch /\ remote'[b] = p.sends)
      BY <3>3, PushEffect
    <3>4. CASE Expire \/ UNCHANGED vars
      BY <2>1, <2>4, <3>4 DEF Expire, vars
    <3> QED
      BY <2>1, <2>2, <2>4, <3>1, <3>2, <3>3, <3>4 DEF Next, Step
  <2>5. ASSUME NEW x \in pushes'
        PROVE  /\ e \in x.sends => e \in clone'[x.branch].head
               /\ e \in x.sees => e \in x.sends
    BY <1>p, <2>1, <2>2, <2>3, PushesRead
  <2> QED
    BY <2>3, <2>4, <2>5
<1>2. CASE ~Kept(r, k)
  <2>1. Fresh(r, k) /\ CommitOp(r)
    BY <1>2, AnyStep
  <2>2. \A b \in Branches : ~OnBranch(e, b)
    BY <2>1 DEF FreshInv
  <2>3. \A b \in Branches : e \notin remote[b] \cup clone[b].head
    BY <2>2 DEF OnBranch, OnDisk
  <2>4. \A p \in pushes : e \notin p.sends \cup p.sees
    BY <1>p, <2>2 DEF OnBranch
  <2>5. UNCHANGED remote
    BY <2>1, OperationEffect
  <2>6. ASSUME NEW x \in pushes'
        PROVE  e \notin x.sends \cup x.sees
    BY <2>3, <2>4, PushesRead
  <2> QED
    BY <2>3, <2>5, <2>6
<1> QED
  BY <1>1, <1>2

\* Every edit an answer promises is on GitHub, or on its way, or its push was given up on.
LEMMA PushStepInv ==
  ASSUME SafeInv, TypeOK, [Next]_vars, RemoteInv, PushInv
  PROVE  PushInv'
<1> DEFINE Owed(r, k) == Acked(r) \/ (Doing(r) /\ k < cur[r].op)
<1> SUFFICES ASSUME NEW r \in Requests, NEW k \in 1..OpsOf[r], Owed(r, k)'
             PROVE  OnTheWay(<<r, k>>)'
  BY DEF PushInv
<1> DEFINE e == <<r, k>>
<1>1. CASE Owed(r, k)
  <2>1. Kept(r, k) /\ OnTheWay(e)
    BY <1>1 DEF Kept, Done, PushInv
  <2>2. e \in clone["staging"].head
    <3>1. CASE Acked(r)
      BY <3>1 DEF SafeInv, HasAcked, Branches, EditsOf
    <3>2. CASE Doing(r) /\ k < cur[r].op
      <4>1. k \in 1..(cur[r].op - 1)
        BY <3>2, NowType, SiteEditAssumption
      <4> QED
        BY <3>2, <4>1 DEF SafeInv, LocalInv, Doing
    <3> QED
      BY <1>1, <3>1, <3>2
  <2>3. CASE e \in remote["staging"]
    BY <2>1, <2>3, RemoteKeeps DEF OnTheWay, Branches
  <2>4. gaveUp \subseteq gaveUp' /\ crashed \subseteq crashed'
    <3>1. ASSUME NEW q \in Requests, ReadContent(q) \/ ReadHash(q) \/ Step(q) \/ Crash(q)
          PROVE  gaveUp \subseteq gaveUp' /\ crashed \subseteq crashed'
      BY <3>1, OutsideEffect, SnapshotEffect, OperationEffect, RevertEffect, UnlockEffect,
         CrashEffect DEF Step
    <3>2. ASSUME NEW p \in pushes, PushStep(p)
          PROVE  gaveUp \subseteq gaveUp' /\ crashed \subseteq crashed'
      BY <3>2, PushEffect
    <3>3. CASE Expire \/ UNCHANGED vars
      BY <3>3 DEF Expire, vars, history
    <3> QED
      BY <3>1, <3>2, <3>3 DEF Next
  <2>5. ASSUME NEW p \in pushes, p.edit = e, p.branch = "staging", p.sent => e \in p.sends
        PROVE  OnTheWay(e)'
    <3>1. ASSUME NEW q \in Requests, ReadContent(q) \/ ReadHash(q) \/ Step(q) \/ Crash(q)
          PROVE  p \in pushes' \/ e[1] \in crashed'
      <4>1. CASE Crash(q)
        BY <2>5, <4>1, CrashEffect
      <4>2. CASE CheckOp(q) \/ CommitOp(q)
        <5>1. (\E err \in BOOLEAN : EndBranchOp(q, err)) \/ UNCHANGED pushes
          BY <4>2, OperationEffect
        <5> QED
          BY <5>1, EndValues
      <4> QED
        BY <3>1, <4>1, <4>2, OutsideEffect, SnapshotEffect, RevertEffect, UnlockEffect DEF Step
    <3>2. ASSUME NEW q \in pushes, PushStep(q), q # p
          PROVE  p \in pushes'
      <4>1. pushes \ {q} \subseteq pushes'
        BY <3>2, PushEffect
      <4> QED
        BY <3>2, <4>1
    <3>3. CASE PushStarts(p)
      <4> DEFINE n == [p EXCEPT !.sent = TRUE, !.sends = clone[p.branch].head, !.sees = remote[p.branch]]
      <4>1. n \in pushes'
        BY <3>3 DEF PushStarts
      <4>2. n.edit = e /\ n.branch = "staging" /\ n.sends = clone["staging"].head
        BY <2>5 DEF TypeOK, Push
      <4> QED
        BY <2>2, <4>1, <4>2 DEF OnTheWay
    <3>4. CASE PushLands(p)
      BY <2>5, <3>4 DEF PushLands, OnTheWay, TypeOK, Branches
    <3>5. CASE PushFails(p)
      <4>1. CASE e \in gaveUp'
        BY <4>1 DEF OnTheWay
      <4>2. CASE Again(p) \in pushes'
        <5>1. Again(p).edit = e /\ Again(p).branch = "staging" /\ Again(p).sent = FALSE
          BY <2>5 DEF TypeOK, Push, Again
        <5> QED
          BY <4>2, <5>1 DEF OnTheWay
      <4> QED
        BY <2>5, <3>5, <4>1, <4>2 DEF PushFails
    <3>6. p \in pushes' \/ e[1] \in crashed' => OnTheWay(e)'
      BY <2>5 DEF OnTheWay
    <3>7. CASE Expire \/ UNCHANGED vars
      BY <3>6, <3>7 DEF Expire, vars
    <3>9. CASE PushRefused(p)
      BY <2>5, <3>9 DEF PushRefused, OnTheWay
    <3>8. CASE \E q \in pushes : PushStep(q)
      <4>1. CASE PushStep(p)
        BY <3>3, <3>4, <3>5, <3>9, <4>1 DEF PushStep
      <4> QED
        BY <3>2, <3>6, <3>8, <4>1
    <3> QED
      <4> HIDE DEF e
      <4> QED
        BY <3>1, <3>6, <3>7, <3>8 DEF Next
  <2> QED
    BY <2>1, <2>3, <2>4, <2>5 DEF OnTheWay
<1>2. CASE ~Owed(r, k)
  <2>1. ASSUME NEW q \in Requests, ReadContent(q) \/ ReadHash(q) \/ Step(q) \/ Crash(q)
        PROVE  CommitOp(q) /\ q = r
    <3>1. CASE q # r
      <4>1. Alone(q)
        BY <2>1, OutsideEffect, SnapshotEffect, OperationEffect, RevertEffect, UnlockEffect,
           CrashEffect DEF Step
      <4> QED
        BY <1>2, <3>1, <4>1, AloneKeeps DEF Alone
    <3>2. CASE q = r
      <4>1. CASE ReadContent(r) \/ ReadHash(r) \/ CheckGitFileLock(r) \/ Lock(r)
        BY <4>1, OutsideEffect DEF Doing, Waiting, InHandler
      <4>2. CASE Snapshot(r)
        <5>1. ~Acked(r)' /\ cur'[r].op = 1
          BY <4>2, SnapshotEffect DEF Start
        <5> QED
          BY <5>1
      <4>3. CASE CheckOp(r)
        <5>1. ~Acked(r)' /\ (Doing(r)' => Doing(r) /\ UNCHANGED cur)
          <6>1. ~Acked(r) /\ pc[r] = "check"
            BY <4>3, OperationEffect DEF CheckOp
          <6>2. CASE pc'[r] = "commit" /\ UNCHANGED <<cur, answer>>
            BY <6>1, <6>2 DEF Doing, Acked, InHandler
          <6>3. CASE EndBranchOp(r, TRUE)
            BY <6>1, <6>3, FailedEnd DEF Acked
          <6> QED
            BY <4>3, <6>2, <6>3, OperationEffect DEF CheckOp
        <5> QED
          BY <1>2, <5>1
      <4>4. CASE Rollback(r) \/ ForcePush(r)
        <5>1. ~Acked(r)' /\ pc'[r] \in {"rollback", "repush", "failed"}
          BY <4>4, RevertEffect DEF Rollback
        <5> QED
          BY <5>1 DEF Doing, InHandler
      <4>5. CASE Unlock(r)
        BY <1>2, <4>5, UnlockEffect DEF Doing, InHandler
      <4>6. CASE Crash(r)
        <5>1. /\ Acked(r)' <=> Acked(r)
              /\ pc'[r] = "crashed" \/ (pc'[r] = pc[r] /\ UNCHANGED cur)
          BY <4>6, CrashEffect
        <5> QED
          BY <1>2, <5>1 DEF Doing, InHandler
      <4> QED
        BY <2>1, <3>2, <4>1, <4>2, <4>3, <4>4, <4>5, <4>6 DEF Step
    <3> QED
      BY <3>1, <3>2
  <2>2. CASE (\E p \in pushes : PushStep(p)) \/ Expire \/ UNCHANGED vars
    BY <1>2, <2>2, RestEffect
  <2>3. CASE CommitOp(r)
    <3> DEFINE n == NewPush(EditNow(r), "staging")
    <3>1. ~Acked(r) /\ pc[r] = "commit" /\ cur[r].op \in 1..OpsOf[r] /\ OpsOf[r] \in Nat
      BY <2>3, OperationEffect, NowType, SiteEditAssumption DEF CommitOp
    <3>2. PICK err \in BOOLEAN : EndBranchOp(r, err)
      BY <2>3 DEF CommitOp
    <3>3. n \in pushes' /\ k = cur[r].op
      <4>1. CASE /\ pc'[r] = "check" /\ UNCHANGED answer
                 /\ cur'[r] = [op |-> cur[r].op, branch |-> "lite", failed |-> cur[r].failed \/ err]
        <5>1. cur'[r].op = cur[r].op /\ cur'[r].failed = (cur[r].failed \/ err)
          BY <4>1
        <5> QED
          BY <1>2, <3>1, <4>1, <5>1 DEF Doing, Acked, InHandler
      <4>2. CASE pc'[r] = "rollback" /\ UNCHANGED answer
        BY <3>1, <4>2 DEF Doing, Acked, InHandler
      <4>3. CASE /\ ~(cur[r].failed \/ err) /\ pushes' = pushes \cup {n} /\ pc'[r] = "check"
                 /\ UNCHANGED answer
                 /\ cur'[r] = [op |-> cur[r].op + 1, branch |-> "staging", failed |-> FALSE]
        <5>1. Doing(r) /\ ~Acked(r)' /\ cur'[r].op = cur[r].op + 1
          BY <3>1, <4>3 DEF Doing, Acked, InHandler
        <5> QED
          BY <1>2, <3>1, <4>3, <5>1
      <4>4. CASE ~(cur[r].failed \/ err) /\ pushes' = pushes \cup {n} /\ cur[r].op = OpsOf[r]
        <5>1. Doing(r)
          BY <3>1, <4>4 DEF Doing, InHandler
        <5> QED
          BY <1>2, <3>1, <4>4, <5>1
      <4> HIDE DEF n
      <4> QED
        BY <3>2, <4>1, <4>2, <4>3, <4>4, EndValues DEF n
    <3> QED
      BY <3>3 DEF NewPush, EditNow, OnTheWay
  <2> QED
    BY <2>1, <2>2, <2>3 DEF Next
<1> QED
  BY <1>1, <1>2

-----------------------------------------------------------------------------
(* What the hash of an edit has seen                                       *)

\* A request is answered at the end of its last operation.
LEMMA AckStep ==
  ASSUME SafeInv, TypeOK, [Next]_vars, NEW q \in Requests, ~Acked(q), Acked(q)'
  PROVE  CommitOp(q) /\ Doing(q) /\ cur[q].op = OpsOf[q] /\ UNCHANGED seen
<1>1. ASSUME NEW r \in Requests, ReadContent(r) \/ ReadHash(r) \/ Step(r) \/ Crash(r)
      PROVE  CommitOp(q) /\ r = q
  <2>1. Alone(r)
    BY <1>1, OutsideEffect, SnapshotEffect, OperationEffect, RevertEffect, UnlockEffect,
       CrashEffect DEF Step
  <2>2. r = q
    BY <2>1 DEF Alone, Acked
  <2>3. CheckOp(q) => ~Acked(q)'
    <3>1. CheckOp(q) => UNCHANGED answer
      BY FailedEnd DEF CheckOp
    <3> QED
      BY <3>1 DEF Acked
  <2> QED
    BY <1>1, <2>2, <2>3, OutsideEffect, SnapshotEffect, RevertEffect, UnlockEffect, CrashEffect
       DEF Step
<1>2. CommitOp(q)
  BY <1>1, RestEffect DEF Next
<1>3. PICK err \in BOOLEAN : EndBranchOp(q, err)
  BY <1>2 DEF CommitOp
<1>4. /\ ~(cur[q].failed \/ err) /\ cur[q].op = OpsOf[q] /\ UNCHANGED seen
  BY <1>3, EndValues DEF Acked
<1> QED
  BY <1>2, <1>4 DEF Doing, InHandler, CommitOp

\* The hash of an edit that has passed its check does not change any more.
LEMMA SeenStays ==
  ASSUME SafeInv, TypeOK, [Next]_vars, NEW r \in Requests, NEW k \in 1..OpsOf[r], Passed(r, k)
  PROVE  seen'[<<r, k>>] = seen[<<r, k>>]
<1>a. <<r, k>> \in AllEdits
  BY EditType
<1>1. ASSUME NEW q \in Requests, ReadContent(q) \/ ReadHash(q) \/ CheckGitFileLock(q) \/ Lock(q)
      PROVE  seen'[<<r, k>>] = seen[<<r, k>>]
  <2>1. /\ Waiting(q) /\ ~Acked(q)
        /\ \A e \in AllEdits : e # <<q, 1>> => seen'[e] = seen[e]
    BY <1>1, OutsideEffect
  <2>2. q # r
    BY <2>1 DEF Passed, Kept, Doing, Waiting, InHandler
  <2> QED
    BY <1>a, <2>1, <2>2
<1>2. ASSUME NEW q \in Requests, CheckOp(q) \/ CommitOp(q)
      PROVE  seen'[<<r, k>>] = seen[<<r, k>>]
  <2>1. CASE UNCHANGED seen
    BY <2>1
  <2>2. CASE /\ cur[q].op + 1 \in 1..OpsOf[q]
             /\ \A e \in AllEdits : e # <<q, cur[q].op + 1>> => seen'[e] = seen[e]
    <3>1. ~Acked(q)
      BY <1>2, OperationEffect
    <3>2. cur[q].op \in Nat
      BY DEF TypeOK
    <3>3. ~(q = r /\ k = cur[q].op + 1)
      BY <3>1, <3>2 DEF Passed, Kept, Done
    <3> QED
      BY <1>a, <2>2, <3>3
  <2>3. \/ UNCHANGED seen
        \/ \E err \in BOOLEAN : EndBranchOp(q, err)
    BY <1>2, OperationEffect
  <2> QED
    BY <2>1, <2>2, <2>3, EndValues
<1> QED
  BY <1>1, <1>2, SnapshotEffect, RevertEffect, UnlockEffect, CrashEffect, RestEffect
     DEF Next, Step

\* Only the check of the hash lets an edit pass, and it compares the hash with the head
\* of staging.
LEMMA PassStep ==
  ASSUME SafeInv, TypeOK, [Next]_vars, NEW r \in Requests \ Renames, NEW k \in 1..OpsOf[r],
         ~Passed(r, k), Passed(r, k)'
  PROVE  /\ Running(r) /\ UNCHANGED <<seen, answer>>
         /\ Version(clone["staging"].head, FileOf[<<r, k>>]) = seen[<<r, k>>]
<1>1. ~Kept(r, k) /\ ~Kept(r, k)'
  <2>1. CASE Fresh(r, k) /\ CommitOp(r) /\ k = cur[r].op
    BY <2>1 DEF Passed, Fresh, Waiting, CommitOp
  <2> QED
    BY <2>1, AnyStep DEF Passed
<1>2. Doing(r)' /\ pc'[r] = "commit" /\ k = cur'[r].op
  BY <1>1 DEF Passed
<1>3. ~(UNCHANGED <<pc, cur>>)
  BY <1>2 DEF Passed, Doing
<1>4. ~(pc'[r] = pc[r] /\ cur'[r] = cur[r])
  BY <1>2 DEF Passed, Doing
<1>5. ASSUME NEW q \in Requests, ReadContent(q) \/ ReadHash(q) \/ Step(q) \/ Crash(q)
      PROVE  q = r
  <2>1. Alone(q)
    BY <1>5, OutsideEffect, SnapshotEffect, OperationEffect, RevertEffect, UnlockEffect,
       CrashEffect DEF Step
  <2> QED
    BY <1>4, <2>1 DEF Alone
<1>6. ReadContent(r) \/ ReadHash(r) \/ Step(r) \/ Crash(r)
  BY <1>3, <1>5, RestEffect DEF Next
<1>7. CheckOp(r) \/ CommitOp(r)
  BY <1>2, <1>4, <1>6, OutsideEffect, SnapshotEffect, RevertEffect, UnlockEffect, CrashEffect
     DEF Step, Waiting
<1>8. ~EndBranchOp(r, TRUE) /\ ~EndBranchOp(r, FALSE)
  BY <1>2, EndValues
<1>9. /\ Running(r) /\ UNCHANGED <<cur, seen, answer>> /\ pc[r] = "check"
      /\ Version(clone[cur[r].branch].head, FileOf[EditNow(r)]) = seen[EditNow(r)]
  BY <1>7, <1>8, OperationEffect
<1>10. cur[r].branch = "staging"
  <2>1. cur[r].branch \in Branches /\ Doing(r)
    BY <1>2, <1>9 DEF TypeOK, Doing, InHandler
  <2> QED
    BY <1>1, <1>2, <1>9, <2>1 DEF Kept, Done, Branches
<1> QED
  BY <1>2, <1>9, <1>10 DEF EditNow

\* Of two edits that overwrite the same file the later one has seen the earlier one.
LEMMA SeenStep ==
  ASSUME SafeInv, TypeOK, [Next]_vars, SeenInv
  PROVE  SeenInv'
<1> SUFFICES ASSUME NEW r \in Requests \ Renames, NEW q \in Requests \ Renames, r # q, Acked(q)',
                    NEW k \in 1..OpsOf[r], NEW l \in 1..OpsOf[q],
                    Passed(r, k)', FileOf[<<r, k>>] = FileOf[<<q, l>>]
             PROVE  \/ <<q, l>> \in seen'[<<r, k>>]
                    \/ Acked(r)' /\ <<r, k>> \in seen'[<<q, l>>]
  BY DEF SeenInv
<1>1. CASE Acked(q) /\ Passed(r, k)
  <2>1. \/ <<q, l>> \in seen[<<r, k>>]
        \/ Acked(r) /\ <<r, k>> \in seen[<<q, l>>]
    BY <1>1 DEF SeenInv
  <2>2. Passed(q, l)
    BY <1>1 DEF Passed, Kept
  <2> QED
    BY <1>1, <2>1, <2>2, SeenStays, AnyStep
<1>2. CASE Acked(q) /\ ~Passed(r, k)
  <2>1. <<q, l>> \in clone["staging"].head
    BY <1>2 DEF SafeInv, HasAcked, Branches, EditsOf
  <2>2. UNCHANGED seen /\ Version(clone["staging"].head, FileOf[<<r, k>>]) = seen[<<r, k>>]
    BY <1>2, PassStep
  <2> QED
    BY <2>1, <2>2 DEF Version
<1>3. CASE ~Acked(q)
  <2>1. CommitOp(q) /\ Doing(q) /\ cur[q].op = OpsOf[q] /\ UNCHANGED seen
    BY <1>3, AckStep
  <2>2. Alone(q) /\ Running(q) /\ pc[q] = "commit"
    BY <2>1, OperationEffect DEF CommitOp
  <2>3. Acked(r)
    <3>1. Passed(r, k)
      BY <2>2, AloneKeeps
    <3>2. ~Doing(r)
      BY <2>2, NobodyElse
    <3> QED
      BY <3>1, <3>2 DEF Passed, Kept
  <2>4. Passed(q, l)
    <3>1. OpsOf[q] \in Nat
      BY SiteEditAssumption
    <3> QED
      BY <2>1, <2>2, <3>1 DEF Passed, Kept, Done
  <2>5. <<r, k>> \in seen[<<q, l>>]
    BY <1>3, <2>3, <2>4 DEF SeenInv
  <2> QED
    BY <2>1, <2>3, <2>5, AnyStep
<1> QED
  BY <1>1, <1>2, <1>3

-----------------------------------------------------------------------------
(* What failed requests leave behind                                       *)

\* What turns up on a disk was being committed or is what a rollback goes back to.
LEMMA DiskSpread ==
  ASSUME SafeInv, TypeOK, [Next]_vars, NEW b \in Branches, NEW e \in OnDisk(b)'
  PROVE  \/ e \in OnDisk(b)
         \/ \E q \in Requests : /\ pc[q] = "commit" /\ (CommitOp(q) \/ Crash(q))
                                /\ e = EditNow(q) \/ e \in base[q]
         \/ \E q \in Requests : /\ pc[q] = "rollback" /\ Rollback(q) /\ b = cur[q].branch
                                /\ e \in snap[q][b]
<1>a. DiskOf(clone[b]) = OnDisk(b) /\ DiskOf(clone'[b]) = OnDisk(b)'
  BY DiskAfter
<1>1. ASSUME NEW q \in Requests, CheckOp(q) \/ CommitOp(q), e \notin OnDisk(b)
      PROVE  pc[q] = "commit" /\ (e = EditNow(q) \/ e \in base[q])
  <2>1. CASE b # cur[q].branch \/ UNCHANGED clone
    <3>1. clone'[b] = clone[b]
      BY <1>1, <2>1, OperationEffect
    <3> QED
      BY <1>1, <1>a, <3>1
  <2>2. CASE b = cur[q].branch /\ clone'[b] = Committed(clone[b], EditNow(q)) /\ pc[q] = "commit"
    <3>1. clone[b] \in Clone
      BY DEF TypeOK
    <3>2. DiskOf(Committed(clone[b], EditNow(q))) \subseteq DiskOf(clone[b]) \cup {EditNow(q)}
      BY <3>1 DEF DiskOf, Committed, Clone
    <3> QED
      BY <1>1, <1>a, <2>2, <3>2
  <2>3. CASE b = cur[q].branch /\ pc[q] = "commit"
             /\ DiskOf(clone'[b]) \subseteq DiskOf(clone[b]) \cup base[q] \cup {EditNow(q)}
    BY <1>1, <1>a, <2>3
  <2>4. ASSUME b = cur[q].branch
        PROVE  \/ UNCHANGED clone
               \/ pc[q] = "commit" /\ clone'[b] = Committed(clone[b], EditNow(q))
               \/ pc[q] = "commit"
                  /\ DiskOf(clone'[b]) \subseteq DiskOf(clone[b]) \cup base[q] \cup {EditNow(q)}
    BY <1>1, <2>4, OperationEffect
  <2> QED
    BY <2>1, <2>2, <2>3, <2>4
<1>2. ASSUME NEW q \in Requests, Rollback(q) \/ ForcePush(q), e \notin OnDisk(b)
      PROVE  pc[q] = "rollback" /\ Rollback(q) /\ b = cur[q].branch /\ e \in snap[q][b]
  BY <1>2, <1>a, RevertEffect DEF DiskOf, ForcePush
<1>3. ASSUME NEW q \in Requests, Crash(q), e \notin OnDisk(b)
      PROVE  pc[q] = "commit" /\ e = EditNow(q)
  BY <1>3, <1>a, CrashEffect
<1>4. ASSUME NEW q \in Requests,
             ReadContent(q) \/ ReadHash(q) \/ CheckGitFileLock(q) \/ Lock(q) \/ Snapshot(q)
             \/ Unlock(q)
      PROVE  UNCHANGED clone
  BY <1>4, OutsideEffect, SnapshotEffect, UnlockEffect
<1>5. UNCHANGED clone => e \in OnDisk(b)
  BY <1>a
<1>6. \A q \in Requests : CheckOp(q) /\ pc[q] = "commit" => FALSE
  BY DEF CheckOp
<1> QED
  BY <1>1, <1>2, <1>3, <1>4, <1>5, <1>6, RestEffect DEF Next, Step

\* The heads a request remembers are those of the clones.
LEMMA SnapSpread ==
  ASSUME SafeInv, TypeOK, [Next]_vars, NEW q \in Requests, NEW b \in Branches
  PROVE  /\ pc'[q] \in Reverting => \/ pc[q] \in Reverting /\ snap'[q] = snap[q]
                                    \/ Snapshot(q) /\ Waiting(q) /\ snap'[q][b] \subseteq OnDisk(b)
         /\ pc'[q] = "commit" => \/ pc[q] = "commit" /\ base'[q] = base[q]
                                 \/ base'[q] \subseteq OnDisk(cur[q].branch)
<1>a. clone[b].head \subseteq OnDisk(b) /\ clone[cur[q].branch].head \subseteq OnDisk(cur[q].branch)
  BY DEF OnDisk
<1>1. CASE UNCHANGED <<pc, snap, base>>
  BY <1>1
<1>2. ASSUME NEW r \in Requests, r # q, Alone(r)
      PROVE  pc'[q] = pc[q] /\ snap'[q] = snap[q] /\ base'[q] = base[q]
  BY <1>2 DEF Alone
<1>3. CASE ReadContent(q) \/ ReadHash(q) \/ CheckGitFileLock(q) \/ Lock(q)
  BY <1>3, OutsideEffect DEF Waiting, Reverting
<1>4. CASE Snapshot(q)
  BY <1>4, <1>a, SnapshotEffect DEF Reverting
<1>5. CASE CheckOp(q) \/ CommitOp(q)
  <2>1. UNCHANGED snap /\ pc[q] \in Reverting
    BY <1>5, OperationEffect DEF InHandler, Reverting
  <2>2. EndBranchOp(q, TRUE) \/ EndBranchOp(q, FALSE) => pc'[q] # "commit"
    BY EndValues
  <2> QED
    BY <1>5, <1>a, <2>1, <2>2, OperationEffect
<1>6. CASE Rollback(q) \/ ForcePush(q)
  BY <1>6, RevertEffect DEF Reverting
<1>7. CASE Unlock(q)
  BY <1>7, UnlockEffect DEF Reverting
<1>8. CASE Crash(q)
  BY <1>8, CrashEffect DEF Reverting
<1>9. ASSUME NEW r \in Requests, ReadContent(r) \/ ReadHash(r) \/ Step(r) \/ Crash(r)
      PROVE  Alone(r)
  BY <1>9, OutsideEffect, SnapshotEffect, OperationEffect, RevertEffect, UnlockEffect,
     CrashEffect DEF Step
<1>10. CASE (\E p \in pushes : PushStep(p)) \/ Expire \/ UNCHANGED vars
  BY <1>1, <1>10, RestEffect
<1>11. CASE \E r \in Requests : r # q /\ (ReadContent(r) \/ ReadHash(r) \/ Step(r) \/ Crash(r))
  BY <1>2, <1>9, <1>11
<1>12. CASE ReadContent(q) \/ ReadHash(q) \/ Step(q) \/ Crash(q)
  BY <1>3, <1>4, <1>5, <1>6, <1>7, <1>8, <1>12 DEF Step
<1> QED
  BY <1>10, <1>11, <1>12 DEF Next

\* The steps into and out of what the wrapper does after a rejection.
LEMMA ResetSteps ==
  ASSUME SafeInv, TypeOK, [Next]_vars, NEW r \in Requests, pc[r] = "succeeded" => Acked(r)
  PROVE  /\ pc'[r] = "succeeded" => Acked(r)'
         /\ pc'[r] = "rollback" /\ cur'[r].branch = "lite" =>
              /\ pc[r] = "rollback"
              /\ cur[r].branch = "lite" \/ OnDisk("staging")' = snap[r]["staging"]
         /\ pc'[r] = "repush" =>
              \/ pc[r] = "repush"
              \/ /\ pc[r] = "rollback" /\ (cur[r].branch = "staging" => ~LiteEnabled)
                 /\ \A b \in Branches : b = cur[r].branch => OnDisk(b)' = snap[r][b]
         /\ Traceless(r)' => Traceless(r) \/ (pc[r] = "repush" /\ pc'[r] = "failed")
<1>1. CASE UNCHANGED <<pc, cur, answer, broken>>
  BY <1>1 DEF Acked, Traceless, Waiting
<1>2. CASE ReadContent(r) \/ ReadHash(r) \/ CheckGitFileLock(r) \/ Lock(r)
  BY <1>2, OutsideEffect DEF Waiting, Traceless
<1>3. CASE Snapshot(r)
  BY <1>3, SnapshotEffect DEF Traceless
<1>4. CASE CheckOp(r) \/ CommitOp(r)
  <2>1. CASE pc'[r] = "commit"
    BY <2>1 DEF Traceless, Waiting
  <2>2. ASSUME NEW err \in BOOLEAN, EndBranchOp(r, err)
        PROVE  \/ pc'[r] = "check"
               \/ pc'[r] = "succeeded" /\ Acked(r)'
               \/ pc'[r] = "rollback" /\ cur'[r].branch = "staging"
    <3>1. \/ pc'[r] = "check"
          \/ pc'[r] = "succeeded" /\ Acked(r)'
          \/ /\ pc'[r] = "rollback"
             /\ cur'[r] = [op |-> cur[r].op, branch |-> "staging", failed |-> TRUE]
      BY <2>2, EndValues
    <3> QED
      BY <3>1
  <2>3. EndBranchOp(r, TRUE) \/ EndBranchOp(r, FALSE) \/ pc'[r] = "commit"
    BY <1>4, OperationEffect
  <2> QED
    BY <2>1, <2>2, <2>3 DEF Traceless, Waiting
<1>5. CASE Rollback(r) \/ ForcePush(r)
  <2> DEFINE b == cur[r].branch
  <2>a. ~Acked(r)' /\ b \in Branches /\ pc[r] \in {"rollback", "repush"}
    BY <1>5, RevertEffect DEF TypeOK, Rollback, ForcePush
  <2>1. CASE /\ pc[r] = "rollback"
             /\ clone'[b].head = snap[r][b] /\ clone'[b].staged = {} /\ clone'[b].unstaged = {}
             /\ IF b = "staging" /\ LiteEnabled
                THEN cur'[r].branch = "lite" /\ pc'[r] = "rollback"
                ELSE pc'[r] = "repush"
    <3>1. \A x \in Branches : x = b => OnDisk(x)' = snap[r][x]
      BY <2>1 DEF OnDisk
    <3> QED
      BY <2>1, <2>a, <3>1 DEF Traceless, Waiting, Branches
  <2>2. CASE pc[r] = "repush" /\ pc'[r] \in {"repush", "failed"}
    BY <2>2, <2>a DEF Traceless, Waiting
  <2>3. CASE pc'[r] = "failed" /\ broken' = broken \cup {r}
    BY <2>3, <2>a DEF Traceless, Waiting
  <2> QED
    BY <1>5, <2>1, <2>2, <2>3, RevertEffect
<1>6. CASE Unlock(r)
  BY <1>6, UnlockEffect DEF Traceless, Waiting, Acked
<1>7. CASE Crash(r)
  BY <1>7, CrashEffect DEF Traceless, Waiting, Acked, Running, Inside
<1>8. ASSUME NEW q \in Requests, q # r, ReadContent(q) \/ ReadHash(q) \/ Step(q) \/ Crash(q)
      PROVE  /\ pc'[r] = pc[r] /\ cur'[r] = cur[r] /\ answer'[r] = answer[r]
             /\ broken \subseteq broken'
  BY <1>8, OutsideEffect, SnapshotEffect, OperationEffect, RevertEffect, UnlockEffect,
     CrashEffect DEF Step, Alone
<1>9. CASE \E q \in Requests : q # r /\ (ReadContent(q) \/ ReadHash(q) \/ Step(q) \/ Crash(q))
  BY <1>8, <1>9 DEF Traceless, Waiting, Acked
<1>10. CASE (\E p \in pushes : PushStep(p)) \/ Expire \/ UNCHANGED vars
  BY <1>1, <1>10, RestEffect
<1>11. CASE ReadContent(r) \/ ReadHash(r) \/ Step(r) \/ Crash(r)
  BY <1>2, <1>3, <1>4, <1>5, <1>6, <1>7, <1>11 DEF Step
<1> QED
  BY <1>9, <1>10, <1>11 DEF Next

\* A request that fails is gone from the disk once its rollback is through.
LEMMA TraceStep ==
  ASSUME SafeInv, TypeOK, [Next]_vars, LiteInv, TraceInv
  PROVE  TraceInv'
<1> DEFINE
  Nowhere(e) ==
    /\ \A b \in Branches : e \notin OnDisk(b)
    /\ \A q \in Requests : pc[q] \in Reverting => \A b \in Branches : e \notin snap[q][b]
    /\ \A q \in Requests : pc[q] = "commit" => e \notin base[q]
<1> SUFFICES ASSUME NEW r \in Requests, NEW k \in 1..OpsOf[r]
             PROVE  /\ Traceless(r)' => Nowhere(<<r, k>>)'
                    /\ pc'[r] = "succeeded" => Acked(r)'
                    /\ pc'[r] \in Reverting => \A b \in Branches : <<r, k>> \notin snap'[r][b]
                    /\ pc'[r] = "rollback" /\ cur'[r].branch = "lite" =>
                         <<r, k>> \notin OnDisk("staging")'
                    /\ pc'[r] = "repush" => \A b \in Branches : <<r, k>> \notin OnDisk(b)'
  BY DEF TraceInv
<1> DEFINE e == <<r, k>>
<1>1. /\ Traceless(r) => Nowhere(e)
      /\ pc[r] = "succeeded" => Acked(r)
      /\ pc[r] \in Reverting => \A b \in Branches : e \notin snap[r][b]
      /\ pc[r] = "rollback" /\ cur[r].branch = "lite" => e \notin OnDisk("staging")
      /\ pc[r] = "repush" => \A b \in Branches : e \notin OnDisk(b)
  BY DEF TraceInv
<1>2. cur[r].branch \in Branches /\ \A q \in Requests : cur[q].branch \in Branches
  BY DEF TypeOK
<1>3. \A q \in Requests : e = EditNow(q) => q = r
  BY DEF EditNow
<1>4. Traceless(r) => Nowhere(e)'
  <2> SUFFICES ASSUME Traceless(r)
               PROVE  Nowhere(e)'
    OBVIOUS
  <2>1. Nowhere(e) /\ pc[r] # "commit"
    BY <1>1 DEF Traceless, Waiting
  <2>2. \A b \in Branches : e \notin OnDisk(b)'
    BY <1>3, <2>1, DiskSpread DEF Reverting
  <2>3. \A q \in Requests : /\ pc'[q] \in Reverting => \A b \in Branches : e \notin snap'[q][b]
                            /\ pc'[q] = "commit" => e \notin base'[q]
    BY <1>2, <2>1, SnapSpread
  <2> QED
    BY <2>2, <2>3
<1>5. ASSUME pc[r] \in {"rollback", "repush"}, NEW b \in Branches, e \notin OnDisk(b)
      PROVE  e \notin OnDisk(b)'
  <2>1. Running(r) /\ pc[r] # "commit"
    BY <1>5 DEF Running, Inside
  <2>2. \A q \in Requests : pc[q] \in Reverting => q = r
    BY <2>1, NobodyElse
  <2>3. \A q \in Requests : /\ pc[q] # "commit"
                            /\ pc[q] = "rollback" => e \notin snap[q][b]
    BY <1>1, <2>1, <2>2 DEF Reverting
  <2> QED
    BY <1>5, <2>3, DiskSpread
<1>6. CASE pc[r] = "repush" /\ pc'[r] = "failed"
  <2>1. \A b \in Branches : e \notin OnDisk(b) /\ e \notin OnDisk(b)'
    BY <1>1, <1>5, <1>6
  <2>2. Running(r)
    BY <1>6 DEF Running, Inside
  <2>3. ASSUME NEW q \in Requests
        PROVE  /\ pc'[q] \in Reverting => \A b \in Branches : e \notin snap'[q][b]
               /\ pc'[q] = "commit" => e \notin base'[q]
    <3>1. pc[q] \notin Reverting /\ pc[q] # "commit"
      BY <1>6, <2>2, NobodyElse DEF Reverting
    <3> QED
      BY <1>2, <2>1, <3>1, SnapSpread
  <2>4. Nowhere(e)'
    BY <2>1, <2>3
  <2> QED
    BY <1>6, <2>4 DEF Reverting
<1>7. pc'[r] \in Reverting => \A b \in Branches : e \notin snap'[r][b]
  <2>1. Waiting(r) => \A b \in Branches : e \notin OnDisk(b)
    BY <1>1 DEF Traceless
  <2> QED
    BY <1>1, <2>1, SnapSpread
<1>8. pc'[r] = "rollback" /\ cur'[r].branch = "lite" => e \notin OnDisk("staging")'
  <2>1. pc[r] = "rollback" => e \notin snap[r]["staging"]
    BY <1>1 DEF Reverting, Branches
  <2> QED
    BY <1>1, <1>5, <2>1, ResetSteps DEF Branches
<1>9. pc'[r] = "repush" => \A b \in Branches : e \notin OnDisk(b)'
  <2>1. CASE pc[r] = "repush"
    BY <1>1, <1>5, <2>1
  <2>2. CASE pc[r] = "rollback" /\ (cur[r].branch = "staging" => ~LiteEnabled)
    <3>1. ASSUME NEW b \in Branches, b # cur[r].branch
          PROVE  e \notin OnDisk(b)
      <4>1. CASE b = "staging"
        BY <1>1, <1>2, <2>2, <3>1, <4>1 DEF Branches
      <4>2. CASE b = "lite"
        <5>1. ~LiteEnabled
          BY <1>2, <2>2, <3>1, <4>2 DEF Branches
        <5>2. ~OnBranch(e, "lite")
          BY <5>1 DEF LiteInv, UsesLite
        <5> QED
          BY <4>2, <5>2 DEF OnBranch
      <4> QED
        BY <4>1, <4>2 DEF Branches
    <3>2. ASSUME NEW b \in Branches, OnDisk(b)' = snap[r][b]
          PROVE  e \notin OnDisk(b)'
      BY <1>1, <2>2, <3>2 DEF Reverting
    <3> QED
      BY <1>1, <1>5, <2>2, <3>1, <3>2, ResetSteps
  <2> QED
    BY <1>1, <2>1, <2>2, ResetSteps
<1> QED
  BY <1>1, <1>4, <1>6, <1>7, <1>8, <1>9, ResetSteps

-----------------------------------------------------------------------------
(* The two branches                                                        *)

\* What AgreeInv says while r alone is inside.
AgreeFor(r) ==
  /\ pc[r] \in Reverting => Agree(snap[r]["staging"], snap[r]["lite"])
  /\ pc[r] = "rollback" /\ cur[r].branch = "lite" =>
       Clean("staging") /\ clone["staging"].head = snap[r]["staging"]
  /\ Doing(r) /\ cur[r].branch = "lite" =>
       /\ Agree(clone["staging"].head, clone["lite"].head \cup {EditNow(r)})
       /\ \A b \in Branches : Clean(b)
  /\ (pc[r] \in Reverting => Doing(r) /\ cur[r].branch = "staging") =>
       /\ Agree(clone["staging"].head, clone["lite"].head)
       /\ \A b \in Branches : Clean(b)

\* It follows from AgreeInv,
LEMMA AgreeAlone ==
  ASSUME SafeInv, NEW r \in Requests, Running(r), AgreeInv, broken = {}, crashed = {}
  PROVE  AgreeFor(r)
<1>1. \A q \in Requests : pc[q] \in Reverting => q = r
  BY NobodyElse
<1> QED
  BY <1>1 DEF AgreeInv, AgreeFor

\* ... and AgreeInv after the step follows from it, if r made the step.
LEMMA AloneAgrees ==
  ASSUME SafeInv, NEW r \in Requests, Running(r), Alone(r), AgreeFor(r)'
  PROVE  AgreeInv'
<1>1. \A q \in Requests \ {r} : pc'[q] \notin Reverting /\ ~Doing(q)'
  BY NobodyElse, AloneKeeps DEF Alone
<1>2. \A q \in Requests : pc'[q] \in Reverting => q = r
  BY <1>1
<1>3. \A q \in Requests : Doing(q)' => q = r
  BY <1>1
<1>4. \A q \in Requests : pc'[q] = "rollback" => q = r
  BY <1>2 DEF Reverting
<1>5. (\A q \in Requests : pc'[q] \in Reverting => Doing(q)' /\ cur'[q].branch = "staging")
        => (pc'[r] \in Reverting => Doing(r)' /\ cur'[r].branch = "staging")
  OBVIOUS
<1> QED
  BY <1>2, <1>3, <1>4, <1>5 DEF AgreeInv, AgreeFor

\* What an operation that succeeds does to the branches.
LEMMA CommitAgrees ==
  ASSUME SafeInv, TypeOK, NEW r \in Requests, CommitOp(r), EndBranchOp(r, FALSE), AgreeFor(r),
         clone'[cur[r].branch] = Committed(clone[cur[r].branch], EditNow(r)), Doing(r)
  PROVE  AgreeFor(r)'
<1> DEFINE e == EditNow(r)
           b == cur[r].branch
           S == clone["staging"].head
           L == clone["lite"].head
<1>1. /\ b \in Branches /\ clone[b] \in Clone /\ e[1] = r
      /\ pc[r] \in Reverting /\ LocalInv(r) /\ pc[r] \in InHandler
  BY NowType DEF TypeOK, Doing, InHandler, Reverting, SafeInv
<1>2. /\ UNCHANGED snap
      /\ \A x \in Branches \ {b} : clone'[x] = clone[x]
  BY OperationEffect
<1>3. ASSUME NEW c \in Clone, NEW d, c.staged = {}, c.unstaged = {}
      PROVE  /\ Committed(c, d).head = c.head \cup {d}
             /\ Committed(c, d).staged = {} /\ Committed(c, d).unstaged = {}
  BY <1>3 DEF Committed, Clone
<1>4. \A x \in Branches : Clean(x)
  BY <1>1 DEF AgreeFor, Branches
<1>5. /\ clone'[b].head = clone[b].head \cup {e}
      /\ \A x \in Branches : clone'[x].staged = {} /\ clone'[x].unstaged = {}
  BY <1>1, <1>2, <1>3, <1>4 DEF Clean
<1>6. Agree(snap'[r]["staging"], snap'[r]["lite"])
  BY <1>1, <1>2 DEF AgreeFor
<1>7. IF b = "staging"
      THEN Agree(S, L) /\ clone'["staging"].head = S \cup {e} /\ clone'["lite"].head = L
      ELSE Agree(S, L \cup {e}) /\ clone'["staging"].head = S /\ clone'["lite"].head = L \cup {e}
  BY <1>1, <1>2, <1>5 DEF AgreeFor, Branches
<1>8. CASE b = "staging" /\ UsesLite(r)
  <2>1. Agree(clone'["staging"].head, clone'["lite"].head \cup {e})
    BY <1>1, <1>7, <1>8 DEF Agree
  <2>2. /\ pc'[r] = "check" /\ cur'[r] = [op |-> cur[r].op, branch |-> "lite", failed |-> cur[r].failed \/ FALSE]
    BY <1>8, EndValues DEF Doing
  <2>3. EditNow(r)' = e /\ cur'[r].branch = "lite"
    BY <2>2 DEF EditNow
  <2> QED
    BY <1>5, <1>6, <2>1, <2>2, <2>3 DEF AgreeFor, Clean, Reverting
<1>9. CASE b = "lite" \/ ~UsesLite(r)
  <2>1. Agree(clone'["staging"].head, clone'["lite"].head)
    BY <1>1, <1>7, <1>9 DEF Agree, Branches
  <2>2. \/ pc'[r] = "check"
           /\ cur'[r] = [op |-> cur[r].op + 1, branch |-> "staging", failed |-> FALSE]
        \/ pc'[r] = "succeeded"
        \/ pc'[r] = "rollback" /\ cur'[r] = [op |-> cur[r].op, branch |-> "staging", failed |-> TRUE]
    BY <1>9, EndValues
  <2>3. pc'[r] # "rollback" => (Doing(r)' /\ cur'[r].branch = "staging") \/ pc'[r] = "succeeded"
    BY <2>2 DEF Doing, InHandler
  <2>4. pc'[r] = "rollback" => cur'[r].branch = "staging"
    BY <2>2
  <2> QED
    BY <1>5, <1>6, <2>1, <2>2, <2>4 DEF AgreeFor, Clean, Reverting, Doing, InHandler
<1> QED
  BY <1>8, <1>9, <1>1 DEF Branches

\* While nothing has crashed and no rollback has been given up, staging-lite is staging
\* without the edits of assets whenever nobody is at work.
LEMMA AgreeStep ==
  ASSUME SafeInv, TypeOK, [Next]_vars, LiteInv, AgreeInv
  PROVE  AgreeInv'
<1> SUFFICES ASSUME broken' = {}, crashed' = {}
             PROVE  AgreeInv'
  BY DEF AgreeInv
<1>0. broken = {} /\ crashed = {} /\ \A r \in Requests : ~Crash(r)
  <2>1. ASSUME NEW q \in Requests, ReadContent(q) \/ ReadHash(q) \/ Step(q) \/ Crash(q)
        PROVE  broken \subseteq broken' /\ crashed \subseteq crashed'
    BY <2>1, OutsideEffect, SnapshotEffect, OperationEffect, RevertEffect, UnlockEffect,
       CrashEffect DEF Step
  <2>2. broken \subseteq broken' /\ crashed \subseteq crashed'
    BY <2>1, RestEffect DEF Next
  <2> QED
    BY <2>2, CrashEffect
<1>1. CASE UNCHANGED <<pc, cur, snap, clone>>
  BY <1>0, <1>1 DEF AgreeInv, Doing, Clean, EditNow, Reverting
<1>2. ASSUME NEW r \in Requests, ReadContent(r) \/ ReadHash(r) \/ CheckGitFileLock(r) \/ Lock(r)
      PROVE  AgreeInv'
  <2>1. /\ UNCHANGED <<cur, snap, clone>> /\ Alone(r) /\ pc[r] \notin Reverting /\ pc'[r] \notin Reverting
    BY <1>2, OutsideEffect DEF Waiting, Reverting
  <2>2. \A q \in Requests : /\ pc'[q] \in Reverting <=> pc[q] \in Reverting
                            /\ pc'[q] \in Reverting => pc'[q] = pc[q]
    BY <2>1 DEF Alone
  <2>3. \A q \in Requests : /\ Doing(q)' <=> Doing(q)
                            /\ Doing(q) => EditNow(q)' = EditNow(q)
    BY <2>1, <2>2 DEF Doing, InHandler, EditNow, Reverting
  <2> QED
    BY <1>0, <2>1, <2>2, <2>3 DEF AgreeInv, Clean, Reverting
<1>3. ASSUME NEW r \in Requests, Snapshot(r)
      PROVE  AgreeInv'
  <2>1. /\ Running(r) /\ Waiting(r) /\ Alone(r) /\ UNCHANGED <<cur, clone>> /\ cur[r] = Start
        /\ \/ pc'[r] = "check" /\ \A b \in Branches : snap'[r][b] = clone[b].head
           \/ pc'[r] = "failed"
    BY <1>3, SnapshotEffect
  <2>2. Agree(clone["staging"].head, clone["lite"].head) /\ \A b \in Branches : Clean(b)
    BY <1>0, <2>1, AgreeAlone DEF AgreeFor, Waiting, Reverting
  <2>3. \A b \in Branches : Clean(b)'
    BY <2>1, <2>2 DEF Clean
  <2>4. cur'[r].branch = "staging"
    BY <2>1 DEF Start
  <2>5. AgreeFor(r)'
    BY <2>1, <2>2, <2>3, <2>4 DEF AgreeFor, Reverting, Branches
  <2> QED
    BY <2>1, <2>5, AloneAgrees
<1>4. ASSUME NEW r \in Requests, CheckOp(r) \/ CommitOp(r)
      PROVE  AgreeInv'
  <2>1. /\ Running(r) /\ Alone(r) /\ pc[r] \in InHandler /\ UNCHANGED snap
        /\ \A x \in Branches \ {cur[r].branch} : clone'[x] = clone[x]
    BY <1>4, OperationEffect
  <2>2. AgreeFor(r) /\ pc[r] \in Reverting
    BY <1>0, <2>1, AgreeAlone DEF InHandler, Reverting
  <2>3. CASE pc[r] = "check" /\ pc'[r] = "commit" /\ UNCHANGED <<cur, clone>>
    BY <2>1, <2>2, <2>3, AloneAgrees DEF AgreeFor, Doing, InHandler, Clean, EditNow, Reverting
  <2>4. ASSUME NEW err \in BOOLEAN, EndBranchOp(r, err), err \/ ~Doing(r)
        PROVE  AgreeInv'
    <3>1. ~Doing(r)'
      <4>1. CASE err = TRUE
        BY <2>4, <4>1, FailedEnd
      <4>2. CASE err = FALSE /\ ~Doing(r)
        <5>1. cur[r].failed = TRUE
          BY <2>1, <4>2 DEF Doing, TypeOK
        <5>2. (cur[r].failed \/ err) = TRUE
          BY <5>1
        <5>3. \/ pc'[r] = "rollback"
              \/ cur'[r] = [op |-> cur[r].op, branch |-> "lite", failed |-> TRUE]
          BY <2>4, <5>1, <5>2, EndValues
        <5> QED
          BY <5>3 DEF Doing, InHandler
      <4> QED
        BY <2>4, <4>1, <4>2
    <3>2. /\ pc'[r] \in {"check", "rollback"}
          /\ pc'[r] = "rollback" => cur'[r].branch = "staging"
      <4>1. cur[r].failed \/ err
        BY <2>1, <2>4 DEF Doing
      <4>2. \/ pc'[r] = "check"
            \/ /\ pc'[r] = "rollback"
               /\ cur'[r] = [op |-> cur[r].op, branch |-> "staging", failed |-> TRUE]
        BY <2>4, <4>1, EndValues
      <4> QED
        BY <4>2
    <3>3. AgreeFor(r)'
      BY <2>1, <2>2, <3>1, <3>2 DEF AgreeFor, Reverting
    <3> QED
      BY <2>1, <3>3, AloneAgrees
  <2>5. CASE /\ CommitOp(r) /\ EndBranchOp(r, FALSE) /\ Doing(r)
             /\ clone'[cur[r].branch] = Committed(clone[cur[r].branch], EditNow(r))
    BY <2>1, <2>2, <2>5, CommitAgrees, AloneAgrees
  <2> QED
    <3>1. \/ pc[r] = "check" /\ pc'[r] = "commit" /\ UNCHANGED <<cur, clone>>
          \/ /\ pc[r] = "commit" /\ EndBranchOp(r, FALSE)
             /\ clone'[cur[r].branch] = Committed(clone[cur[r].branch], EditNow(r))
          \/ EndBranchOp(r, TRUE)
      BY <1>4, OperationEffect
    <3> QED
      BY <1>4, <2>3, <2>4, <2>5, <3>1 DEF CheckOp
<1>5. ASSUME NEW r \in Requests, Rollback(r) \/ ForcePush(r)
      PROVE  AgreeInv'
  <2> DEFINE b == cur[r].branch
  <2>1. /\ Running(r) /\ Alone(r) /\ UNCHANGED snap /\ b \in Branches
        /\ \A x \in Branches \ {b} : clone'[x] = clone[x]
    BY <1>5, RevertEffect DEF TypeOK
  <2>2. AgreeFor(r) /\ ~Doing(r)'
    <3>1. pc'[r] \in {"rollback", "repush", "failed"}
      BY <1>5, RevertEffect DEF Rollback, ForcePush
    <3> QED
      BY <1>0, <2>1, <3>1, AgreeAlone DEF Doing, InHandler
  <2>3. CASE pc[r] = "repush" /\ UNCHANGED clone /\ pc'[r] \in {"repush", "failed"}
    <3>1. AgreeFor(r)'
      BY <2>2, <2>3 DEF AgreeFor, Clean, Reverting
    <3> QED
      BY <2>1, <3>1, AloneAgrees
  <2>4. CASE /\ pc[r] = "rollback"
             /\ clone'[b].head = snap[r][b] /\ clone'[b].staged = {} /\ clone'[b].unstaged = {}
             /\ IF b = "staging" /\ LiteEnabled
                THEN cur'[r].branch = "lite" /\ pc'[r] = "rollback"
                ELSE pc'[r] = "repush"
    <3>1. Agree(snap[r]["staging"], snap[r]["lite"])
      BY <2>2, <2>4 DEF AgreeFor, Reverting
    <3>2. CASE b = "staging" /\ LiteEnabled
      BY <2>1, <2>2, <2>4, <3>1, <3>2, AloneAgrees DEF AgreeFor, Clean, Reverting
    <3>3. CASE b = "staging" /\ ~LiteEnabled
      <4>1. \A e \in AllEdits : e \notin OnDisk("lite")
        BY <3>3 DEF LiteInv, UsesLite, OnBranch, AllEdits, EditsOf
      <4>2. clone["lite"].head = {} /\ clone["lite"].staged = {} /\ clone["lite"].unstaged = {}
        BY <4>1 DEF OnDisk, TypeOK, Clone, Branches
      <4>3. clone'["lite"] = clone["lite"]
        BY <2>1, <3>3 DEF Branches
      <4>4. Agree(snap[r]["staging"], clone["lite"].head)
        BY <3>3, <4>2 DEF Agree, UsesLite
      <4>5. AgreeFor(r)'
        BY <2>1, <2>2, <2>4, <3>3, <4>2, <4>3, <4>4 DEF AgreeFor, Clean, Reverting, Branches
      <4> QED
        BY <2>1, <4>5, AloneAgrees
    <3>4. CASE b = "lite"
      <4>1. clone'["staging"] = clone["staging"]
        BY <2>1, <3>4 DEF Branches
      <4>2. Clean("staging") /\ clone["staging"].head = snap[r]["staging"]
        BY <2>2, <2>4, <3>4 DEF AgreeFor
      <4>3. AgreeFor(r)'
        BY <2>1, <2>2, <2>4, <3>1, <3>4, <4>1, <4>2 DEF AgreeFor, Clean, Reverting, Branches
      <4> QED
        BY <2>1, <4>3, AloneAgrees
    <3> QED
      BY <2>1, <3>2, <3>3, <3>4 DEF Branches
  <2> QED
    BY <1>5, <2>3, <2>4, RevertEffect
<1>6. ASSUME NEW r \in Requests, Unlock(r)
      PROVE  AgreeInv'
  <2>1. /\ Running(r) /\ Alone(r) /\ UNCHANGED clone
        /\ pc[r] \notin Reverting /\ pc'[r] \notin Reverting
    BY <1>6, UnlockEffect DEF Reverting
  <2>2. AgreeFor(r)
    BY <1>0, <2>1, AgreeAlone
  <2>3. AgreeFor(r)'
    BY <2>1, <2>2 DEF AgreeFor, Doing, InHandler, Reverting, Clean
  <2> QED
    BY <2>1, <2>3, AloneAgrees
<1> QED
  BY <1>0, <1>1, <1>2, <1>3, <1>4, <1>5, <1>6, RestEffect DEF Next, Step

-----------------------------------------------------------------------------
(* Together                                                                *)

\* What else holds is kept by every step.
LEMMA MoreStep ==
  ASSUME SafeInv, TypeOK, [Next]_vars, MoreInv
  PROVE  MoreInv'
  BY FreshStep, LiteStep, RemoteStep, PushStepInv, SeenStep, TraceStep, AgreeStep DEF MoreInv

\* It holds of a site nobody has edited.
LEMMA MoreInit == Init => MoreInv
<1> SUFFICES ASSUME Init
             PROVE  MoreInv
  OBVIOUS
<1>1. /\ \A r \in Requests : pc[r] = "idle" /\ ~Acked(r) /\ Waiting(r) /\ ~Doing(r)
      /\ \A b \in Branches : OnDisk(b) = {} /\ remote[b] = {} /\ Clean(b)
      /\ \A b \in Branches : clone[b].head = {}
      /\ \A r \in Requests : \A b \in Branches : snap[r][b] = {}
      /\ pushes = {}
  BY DEF Init, Acked, Waiting, Doing, InHandler, OnDisk, Clean
<1>2. \A r \in Requests : \A k : ~Kept(r, k) /\ ~Passed(r, k)
  BY <1>1 DEF Kept, Passed
<1>3. \A e : \A b \in Branches : ~OnBranch(e, b)
  BY <1>1 DEF OnBranch
<1>4. FreshInv /\ LiteInv /\ RemoteInv /\ PushInv /\ SeenInv
  BY <1>1, <1>2, <1>3 DEF FreshInv, LiteInv, RemoteInv, PushInv, SeenInv, Branches
<1>5. TraceInv
  BY <1>1 DEF TraceInv, Reverting
<1>6. AgreeInv
  BY <1>1 DEF AgreeInv, Agree, Reverting, Branches
<1> QED
  BY <1>4, <1>5, <1>6 DEF MoreInv

\* As long as no lock expires under a request, what requests, clones, pushes and GitHub
\* know of each other's edits stays right.
THEOREM FullInvariance == Spec => [](NoOverrun => SafeInv /\ MoreInv)
<1>1. IInv /\ NoOverrun => SafeInv
  BY DEF IInv, SafeInv
<1>2. Init => (NoOverrun => MoreInv)
  BY MoreInit
<1>3. IInv /\ IInv' /\ (NoOverrun => MoreInv) /\ [Next]_vars => (NoOverrun => MoreInv)'
  BY <1>1, OverrunStays, MoreStep DEF IInv
<1> QED
  BY <1>1, <1>2, <1>3, Invariance, PTL DEF Spec

\* Two acknowledged edits of the same file: the sha check under the lock lets the later
\* one pass only if its hash has the earlier one.
THEOREM NothingOverwritten == Spec => []NoLostUpdate
<1>1. (NoOverrun => SafeInv /\ MoreInv) => NoLostUpdate
  <2> SUFFICES ASSUME MoreInv,
                      NEW r \in {x \in Requests \ Renames : Acked(x)},
                      NEW q \in {x \in Requests \ Renames : Acked(x)}, r # q,
                      NEW k \in 1..OpsOf[r], NEW l \in 1..OpsOf[q],
                      FileOf[<<r, k>>] = FileOf[<<q, l>>]
               PROVE  <<r, k>> \in seen[<<q, l>>] \/ <<q, l>> \in seen[<<r, k>>]
    BY DEF NoLostUpdate, EditsOf
  <2>1. Passed(r, k)
    BY DEF Passed, Kept
  <2> QED
    BY <2>1 DEF MoreInv, SeenInv
<1> QED
  BY <1>1, FullInvariance, PTL

\* Every acknowledged edit is on GitHub or on its way there, unless its push was given up,
\* with or without a try, or its process or its lock died.
THEOREM NothingForgotten == Spec => []AckedEditsArePushed
<1>1. (NoOverrun => SafeInv /\ MoreInv) => AckedEditsArePushed
  <2> SUFFICES ASSUME MoreInv, NEW r \in Requests, NEW k \in 1..OpsOf[r], Acked(r)
               PROVE  OnTheWay(<<r, k>>)
    BY DEF AckedEditsArePushed, AllEdits, EditsOf, OnTheWay
  <2> QED
    BY DEF MoreInv, PushInv
<1> QED
  BY <1>1, FullInvariance, PTL

\* A request that failed and could be rolled back has left nothing on either clone, and
\* the branches agree while nobody edits.
THEOREM FailureIsClean == Spec => []FailedLeavesNoTrace
<1>1. (NoOverrun => SafeInv /\ MoreInv) => FailedLeavesNoTrace
  <2> SUFFICES ASSUME NoOverrun, MoreInv
               PROVE  FailedLeavesNoTrace
    BY DEF FailedLeavesNoTrace
  <2>1. ASSUME NEW r \in Requests, pc[r] \in {"failed", "done"}, ~Acked(r), r \notin broken,
               NEW b \in Branches
        PROVE  EditsOf(r) \cap OnDisk(b) = {}
    <3>1. Traceless(r)
      BY <2>1 DEF Traceless
    <3>2. \A k \in 1..OpsOf[r] : <<r, k>> \notin OnDisk(b)
      BY <3>1 DEF MoreInv, TraceInv
    <3> QED
      BY <3>2 DEF EditsOf
  <2>2. ASSUME broken = {}, crashed = {}, \A r \in Requests : ~Running(r)
        PROVE  clone["lite"].head = {e \in clone["staging"].head : UsesLite(e[1])}
    <3>1. \A r \in Requests : pc[r] \notin Reverting
      BY <2>2 DEF Running, Inside, InHandler, Reverting
    <3> QED
      BY <2>2, <3>1 DEF MoreInv, AgreeInv, Agree
  <2> QED
    BY <2>1, <2>2 DEF FailedLeavesNoTrace
<1> QED
  BY <1>1, FullInvariance, PTL

\* No push, forced or not, takes an acknowledged edit from GitHub.
THEOREM GitHubForgetsNothing == Spec => GitHubKeepsAckedEdits
<1>1. IInv /\ (NoOverrun => SafeInv /\ MoreInv) /\ [Next]_vars =>
        [overran' = {} => \A r \in Requests, b \in Branches :
           Acked(r) => EditsOf(r) \cap remote[b] \subseteq remote'[b]]_vars
  <2> SUFFICES ASSUME IInv, NoOverrun => SafeInv /\ MoreInv, [Next]_vars, overran' = {},
                      NEW r \in Requests, NEW b \in Branches, Acked(r),
                      NEW k \in 1..OpsOf[r], <<r, k>> \in remote[b]
               PROVE  <<r, k>> \in remote'[b]
    BY DEF EditsOf
  <2>1. TypeOK /\ SafeInv /\ RemoteInv
    BY OverrunStays DEF NoOverrun, IInv, MoreInv
  <2> QED
    BY <2>1, RemoteKeeps DEF Kept
<1> QED
  BY <1>1, FullInvariance, Invariance, PTL DEF Spec, GitHubKeepsAckedEdits
===============================================================================
