------------------------- MODULE ReviewRequestProofs -------------------------
(***************************************************************************)
(* What IInv promises holds for any number of handlers, users, pull        *)
(* requests and failures.                                                  *)
(*                                                                         *)
(* The rows and the handlers need each other: that a row ends only after   *)
(* its pull request is what a close or a merge remembers from GitHub's     *)
(* answer, and that this stays true until it saves is because a pull       *)
(* request that has ended never changes.  The rows of a creation are safe  *)
(* because it holds the site lock and nobody finds them without it.        *)
(***************************************************************************)
EXTENDS ReviewDiscussion, TLAPS

-----------------------------------------------------------------------------
(* Types                                                                   *)

\* A handler at rest is a value of its type.
LEMMA IdleType == Idle \in Work
  BY DEF Idle, Work, Steps

\* The next step of a handler keeps its type.
LEMMA GotoType ==
  ASSUME call \in [Calls -> Work], NEW c \in Calls, NEW s \in Steps, Goto(c, s)
  PROVE  call' \in [Calls -> Work]
  BY DEF Goto, Work

\* So does the number that a creation gets from GitHub.
LEMMA OpenedType ==
  ASSUME call \in [Calls -> Work], NEW c \in Calls, NEW n \in Nums, Opened(c, n)
  PROVE  call' \in [Calls -> Work]
<1>1. call[c] \in Work
  OBVIOUS
<1>2. [call[c] EXCEPT !.step = "row", !.n = n] \in Work
  BY <1>1 DEF Work, Steps
<1> QED
  BY <1>2 DEF Opened

\* And so does its end, which gives up the lock if the handler has it.
LEMMA ReturnType ==
  ASSUME call \in [Calls -> Work], NEW c \in Calls, Return(c),
         holder \subseteq Calls, \A d, e \in holder : d = e
  PROVE  /\ call' \in [Calls -> Work]
         /\ holder' \subseteq Calls
         /\ \A d, e \in holder' : d = e
  BY IdleType DEF Return

\* The write wrapper lets one handler in at a time.
LEMMA AdmitType ==
  ASSUME NEW c \in Calls, NEW op, Admit(c, op),
         holder \subseteq Calls, \A d, e \in holder : d = e
  PROVE  /\ holder' \subseteq Calls
         /\ \A d, e \in holder' : d = e
  BY DEF Admit

\* Every step keeps the types; that a handler has a number when it writes a row is what
\* CallOK and CreationOK say.
LEMMA TypeStep == IInv /\ [Next]_vars => TypeOK'
<1> SUFFICES ASSUME IInv, [Next]_vars
             PROVE  TypeOK'
  OBVIOUS
<1> TypeOK
  BY DEF IInv
<1> USE ReviewRequestAssumption DEF TypeOK, Fault, NoFault, db
<1>0. ASSUME NEW c \in Calls, call[c].step # "idle", call[c].op # "create"
      PROVE  call[c].n \in Nums
  BY <1>0 DEF IInv, CallOK
<1>a. ASSUME NEW c \in Calls, Strays(c), call[c].n \in Nums
      PROVE  apart' \subseteq Nums
  BY <1>a DEF Strays
<1>1. ASSUME NEW c \in Calls, StartCreate(c)
      PROVE  TypeOK'
  <2> PICK u \in Users, named \in SUBSET Admins :
        call' = [call EXCEPT ![c] = [Idle EXCEPT !.op = "create", !.step = "pull",
                                                 !.user = {u}, !.named = named]]
    BY <1>1 DEF StartCreate
  <2>1. [Idle EXCEPT !.op = "create", !.step = "pull",  !.user = {u}, !.named = named] \in Work
    BY DEF Work, Idle, Steps, Ops, Locking
  <2>2. call' \in [Calls -> Work]
    BY <2>1
  <2> QED
    BY <1>1, <2>2, AdmitType DEF StartCreate
<1>2. ASSUME NEW c \in Calls, Load(c)
      PROVE  TypeOK'
  <2> PICK op \in Ops \ {"create"}, u \in Users, n \in linked, named \in SUBSET Admins :
        /\ Admit(c, op)
        /\ call' = [call EXCEPT ![c] =
            [op |-> op, step |-> IF op \in {"close", "merge"} THEN "pull" ELSE "save",
             user |-> {u}, n |-> n, status |-> row[n], named |-> named]]
    BY <1>2 DEF Load
  <2>1. [op |-> op, step |-> IF op \in {"close", "merge"} THEN "pull" ELSE "save",
             user |-> {u}, n |-> n, status |-> row[n], named |-> named] \in Work
    BY DEF Work, Steps
  <2>2. call' \in [Calls -> Work]
    BY <2>1
  <2> QED
    BY <1>2, <2>2, AdmitType DEF Load
<1>3. ASSUME NEW c \in Calls, Throw(c)
      PROVE  TypeOK'
  BY <1>3, ReturnType DEF Throw
<1>4. ASSUME NEW c \in Calls, CreatePull(c)
      PROVE  TypeOK'
  <2>1. call' \in [Calls -> Work]
    <3>1. CASE Return(c)
      BY <3>1, ReturnType
    <3>2. ASSUME NEW n \in Nums, Opened(c, n)
          PROVE  call' \in [Calls -> Work]
      BY <3>2, OpenedType
    <3> QED
      BY <1>4, <3>1, <3>2 DEF CreatePull
  <2> QED
    BY <1>4, <2>1, ReturnType DEF CreatePull
<1>5. ASSUME NEW c \in Calls, CreateRow(c)
      PROVE  TypeOK'
  <2>1. call' \in [Calls -> Work]
    BY <1>5, GotoType DEF CreateRow, Steps
  <2>2. call[c].user \in {{}} \cup {{u} : u \in Users}
    BY DEF Work
  <2>3. row' \in [Nums -> Statuses \cup {"none"}]
    BY <1>5 DEF CreateRow, Statuses, Active
  <2>4. requestor' \in [Nums -> {{}} \cup {{u} : u \in Users}]
    BY <1>5, <2>2 DEF CreateRow
  <2> HIDE DEF Work
  <2> QED
    BY <1>5, <2>1, <2>3, <2>4 DEF CreateRow
<1>6. ASSUME NEW c \in Calls, CreateReviewers(c)
      PROVE  TypeOK'
  <2>1. call' \in [Calls -> Work]
    BY <1>6, GotoType, ReturnType DEF CreateReviewers, Steps
  <2>2. reviewers' \in [Nums -> SUBSET Users]
    BY <1>6 DEF CreateReviewers, Work
  <2> QED
    BY <1>6, <2>1, <2>2, ReturnType DEF CreateReviewers
<1>7. ASSUME NEW c \in Calls, CreateMeta(c)
      PROVE  TypeOK'
  <2>1. call[c].n \in Nums
    BY <1>7 DEF CreateMeta, At, IInv, CreationOK
  <2> QED
    BY <1>7, <2>1, ReturnType DEF CreateMeta
<1>8. ASSUME NEW c \in Calls, SetReviewers(c)
      PROVE  TypeOK'
  BY <1>8, ReturnType DEF SetReviewers, Work
<1>9. ASSUME NEW c \in Calls, SaveApproval(c)
      PROVE  TypeOK'
  <2>1. call[c].n \in Nums
    BY <1>0, <1>9 DEF SaveApproval, At
  <2>2. row' \in [Nums -> Statuses \cup {"none"}]
    BY <1>9 DEF SaveApproval, Saved, Statuses, Active
  <2>3. approvals' \subseteq Nums \X Users
    BY <1>9, <2>1 DEF SaveApproval, Work
  <2>4. apart' \subseteq Nums
    BY <1>9, <1>a, <2>1 DEF SaveApproval
  <2> QED
    BY <1>9, <2>2, <2>3, <2>4, ReturnType DEF SaveApproval
<1>10. ASSUME NEW c \in Calls, SaveUnapproval(c)
      PROVE  TypeOK'
  <2>1. call[c].n \in Nums
    BY <1>0, <1>10 DEF SaveUnapproval, At
  <2>2. row' \in [Nums -> Statuses \cup {"none"}]
    BY <1>10 DEF SaveUnapproval, Saved, Statuses, Active
  <2>3. apart' \subseteq Nums
    BY <1>10, <1>a, <2>1 DEF SaveUnapproval
  <2> QED
    BY <1>10, <2>2, <2>3, ReturnType DEF SaveUnapproval
<1>11. ASSUME NEW c \in Calls, ClosePull(c)
      PROVE  TypeOK'
  <2>1. pull' \in [Nums -> {"none", "open", "merged", "closed"}]
    BY <1>11 DEF ClosePull
  <2>2. call' \in [Calls -> Work]
    BY <1>11, GotoType, ReturnType DEF ClosePull, Steps
  <2>3. call[c].n \in Nums
    BY <1>0, <1>11 DEF ClosePull, At
  <2>4. apart' \subseteq Nums
    BY <1>11, <2>3 DEF ClosePull
  <2> QED
    BY <1>11, <2>1, <2>2, <2>4, ReturnType DEF ClosePull
<1>12. ASSUME NEW c \in Calls, MergePull(c)
      PROVE  TypeOK'
  <2>1. pull' \in [Nums -> {"none", "open", "merged", "closed"}]
    BY <1>12 DEF MergePull
  <2>2. call' \in [Calls -> Work]
    BY <1>12, GotoType, ReturnType DEF MergePull, Steps
  <2>3. call[c].n \in Nums
    BY <1>0, <1>12 DEF MergePull, At
  <2>4. apart' \subseteq Nums
    BY <1>12, <2>3 DEF MergePull
  <2> QED
    BY <1>12, <2>1, <2>2, <2>4, ReturnType DEF MergePull
<1>13. ASSUME NEW c \in Calls, NEW op, NEW s \in Statuses, SaveEnded(c, op, s)
      PROVE  TypeOK'
  BY <1>13, GotoType DEF SaveEnded, Saved, Steps
<1>14. ASSUME NEW c \in Calls, DeleteViews(c)
      PROVE  TypeOK'
  BY <1>14, ReturnType DEF DeleteViews
<1>15. ASSUME NEW c \in Calls, MarkViewed(c)
      PROVE  TypeOK'
  <2>1. call[c].n \in Nums
    BY <1>0, <1>15 DEF MarkViewed, At
  <2>2. call[c].user \subseteq Users
    <3>1. call[c] \in Work
      OBVIOUS
    <3> QED
      BY <3>1 DEF Work
  <2>3. views' \subseteq Nums \X Users
    <3>1. PICK ns \in {{call[c].n}, {n \in Nums : row[n] \in Active}} :
            views' = views \cup (ns \X call[c].user)
      BY <1>15 DEF MarkViewed
    <3>2. ns \subseteq Nums
      BY <2>1, <3>1
    <3> QED
      BY <2>2, <3>1, <3>2
  <2> QED
    BY <1>15, <2>3, ReturnType DEF MarkViewed
<1>16. CASE UNCHANGED vars
  BY <1>16 DEF vars
<1> QED
  BY <1>1, <1>2, <1>3, <1>4, <1>5, <1>6, <1>7, <1>8, <1>9, <1>10, <1>11, <1>12, <1>13,
     <1>14, <1>15, <1>16 DEF Next, Handle, Statuses

-----------------------------------------------------------------------------
\* What IInv says of one pull request and its row.
RowInv(n) ==
  /\ row[n] = "MERGED" => pull[n] = "merged"
  /\ row[n] = "CLOSED" => pull[n] \in {"closed", "merged"}
  /\ pull[n] = "open" /\ row[n] # "none" => row[n] \in Active
  /\ pull[n] = "merged" => HasApproval(n)
  /\ n \in linked => row[n] # "none"
  /\ row[n] # "none" => pull[n] # "none"
  /\ row[n] = "APPROVED" => HasApproval(n)
  /\ reviewers[n] \subseteq Admins

\* An approval stays an approval: the requestor of a row that has one does not change.
LEMMA ApprovalKept ==
  ASSUME NEW n, HasApproval(n), approvals \subseteq approvals', requestor'[n] = requestor[n]
  PROVE  HasApproval(n)'
  BY DEF HasApproval

\* Every step keeps what IInv says of one row.
LEMMA RowStep ==
  ASSUME IInv, TypeOK', [Next]_vars, NEW n \in Nums
  PROVE  RowInv(n)'
<1>a. TypeOK /\ RowInv(n)
  BY DEF IInv, RowInv, RowsOK, EndedRowsEndedOnGitHub, OpenPullsStayActive,
         MergedOnlyIfApproved
<1>b. ASSUME NEW c \in Calls
      PROVE  CallOK(c) /\ CreationOK(c)
  BY DEF IInv
<1>1. ASSUME UNCHANGED <<pull, db, approvals>>
      PROVE  RowInv(n)'
  BY <1>a, <1>1 DEF RowInv, HasApproval, db
<1>2. ASSUME NEW c \in Calls, CreatePull(c)
      PROVE  RowInv(n)'
  <2>1. HasApproval(n) => HasApproval(n)'
    BY <1>2 DEF CreatePull, db, HasApproval
  <2>2. pull'[n] = pull[n] \/ (pull[n] = "none" /\ pull'[n] = "open")
    BY <1>2, <1>a DEF CreatePull, TypeOK
  <2> QED
    BY <1>2, <1>a, <2>1, <2>2 DEF CreatePull, db, RowInv
<1>3. ASSUME NEW c \in Calls, CreateRow(c)
      PROVE  RowInv(n)'
  <2>1. CASE n = call[c].n
    BY <1>3, <1>a, <1>b, <2>1 DEF CreateRow, At, CreationOK, RowInv, TypeOK, Active
  <2>2. CASE n # call[c].n
    <3>1. row'[n] = row[n] /\ requestor'[n] = requestor[n]
      BY <1>3, <1>a, <2>2 DEF CreateRow, TypeOK
    <3>2. HasApproval(n) => HasApproval(n)'
      BY <1>3, <3>1, ApprovalKept DEF CreateRow
    <3> QED
      BY <1>3, <1>a, <3>1, <3>2 DEF CreateRow, RowInv
  <2> QED
    BY <2>1, <2>2
<1>4. ASSUME NEW c \in Calls, CreateReviewers(c)
      PROVE  RowInv(n)'
  <2>1. HasApproval(n) => HasApproval(n)'
    BY <1>4 DEF CreateReviewers, HasApproval
  <2>2. call[c].named \subseteq Admins
    BY <1>4, <1>b DEF CreateReviewers, At, CallOK
  <2>3. reviewers'[n] \subseteq Admins
    BY <1>4, <1>a, <2>2 DEF CreateReviewers, TypeOK, RowInv
  <2> QED
    BY <1>4, <1>a, <2>1, <2>3 DEF CreateReviewers, RowInv
<1>5. ASSUME NEW c \in Calls, CreateMeta(c)
      PROVE  RowInv(n)'
  <2>1. HasApproval(n) => HasApproval(n)'
    BY <1>5 DEF CreateMeta, HasApproval
  <2>2. row[call[c].n] # "none"
    BY <1>5, <1>b DEF CreateMeta, At, CreationOK
  <2> QED
    BY <1>5, <1>a, <2>1, <2>2 DEF CreateMeta, RowInv
<1>6. ASSUME NEW c \in Calls, SetReviewers(c)
      PROVE  RowInv(n)'
  <2>1. HasApproval(n) => HasApproval(n)'
    BY <1>6 DEF SetReviewers, HasApproval
  <2>2. reviewers'[n] \subseteq Admins
    BY <1>6, <1>a, <1>b DEF SetReviewers, At, CallOK, TypeOK, RowInv
  <2> QED
    BY <1>6, <1>a, <2>1, <2>2 DEF SetReviewers, RowInv
<1>7. ASSUME NEW c \in Calls, SaveApproval(c)
      PROVE  RowInv(n)'
  <2>1. HasApproval(n) => HasApproval(n)'
    BY <1>7, ApprovalKept DEF SaveApproval
  <2>2. call[c].n \in linked
    BY <1>7, <1>b DEF SaveApproval, At, CallOK
  <2>3. CASE n = call[c].n
    <3>1. PICK u \in Admins : call[c].user = {u} /\ {u} # requestor[n]
      BY <1>7, <1>b, <2>3 DEF SaveApproval, At, CallOK
    <3>2. <<n, u>> \in approvals'
      BY <1>7, <2>3, <3>1 DEF SaveApproval
    <3>3. HasApproval(n)'
      BY <1>7, <3>1, <3>2 DEF SaveApproval, HasApproval
    <3>4. row'[n] = "APPROVED" \/ row'[n] = row[n]
      BY <1>7, <1>a, <2>3 DEF SaveApproval, Saved, TypeOK
    <3> QED
      BY <1>7, <1>a, <2>2, <2>3, <3>3, <3>4 DEF SaveApproval, RowInv, Active
  <2>4. CASE n # call[c].n
    <3>1. row'[n] = row[n]
      BY <1>7, <1>a, <2>4 DEF SaveApproval, Saved, TypeOK
    <3> QED
      BY <1>7, <1>a, <2>1, <3>1 DEF SaveApproval, RowInv
  <2> QED
    BY <2>3, <2>4
<1>8. ASSUME NEW c \in Calls, SaveUnapproval(c)
      PROVE  RowInv(n)'
  <2>1. HasApproval(n) => HasApproval(n)'
    BY <1>8 DEF SaveUnapproval, HasApproval
  <2>2. call[c].n \in linked
    BY <1>8, <1>b DEF SaveUnapproval, At, CallOK
  <2>3. row'[n] = row[n] \/ (n = call[c].n /\ row'[n] = "OPEN")
    BY <1>8, <1>a DEF SaveUnapproval, Saved, TypeOK
  <2> QED
    BY <1>8, <1>a, <2>1, <2>2, <2>3 DEF SaveUnapproval, RowInv, Active
<1>9. ASSUME NEW c \in Calls, ClosePull(c)
      PROVE  RowInv(n)'
  <2>1. HasApproval(n) => HasApproval(n)'
    BY <1>9 DEF ClosePull, db, HasApproval
  <2>2. pull'[n] = pull[n] \/ (pull[n] = "open" /\ pull'[n] = "closed")
    BY <1>9, <1>a DEF ClosePull, TypeOK
  <2> QED
    BY <1>9, <1>a, <2>1, <2>2 DEF ClosePull, db, RowInv, Active
<1>10. ASSUME NEW c \in Calls, MergePull(c)
       PROVE  RowInv(n)'
  <2>1. HasApproval(n) => HasApproval(n)'
    BY <1>10 DEF MergePull, db, HasApproval
  <2>2. pull'[n] = pull[n] \/ (n = call[c].n /\ pull[n] = "open" /\ pull'[n] = "merged")
    BY <1>10, <1>a DEF MergePull, TypeOK
  <2>3. HasApproval(call[c].n)
    BY <1>10, <1>b DEF MergePull, At, CallOK
  <2> QED
    BY <1>10, <1>a, <2>1, <2>2, <2>3 DEF MergePull, db, RowInv, Active
<1>11. ASSUME NEW c \in Calls, SaveEnded(c, "close", "CLOSED")
       PROVE  RowInv(n)'
  <2>1. HasApproval(n) => HasApproval(n)'
    BY <1>11 DEF SaveEnded, HasApproval
  <2>2. call[c].n \in linked /\ pull[call[c].n] \in {"closed", "merged"}
    BY <1>11, <1>b DEF SaveEnded, At, CallOK
  <2>3. row'[n] = row[n] \/ (n = call[c].n /\ row'[n] = "CLOSED")
    BY <1>11, <1>a DEF SaveEnded, Saved, TypeOK
  <2> QED
    BY <1>11, <1>a, <2>1, <2>2, <2>3 DEF SaveEnded, RowInv
<1>12. ASSUME NEW c \in Calls, SaveEnded(c, "merge", "MERGED")
       PROVE  RowInv(n)'
  <2>1. HasApproval(n) => HasApproval(n)'
    BY <1>12 DEF SaveEnded, HasApproval
  <2>2. call[c].n \in linked /\ pull[call[c].n] = "merged"
    BY <1>12, <1>b DEF SaveEnded, At, CallOK
  <2>3. row'[n] = row[n] \/ (n = call[c].n /\ row'[n] = "MERGED")
    BY <1>12, <1>a DEF SaveEnded, Saved, TypeOK
  <2> QED
    BY <1>12, <1>a, <2>1, <2>2, <2>3 DEF SaveEnded, RowInv
<1>13. ASSUME NEW c \in Calls,
              StartCreate(c) \/ Load(c) \/ Throw(c) \/ DeleteViews(c) \/ MarkViewed(c)
       PROVE  UNCHANGED <<pull, db, approvals>>
  BY <1>13 DEF StartCreate, Load, Throw, DeleteViews, MarkViewed
<1>14. CASE UNCHANGED vars
  BY <1>1, <1>14 DEF vars
<1> QED
  BY <1>1, <1>2, <1>3, <1>4, <1>5, <1>6, <1>7, <1>8, <1>9, <1>10, <1>11, <1>12, <1>13,
     <1>14 DEF Next, Handle

-----------------------------------------------------------------------------
(* An active row has an open pull request, or somebody still to end it     *)

ActiveRow(n) ==
  row[n] \in Active => pull[n] = "open" \/ n \in apart \/ \E c \in Calls : Ending(c, n)

\* A handler that is about to end a row is still about to when another one has moved.
LEMMA EndingStays ==
  ASSUME TypeOK, NEW c \in Calls, NEW n,
         \E s : call' = [call EXCEPT ![c] = s], \E d \in Calls : Ending(d, n), ~Ending(c, n)
  PROVE  (\E d \in Calls : Ending(d, n))'
<1>1. PICK d \in Calls : Ending(d, n)
  OBVIOUS
<1>2. d # c /\ call'[d] = call[d]
  BY <1>1 DEF TypeOK
<1> QED BY <1>1, <1>2 DEF Ending

\* Every step keeps an active row where it is, ends it, or leaves its number in apart.
LEMMA ActiveStep ==
  ASSUME IInv, TypeOK', [Next]_vars, NEW n \in Nums
  PROVE  ActiveRow(n)'
<1>a. TypeOK /\ ActiveRow(n) /\ RowInv(n)
  BY DEF IInv, ActiveRow, ActiveRowsAreOpen, RowInv, RowsOK, EndedRowsEndedOnGitHub,
         OpenPullsStayActive, MergedOnlyIfApproved
<1>b. ASSUME NEW c \in Calls
      PROVE  CallOK(c) /\ CreationOK(c)
  BY DEF IInv
<1>m. ASSUME NEW c \in Calls, Handle(c)
      PROVE  \E s : call' = [call EXCEPT ![c] = s]
  BY <1>m DEF Handle, StartCreate, Load, Throw, CreatePull, CreateRow, CreateReviewers, CreateMeta,
       SetReviewers, SaveApproval, SaveUnapproval, ClosePull, MergePull, SaveEnded, DeleteViews,
       MarkViewed, Goto, Opened, Return
<1>k. ASSUME NEW c \in Calls, Handle(c), ~Ending(c, n), UNCHANGED <<pull, row>>, apart \subseteq apart'
      PROVE  ActiveRow(n)'
  BY <1>a, <1>m, <1>k, EndingStays DEF ActiveRow
<1>1. ASSUME NEW c \in Calls, StartCreate(c) \/ Load(c)
      PROVE  ActiveRow(n)'
  <2>1. ~Ending(c, n) /\ UNCHANGED <<pull, row>> /\ apart \subseteq apart'
    BY <1>1 DEF StartCreate, Load, Admit, Ending, db
  <2> QED BY <1>k, <1>1, <2>1 DEF Handle
<1>2. ASSUME NEW c \in Calls, Throw(c)
      PROVE  ActiveRow(n)'
  <2>1. CASE Ending(c, n)
    BY <1>2, <2>1 DEF Throw, ActiveRow
  <2>2. CASE ~Ending(c, n)
    <3>1. UNCHANGED <<pull, row>> /\ apart \subseteq apart'
      BY <1>2 DEF Throw, db
    <3> QED BY <1>k, <1>2, <2>2, <3>1 DEF Handle
  <2> QED BY <2>1, <2>2
<1>3. ASSUME NEW c \in Calls,
             \/ CreateReviewers(c) \/ CreateMeta(c) \/ SetReviewers(c)
             \/ DeleteViews(c) \/ MarkViewed(c)
      PROVE  ActiveRow(n)'
  <2>1. ~Ending(c, n) /\ UNCHANGED <<pull, row>> /\ apart \subseteq apart'
    BY <1>3 DEF CreateReviewers, CreateMeta, SetReviewers, DeleteViews, MarkViewed, At, Ending, db
  <2> QED BY <1>k, <1>3, <2>1 DEF Handle
<1>4. ASSUME NEW c \in Calls, CreatePull(c)
      PROVE  ActiveRow(n)'
  <2>1. ~Ending(c, n) /\ row' = row /\ apart' = apart
    BY <1>4 DEF CreatePull, At, Ending, db
  <2>2. pull[n] # "none" => pull'[n] = pull[n]
    BY <1>4, <1>a DEF CreatePull, TypeOK
  <2>3. row[n] \in Active => pull[n] # "none"
    BY <1>a DEF RowInv, Active
  <2> QED BY <1>a, <1>m, <1>4, <2>1, <2>2, <2>3, EndingStays DEF ActiveRow, Handle
<1>5. ASSUME NEW c \in Calls, CreateRow(c)
      PROVE  ActiveRow(n)'
  <2>1. ~Ending(c, n) /\ UNCHANGED <<pull, apart>>
    BY <1>5 DEF CreateRow, At, Ending
  <2>2. CASE n = call[c].n
    BY <1>5, <1>b, <2>1, <2>2 DEF CreateRow, At, CreationOK, ActiveRow
  <2>3. CASE n # call[c].n
    <3>1. row'[n] = row[n]
      BY <1>5, <1>a, <2>3 DEF CreateRow, TypeOK
    <3> QED BY <1>a, <1>m, <1>5, <2>1, <3>1, EndingStays DEF ActiveRow, Handle
  <2> QED BY <2>2, <2>3
<1>6. ASSUME NEW c \in Calls, SaveApproval(c) \/ SaveUnapproval(c)
      PROVE  ActiveRow(n)'
  <2>1. ~Ending(c, n) /\ UNCHANGED pull /\ Strays(c)
    BY <1>6 DEF SaveApproval, SaveUnapproval, At, Ending
  <2>2. row'[n] # row[n] => n = call[c].n
    BY <1>6, <1>a DEF SaveApproval, SaveUnapproval, Saved, TypeOK
  <2>3. CASE row'[n] # row[n]
    BY <2>1, <2>2, <2>3 DEF Strays, ActiveRow
  <2>4. CASE row'[n] = row[n]
    <3>1. apart \subseteq apart'
      BY <2>1 DEF Strays
    <3> QED BY <1>a, <1>m, <1>6, <2>1, <2>4, <3>1, EndingStays DEF ActiveRow, Handle
  <2> QED BY <2>3, <2>4
<1>7. ASSUME NEW c \in Calls, ClosePull(c) \/ MergePull(c)
      PROVE  ActiveRow(n)'
  <2>1. ~Ending(c, n) /\ row' = row /\ apart \subseteq apart'
    BY <1>7 DEF ClosePull, MergePull, At, Ending, db
  <2>2. CASE pull'[n] = pull[n]
    BY <1>a, <1>m, <1>7, <2>1, <2>2, EndingStays DEF ActiveRow, Handle
  <2>3. CASE pull'[n] # pull[n]
    <3>1. n = call[c].n /\ pull[n] = "open" /\ pull' # pull
      BY <1>7, <1>a, <2>3 DEF ClosePull, MergePull, TypeOK
    <3>2. call[c].op \in {"close", "merge"} /\ call[c].step = "pull" /\ call[c].status \in Active
      <4>1. call[c].op \in {"close", "merge"} /\ call[c].step = "pull"
        BY <1>7 DEF ClosePull, MergePull, At
      <4>2. call[c].status \in Statuses \cup {"none"}
        BY <1>a DEF TypeOK, Work
      <4> QED BY <1>b, <3>1, <4>1, <4>2 DEF CallOK, Statuses
    <3>3. CASE Goto(c, "save")
      <4>1. call'[c] = [call[c] EXCEPT !.step = "save"]
        BY <1>a, <3>3 DEF Goto, TypeOK
      <4>2. Ending(c, n)'
        BY <1>a, <3>1, <3>2, <4>1 DEF Ending, TypeOK, Work
      <4> QED BY <4>2 DEF ActiveRow
    <3>4. CASE n \in apart'
      BY <3>4 DEF ActiveRow
    <3> QED BY <1>7, <3>1, <3>3, <3>4 DEF ClosePull, MergePull
  <2> QED BY <2>2, <2>3
<1>8. ASSUME NEW c \in Calls, NEW op, NEW s \in {"CLOSED", "MERGED"}, SaveEnded(c, op, s),
             Handle(c)
      PROVE  ActiveRow(n)'
  <2>1. CASE row'[n] \notin Active
    BY <2>1 DEF ActiveRow
  <2>2. CASE row'[n] \in Active
    <3>1. row'[n] = row[n] /\ (n = call[c].n => call[c].status = s)
      BY <1>8, <1>a, <2>2 DEF SaveEnded, Saved, TypeOK, Active
    <3>2. ~Ending(c, n)
      BY <3>1 DEF Ending, Active
    <3>3. UNCHANGED pull /\ (n \in apart => n \in apart')
      BY <1>8, <2>2 DEF SaveEnded
    <3> QED BY <1>a, <1>m, <1>8, <3>1, <3>2, <3>3, EndingStays DEF ActiveRow
  <2> QED BY <2>1, <2>2
<1>9. CASE UNCHANGED vars
  BY <1>a, <1>9 DEF ActiveRow, Ending, vars, db
<1> QED
  BY <1>1, <1>2, <1>3, <1>4, <1>5, <1>6, <1>7, <1>8, <1>9 DEF Next, Handle

-----------------------------------------------------------------------------
\* A handler that does not move may go on relying on what it relied on, if the handler
\* that moved touches only what the lock or the state of the row lets it touch.
LEMMA Bystander ==
  ASSUME NEW d \in Calls, call'[d] = call[d], CallOK(d), CreationOK(d),
         call[d].step # "idle" /\ call[d].op \in Locking => d \in holder',
         linked \subseteq linked',
         approvals \subseteq approvals',
         \A n \in linked : requestor'[n] = requestor[n],
         \A n \in linked : pull[n] \in {"closed", "merged"} => pull'[n] = pull[n],
         call[d].op = "create" /\ call[d].step # "pull" =>
           LET n == call[d].n IN
           n \notin linked' /\ pull'[n] = pull[n] /\ row'[n] = row[n]
  PROVE  CallOK(d)' /\ CreationOK(d)'
<1>1. CallOK(d)'
  <2>1. CASE call[d].step = "idle"
    BY <2>1 DEF CallOK, Idle
  <2>2. CASE call[d].step # "idle" /\ call[d].op = "create"
    BY <2>2 DEF CallOK, Ops
  <2>3. CASE call[d].step # "idle" /\ call[d].op # "create"
    <3>1. call[d].n \in linked
      BY <2>3 DEF CallOK
    <3>2. HasApproval(call[d].n) => HasApproval(call[d].n)'
      BY <3>1 DEF HasApproval
    <3> QED
      BY <2>3, <3>1, <3>2 DEF CallOK
  <2> QED
    BY <2>1, <2>2, <2>3
<1>2. CreationOK(d)'
  BY DEF CreationOK
<1> QED
  BY <1>1, <1>2

\* The lock is held by one handler at a time, and a creation under way holds it.
LEMMA Alone ==
  ASSUME IInv, NEW c \in Calls, NEW d \in Calls \ {c}, call[d].op = "create"
  PROVE  /\ call[c].step = "idle" \/ call[c].op \notin Locking
         /\ holder # {}
<1>1. d \in holder
  BY DEF IInv, CallOK, CreationOK, Locking
<1>2. c \notin holder
  BY <1>1 DEF IInv, TypeOK
<1> QED
  BY <1>1, <1>2 DEF IInv, CallOK

\* Each handler keeps what it relies on while another one makes a step.
LEMMA OthersStep ==
  ASSUME IInv, TypeOK', NEW c \in Calls, NEW d \in Calls \ {c}, Handle(c)
  PROVE  CallOK(d)' /\ CreationOK(d)'
<1>a. TypeOK /\ CallOK(c) /\ CallOK(d) /\ CreationOK(c) /\ CreationOK(d)
  BY DEF IInv
<1>b. \A n \in linked : n \in Nums /\ row[n] # "none"
  BY <1>a DEF IInv, RowsOK, TypeOK
<1>c. call[d].step # "idle" /\ call[d].op \in Locking => d \in holder
  BY <1>a DEF CallOK
<1>d. call[d].op = "create" /\ call[d].step # "pull" =>
        /\ call[d].n \in Nums \ linked
        /\ call[c].step = "idle" \/ call[c].op \notin Locking
        /\ holder # {}
  BY <1>a, Alone DEF CreationOK
<1>e. call[c].step # "idle" /\ call[c].op # "create" => call[c].n \in linked
  BY <1>a DEF CallOK
<1>1. CASE StartCreate(c) \/ Load(c)
  <2>1. call'[d] = call[d] /\ (call[d].step # "idle" /\ call[d].op \in Locking => d \in holder')
    BY <1>1, <1>a, <1>c DEF StartCreate, Load, Admit, TypeOK
  <2> QED
    BY <1>1, <1>a, <1>d, <2>1, Bystander DEF StartCreate, Load, db
<1>2. CASE Throw(c) \/ DeleteViews(c) \/ MarkViewed(c)
  <2>1. call'[d] = call[d] /\ (d \in holder => d \in holder')
    BY <1>2, <1>a DEF Throw, DeleteViews, MarkViewed, Return, TypeOK
  <2> QED
    BY <1>2, <1>a, <1>c, <1>d, <2>1, Bystander DEF Throw, DeleteViews, MarkViewed, db
<1>3. CASE CreatePull(c)
  <2>1. call'[d] = call[d] /\ (d \in holder => d \in holder')
    BY <1>3, <1>a DEF CreatePull, Return, Opened, TypeOK
  <2>2. \A n \in Nums : pull[n] # "none" => pull'[n] = pull[n]
    BY <1>3, <1>a DEF CreatePull, TypeOK
  <2>3. ~(call[d].op = "create" /\ call[d].step # "pull")
    BY <1>3, <1>d DEF CreatePull, At, Locking
  <2> QED
    BY <1>3, <1>a, <1>b, <1>c, <2>1, <2>2, <2>3, Bystander DEF CreatePull, db
<1>4. CASE CreateRow(c)
  <2>1. call'[d] = call[d]
    BY <1>4, <1>a DEF CreateRow, Goto, TypeOK
  <2>2. \A n \in linked : requestor'[n] = requestor[n]
    BY <1>4, <1>a, <1>b DEF CreateRow, At, CreationOK, TypeOK
  <2>3. ~(call[d].op = "create" /\ call[d].step # "pull")
    BY <1>4, <1>d DEF CreateRow, At, Locking
  <2> QED
    BY <1>4, <1>a, <1>c, <2>1, <2>2, <2>3, Bystander DEF CreateRow
<1>5. CASE CreateReviewers(c) \/ CreateMeta(c)
  <2>1. call'[d] = call[d] /\ (d \in holder => d \in holder')
    BY <1>5, <1>a DEF CreateReviewers, CreateMeta, Goto, Return, TypeOK
  <2>2. ~(call[d].op = "create" /\ call[d].step # "pull")
    BY <1>5, <1>d DEF CreateReviewers, CreateMeta, At, Locking
  <2> QED
    BY <1>5, <1>a, <1>c, <2>1, <2>2, Bystander DEF CreateReviewers, CreateMeta
<1>6. CASE SetReviewers(c)
  <2>1. call'[d] = call[d] /\ (d \in holder => d \in holder')
    BY <1>6, <1>a DEF SetReviewers, Return, TypeOK
  <2> QED
    BY <1>6, <1>a, <1>c, <1>d, <2>1, Bystander DEF SetReviewers
<1>7. CASE SaveApproval(c) \/ SaveUnapproval(c)
  <2>1. call'[d] = call[d] /\ (d \in holder => d \in holder')
    BY <1>7, <1>a DEF SaveApproval, SaveUnapproval, Return, TypeOK
  <2>2. \A n \in Nums \ linked : row'[n] = row[n]
    BY <1>7, <1>a, <1>e DEF SaveApproval, SaveUnapproval, Saved, At, TypeOK
  <2> QED
    BY <1>7, <1>a, <1>c, <1>d, <2>1, <2>2, Bystander DEF SaveApproval, SaveUnapproval
<1>8. CASE ClosePull(c) \/ MergePull(c)
  <2>1. call'[d] = call[d] /\ (d \in holder => d \in holder')
    BY <1>8, <1>a DEF ClosePull, MergePull, Goto, Return, TypeOK
  <2>2. \A n \in Nums : pull[n] \in {"closed", "merged"} => pull'[n] = pull[n]
    BY <1>8, <1>a DEF ClosePull, MergePull, TypeOK
  <2>3. \A n \in Nums \ linked : pull'[n] = pull[n]
    BY <1>8, <1>a, <1>e DEF ClosePull, MergePull, At, TypeOK
  <2> QED
    BY <1>8, <1>a, <1>b, <1>c, <1>d, <2>1, <2>2, <2>3, Bystander DEF ClosePull, MergePull, db
<1>9. CASE SaveEnded(c, "close", "CLOSED") \/ SaveEnded(c, "merge", "MERGED")
  <2>1. call'[d] = call[d]
    BY <1>9, <1>a DEF SaveEnded, Goto, TypeOK
  <2>2. \A n \in Nums \ linked : row'[n] = row[n]
    BY <1>9, <1>a, <1>e DEF SaveEnded, Saved, At, TypeOK
  <2> QED
    BY <1>9, <1>a, <1>c, <1>d, <2>1, <2>2, Bystander DEF SaveEnded
<1> QED
  BY <1>1, <1>2, <1>3, <1>4, <1>5, <1>6, <1>7, <1>8, <1>9 DEF Handle

\* A handler that has ended relies on nothing.
LEMMA EndedOK ==
  ASSUME TypeOK, NEW c \in Calls, Return(c)
  PROVE  /\ CallOK(c)' /\ CreationOK(c)'
         /\ call'[c] = Idle
<1>1. call'[c] = Idle
  BY DEF Return, TypeOK
<1> QED
  BY <1>1 DEF CallOK, CreationOK, Idle

\* What the handler that makes a step relies on afterwards.
LEMMA ActorStep ==
  ASSUME IInv, TypeOK', NEW c \in Calls, Handle(c)
  PROVE  CallOK(c)' /\ CreationOK(c)'
<1>a. TypeOK /\ CallOK(c) /\ CreationOK(c)
  BY DEF IInv
<1>1. CASE StartCreate(c)
  <2>1. PICK u \in Users, named \in SUBSET Admins :
          call'[c] = [Idle EXCEPT !.op = "create", !.step = "pull",
                                  !.user = {u}, !.named = named]
    BY <1>1, <1>a DEF StartCreate, TypeOK
  <2>2. c \in holder'
    BY <1>1 DEF StartCreate, Admit, Locking
  <2> QED
    BY <2>1, <2>2 DEF CallOK, CreationOK, Idle, Ops, Locking
<1>2. CASE Load(c)
  <2>1. PICK op \in Ops \ {"create"}, u \in Users, n \in linked, named \in SUBSET Admins :
          /\ Admit(c, op)
          /\ Permitted(op, u, n, named)
          /\ call' = [call EXCEPT ![c] =
               [op |-> op, step |-> IF op \in {"close", "merge"} THEN "pull" ELSE "save",
                user |-> {u}, n |-> n, status |-> row[n], named |-> named]]
    BY <1>2 DEF Load
  <2>2. UNCHANGED <<pull, db, views, approvals, apart, faults>>
    BY <1>2 DEF Load
  <2>3. /\ call'[c].op = op /\ call'[c].n = n /\ call'[c].named = named
        /\ call'[c].user = {u} /\ call'[c].status = row[n]
        /\ call'[c].step = IF op \in {"close", "merge"} THEN "pull" ELSE "save"
    BY <1>a, <2>1 DEF TypeOK
  <2>4. op \in Locking => c \in holder'
    BY <2>1 DEF Admit
  <2>5. n \in Nums /\ reviewers[n] \subseteq Admins
             /\ (row[n] = "APPROVED" => HasApproval(n))
    BY <1>a, <2>1 DEF IInv, TypeOK, RowsOK
  <2>6. op = "approve" => u \in Admins /\ {u} # requestor'[n]
    <3>1. op = "approve" => u \in reviewers[n] \ requestor[n]
      BY <2>1 DEF Permitted, MayApprove
    <3> QED
      BY <2>2, <2>5, <3>1 DEF db
  <2>7. op = "merge" => HasApproval(n)'
    BY <2>1, <2>2, <2>5 DEF Permitted, MayMerge, db, HasApproval
  <2>8. CallOK(c)'
    <3> HIDE DEF HasApproval
    <3>1. call'[c].step \notin {"idle"}
      BY <2>3
    <3>2. op \in Ops /\ op # "create" /\ n \in linked'
      BY <2>1, <2>2 DEF db
    <3>3. HasApproval(call[c].n)' <=> HasApproval(n)'
      BY <2>3 DEF HasApproval
    <3>4. row[n] # "none"
      BY <2>1 DEF IInv, RowsOK, TypeOK
    <3>5. row[n] \in {"MERGED", "CLOSED"} => pull'[n] \in {"closed", "merged"}
      BY <2>2, <2>5 DEF IInv, EndedRowsEndedOnGitHub
    <3> QED
      BY <2>3, <2>4, <2>6, <2>7, <3>1, <3>2, <3>3, <3>4, <3>5 DEF CallOK
  <2> QED
    BY <2>3, <2>8 DEF CreationOK
<1>3. CASE Return(c)
  BY <1>3, <1>a, EndedOK
<1>4. CASE CreatePull(c) /\ ~Return(c)
  <2>1. PICK n \in Nums :
          /\ pull[n] = "none"
          /\ pull' = [pull EXCEPT ![n] = "open"]
          /\ Opened(c, n)
    BY <1>4 DEF CreatePull
  <2>2. call'[c] = [call[c] EXCEPT !.step = "row", !.n = n]
    BY <1>a, <2>1 DEF Opened, TypeOK
  <2>3. /\ call'[c].op = "create" /\ call'[c].step = "row" /\ call'[c].n = n
        /\ call'[c].named = call[c].named /\ call'[c].status = "none"
    BY <1>4, <1>a, <2>2 DEF CreatePull, At, TypeOK, Work, CallOK
  <2>4. n \notin linked' /\ row'[n] = "none" /\ pull'[n] = "open"
    BY <1>4, <1>a, <2>1 DEF CreatePull, db, IInv, RowsOK, TypeOK
  <2>5. UNCHANGED holder
    BY <1>4 DEF CreatePull
  <2>6. c \in holder' /\ call'[c].named \subseteq Admins
    BY <1>4, <1>a, <2>3, <2>5 DEF CreatePull, At, CallOK, Locking
  <2>7. CallOK(c)'
    BY <2>3, <2>6 DEF CallOK, Ops, Locking
  <2> QED
    BY <2>3, <2>4, <2>7 DEF CreationOK
<1>5. ASSUME NEW s, Goto(c, s), call[c].step # "idle"
      PROVE  /\ call'[c].step = s
             /\ call'[c].op = call[c].op /\ call'[c].n = call[c].n
             /\ call'[c].named = call[c].named /\ call'[c].status = call[c].status
  BY <1>5, <1>a DEF Goto, TypeOK, Work
<1>6. CASE CreateRow(c)
  <2>1. /\ call'[c].step = "reviewers" /\ call'[c].op = "create"
        /\ call'[c].n = call[c].n /\ call'[c].named = call[c].named
        /\ call'[c].status = "none"
    BY <1>5, <1>6, <1>a DEF CreateRow, At, CallOK
  <2>2. /\ call[c].n \in Nums \ linked'
        /\ pull'[call[c].n] = "open" /\ row'[call[c].n] = "OPEN"
    BY <1>6, <1>a DEF CreateRow, At, CreationOK, TypeOK
  <2>3. c \in holder' /\ call'[c].named \subseteq Admins
    BY <1>6, <1>a, <2>1 DEF CreateRow, At, CallOK, Locking
  <2>4. CallOK(c)'
    BY <2>1, <2>3 DEF CallOK, Ops, Locking
  <2> QED
    BY <2>1, <2>2, <2>4 DEF CreationOK
<1>7. CASE CreateReviewers(c) /\ ~Return(c)
  <2>1. /\ call'[c].step = "meta" /\ call'[c].op = "create"
        /\ call'[c].n = call[c].n /\ call'[c].named = call[c].named
        /\ call'[c].status = "none"
    BY <1>5, <1>7, <1>a DEF CreateReviewers, At, CallOK
  <2>2. /\ call[c].n \in Nums \ linked'
        /\ pull'[call[c].n] = "open" /\ row'[call[c].n] = "OPEN"
    BY <1>7, <1>a DEF CreateReviewers, At, CreationOK
  <2>3. c \in holder' /\ call'[c].named \subseteq Admins
    BY <1>7, <1>a, <2>1 DEF CreateReviewers, At, CallOK, Locking
  <2>4. CallOK(c)'
    BY <2>1, <2>3 DEF CallOK, Ops, Locking
  <2> QED
    BY <2>1, <2>2, <2>4 DEF CreationOK
<1>8. CASE ClosePull(c) /\ ~Return(c)
  <2>1. /\ call'[c].step = "save" /\ call'[c].op = "close"
        /\ call'[c].n = call[c].n /\ call'[c].named = call[c].named
        /\ call'[c].status # "none"
    BY <1>5, <1>8, <1>a DEF ClosePull, At, CallOK
  <2>2. call[c].n \in linked /\ linked \subseteq Nums
    BY <1>8, <1>a DEF ClosePull, At, CallOK, TypeOK
  <2>3. pull[call[c].n] # "none"
    BY <2>2 DEF IInv, RowsOK
  <2>4. pull'[call[c].n] \in {"closed", "merged"} /\ call[c].n \in linked'
    BY <1>8, <1>a, <2>2, <2>3 DEF ClosePull, TypeOK, db
  <2>5. call'[c].named \subseteq Admins
    BY <1>8, <1>a, <2>1 DEF ClosePull, At, CallOK
  <2> QED
    BY <2>1, <2>4, <2>5 DEF CallOK, CreationOK, Ops, Locking
<1>9. CASE MergePull(c) /\ ~Return(c)
  <2>1. /\ call'[c].step = "save" /\ call'[c].op = "merge"
        /\ call'[c].n = call[c].n /\ call'[c].named = call[c].named
        /\ call'[c].status # "none"
    BY <1>5, <1>9, <1>a DEF MergePull, At, CallOK
  <2>2. call[c].n \in linked /\ linked \subseteq Nums
    BY <1>9, <1>a DEF MergePull, At, CallOK, TypeOK
  <2>3. pull'[call[c].n] = "merged" /\ call[c].n \in linked'
    BY <1>9, <1>a, <2>2 DEF MergePull, TypeOK, db
  <2>4. c \in holder' /\ call'[c].named \subseteq Admins
    BY <1>9, <1>a, <2>1 DEF MergePull, At, CallOK, Locking
  <2> QED
    BY <2>1, <2>3, <2>4 DEF CallOK, CreationOK, Ops, Locking
<1>10. CASE SaveEnded(c, "close", "CLOSED") \/ SaveEnded(c, "merge", "MERGED")
  <2>1. /\ call'[c].step = "views" /\ call'[c].op \in {"close", "merge"}
        /\ call'[c].op = call[c].op
        /\ call'[c].n = call[c].n /\ call'[c].named = call[c].named
        /\ call'[c].status = call[c].status /\ call[c].status # "none"
    BY <1>5, <1>10, <1>a DEF SaveEnded, At, CallOK
  <2>2. /\ call[c].op \in Locking => c \in holder'
        /\ call'[c].named \subseteq Admins
        /\ call[c].n \in linked'
        /\ call[c].status \in {"MERGED", "CLOSED"} => pull'[call[c].n] \in {"closed", "merged"}
    BY <1>10, <1>a, <2>1 DEF SaveEnded, At, CallOK
  <2> QED
    BY <2>1, <2>2 DEF CallOK, CreationOK, Ops, Locking
<1>11. CASE Throw(c) \/ CreateMeta(c) \/ SetReviewers(c) \/ SaveApproval(c)
            \/ SaveUnapproval(c) \/ DeleteViews(c) \/ MarkViewed(c)
  BY <1>3, <1>11 DEF Throw, CreateMeta, SetReviewers, SaveApproval, SaveUnapproval,
                     DeleteViews, MarkViewed
<1> QED
  BY <1>1, <1>2, <1>3, <1>4, <1>6, <1>7, <1>8, <1>9, <1>10, <1>11 DEF Handle

-----------------------------------------------------------------------------
\* While nothing has failed, a creation leaves its pull request only when it is linked.
LEMMA FoundStep ==
  ASSUME IInv, TypeOK', NEW c \in Calls, Handle(c)
  PROVE  OpenPullsAreFound'
<1> SUFFICES ASSUME faults' = 0, NEW n \in Nums, pull'[n] # "none"
             PROVE  n \in linked' \/ \E d \in Calls : call'[d].op = "create" /\ call'[d].n = n
  BY DEF OpenPullsAreFound
<1>a. TypeOK /\ CreationOK(c)
  BY DEF IInv
<1>b. ~Fault
  BY <1>a, ReviewRequestAssumption DEF TypeOK, Fault
<1>c. faults = 0 /\ linked \subseteq linked'
  BY <1>b DEF Handle, StartCreate, Load, Throw, CreatePull, CreateRow, CreateReviewers,
     CreateMeta, SetReviewers, SaveApproval, SaveUnapproval, ClosePull, SaveEnded, MergePull,
     DeleteViews, MarkViewed, NoFault, db
<1>d. ASSUME NEW d \in Calls \ {c}
      PROVE  call'[d] = call[d]
  BY <1>a, <1>d DEF Handle, StartCreate, Load, Throw, CreatePull, CreateRow, CreateReviewers,
     CreateMeta, SetReviewers, SaveApproval, SaveUnapproval, ClosePull, SaveEnded, MergePull,
     DeleteViews, MarkViewed, Goto, Return, Opened, TypeOK
<1>1. CASE pull[n] = "none"
  <2>1. CASE UNCHANGED pull
    BY <1>1, <2>1
  <2>2. CASE ClosePull(c) \/ MergePull(c)
    BY <1>1, <1>a, <2>2 DEF ClosePull, MergePull, TypeOK
  <2>3. CASE CreatePull(c) /\ pull' # pull
    <3>1. Opened(c, n) /\ call[c].op = "create"
      BY <1>1, <1>a, <1>b, <2>3 DEF CreatePull, At, TypeOK
    <3>2. call'[c] = [call[c] EXCEPT !.step = "row", !.n = n]
      BY <1>a, <3>1 DEF Opened, TypeOK
    <3>3. call'[c].op = "create" /\ call'[c].n = n
      BY <1>a, <3>1, <3>2 DEF TypeOK, Work
    <3> QED
      BY <3>3
  <2> QED
    BY <2>1, <2>2, <2>3 DEF Handle, StartCreate, Load, Throw, CreateRow, CreateReviewers,
       CreateMeta, SetReviewers, SaveApproval, SaveUnapproval, SaveEnded, DeleteViews,
       MarkViewed
<1>2. CASE pull[n] # "none" /\ n \notin linked
  <2>1. PICK d \in Calls : call[d].op = "create" /\ call[d].n = n
    BY <1>2, <1>c DEF IInv, OpenPullsAreFound
  <2>2. CASE d # c
    BY <1>d, <2>1, <2>2
  <2>3. CASE d = c
    <3>1. call[c].step \in {"row", "reviewers", "meta"}
      BY <1>a, <2>1, <2>3 DEF CreationOK, Nums
    <3>2. CreateRow(c) \/ CreateReviewers(c) \/ CreateMeta(c)
      BY <1>b, <2>1, <2>3, <3>1 DEF Handle, StartCreate, Load, Throw, CreatePull, Admit,
         SetReviewers, SaveApproval, SaveUnapproval, ClosePull, SaveEnded, MergePull,
         DeleteViews, MarkViewed, At
    <3>3. CASE CreateMeta(c)
      BY <2>1, <2>3, <3>3 DEF CreateMeta
    <3>4. CASE CreateRow(c) \/ CreateReviewers(c)
      <4>1. \E s \in Steps : Goto(c, s)
        BY <1>b, <3>4 DEF CreateRow, CreateReviewers, Steps
      <4> QED
        BY <1>a, <2>1, <2>3, <4>1 DEF Goto, TypeOK, Work
    <3> QED
      BY <3>2, <3>3, <3>4
  <2> QED
    BY <2>2, <2>3
<1>3. CASE n \in linked
  BY <1>3, <1>c
<1> QED
  BY <1>1, <1>2, <1>3

\* A site without review requests satisfies it.
LEMMA InitInv == Init => IInv
<1> SUFFICES ASSUME Init
             PROVE  IInv
  OBVIOUS
<1> USE ReviewRequestAssumption DEF Init
<1>1. TypeOK
  BY IdleType DEF TypeOK
<1>2. /\ EndedRowsEndedOnGitHub /\ OpenPullsStayActive /\ MergedOnlyIfApproved
      /\ OpenPullsAreFound /\ RowsOK /\ ActiveRowsAreOpen
  BY DEF EndedRowsEndedOnGitHub, OpenPullsStayActive, MergedOnlyIfApproved,
         OpenPullsAreFound, RowsOK, ActiveRowsAreOpen, Active
<1>3. \A c \in Calls : CallOK(c) /\ CreationOK(c)
  BY DEF CallOK, CreationOK, Idle
<1> QED
  BY <1>1, <1>2, <1>3 DEF IInv

\* So every step of a handler keeps all of it.
LEMMA StepInv ==
  ASSUME IInv, [Next]_vars
  PROVE  IInv'
<1>1. TypeOK'
  BY TypeStep
<1>2. \A n \in Nums : RowInv(n)'
  BY <1>1, RowStep
<1>6. ActiveRowsAreOpen'
  BY <1>1, ActiveStep DEF ActiveRow, ActiveRowsAreOpen, Nums
<1>3. EndedRowsEndedOnGitHub' /\ OpenPullsStayActive' /\ MergedOnlyIfApproved' /\ RowsOK'
  BY <1>2 DEF RowInv, EndedRowsEndedOnGitHub, OpenPullsStayActive, MergedOnlyIfApproved,
              RowsOK, Nums
<1>4. CASE UNCHANGED vars
  <2>1. OpenPullsAreFound'
    BY <1>4 DEF IInv, OpenPullsAreFound, vars, db
  <2>2. \A c \in Calls : CallOK(c)' /\ CreationOK(c)'
    BY <1>4 DEF IInv, CallOK, CreationOK, HasApproval, vars, db
  <2> QED
    BY <1>1, <1>3, <1>6, <2>1, <2>2 DEF IInv
<1>5. ASSUME NEW c \in Calls, Handle(c)
      PROVE  IInv'
  <2>1. OpenPullsAreFound'
    BY <1>1, <1>5, FoundStep
  <2>2. \A d \in Calls : CallOK(d)' /\ CreationOK(d)'
    BY <1>1, <1>5, ActorStep, OthersStep
  <2> QED
    BY <1>1, <1>3, <1>6, <2>1, <2>2 DEF IInv
<1> QED
  BY <1>4, <1>5 DEF Next

\* The inductive invariant of the review requests of a site: what the rows, the pull
\* requests and the handlers under way promise each other.
THEOREM Invariance == Spec => []IInv
  BY InitInv, StepInv, PTL DEF Spec

\* Whichever handlers race, and whatever fails: a row that says merged or closed has a
\* pull request that ended so, which close and merge must ask GitHub for first.
THEOREM RowsEndAfterGitHub == Spec => []EndedRowsEndedOnGitHub
  BY Invariance, PTL DEF IInv

\* Nothing reaches master that no admin other than its requestor has ever approved,
\* although the approval is saved without the lock under which merge runs.
THEOREM MergeNeedsApproval == Spec => []MergedOnlyIfApproved
  BY Invariance, PTL DEF IInv

\* An open pull request of a site never has a row that says it ended, so that its
\* requestor can still close it.
THEOREM OpenPullsClosable == Spec => []OpenPullsStayActive
  BY Invariance, PTL DEF IInv

\* However close, merge and the approvals interleave: a row that ended has a pull request
\* that ended so, and an active row an open one, but for a close or a merge that is about
\* to save and for the rows in apart.
THEOREM RowsAgree == Spec => []RowsFollowGitHub
  BY Invariance, PTL DEF IInv, RowsFollowGitHub

\* Without a failure every pull request that a creation opens gets its row and reviewMeta,
\* by which every later handler finds it.
THEOREM CreationCompletes == Spec => []OpenPullsAreFound
  BY Invariance, PTL DEF IInv

\* The rows of the review requests, their pull requests and the handlers under way keep
\* their types.
THEOREM TypeCorrect == Spec => []TypeOK
  BY Invariance, PTL DEF IInv

-----------------------------------------------------------------------------
(* The discussion of the requests, beside their handlers                   *)

DiscussionInv == IInv /\ TypeOKDiscussion

\* The mark of a viewer changes nothing that the handlers of the request rely on.
LEMMA MarksKeep ==
  ASSUME IInv, views' \subseteq Nums \X Users,
         UNCHANGED <<pull, db, call, holder, approvals, apart, faults>>
  PROVE  IInv'
<1>1. UNCHANGED <<pull, row, requestor, reviewers, linked, call, holder, approvals, apart, faults>>
  BY DEF db
<1>2. TypeOK'
  BY <1>1 DEF IInv, TypeOK
<1>3. /\ EndedRowsEndedOnGitHub' /\ OpenPullsStayActive' /\ ActiveRowsAreOpen' /\ MergedOnlyIfApproved'
      /\ OpenPullsAreFound' /\ RowsOK'
  BY <1>1 DEF IInv, EndedRowsEndedOnGitHub, OpenPullsStayActive, ActiveRowsAreOpen, Ending,
              MergedOnlyIfApproved, OpenPullsAreFound, RowsOK, HasApproval
<1>4. \A c \in Calls : CallOK(c)' /\ CreationOK(c)'
  BY <1>1 DEF IInv, CallOK, CreationOK, HasApproval
<1> QED BY <1>2, <1>3, <1>4 DEF IInv

LEMMA CreateCommentKeeps ==
  ASSUME IInv, TypeOKDiscussion, CreateComment
  PROVE  DiscussionInv'
<1>1. PICK c \in [n : Nums, text : Texts] : comments' = Append(comments, c)
  BY DEF CreateComment, IInv, TypeOK
<1>2. UNCHANGED <<pull, db, views, call, holder, approvals, apart, faults, lastViewed>>
      /\ Len(comments) < MaxComments
  BY DEF CreateComment, vars
<1>3. IInv'
  BY <1>2, MarksKeep DEF IInv, TypeOK
<1>4. /\ comments' \in Seq([n : Nums, text : Texts]) /\ Len(comments) \in Nat
      /\ Len(comments') = Len(comments) + 1
  BY <1>1 DEF TypeOKDiscussion
<1>5. TypeOKDiscussion'
  BY <1>2, <1>4, ReviewDiscussionAssumption DEF TypeOKDiscussion
<1> QED BY <1>3, <1>5 DEF DiscussionInv

LEMMA MarkCommentsKeeps ==
  ASSUME IInv, TypeOKDiscussion, MarkCommentsViewed
  PROVE  DiscussionInv'
<1>1. PICK v \in linked \X Viewers :
        /\ views' = views \cup {v}
        /\ lastViewed' = [w \in views' |-> IF w = v THEN Len(comments) ELSE lastViewed[w]]
  BY DEF MarkCommentsViewed
<1>2. UNCHANGED <<pull, db, call, holder, approvals, apart, faults, comments>>
  BY DEF MarkCommentsViewed
<1>3. v \in Nums \X Users
  BY ReviewRequestAssumption DEF IInv, TypeOK
<1>4. IInv'
  BY <1>1, <1>2, <1>3, MarksKeep DEF IInv, TypeOK
<1>5. Len(comments) \in 0..MaxComments
  BY ReviewDiscussionAssumption DEF TypeOKDiscussion
<1>6. lastViewed' \in [views' -> 0..MaxComments]
  BY <1>1, <1>5 DEF TypeOKDiscussion
<1>7. TypeOKDiscussion'
  BY <1>2, <1>6 DEF TypeOKDiscussion
<1> QED BY <1>4, <1>7 DEF DiscussionInv

\* Comments and marks keep their types, and the handlers of the requests what they promise
\* each other, whatever is said and seen.
THEOREM DiscussionInvariance == DiscussionSpec => []DiscussionInv
<1>1. DiscussionInit => DiscussionInv
  BY InitInv, ReviewDiscussionAssumption DEF DiscussionInit, DiscussionInv, TypeOKDiscussion
<1>2. DiscussionInv /\ [DiscussionNext]_allVars => DiscussionInv'
  <2> SUFFICES ASSUME IInv, TypeOKDiscussion, [DiscussionNext]_allVars
               PROVE  DiscussionInv'
    BY DEF DiscussionInv
  <2>1. CASE RequestStep
    <3>1. IInv'
      BY <2>1, StepInv DEF RequestStep
    <3>2. TypeOKDiscussion'
      BY <2>1, ReviewDiscussionAssumption DEF RequestStep, TypeOKDiscussion, NotOpened
    <3> QED BY <3>1, <3>2 DEF DiscussionInv
  <2>2. CASE UNCHANGED allVars
    <3>1. IInv'
      BY <2>2, StepInv DEF allVars
    <3>2. TypeOKDiscussion'
      BY <2>2 DEF allVars, discussionVars, vars, TypeOKDiscussion
    <3> QED BY <3>1, <3>2 DEF DiscussionInv
  <2> QED BY <2>1, <2>2, CreateCommentKeeps, MarkCommentsKeeps DEF DiscussionNext
<1> QED
  BY <1>1, <1>2, PTL DEF DiscussionSpec

\* Marks and comments, which come beside the handlers, do not part the rows from GitHub.
THEOREM RowsAgreeThroughout == DiscussionSpec => []RowsFollowGitHub
<1>1. DiscussionInv => RowsFollowGitHub
  BY DEF DiscussionInv, IInv, RowsFollowGitHub
<1> QED
  BY <1>1, DiscussionInvariance, PTL
=============================================================================
