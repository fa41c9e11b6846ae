---------------------------- MODULE ReviewRequest ----------------------------
(***************************************************************************)
(* Review requests of one site: the pull request on GitHub and the rows    *)
(* of the database that mirror it                                          *)
(* (src/src/routes/v2/authenticated/review.ts,                             *)
(* src/src/services/review/ReviewRequestService.ts,                        *)
(* src/src/services/db/review.ts).                                         *)
(*                                                                         *)
(* Create, update, merge and the view markers run under the site lock;     *)
(* approve, unapprove and close are attached with the read wrapper and do  *)
(* not take it.  Each handler loads the row, decides on what it loaded,    *)
(* and writes later: other handlers run in between.  GitHub and the        *)
(* database are changed one after the other, with no transaction.          *)
(*                                                                         *)
(* Left out: mails and notifications, which these handlers write last and  *)
(* never read; roles, except that a reviewer must be an admin.  Comments,  *)
(* and what is shown of them, are in ReviewDiscussion.                     *)
(***************************************************************************)
EXTENDS Naturals, FiniteSets

CONSTANTS
  Calls,      \* handlers that may run at the same time; each serves call after call
  Users,      \* collaborators of the site
  Admins,
  Viewers,    \* bound: the collaborators whose view marks are followed
  MaxPulls,   \* bound: pull requests ever opened
  MaxFaults   \* bound: steps on which GitHub, the network or the database fails

ASSUME ReviewRequestAssumption ==
  /\ Admins \subseteq Users
  /\ Viewers \subseteq Users
  /\ MaxPulls \in Nat
  /\ MaxFaults \in Nat

VARIABLES
  pull,       \* GitHub: the state of each pull request
  row,        \* database: reviewStatus of the row created for each pull request
  requestor,  \* database: who created the row
  reviewers,  \* database: the reviewers table
  linked,     \* rows that have their reviewMeta, by which getReviewRequest finds them
  views,      \* database: <<n, user>> of the rows in review_request_views
  call,       \* what each handler is doing, and the row it has loaded
  holder,     \* the handlers that hold the site lock (at most one)
  approvals,  \* history: <<n, user>> of every approval that was saved
  apart,      \* history: requests a failure or a late save has put out of step with GitHub
  faults      \* how many failures there have been

db == <<row, requestor, reviewers, linked>>
vars == <<pull, db, views, call, holder, approvals, apart, faults>>

Nums == 1..MaxPulls
Active == {"OPEN", "APPROVED"}
Statuses == Active \cup {"MERGED", "CLOSED"}
Locking == {"create", "update", "merge", "view"}
Ops == Locking \cup {"approve", "unapprove", "close"}
Steps == {"idle", "pull", "row", "reviewers", "meta", "save", "views"}

\* n and status are what the handler has loaded, named the reviewers in its body.
Idle == [op |-> "none", step |-> "idle", user |-> {}, n |-> 0, status |-> "none",
         named |-> {}]

Work == [op : Ops \cup {"none"}, step : Steps, user : {{}} \cup {{u} : u \in Users},
         n : Nums \cup {0}, status : Statuses \cup {"none"}, named : SUBSET Users]

TypeOK ==
  /\ pull \in [Nums -> {"none", "open", "merged", "closed"}]
  /\ row \in [Nums -> Statuses \cup {"none"}]
  /\ requestor \in [Nums -> {{}} \cup {{u} : u \in Users}]
  /\ reviewers \in [Nums -> SUBSET Users]
  /\ linked \subseteq Nums
  /\ views \subseteq Nums \X Users
  /\ call \in [Calls -> Work]
  /\ holder \subseteq Calls /\ \A c, d \in holder : c = d
  /\ approvals \subseteq Nums \X Users
  /\ apart \subseteq Nums
  /\ faults \in 0..MaxFaults

Init ==
  /\ pull = [n \in Nums |-> "none"]
  /\ row = [n \in Nums |-> "none"]
  /\ requestor = [n \in Nums |-> {}]
  /\ reviewers = [n \in Nums |-> {}]
  /\ linked = {}
  /\ views = {}
  /\ call = [c \in Calls |-> Idle]
  /\ holder = {}
  /\ approvals = {}
  /\ apart = {}
  /\ faults = 0

-----------------------------------------------------------------------------
At(c, op, step) == call[c].op = op /\ call[c].step = step
Goto(c, step) == call' = [call EXCEPT ![c].step = step]
Fault == faults < MaxFaults /\ faults' = faults + 1
NoFault == UNCHANGED faults

\* The handler ends, well or not; a write handler unlocks the site.
Return(c) ==
  /\ call' = [call EXCEPT ![c] = Idle]
  /\ holder' = holder \ {c}

\* The write wrapper refuses while another write handler of the site runs.
Admit(c, op) ==
  /\ call[c].step = "idle"
  /\ IF op \in Locking THEN holder = {} /\ holder' = {c} ELSE UNCHANGED holder

\* What each handler checks of the row it has loaded before it goes on.  A request that
\* fails its check changes nothing, so the actions below begin with one that passes it.
MayCreate(u, named) == named # {} /\ named \subseteq Admins \ {u}
MayUpdate(u, n, named) == {u} = requestor[n] /\ named \subseteq Admins \ {u}
MayApprove(u, n) == row[n] = "OPEN" /\ u \in reviewers[n] \ requestor[n]
MayUnapprove(u, n) == u \in reviewers[n]
MayClose(u, n) == {u} = requestor[n]

\* A mutation of MayMerge: the status is not looked at.
BugMergeAnyStatus(n) == n \in linked

MayMerge(n) == row[n] = "APPROVED"

Permitted(op, u, n, named) ==
  \/ op = "update" /\ MayUpdate(u, n, named)
  \/ /\ named = {}
     /\ \/ op = "approve" /\ MayApprove(u, n)
        \/ op = "unapprove" /\ MayUnapprove(u, n)
        \/ op = "close" /\ MayClose(u, n)
        \/ op = "merge" /\ MayMerge(n)
        \/ op = "view" /\ u \in Viewers

\* A close or a merge of an active row that GitHub has answered and that has not saved yet.
Ending(c, n) ==
  /\ call[c].n = n /\ call[c].status \in Active
  /\ call[c].op \in {"close", "merge"} /\ call[c].step = "save"

\* POST /request: no row is loaded, GitHub is asked first.
StartCreate(c) ==
  /\ Admit(c, "create")
  /\ \E u \in Users : \E named \in SUBSET Admins :
       /\ MayCreate(u, named)
       /\ call' = [call EXCEPT ![c] = [Idle EXCEPT !.op = "create", !.step = "pull",
                                         !.user = {u}, !.named = named]]
  /\ UNCHANGED <<pull, db, views, approvals, apart, faults>>

\* getReviewRequest: the handlers that work on a row find it by its reviewMeta.
Load(c) ==
  /\ \E op \in Ops \ {"create"}, u \in Users, n \in linked, named \in SUBSET Admins :
       /\ Admit(c, op)
       /\ Permitted(op, u, n, named)
       /\ call' = [call EXCEPT ![c] =
            [op |-> op, step |-> IF op \in {"close", "merge"} THEN "pull" ELSE "save",
             user |-> {u}, n |-> n, status |-> row[n], named |-> named]]
  /\ UNCHANGED <<pull, db, views, approvals, apart, faults>>

\* The handler throws: GitHub or the database refused, or did not answer.
Throw(c) ==
  /\ call[c].step # "idle"
  /\ Fault
  /\ Return(c)
  /\ apart' = apart \cup {n \in Nums : Ending(c, n)}
  /\ UNCHANGED <<pull, db, views, approvals>>

-----------------------------------------------------------------------------
(* Creation                                                                *)

\* The creation goes on with the number of the pull request it has opened.
Opened(c, n) == call' = [call EXCEPT ![c] = [@ EXCEPT !.step = "row", !.n = n]]

\* POST /pulls from staging to master.  GitHub refuses while one is open; the reply that
\* carries the number may be lost.
CreatePull(c) ==
  /\ At(c, "create", "pull")
  /\ IF \E n \in Nums : pull[n] = "open"
     THEN Return(c) /\ UNCHANGED <<pull, faults>>
     ELSE \E n \in Nums :
            /\ pull[n] = "none" /\ \A m \in 1..(n - 1) : pull[m] # "none"
            /\ pull' = [pull EXCEPT ![n] = "open"]
            /\ \/ Opened(c, n) /\ NoFault /\ UNCHANGED holder
               \/ Return(c) /\ Fault
  /\ UNCHANGED <<db, views, approvals, apart>>

CreateRow(c) ==
  /\ At(c, "create", "row")
  /\ row' = [row EXCEPT ![call[c].n] = "OPEN"]
  /\ requestor' = [requestor EXCEPT ![call[c].n] = call[c].user]
  /\ Goto(c, "reviewers")
  /\ NoFault
  /\ UNCHANGED <<pull, reviewers, linked, views, holder, approvals, apart>>

\* Mutation of CreateReviewers: a mail that cannot be sent ends the handler.
BugMailBlocks(c) ==
  /\ At(c, "create", "reviewers")
  /\ reviewers' = [reviewers EXCEPT ![call[c].n] = call[c].named]
  /\ (Goto(c, "meta") /\ UNCHANGED holder) \/ Return(c)
  /\ NoFault
  /\ UNCHANGED <<pull, row, requestor, linked, views, approvals, apart>>

\* Promise.all of one insertion per reviewer: when one fails, some are there.
CreateReviewers(c) ==
  LET me == call[c] IN
  /\ At(c, "create", "reviewers")
  /\ \/ /\ reviewers' = [reviewers EXCEPT ![me.n] = me.named]
        /\ Goto(c, "meta") /\ NoFault /\ UNCHANGED holder
     \/ /\ \E some \in SUBSET me.named : reviewers' = [reviewers EXCEPT ![me.n] = some]
        /\ Return(c) /\ Fault
  /\ UNCHANGED <<pull, row, requestor, linked, views, approvals, apart>>

CreateMeta(c) ==
  /\ At(c, "create", "meta")
  /\ linked' = linked \cup {call[c].n}
  /\ Return(c)
  /\ NoFault
  /\ UNCHANGED <<pull, row, requestor, reviewers, views, approvals, apart>>

-----------------------------------------------------------------------------
(* The other handlers, after they have loaded the row                      *)

\* $set("reviewers"); the status is not looked at.
SetReviewers(c) ==
  /\ At(c, "update", "save")
  /\ reviewers' = [reviewers EXCEPT ![call[c].n] = call[c].named]
  /\ Return(c)
  /\ NoFault
  /\ UNCHANGED <<pull, row, requestor, linked, views, approvals, apart>>

\* save() writes reviewStatus only if it differs from the one that was loaded.
Saved(c, status) ==
  IF call[c].status = status THEN row ELSE [row EXCEPT ![call[c].n] = status]

\* What the history says of a row written after its pull request has ended.
Strays(c) ==
  apart' = IF row' # row /\ pull[call[c].n] # "open" THEN apart \cup {call[c].n} ELSE apart

SaveApproval(c) ==
  /\ At(c, "approve", "save")
  /\ row' = Saved(c, "APPROVED")
  /\ Strays(c)
  /\ approvals' = approvals \cup ({call[c].n} \X call[c].user)
  /\ Return(c)
  /\ NoFault
  /\ UNCHANGED <<pull, requestor, reviewers, linked, views>>

SaveUnapproval(c) ==
  /\ At(c, "unapprove", "save")
  /\ row' = Saved(c, "OPEN")
  /\ Strays(c)
  /\ Return(c)
  /\ NoFault
  /\ UNCHANGED <<pull, requestor, reviewers, linked, views, approvals>>

\* Mutation of ClosePull: GitHub's refusal or silence is ignored.
BugCloseIgnoresGitHub(c) ==
  /\ At(c, "close", "pull")
  /\ \/ /\ pull' = [pull EXCEPT ![call[c].n] = IF @ = "open" THEN "closed" ELSE @]
        /\ NoFault
     \/ UNCHANGED pull /\ Fault
  /\ Goto(c, "save")
  /\ UNCHANGED <<db, views, holder, approvals, apart>>

\* PATCH state closed, which a pull request that is no longer open accepts as well.
ClosePull(c) ==
  /\ At(c, "close", "pull")
  /\ pull' = [pull EXCEPT ![call[c].n] = IF @ = "open" THEN "closed" ELSE @]
  /\ \/ Goto(c, "save") /\ NoFault /\ UNCHANGED <<holder, apart>>
     \/ Return(c) /\ Fault /\ apart' = IF pull' = pull THEN apart ELSE apart \cup {call[c].n}
  /\ UNCHANGED <<db, views, approvals>>

\* The bot approves, then PUT merge, which GitHub refuses unless the pull request is
\* open; a failure of the fast forward of master that follows is ignored.
MergePull(c) ==
  /\ At(c, "merge", "pull")
  /\ IF pull[call[c].n] = "open"
     THEN /\ pull' = [pull EXCEPT ![call[c].n] = "merged"]
          /\ \/ Goto(c, "save") /\ NoFault /\ UNCHANGED <<holder, apart>>
             \/ Return(c) /\ Fault /\ apart' = apart \cup {call[c].n}
     ELSE Return(c) /\ UNCHANGED <<pull, apart, faults>>
  /\ UNCHANGED <<db, views, approvals>>

\* closeReviewRequest and mergeReviewRequest save the row after GitHub has answered.
SaveEnded(c, op, status) ==
  /\ At(c, op, "save")
  /\ row' = Saved(c, status)
  /\ apart' = {n \in apart : row'[n] \in Active}
  /\ Goto(c, "views")
  /\ NoFault
  /\ UNCHANGED <<pull, requestor, reviewers, linked, views, holder, approvals>>

DeleteViews(c) ==
  /\ call[c].step = "views"
  /\ views' = {v \in views : v[1] # call[c].n}
  /\ Return(c)
  /\ NoFault
  /\ UNCHANGED <<pull, db, approvals, apart>>

\* POST viewed: one request, or with the plural route every active row.
MarkViewed(c) ==
  /\ At(c, "view", "save")
  /\ \E ns \in {{call[c].n}, {n \in Nums : row[n] \in Active}} :
       views' = views \cup (ns \X call[c].user)
  /\ Return(c)
  /\ NoFault
  /\ UNCHANGED <<pull, db, approvals, apart>>

-----------------------------------------------------------------------------
Handle(c) ==
  \/ StartCreate(c)
  \/ Load(c)
  \/ Throw(c)
  \/ CreatePull(c) \/ CreateRow(c) \/ CreateReviewers(c) \/ CreateMeta(c)
  \/ SetReviewers(c) \/ SaveApproval(c) \/ SaveUnapproval(c)
  \/ ClosePull(c) \/ SaveEnded(c, "close", "CLOSED")
  \/ MergePull(c) \/ SaveEnded(c, "merge", "MERGED")
  \/ DeleteViews(c) \/ MarkViewed(c)

Next == \E c \in Calls : Handle(c)

Spec == Init /\ [][Next]_vars

-----------------------------------------------------------------------------
(* Properties                                                              *)

\* What the site shows as ended has ended on GitHub: a row is MERGED only if its pull
\* request was merged, and CLOSED only if it is not open, whichever handlers raced.
EndedRowsEndedOnGitHub ==
  \A n \in Nums :
    /\ row[n] = "MERGED" => pull[n] = "merged"
    /\ row[n] = "CLOSED" => pull[n] \in {"closed", "merged"}

\* As long as a pull request is open on GitHub its row, if it has one, is active, so
\* that the dashboard shows it and its requestor can close it.
OpenPullsStayActive ==
  \A n \in Nums : pull[n] = "open" /\ row[n] # "none" => row[n] \in Active

\* And the other way round: an active row has an open pull request, but for a close or a
\* merge that has GitHub's answer and is about to save.  Exceptions are a close or a merge
\* that failed in between, or whose answer was lost, and an approval, or the withdrawal of
\* one, saved when the pull request had ended, which sets an ended row back.  Each lasts
\* until another close or merge has saved the row.
ActiveRowsAreOpen ==
  \A n \in Nums : row[n] \in Active =>
    pull[n] = "open" \/ n \in apart \/ \E c \in Calls : Ending(c, n)

\* The three together: what the database says of a request is what GitHub says of its pull
\* request, up to those exceptions, whichever handlers interleave and whatever fails.
RowsFollowGitHub == EndedRowsEndedOnGitHub /\ OpenPullsStayActive /\ ActiveRowsAreOpen

\* An admin who did not ask for n has approved it.
HasApproval(n) ==
  \E a \in approvals : a[1] = n /\ a[2] \in Admins /\ {a[2]} # requestor[n]

\* Nothing is merged to master unless someone other than its requestor, and an admin,
\* has approved it at some time.
MergedOnlyIfApproved ==
  \A n \in Nums : pull[n] = "merged" => HasApproval(n)

\* No failure at all: every pull request opened here ends up with a row that can be
\* found by its number, or its creation is still running.
OpenPullsAreFound ==
  faults = 0 => \A n \in Nums : pull[n] # "none" =>
    n \in linked \/ \E c \in Calls : call[c].op = "create" /\ call[c].n = n

\* ReviewRequestService.ts:572: "Only update internal model state once PR is created".
RowsOK ==
  \A n \in Nums :
    /\ n \in linked => row[n] # "none"
    /\ row[n] # "none" => pull[n] # "none"
    /\ row[n] = "APPROVED" => HasApproval(n)
    /\ reviewers[n] \subseteq Admins

\* What each handler may rely on between its steps, whatever the others do.
CallOK(c) ==
  LET me == call[c] IN
  /\ me.step = "idle" => me = Idle
  /\ me.step # "idle" =>
       /\ me.op \in Ops
       /\ me.op \in Locking => c \in holder
       /\ me.named \subseteq Admins
       /\ me.op # "create" => me.n \in linked
       /\ me.op = "create" <=> me.status = "none"
       /\ me.status \in {"MERGED", "CLOSED"} => pull[me.n] \in {"closed", "merged"}
       /\ me.op = "approve" => \E u \in Admins : me.user = {u} /\ {u} # requestor[me.n]
       /\ me.op = "merge" /\ me.step = "pull" => HasApproval(me.n)
       /\ me.op = "merge" /\ me.step = "save" => pull[me.n] = "merged"
       /\ me.op = "close" /\ me.step = "save" => pull[me.n] \in {"closed", "merged"}

\* Nobody else touches the pull request a creation has opened until its row is linked.
CreationOK(c) ==
  LET me == call[c] IN
  me.op = "create" =>
    \/ me.step = "pull" /\ me.n = 0
    \/ /\ me.step \in {"row", "reviewers", "meta"}
       /\ me.n \in Nums \ linked
       /\ pull[me.n] = "open"
       /\ row[me.n] = IF me.step = "row" THEN "none" ELSE "OPEN"

IInv ==
  /\ TypeOK
  /\ EndedRowsEndedOnGitHub
  /\ OpenPullsStayActive
  /\ ActiveRowsAreOpen
  /\ MergedOnlyIfApproved
  /\ OpenPullsAreFound
  /\ RowsOK
  /\ \A c \in Calls : CallOK(c) /\ CreationOK(c)

-----------------------------------------------------------------------------
(* What comments of the code say, and the code does not do                 *)

\* review.ts:827: "Only allow approving review requests that are currently open".
ApprovesOnlyOpen ==
  [][\A n \in Nums : row'[n] = "APPROVED" /\ row[n] # "APPROVED" => row[n] = "OPEN"]_vars
=============================================================================
