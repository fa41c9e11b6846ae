------------------------------ MODULE SiteMutex ------------------------------
(***************************************************************************)
(* The write lock of a site (src/src/utils/mutex-utils.js) and the route   *)
(* wrapper that takes it around a write handler                            *)
(* (attachWriteRouteHandlerWrapper, src/src/middleware/routeHandler.ts).   *)
(*                                                                         *)
(* The lock is an item of a DynamoDB table.  The item names the site, not  *)
(* the request that put it, so unlock deletes it whoever put it, and       *)
(* DynamoDB deletes it by itself some time after its expdate (60 seconds   *)
(* by default), whether or not the request that put it is still running.   *)
(* No step of the code bounds how long a handler runs, so the clock is     *)
(* left out: an item may expire at any moment.                             *)
(***************************************************************************)
EXTENDS FiniteSets

CONSTANTS
  Requests,      \* the HTTP write requests, each served once
  Sites,         \* site names, the repo_id of the table
  SiteOf,        \* the :siteName parameter of each request
  E2eTestRepos   \* sites that lock and unlock leave alone

ASSUME SiteMutexAssumption ==
  /\ SiteOf \in [Requests -> Sites]
  /\ E2eTestRepos \subseteq Sites

VARIABLES
  items,     \* sites that have an item in the mutex table
  phase,     \* how far the wrapper of each request has come
  answer,    \* the first response each client got
  overran,   \* history: requests whose item expired while they still ran
  left       \* history: requests that went and may have left their item behind

vars == <<items, phase, answer, overran, left>>

Phases == {"idle", "checked", "holding", "succeeded", "failed", "done", "crashed"}
Answers == {"none", "ok", "error"}

\* The wrapper has the lock as far as it knows: between await lock and await unlock.
Inside == {"holding", "succeeded", "failed"}
Holds(r) == phase[r] \in Inside
OnSite(s) == {r \in Requests : SiteOf[r] = s}

TypeOK ==
  /\ items \subseteq Sites
  /\ phase \in [Requests -> Phases]
  /\ answer \in [Requests -> Answers]
  /\ overran \subseteq Requests
  /\ left \subseteq Requests

Init ==
  /\ items = {}
  /\ phase = [r \in Requests |-> "idle"]
  /\ answer = [r \in Requests |-> "none"]
  /\ overran = {}
  /\ left = {}

-----------------------------------------------------------------------------
\* handleGitFileLock: a request is turned away while .git/index.lock exists in the
\* staging clone, or when the check itself fails; the clone is not modelled here.
CheckGitFileLock(r) ==
  /\ phase[r] = "idle"
  /\ \/ /\ phase' = [phase EXCEPT ![r] = "checked"]
        /\ UNCHANGED answer
     \/ /\ phase' = [phase EXCEPT ![r] = "done"]
        /\ answer' = [answer EXCEPT ![r] = "error"]
  /\ UNCHANGED <<items, overran, left>>

Refused(r) ==
  /\ phase' = [phase EXCEPT ![r] = "done"]
  /\ answer' = [answer EXCEPT ![r] = "error"]

\* Mutations of Lock.  The put has no condition attribute_not_exists(repo_id);
BugLockIgnoresItem(r) ==
  /\ phase[r] = "checked"
  /\ phase' = [phase EXCEPT ![r] = "holding"]
  /\ items' = items \cup {SiteOf[r]}
  /\ UNCHANGED <<answer, overran, left>>

\* lock stands inside the try whose finally unlocks, so a refused request unlocks.
BugLockUnlocksWhenRefused(r) ==
  /\ phase[r] = "checked"
  /\ IF SiteOf[r] \in items
     THEN items' = items \ {SiteOf[r]} /\ Refused(r)
     ELSE /\ items' = items \cup {SiteOf[r]}
          /\ phase' = [phase EXCEPT ![r] = "holding"]
          /\ UNCHANGED answer
  /\ UNCHANGED <<overran, left>>

\* lock(siteName): a conditional put.  Any failure of the put is reported as
\* LockedError, also one whose item was written but whose reply was lost: the SDK's
\* own retry then finds the item and the request is refused by its own lock.
Lock(r) ==
  LET s == SiteOf[r] IN
  /\ phase[r] = "checked"
  /\ \/ /\ s \in E2eTestRepos
        /\ phase' = [phase EXCEPT ![r] = "holding"]
        /\ UNCHANGED <<items, answer, left>>
     \/ /\ s \notin E2eTestRepos \cup items
        /\ phase' = [phase EXCEPT ![r] = "holding"]
        /\ items' = items \cup {s}
        /\ UNCHANGED <<answer, left>>
     \/ /\ s \notin E2eTestRepos
        /\ items' \in {items, items \cup {s}}
        /\ left' = IF items' = items THEN left ELSE left \cup {r}
        /\ Refused(r)
  /\ UNCHANGED overran

\* The handler resolves (it has sent its response, whatever the status) or rejects.
RunHandler(r) ==
  /\ phase[r] = "holding"
  /\ \/ /\ phase' = [phase EXCEPT ![r] = "succeeded"]
        /\ answer' = [answer EXCEPT ![r] = "ok"]
     \/ /\ phase' = [phase EXCEPT ![r] = "failed"]
        /\ UNCHANGED answer
  /\ UNCHANGED <<items, overran, left>>

\* The item that unlock leaves in the table: none, unless the delete failed; a delete
\* whose reply was lost has removed it all the same.
ItemsAfterUnlock(s, deleted) ==
  IF s \notin E2eTestRepos /\ deleted THEN items \ {s} ELSE items

\* A mutation of UnlockSucceeds: the unlock stands after the await of the handler, not in
\* a finally: a rejection skips it.
BugUnlockNotFinally(r) ==
  /\ phase[r] \in {"succeeded", "failed"}
  /\ items' = IF phase[r] = "failed" THEN items ELSE ItemsAfterUnlock(SiteOf[r], TRUE)
  /\ phase' = [phase EXCEPT ![r] = "done"]
  /\ answer' = IF phase[r] = "failed" THEN [answer EXCEPT ![r] = "error"] ELSE answer
  /\ UNCHANGED <<overran, left>>

\* unlock(siteName) succeeds: the rejection of the handler is passed on to next.
UnlockSucceeds(r) ==
  /\ phase[r] \in {"succeeded", "failed"}
  /\ items' = ItemsAfterUnlock(SiteOf[r], TRUE)
  /\ phase' = [phase EXCEPT ![r] = "done"]
  /\ answer' = IF phase[r] = "failed" THEN [answer EXCEPT ![r] = "error"] ELSE answer
  /\ UNCHANGED <<overran, left>>

\* unlock(siteName) throws.  After a success next(err) comes too late to be the
\* response; after a rejection nothing catches the error and next is never called.
UnlockFails(r) ==
  /\ SiteOf[r] \notin E2eTestRepos
  /\ phase[r] \in {"succeeded", "failed"}
  /\ \E deleted \in BOOLEAN : items' = ItemsAfterUnlock(SiteOf[r], deleted)
  /\ phase' = [phase EXCEPT ![r] = "done"]
  /\ left' = left \cup {r}
  /\ UNCHANGED <<answer, overran>>

\* The process that serves the request dies: its item stays.
Crash(r) ==
  /\ phase[r] \in Inside \cup {"checked"}
  /\ phase' = [phase EXCEPT ![r] = "crashed"]
  /\ left' = left \cup {r}
  /\ UNCHANGED <<items, answer, overran>>

\* DynamoDB deletes an item that is past its expdate.
Expire(s) ==
  /\ s \in items
  /\ items' = items \ {s}
  /\ overran' = overran \cup {r \in OnSite(s) : Holds(r)}
  /\ UNCHANGED <<phase, answer, left>>

Step(r) ==
  \/ CheckGitFileLock(r)
  \/ Lock(r)
  \/ RunHandler(r)
  \/ UnlockSucceeds(r)
  \/ UnlockFails(r)

Next ==
  \/ \E r \in Requests : Step(r) \/ Crash(r)
  \/ \E s \in Sites : Expire(s)

Spec == Init /\ [][Next]_vars

\* The event loop resumes every pending promise.  DynamoDB's expiry is not counted on: it
\* comes days late at worst, and what it frees says nothing of the wrapper.
Fairness == \A r \in Requests : WF_vars(Step(r))

FairSpec == Spec /\ Fairness

-----------------------------------------------------------------------------
OverranOn(s) == overran \cap OnSite(s) # {}

\* Two write handlers of one site run at the same time only after some request has
\* outlived its lock item: lock and unlock, which know no owner, exclude each other as
\* long as every handler ends before its item expires.
ExclusiveUnlessOverrun ==
  \A s \in Sites \ E2eTestRepos :
    ~OverranOn(s) => \A r, q \in OnSite(s) : Holds(r) /\ Holds(q) => r = q

\* What makes it inductive: the one request inside still has its item in the table.
ItemBacksHolder ==
  \A s \in Sites \ E2eTestRepos :
    ~OverranOn(s) => \A r \in OnSite(s) : Holds(r) => s \in items

IInv == TypeOK /\ ExclusiveUnlessOverrun /\ ItemBacksHolder

\* An item never disappears from under a request that is still inside, neither by its
\* expiry nor by the unlock of another request, unless a request of that site has
\* outlived its item by then.
NoTheftWithoutOverrun ==
  [][\A r \in Requests :
       /\ SiteOf[r] \in items \ items'
       /\ Holds(r)
       /\ phase'[r] \in Inside
       => overran' \cap OnSite(SiteOf[r]) # {}]_vars

\* A locked site comes free by the unlock of a request, without waiting for the expiry of
\* the item, whatever the handlers do and whoever steals whose item: the exceptions are a
\* request that died, one whose unlock threw, and one refused although its put went
\* through, and those alone.
SiteComesFree ==
  \A s \in Sites : s \in items ~> s \notin items \/ left \cap OnSite(s) # {}
=============================================================================
