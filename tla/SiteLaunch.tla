----------------------------- MODULE SiteLaunch -----------------------------
(***************************************************************************)
(* The launch of one site: the handlers that prepare a launch              *)
(* (InfraService.launchSiteFromCms and launchSite, LaunchesService), the   *)
(* DynamoDB item and the step function that carry it out, and the polls    *)
(* of the support service that read its outcome (InfraService.siteUpdate,  *)
(* DynamoDBService.getAllCompletedLaunches) and set the status of the      *)
(* site.  The step function, Amplify and DynamoDB are external: they are   *)
(* modelled as far as the code relies on them.                             *)
(*                                                                         *)
(* siteUpdate treats the items of different sites independently and they   *)
(* have different keys, so one site shows what can happen to any.          *)
(***************************************************************************)
EXTENDS Naturals, FiniteSets

CONSTANTS Launches,   \* launches anyone asks for
          Polls,      \* runs of siteUpdate that can overlap
          Domains,    \* domains a site is launched on
          MaxFailures, \* bound on calls that fail and processes that crash
          NoLaunch    \* no item, no record, no result

ASSUME MaxFailuresAssumption == MaxFailures \in Nat

\* The end of a step function, and the items of the DynamoDB table.
Outcomes == {"success", "failure"}
Items    == [by : Launches, state : Outcomes \cup {"pending"}]

ASSUME NoLaunchAssumption == NoLaunch \notin Launches \cup Outcomes \cup Items

VARIABLES siteStatus, \* Site.siteStatus
          jobStatus,  \* Site.jobStatus
          record,     \* the launch that wrote the row of the launches table
          redirects,  \* the launches with a row in the redirections table
          assoc,      \* the domain associations of the app in Amplify
          item,       \* the item of the app in the DynamoDB table
          flows,      \* the launches whose step function runs
          pc, asked, old, \* per launch: its next step, its parameters, the redirections it found
          result,     \* per poll: the completed item it works on
          deleting,   \* the polls whose delete has been sent, not awaited
          failures,   \* number of failures so far
          outcome,    \* history: how the step function of each launch ended
          last,       \* history: the launch whose step function ended last
          undisturbed \* history: no launch overlapped another, none was cut short

siteVars   == <<siteStatus, jobStatus>>
recordVars == <<record, redirects>>
flowVars   == <<item, flows, outcome, last>>
handlerVars == <<pc, asked, old>>
pollVars   == <<result, deleting>>
launchVars == <<siteVars, recordVars, assoc, flowVars, handlerVars, pollVars, failures, undisturbed>>

LaunchSteps == {"start", "check", "associate", "upsert", "find", "destroy", "create", "item", "flow"}
Requests == [cms : BOOLEAN, domain : Domains, www : BOOLEAN]

\* The handler of the launch is at work.
Active(l) == pc[l] \in LaunchSteps

\* Something of an earlier launch is still under way.
Unsettled == \/ \E l \in Launches : Active(l)
             \/ flows # {} \/ item # NoLaunch \/ deleting # {}
             \/ \E p \in Polls : result[p] # NoLaunch

-----------------------------------------------------------------------------

LaunchInit == /\ siteStatus = "INITIALIZED" /\ jobStatus = "READY"
              /\ record = NoLaunch /\ redirects = {}
              /\ assoc = [d \in Domains |-> "none"]
              /\ item = NoLaunch /\ flows = {}
              /\ pc = [l \in Launches |-> "idle"]
              /\ asked \in [Launches -> Requests]
              /\ old = [l \in Launches |-> {}]
              /\ result = [p \in Polls |-> NoLaunch] /\ deleting = {}
              /\ failures = 0
              /\ outcome = [l \in Launches |-> NoLaunch] /\ last = NoLaunch
              /\ undisturbed = TRUE

Goto(l, step) == pc' = [pc EXCEPT ![l] = step]

\* A launch is asked for, in the CMS (launchSiteFromCms) or with a form
\* (launchSite): neither looks at the status of the site.
Ask(l) == /\ pc[l] = "idle"
          /\ Goto(l, IF asked[l].cms THEN "start" ELSE "check")
          /\ undisturbed' = (undisturbed /\ ~Unsettled)
          /\ UNCHANGED <<siteVars, recordVars, assoc, flowVars, asked, old, pollVars, failures>>

\* updateDbForLaunchStart
UpdateDbForLaunchStart(l) == /\ pc[l] = "start"
                             /\ siteStatus' = "LAUNCHED" /\ jobStatus' = "RUNNING"
                             /\ Goto(l, "check")
                             /\ UNCHANGED <<recordVars, assoc, flowVars, asked, old, pollVars, failures, undisturbed>>

\* configureDomainInAmplify: an association that failed is deleted first
CheckDomain(l) == /\ pc[l] = "check"
                  /\ assoc' = [assoc EXCEPT ![asked[l].domain] = IF @ = "failed" THEN "none" ELSE @]
                  /\ Goto(l, "associate")
                  /\ UNCHANGED <<siteVars, recordVars, flowVars, asked, old, pollVars, failures, undisturbed>>

\* configureDomainInAmplify: Amplify refuses a second association of a domain
AssociateDomain(l) == /\ pc[l] = "associate"
                      /\ assoc[asked[l].domain] = "none"
                      /\ assoc' = [assoc EXCEPT ![asked[l].domain] = "there"]
                      /\ Goto(l, "upsert")
                      /\ UNCHANGED <<siteVars, recordVars, flowVars, asked, old, pollVars, failures, undisturbed>>

\* createOrUpdate, its four statements
UpsertLaunch(l) == /\ pc[l] = "upsert"
                   /\ record' = l
                   /\ Goto(l, "find")
                   /\ UNCHANGED <<siteVars, redirects, assoc, flowVars, asked, old, pollVars, failures, undisturbed>>

FindRedirections(l) == /\ pc[l] = "find"
                       /\ old' = [old EXCEPT ![l] = redirects]
                       /\ Goto(l, "destroy")
                       /\ UNCHANGED <<siteVars, recordVars, assoc, flowVars, asked, pollVars, failures, undisturbed>>

DestroyRedirections(l) == /\ pc[l] = "destroy"
                          /\ redirects' = redirects \ old[l]
                          /\ Goto(l, IF asked[l].www THEN "create" ELSE "item")
                          /\ UNCHANGED <<siteVars, record, assoc, flowVars, asked, old, pollVars, failures, undisturbed>>

CreateRedirection(l) == /\ pc[l] = "create"
                        /\ redirects' = redirects \cup {l}
                        /\ Goto(l, "item")
                        /\ UNCHANGED <<siteVars, record, assoc, flowVars, asked, old, pollVars, failures, undisturbed>>

\* createItem: the item is stored under the id of the app
CreateItem(l) == /\ pc[l] = "item"
                 /\ item' = [by |-> l, state |-> "pending"]
                 /\ Goto(l, "flow")
                 /\ UNCHANGED <<siteVars, recordVars, assoc, flows, outcome, last, asked, old, pollVars, failures, undisturbed>>

TriggerFlow(l) == /\ pc[l] = "flow"
                  /\ flows' = flows \cup {l}
                  /\ Goto(l, "done")
                  /\ UNCHANGED <<siteVars, recordVars, assoc, item, outcome, last, asked, old, pollVars, failures, undisturbed>>

\* A call of the handler fails, or Amplify has no records after 90 seconds:
\* launchSite returns the error and nothing that was written is undone.
LaunchFails(l) == /\ Active(l)
                  /\ \/ failures < MaxFailures /\ failures' = failures + 1
                     \/ pc[l] = "associate" /\ assoc[asked[l].domain] # "none" /\ UNCHANGED failures
                  /\ Goto(l, "failed")
                  /\ undisturbed' = FALSE
                  /\ UNCHANGED <<siteVars, recordVars, assoc, flowVars, asked, old, pollVars>>

Handler(l) == \/ Ask(l) \/ UpdateDbForLaunchStart(l) \/ CheckDomain(l) \/ AssociateDomain(l)
              \/ UpsertLaunch(l) \/ FindRedirections(l) \/ DestroyRedirections(l) \/ CreateRedirection(l)
              \/ CreateItem(l) \/ TriggerFlow(l) \/ LaunchFails(l)

-----------------------------------------------------------------------------
(* The step function writes its outcome into the item of its app, whichever *)
(* launch put it there.  A failed launch may leave its association failed.  *)

FlowEnds(l) == /\ l \in flows
               /\ \E o \in Outcomes :
                    /\ outcome' = [outcome EXCEPT ![l] = o]
                    /\ item' = IF item = NoLaunch THEN NoLaunch ELSE [by |-> item.by, state |-> o]
                    /\ \/ o = "failure" /\ assoc' = [assoc EXCEPT ![asked[l].domain] = "failed"]
                       \/ UNCHANGED assoc
               /\ last' = l
               /\ flows' = flows \ {l}
               /\ UNCHANGED <<siteVars, recordVars, handlerVars, pollVars, failures, undisturbed>>

-----------------------------------------------------------------------------
(* The polls of the support service.                                        *)

\* Mutant: only successes are looked for.
BugOnlySuccesses(i) == i # NoLaunch /\ i.state = "success"

\* getAllCompletedLaunches: the completed item is returned while its delete
\* is still on its way.  A scan that fails or finds nothing changes nothing.
Completed(i) == i # NoLaunch /\ i.state \in Outcomes

Scan(p) == /\ result[p] = NoLaunch /\ p \notin deleting
           /\ Completed(item)
           /\ result' = [result EXCEPT ![p] = item]
           /\ deleting' = deleting \cup {p}
           /\ UNCHANGED <<siteVars, recordVars, assoc, flowVars, handlerVars, failures, undisturbed>>

DeleteLands(p) == /\ p \in deleting
                  /\ deleting' = deleting \ {p}
                  /\ item' = NoLaunch
                  /\ UNCHANGED <<siteVars, recordVars, assoc, flows, outcome, last, handlerVars, result, failures, undisturbed>>

\* The rejection of a delete is only warned about, the next poll reads the
\* item again.
DeleteFails(p) == /\ p \in deleting /\ failures < MaxFailures
                  /\ deleting' = deleting \ {p}
                  /\ failures' = failures + 1
                  /\ UNCHANGED <<siteVars, recordVars, assoc, flowVars, handlerVars, result, undisturbed>>

\* Mutations: a failed launch is taken for one still under way; it counts as a success.
BugFailureNotSaved(o)  == IF o = "success" THEN <<"LAUNCHED", "READY">> ELSE <<"LAUNCHED", "RUNNING">>
BugFailureIsSuccess(o) == <<"LAUNCHED", "READY">>

\* siteUpdate: errors of the monitor are swallowed, those of the mail come
\* after the update.
StatusOf(o) == IF o = "success" THEN <<"LAUNCHED", "READY">> ELSE <<"INITIALIZED", "FAILED">>

SiteUpdate(p) == /\ result[p] # NoLaunch
                 /\ siteStatus' = StatusOf(result[p].state)[1]
                 /\ jobStatus'  = StatusOf(result[p].state)[2]
                 /\ result' = [result EXCEPT ![p] = NoLaunch]
                 /\ UNCHANGED <<recordVars, assoc, flowVars, handlerVars, deleting, failures, undisturbed>>

\* The site is not found or the update is rejected: caught and logged.
SiteUpdateFails(p) == /\ result[p] # NoLaunch /\ failures < MaxFailures
                      /\ result' = [result EXCEPT ![p] = NoLaunch]
                      /\ failures' = failures + 1
                      /\ undisturbed' = FALSE
                      /\ UNCHANGED <<siteVars, recordVars, assoc, flowVars, handlerVars, deleting>>

Poll(p) == Scan(p) \/ DeleteLands(p) \/ DeleteFails(p) \/ SiteUpdate(p) \/ SiteUpdateFails(p)

-----------------------------------------------------------------------------

\* Launches asked for in the CMS run in the server, those of forms and the
\* polls in the support service.  What has been sent to AWS goes on.
Lost(ls) == pc' = [l \in Launches |-> IF l \in ls /\ Active(l) THEN "failed" ELSE pc[l]]

CrashServer == /\ failures < MaxFailures
               /\ Lost({l \in Launches : asked[l].cms})
               /\ failures' = failures + 1
               /\ undisturbed' = FALSE
               /\ UNCHANGED <<siteVars, recordVars, assoc, flowVars, asked, old, pollVars>>

CrashSupport == /\ failures < MaxFailures
                /\ Lost({l \in Launches : ~asked[l].cms})
                /\ result' = [p \in Polls |-> NoLaunch]
                /\ deleting' = {}
                /\ failures' = failures + 1
                /\ undisturbed' = FALSE
                /\ UNCHANGED <<siteVars, recordVars, assoc, flowVars, asked, old>>

LaunchNext == \/ \E l \in Launches : Handler(l) \/ FlowEnds(l)
              \/ \E p \in Polls : Poll(p)
              \/ CrashServer \/ CrashSupport

\* The event loops run on, every execution of the step function ends, and
\* setInterval starts another poll as long as there is something to poll.
Fairness == /\ \A l \in Launches : /\ WF_launchVars(Handler(l) /\ pc[l] # "idle")
                                   /\ WF_launchVars(FlowEnds(l))
            /\ \A p \in Polls : /\ WF_launchVars(Scan(p))
                                /\ WF_launchVars(DeleteLands(p) \/ DeleteFails(p))
                                /\ WF_launchVars(SiteUpdate(p) \/ SiteUpdateFails(p))

LaunchSpec == LaunchInit /\ [][LaunchNext]_launchVars
FairSpec   == LaunchSpec /\ Fairness

-----------------------------------------------------------------------------

LaunchTypeOK == /\ siteStatus \in {"INITIALIZED", "LAUNCHED"} /\ jobStatus \in {"READY", "RUNNING", "FAILED"}
                /\ record \in Launches \cup {NoLaunch} /\ redirects \subseteq Launches
                /\ assoc \in [Domains -> {"none", "there", "failed"}]
                /\ item \in Items \cup {NoLaunch} /\ flows \subseteq Launches
                /\ pc \in [Launches -> LaunchSteps \cup {"idle", "done", "failed"}]
                /\ asked \in [Launches -> Requests]
                /\ old \in [Launches -> SUBSET Launches]
                /\ result \in [Polls -> Items \cup {NoLaunch}] /\ deleting \subseteq Polls
                /\ failures \in 0 .. MaxFailures
                /\ outcome \in [Launches -> Outcomes \cup {NoLaunch}] /\ last \in Launches \cup {NoLaunch}
                /\ undisturbed \in BOOLEAN

\* The status of a site whose last step function was that of l.
Expected(l) == IF l = NoLaunch               THEN <<"INITIALIZED", "READY">>
               ELSE IF outcome[l] = "success" THEN <<"LAUNCHED", "READY">>
               ELSE                                <<"INITIALIZED", "FAILED">>

\* The rows getDNSRecords reads are those of one and the same launch.
Tidy == redirects = IF record = NoLaunch THEN {} ELSE IF asked[record].www THEN {record} ELSE {}

(* Launches that do not overlap and that nothing cuts short leave the site  *)
(* with the status of the last outcome, whichever polls overlap, in any     *)
(* order of their deletes and updates, and though deletes fail; and between *)
(* them the rows of a launch and its redirection are those of the last.     *)
SettledShowsOutcome ==
    undisturbed => /\ ~Unsettled => siteVars = Expected(last)
                   /\ (\A l \in Launches : ~Active(l)) => Tidy

(* A site is shown as live only if a step function has reported success,    *)
(* whatever overlaps, fails or crashes.                                     *)
ShownLiveWasLaunched ==
    siteVars = <<"LAUNCHED", "READY">> => \E l \in Launches : outcome[l] = "success"

(* A launch that is shown as running comes to an end, unless launches       *)
(* overlap or one is cut short.                                             *)
LaunchSettles == (siteVars = <<"LAUNCHED", "RUNNING">>) ~> (siteVars # <<"LAUNCHED", "RUNNING">> \/ ~undisturbed)

(* What launchSiteFromCms says of its first write: a user cannot start a    *)
(* launch of the site while another one is under way.                       *)
OneLaunchAtATime == \A k, l \in Launches :
    asked[k].cms /\ asked[l].cms /\ Active(k) /\ Active(l) => k = l

(* What getAllCompletedLaunches says of its deletes: they remove items that *)
(* have been retrieved, and those are completed.                            *)
DeletesOnlyRetrieved == [][\A p \in Polls : DeleteLands(p) => item = NoLaunch \/ Completed(item)]_launchVars

-----------------------------------------------------------------------------
(* The inductive invariant of the theorems.                                 *)

\* Every success that is on its way to the site was reported by a step function.
Reported(i) == i # NoLaunch /\ i.state = "success" => \E l \in Launches : outcome[l] = "success"

\* A step function is started once, by the last step of its handler.
FlowsRunOnce == \A l \in Launches : (pc[l] # "done" => l \notin flows /\ outcome[l] = NoLaunch)
                                  /\ (l \in flows => outcome[l] = NoLaunch)

SuccessesAreReal == /\ Reported(item)
                    /\ \A p \in Polls : Reported(result[p])
                    /\ ShownLiveWasLaunched

\* No step function runs and no handler is at work: what there is of the last
\* launch is its outcome.
Quiet == flows = {} /\ \A l \in Launches : ~Active(l)

IsLastOutcome(i) == i # NoLaunch => last # NoLaunch /\ i.by = last /\ i.state \in Outcomes /\ i.state = outcome[last]

WhileActive == \A l \in Launches : Active(l) =>
                  /\ \A k \in Launches : Active(k) => k = l
                  /\ flows = {} /\ deleting = {} /\ \A p \in Polls : result[p] = NoLaunch
                  /\ item = IF pc[l] = "flow" THEN [by |-> l, state |-> "pending"] ELSE NoLaunch

WhileFlowing == \A l \in flows :
                  /\ flows = {l} /\ \A k \in Launches : ~Active(k)
                  /\ deleting = {} /\ \A p \in Polls : result[p] = NoLaunch
                  /\ item = [by |-> l, state |-> "pending"]

WhileQuiet == Quiet => /\ IsLastOutcome(item)
                       /\ \A p \in Polls : IsLastOutcome(result[p])
                       /\ (item = NoLaunch \/ deleting # {}) /\ (\A p \in Polls : result[p] = NoLaunch)
                             => siteVars = Expected(last)

\* The rows of a launch are written by one handler, which replaces what it has found.
Writing(l) == pc[l] \in {"find", "destroy", "create"}

RowsInTurn == undisturbed =>
                  /\ (\A l \in Launches : ~Writing(l)) => Tidy
                  /\ \A l \in Launches : /\ Writing(l) => record = l
                                         /\ pc[l] = "destroy" => old[l] = redirects
                                         /\ pc[l] = "create" => redirects = {} /\ asked[l].www

LaunchInv == /\ LaunchTypeOK /\ FlowsRunOnce /\ SuccessesAreReal
             /\ undisturbed => WhileActive /\ WhileFlowing /\ WhileQuiet
             /\ RowsInTurn

=============================================================================
