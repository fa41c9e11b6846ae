---------------------------- MODULE SiteCreation ----------------------------
(***************************************************************************)
(* Site creation (InfraService.createSite), from a form submission to the  *)
(* mail that tells how it ended: rows in the database, a repository and    *)
(* its branches on GitHub, two Amplify apps, clones on the EFS volume, and *)
(* the first collaborator.  Every step may fail, which marks the site and  *)
(* leaves the rest as it is, and the process may die.                      *)
(***************************************************************************)
EXTENDS SitePrivacy

CONSTANTS
  Submissions       \* bound: form submissions

VARIABLES
  creation,    \* of a submission: how far it has come, and what it asks for
  told,        \* of a submission: the mail sent
  owners,      \* sites with a first collaborator
  disk,        \* clones on the EFS volume, in the folder of each branch
  abandoned    \* history: sites whose creation died, or could not be marked

vars == <<privacyVars, creation, told, owners, disk, abandoned>>
elsewhere == <<netlify, toNetlify, change, requests, agreed, halfway>>
places == <<rows, github, apps, owners, disk>>

Forms == [site : SiteNames, repo : Repos]
Step(i) == creation[i].at
SiteOf(i) == creation[i].form.site
RepoOf(i) == creation[i].form.repo

\* A site of earlier days may be there, with or without a staging-lite app.
Init ==
  /\ \E old \in {{}} \cup {{o} : o \in SiteNames \X Repos}, lite \in BOOLEAN :
       /\ sites = [n \in SiteNames |-> IF \E o \in old : o[1] = n
                                       THEN [status |-> "INITIALIZED", job |-> "READY", private |-> FALSE] ELSE NoRow]
       /\ repos = {[name |-> o[2], site |-> o[1]] : o \in old}
       /\ deployments = [n \in SiteNames |-> IF \E o \in old : o[1] = n
                                             THEN [password |-> NoPassword, lite |-> lite] ELSE NoRow]
       /\ github = [r \in Repos |-> IF \E o \in old : o[2] = r
                                    THEN [FreshRepo EXCEPT !.branches = {"staging", "master", "staging-lite"},
                                                           !.urls = {"staging", "master"}, !.protected = TRUE]
                                    ELSE NoRow]
       /\ apps = [r \in Repos |-> IF \E o \in old : o[2] = r
                                  THEN [NoApps EXCEPT !.main = {"staging", "master"},
                                                      !.lite = IF lite THEN {"staging-lite"} ELSE {}]
                                  ELSE NoApps]
       /\ owners = {o[1] : o \in old}
       /\ disk = [b \in {"staging", "staging-lite"} |-> {o[2] : o \in old}]
  /\ netlify = {} /\ toNetlify = {} /\ halfway = {} /\ requests = 0 /\ faults = 0
  /\ change = [r \in Repos |-> None] /\ agreed = [r \in Repos |-> Unknown]
  /\ creation = [i \in Submissions |-> [at |-> "idle"]]
  /\ told = [i \in Submissions |-> "nothing"]
  /\ abandoned = {}

Steps == {"site", "repo", "publish", "lite", "row", "apps", "deployment", "urls", "permissions",
          "owner", "ready", "ready to clone", "clone", "made", "mark", "failed", "over"}

TypeOK ==
  /\ sites \in [SiteNames -> SiteRows \cup {NoRow}]
  /\ repos \subseteq [name : Repos, site : SiteNames]
  /\ deployments \in [SiteNames -> DeploymentRows \cup {NoRow}]
  /\ github \in [Repos -> GitHubRepos \cup {NoRow}]
  /\ apps \in [Repos -> AmplifyApps]
  /\ netlify \subseteq Repos /\ toNetlify \subseteq Repos
  /\ change \in [Repos -> Changes \cup {None}]
  /\ agreed \in [Repos -> Secrets \cup {Unknown}]
  /\ halfway \subseteq Repos \X {"password", "repository"}
  /\ creation \in [Submissions -> [at : Steps, form : Forms] \cup {[at |-> "idle"]}]
  /\ told \in [Submissions -> {"nothing", "success", "failure"}]
  /\ owners \subseteq SiteNames /\ abandoned \subseteq SiteNames
  /\ disk \in [{"staging", "staging-lite"} -> SUBSET Repos]
  /\ requests \in 0..MaxRequests /\ faults \in 0..MaxFaults

-----------------------------------------------------------------------------
Go(i, at) == creation' = [creation EXCEPT ![i].at = at]

\* createSite ends with an error: the site it has made is to be marked.
Error(i) == Go(i, IF Step(i) = "site" THEN "failed" ELSE "mark")
Fails(i) == Fault /\ Error(i)

Prefixes(seq) == {SubSeq(seq, 1, n) : n \in 0..Len(seq)}
Elements(seq) == {seq[n] : n \in 1..Len(seq)}

\* Several calls in a row: all of them, or some of them and an error.
InARow(i, seq, done, next) ==
  \/ done = Elements(seq) /\ Go(i, next) /\ UNCHANGED faults
  \/ (\E begun \in Prefixes(seq) : begun # seq /\ done = Elements(begun)) /\ Fails(i)

\* formsgCreateSite: what the form lacks is told at once, and no site made.
FormsgCreateSite(i, form) ==
  /\ Step(i) = "idle" /\ Request
  /\ creation' = [creation EXCEPT ![i] = [at |-> "site", form |-> form]]
  /\ UNCHANGED <<told, places, netlify, toNetlify, change, agreed, halfway, faults, abandoned>>

\* 1. The row of the site; names are unique.
CreateSite(i) ==
  /\ Step(i) = "site"
  /\ IF sites[SiteOf(i)] = NoRow
     THEN sites' = [sites EXCEPT ![SiteOf(i)] = FreshSite] /\ Go(i, "repo")
     ELSE Go(i, "failed") /\ UNCHANGED sites
  /\ UNCHANGED <<repos, deployments, github, apps, owners, disk, told, elsewhere, faults, abandoned>>

\* GitHub refuses to create a repository twice.
RepoIsThere(r) == github[r] # NoRow

\* 2. setupGithubRepo: the repository, and its team for GitHub login, which may fail.
CreateRepoOnGithub(i) ==
  /\ Step(i) = "repo"
  /\ IF RepoIsThere(RepoOf(i))
     THEN Error(i) /\ UNCHANGED <<github, faults>>
     ELSE /\ github' = [github EXCEPT ![RepoOf(i)] = FreshRepo]
          /\ (Go(i, "publish") /\ UNCHANGED faults) \/ Fails(i)
  /\ UNCHANGED <<rows, apps, owners, disk, told, elsewhere, abandoned>>

\* Mutation: master is not pushed.
BugPushes == <<"staging">>

\* The pushes of generateRepoAndPublishToGitHub, staging first so that it becomes the
\* default branch.
Pushes == <<"staging", "master">>

\* From a copy of the base repository in a folder made anew.
GenerateRepoAndPublish(i) ==
  /\ Step(i) = "publish"
  /\ \E done \in SUBSET Elements(Pushes) :
       /\ InARow(i, Pushes, done, "lite")
       /\ github' = [github EXCEPT ![RepoOf(i)].branches = @ \cup done]
  /\ disk' = [disk EXCEPT !["staging"] = @ \cup {RepoOf(i)}]
  /\ UNCHANGED <<rows, apps, owners, told, elsewhere, abandoned>>

\* setUpStagingLite: the other folder, without images and files, and its branch.
SetUpStagingLite(i) ==
  /\ Step(i) = "lite"
  /\ disk' = [disk EXCEPT !["staging-lite"] = @ \cup {RepoOf(i)}]
  /\ \/ /\ github' = [github EXCEPT ![RepoOf(i)].branches = @ \cup {"staging-lite"}]
        /\ Go(i, "row") /\ UNCHANGED faults
     \/ Fails(i) /\ UNCHANGED github
  /\ UNCHANGED <<rows, apps, owners, told, elsewhere, abandoned>>

\* reposService.create
CreateRepoRow(i) ==
  /\ Step(i) = "row"
  /\ repos' = repos \cup {[name |-> RepoOf(i), site |-> SiteOf(i)]}
  /\ Go(i, "apps")
  /\ UNCHANGED <<sites, deployments, github, apps, owners, disk, told, elsewhere, faults, abandoned>>

\* What becomes of an app: its branches are made one after another.
AppOutcomes(branches) == {Elements(made) : made \in Prefixes(branches)}

\* 3. createAmplifyAppsOnAws: the second app is made even when the first has failed.
CreateAmplifyApps(i) ==
  /\ Step(i) = "apps"
  /\ \E main \in AppOutcomes(<<"master", "staging">>), lite \in AppOutcomes(<<"staging-lite">>) :
       /\ apps' = [apps EXCEPT ![RepoOf(i)].main = main, ![RepoOf(i)].lite = lite]
       /\ \/ main = {"master", "staging"} /\ lite = {"staging-lite"} /\ Go(i, "deployment") /\ UNCHANGED faults
          \/ Fails(i)
  /\ UNCHANGED <<rows, github, owners, disk, told, elsewhere, abandoned>>

\* setupAmplifyProject: the row of the deployment.
CreateDeployment(i) ==
  /\ Step(i) = "deployment"
  /\ deployments' = [deployments EXCEPT ![SiteOf(i)] = [password |-> NoPassword, lite |-> TRUE]]
  /\ Go(i, "urls")
  /\ UNCHANGED <<sites, repos, github, apps, owners, disk, told, elsewhere, faults, abandoned>>

\* 4. modifyDeploymentUrlsOnRepo: committed on staging, pushed, merged into master, pushed.
ModifyDeploymentUrls(i) ==
  /\ Step(i) = "urls"
  /\ \E done \in SUBSET {"staging", "master"} :
       /\ InARow(i, <<"staging", "master">>, done, "permissions")
       /\ github' = [github EXCEPT ![RepoOf(i)].urls = @ \cup done]
  /\ UNCHANGED <<rows, apps, owners, disk, told, elsewhere, abandoned>>

\* 5. setRepoAndTeamPermissions: branch protection, then the teams.  A site has a first
\* collaborator, and is cloned, if its users log in by e-mail.
SetPermissions(i) ==
  /\ Step(i) = "permissions"
  /\ \E done \in SUBSET {"protection", "teams"} :
       /\ \E next \in {"owner", "ready"} : InARow(i, <<"protection", "teams">>, done, next)
       /\ github' = [github EXCEPT ![RepoOf(i)].protected = @ \/ "protection" \in done]
  /\ UNCHANGED <<rows, apps, owners, disk, told, elsewhere, abandoned>>

\* The first collaborator, for e-mail login.  create returns its errors, and they are not
\* looked at: an owner who is not on the whitelist is left out.
CreateOwner(i) ==
  /\ Step(i) = "owner"
  /\ owners' \in {owners, owners \cup {SiteOf(i)}}
  /\ Go(i, "ready to clone")
  /\ UNCHANGED <<rows, github, apps, disk, told, elsewhere, faults, abandoned>>

\* 6. The status of the site.
MarkReady(i) ==
  /\ Step(i) \in {"ready", "ready to clone"}
  /\ sites' = [sites EXCEPT ![SiteOf(i)].status = "INITIALIZED", ![SiteOf(i)].job = "READY"]
  /\ Go(i, IF Step(i) = "ready" THEN "made" ELSE "clone")
  /\ UNCHANGED <<repos, deployments, github, apps, owners, disk, told, elsewhere, faults, abandoned>>

\* gitFileSystemService.clone finds both folders; if it fails the site stays ready.
CloneToEfs(i) ==
  /\ Step(i) = "clone"
  /\ (Go(i, "made") /\ UNCHANGED faults) \/ (Fault /\ Go(i, "failed"))
  /\ UNCHANGED <<places, told, elsewhere, abandoned>>

\* Mutation: the mark is forgotten.
BugMarked(n) == sites

\* The job of a site whose creation has failed.
Marked(n) == [sites EXCEPT ![n].job = "FAILED"]

\* The catch of createSite; the update may fail as well.
MarkFailed(i) ==
  /\ Step(i) = "mark"
  /\ \/ sites' = Marked(SiteOf(i)) /\ UNCHANGED <<faults, abandoned>>
     \/ Fault /\ abandoned' = abandoned \cup {SiteOf(i)} /\ UNCHANGED sites
  /\ Go(i, "failed")
  /\ UNCHANGED <<repos, deployments, github, apps, owners, disk, told, elsewhere>>

\* sendCreateSuccess, sendCreateError
Tell(i) ==
  /\ Step(i) \in {"made", "failed"}
  /\ told' = [told EXCEPT ![i] = IF Step(i) = "made" THEN "success" ELSE "failure"]
  /\ Go(i, "over")
  /\ UNCHANGED <<places, elsewhere, faults, abandoned>>

\* A step fails with nothing done (of those that make several calls, see above).
StepFails(i) ==
  /\ Step(i) \in {"site", "repo", "row", "deployment", "owner", "ready", "ready to clone"}
  /\ Fails(i)
  /\ UNCHANGED <<places, told, elsewhere, abandoned>>

\* The process dies: nothing marks the site, nobody is told.
Die(i) ==
  /\ Step(i) \notin {"idle", "over"}
  /\ Fault
  /\ Go(i, "over")
  /\ abandoned' = IF Step(i) = "site" THEN abandoned ELSE abandoned \cup {SiteOf(i)}
  /\ UNCHANGED <<places, told, elsewhere>>

CreationStep(i) ==
  \/ \E form \in Forms : FormsgCreateSite(i, form)
  \/ CreateSite(i) \/ CreateRepoOnGithub(i) \/ GenerateRepoAndPublish(i)
  \/ SetUpStagingLite(i) \/ CreateRepoRow(i)
  \/ CreateAmplifyApps(i) \/ CreateDeployment(i) \/ ModifyDeploymentUrls(i)
  \/ SetPermissions(i) \/ CreateOwner(i) \/ MarkReady(i) \/ CloneToEfs(i)
  \/ MarkFailed(i) \/ Tell(i) \/ StepFails(i) \/ Die(i)

Next ==
  \/ \E i \in Submissions : CreationStep(i)
  \/ \E r \in Repos : PrivacyStep(r) /\ UNCHANGED <<creation, told, owners, disk, abandoned>>

Spec == Init /\ [][Next]_vars

-----------------------------------------------------------------------------
\* A repository belongs to one site, whatever is submitted at the same time: the table
\* does not see to it, that GitHub refuses a second repository of the name does.
OneSitePerRepo == \A row, other \in repos : row.name = other.name => row = other

\* A site that is ready has all that belongs to it, though its first collaborator may be
\* missing (see CreateOwner), and shares none of it; and only of such a site is a success told.
ReadyIsComplete ==
  /\ OneSitePerRepo
  /\ \A row \in repos : sites[row.site].job = "READY" =>
       /\ github[row.name].branches = {"staging", "master", "staging-lite"}
       /\ github[row.name].urls = {"staging", "master"} /\ github[row.name].protected
       /\ deployments[row.site] # NoRow /\ apps[row.name].main = {"staging", "master"}
       /\ row.name \in disk["staging"] \cap disk["staging-lite"]
  /\ \A i \in Submissions : told[i] = "success" =>
       sites[SiteOf(i)].job = "READY" /\ [name |-> RepoOf(i), site |-> SiteOf(i)] \in repos

\* A site is shown as being made only while someone is making it, unless the process died
\* or the mark itself failed: then it is for ever, and its name with it.
RunningIsUnderWay ==
  \A n \in Sites : sites[n].job = "RUNNING" =>
    n \in abandoned \/ \E i \in Submissions : Step(i) \notin {"idle", "site", "over", "failed"} /\ SiteOf(i) = n
=============================================================================
