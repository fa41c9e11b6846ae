----------------------------- MODULE SitePrivacy -----------------------------
(***************************************************************************)
(* Where a site lives outside the CMS, and whether it is private there: on *)
(* GitHub, on AWS Amplify (an app for the site and one for its             *)
(* staging-lite), on Netlify, and in the tables sites and deployments.     *)
(* SettingsService.updatePassword changes one after another; what fails    *)
(* half way stays half way.                                                *)
(***************************************************************************)
EXTENDS Naturals, FiniteSets, Sequences

CONSTANTS
  SiteNames, Repos, Passwords,
  NoRow,        \* nothing there
  NoPassword,   \* null
  MaxRequests,  \* bound: requests
  MaxFaults     \* bound: calls that fail, and processes that die

\* Rows of the tables, repositories, and the Amplify apps of a repository.
Secrets == Passwords \cup {NoPassword}
SiteRows == [status : {"EMPTY", "INITIALIZED"}, job : {"RUNNING", "READY", "FAILED"}, private : BOOLEAN]
DeploymentRows == [password : Secrets, lite : BOOLEAN]
GitHubRepos == [private : BOOLEAN, branches : SUBSET {"staging", "master", "staging-lite"},
                urls : SUBSET {"staging", "master"}, protected : BOOLEAN]
AmplifyApps == [main : SUBSET {"staging", "master"}, lite : SUBSET {"staging-lite"},
                mainPassword : Secrets, litePassword : Secrets]

Unknown == "unknown"      \* a change has failed: nothing is said of the repository

ASSUME SitePrivacyAssumption ==
  /\ NoRow \notin SiteRows /\ NoRow \notin DeploymentRows /\ NoRow \notin GitHubRepos
  /\ NoPassword \notin Passwords /\ Unknown \notin Secrets
  /\ MaxRequests \in Nat /\ MaxFaults \in Nat

VARIABLES
  sites,        \* table sites
  repos,        \* table repos: [name, site]
  deployments,  \* table deployments, by site: the password kept and whether there is a staging-lite app
  github,       \* repositories of the organisation
  apps,         \* of a repository: branches and passwords of its Amplify apps
  netlify,      \* repositories whose Netlify copy is private and does not build
  toNetlify,    \* repositories whose Netlify copy is being told so; nobody waits
  change,       \* the change of privacy of a repository under way: one at a time, by the site's lock
  requests,     \* requests so far
  faults,       \* faults so far
  agreed,       \* history: password of the last change of a repository that was acknowledged
  halfway       \* history: repositories left without a password kept, or with another privacy
                \* than their site's, by a change that failed

privacyVars == <<sites, repos, deployments, github, apps, netlify, toNetlify,
                 change, requests, faults, agreed, halfway>>
rows == <<sites, repos, deployments>>

None == [at |-> "none"]
FreshSite == [status |-> "EMPTY", job |-> "RUNNING", private |-> FALSE]
FreshRepo == [private |-> FALSE, branches |-> {}, urls |-> {}, protected |-> FALSE]
NoApps == [main |-> {}, lite |-> {}, mainPassword |-> NoPassword, litePassword |-> NoPassword]

\* A change of privacy under way.
Changes == [at : {"main", "lite", "keep", "github", "flag", "done"}, site : SiteNames,
            password : Secrets, private : BOOLEAN]

Sites == {n \in SiteNames : sites[n] # NoRow}

\* getBySiteName, which takes the name of a repository.
BySiteName(r) == {row \in repos : row.name = r}

Request == requests < MaxRequests /\ requests' = requests + 1
Fault == faults < MaxFaults /\ faults' = faults + 1

\* Basic authentication of a branch, with the password or none.
BranchPassword(r, branch, password) == [apps EXCEPT ![r][branch] = password]

\* The change ends with an error.
Failed(r) ==
  /\ change' = [change EXCEPT ![r] = None]
  /\ agreed' = [agreed EXCEPT ![r] = Unknown]

\* updatePassword for a public site asked to be public is done.  One that turns private
\* has its Netlify copy told, though nothing is changed if the site has no deployment.
UpdatePassword(r, password) ==
  /\ Request
  /\ change[r] = None
  /\ \E row \in BySiteName(r) :
       LET private == sites[row.site].private
           enable == password # NoPassword
       IN /\ toNetlify' = IF enable /\ ~private THEN toNetlify \cup {r} ELSE toNetlify
          /\ \/ ~private /\ ~enable /\ UNCHANGED change
             \/ deployments[row.site] = NoRow /\ UNCHANGED change
             \/ /\ private \/ enable
                /\ deployments[row.site] # NoRow
                /\ change' = [change EXCEPT ![r] =
                     [at |-> "main", site |-> row.site, password |-> password, private |-> private]]
  /\ UNCHANGED <<rows, github, apps, netlify, faults, agreed, halfway>>

\* updateAmplifyPassword: the password of the branch staging.  With none, the one kept is
\* deleted too before the staging-lite app's turn.
UpdateMainApp(r) ==
  LET c == change[r] IN
  /\ c.at = "main"
  /\ apps' = BranchPassword(r, "mainPassword", c.password)
  /\ deployments' = IF c.password = NoPassword
                    THEN [deployments EXCEPT ![c.site].password = NoPassword] ELSE deployments
  /\ change' = [change EXCEPT ![r].at = IF deployments[c.site].lite THEN "lite" ELSE "keep"]
  /\ UNCHANGED <<sites, repos, github, netlify, toNetlify, requests, faults, agreed, halfway>>

\* ... of the branch staging-lite, if there is such an app.
UpdateLiteApp(r) ==
  LET c == change[r] IN
  /\ c.at = "lite"
  /\ apps' = BranchPassword(r, "litePassword", c.password)
  /\ change' = [change EXCEPT ![r].at = "keep"]
  /\ UNCHANGED <<rows, github, netlify, toNetlify, requests, faults, agreed, halfway>>

\* The password, encrypted, with the deployment.
Kept(c) == [deployments EXCEPT ![c.site].password = c.password]

KeepPassword(r) ==
  LET c == change[r] IN
  /\ c.at = "keep"
  /\ deployments' = Kept(c)
  /\ halfway' = halfway \ {<<r, "password">>}
  /\ change' = [change EXCEPT ![r].at = IF c.private # (c.password # NoPassword) THEN "github" ELSE "done"]
  /\ UNCHANGED <<sites, repos, github, apps, netlify, toNetlify, requests, faults, agreed>>

\* Mutation: it only ever becomes private.
BugRepoPrivacy(r, private) == [github EXCEPT ![r].private = @ \/ private]

\* changeRepoPrivacy
RepoPrivacy(r, private) == [github EXCEPT ![r].private = private]

ChangeRepoPrivacy(r) ==
  /\ change[r].at = "github"
  /\ github' = RepoPrivacy(r, change[r].password # NoPassword)
  /\ change' = [change EXCEPT ![r].at = "flag"]
  /\ UNCHANGED <<rows, apps, netlify, toNetlify, requests, faults, agreed, halfway>>

\* sitesService.update
ChangeFlag(r) ==
  LET c == change[r] IN
  /\ c.at = "flag"
  /\ sites' = [sites EXCEPT ![c.site].private = (c.password # NoPassword)]
  /\ halfway' = halfway \ {<<r, "repository">>}
  /\ change' = [change EXCEPT ![r].at = "done"]
  /\ UNCHANGED <<repos, deployments, github, apps, netlify, toNetlify, requests, faults, agreed>>

Acknowledge(r) ==
  /\ change[r].at = "done"
  /\ agreed' = [agreed EXCEPT ![r] = change[r].password]
  /\ change' = [change EXCEPT ![r] = None]
  /\ UNCHANGED <<rows, github, apps, netlify, toNetlify, requests, faults, halfway>>

\* A call fails, or the process dies.
ChangeFails(r) ==
  LET c == change[r] IN
  /\ c.at \notin {"none", "done"}
  /\ Fault
  /\ Failed(r)
  /\ halfway' = halfway
       \cup (IF c.at # "main" /\ deployments[c.site].password = NoPassword THEN {<<r, "password">>} ELSE {})
       \cup (IF c.at = "flag" THEN {<<r, "repository">>} ELSE {})
  /\ UNCHANGED <<rows, github, apps, netlify, toNetlify, requests>>

\* privatiseNetlifySite: it may come to nothing, which is logged.
TellNetlify(r) ==
  /\ r \in toNetlify
  /\ toNetlify' = toNetlify \ {r}
  /\ netlify' \in {netlify, netlify \cup {r}}
  /\ UNCHANGED <<rows, github, apps, change, requests, faults, agreed, halfway>>

PrivacyStep(r) ==
  \/ \E password \in Passwords \cup {NoPassword} : UpdatePassword(r, password)
  \/ UpdateMainApp(r) \/ UpdateLiteApp(r) \/ KeepPassword(r)
  \/ ChangeRepoPrivacy(r) \/ ChangeFlag(r) \/ Acknowledge(r)
  \/ ChangeFails(r) \/ TellNetlify(r)

\* getPassword of a private site decrypts the password kept.
CanShow(site) == sites[site].private => deployments[site].password # NoPassword

-----------------------------------------------------------------------------
\* After a change that was acknowledged, and until one fails, every place agrees: both
\* apps ask for the password and it is the one kept, and the repository and the site are
\* private if there is one.  But once a change has failed between the repository and the
\* site, a new password leaves a private site with a public repository.  And the password
\* of a private site can be shown, unless turning it public has failed after the one kept
\* was deleted (getPassword then decrypts null).
PrivacyAgrees ==
  \A r \in Repos : change[r] = None => \A row \in BySiteName(r) :
    /\ <<r, "password">> \in halfway \/ CanShow(row.site)
    /\ agreed[r] # Unknown =>
      /\ apps[r].mainPassword = agreed[r] /\ deployments[row.site].password = agreed[r]
      /\ deployments[row.site].lite => apps[r].litePassword = agreed[r]
      /\ github[r].private = (agreed[r] # NoPassword) \/ <<r, "repository">> \in halfway
      /\ sites[row.site].private = (agreed[r] # NoPassword)
=============================================================================
