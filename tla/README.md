# TLA+ models of the IsomerCMS backend

IsomerCMS lets agencies of the Singapore government edit static (Jekyll) sites in a
browser.  This directory holds TLA+ specifications of its backend (`src/src`, with the
support service in `src/support` and the microservices), TLC configurations that
check them on small instances, and proofs that TLAPS checks for every instance.

Contents: [the system](#the-system), [components](#components), [modules](#modules),
[runs](#runs), [bounds](#bounds), [fairness](#fairness), [proofs](#proofs),
[disagreements found](#disagreements-found), [what is not modelled](#what-is-not-modelled),
[plan](#plan), [how to run](#how-to-run).

## The system

A site is a GitHub repository with two branches that are edited: `staging`, and for sites
with quick builds `staging-lite`, which is `staging` without `images/` and `files/`.  The
branch `master` is what the public sees; it moves by merging the pull request of a review
request.  For sites on GGS ("GitHub on EFS") the backend keeps a clone of each of the two
branches on a shared disk (EFS), commits there, and pushes to GitHub afterwards; for the
others it commits through the GitHub API.

State lives in five places, and no transaction spans two of them:

| place | what it holds |
| --- | --- |
| EFS | the clones: commits, index, work tree, `.git/index.lock` |
| GitHub | the branches, pull requests, comments |
| PostgreSQL | users, sites, members, review requests and views, launches, one-time passwords, notifications, access tokens |
| DynamoDB | the mutex table (one item per locked site); the table of launches (one item per app) |
| memory of a process | un-awaited promises, timers, the site list cache, the access token in use |

Several server processes serve requests side by side; each is an event loop, so handlers
interleave at every `await`.  The support service polls DynamoDB for launches, runs the
forms and the link checker.  Work that outlives its request is everywhere: pushes after a
commit, deletes of launch items, mails, notifications.

Hard behaviours, and where they come from:

- **Interleaving.** Write handlers of a site are serialised by a lock that knows no owner
  and that expires; reads, and three handlers of review requests, take no lock at all.
- **Partial failure.** A request makes one or several commits on two clones; any of them
  may fail, and the wrapper must put both clones and GitHub back.
- **Ordering.** Pushes, polls and deletes are started and not awaited.
- **Crashes.** A process can die between any two steps; the lock, half-done git commands
  and rows of the database stay.
- **Stale state.** Handlers decide on rows, hashes and heads they have loaded before.

## Components

State, operations, interactions and what makes each correct.  `PROJECT.json` lists them
with their sources and status, and the hazards at their lines.

| component | state | operations | talks to | correct when | modelled |
| --- | --- | --- | --- | --- | --- |
| Site lock (`utils/mutex-utils.js`) | item per site, with an expiry | lock, unlock | DynamoDB | two write handlers never overlap unless one outlived its item; an unlock frees whatever was locked | `SiteMutex` |
| Route wrappers (`middleware/routeHandler.ts`) | heads remembered per request | read, write and rollback wrappers | lock, clones, GitHub | what failed leaves no trace, what was acknowledged stays | `SiteMutex`, `SiteEdit`, `SiteContent` |
| Edits (`GitFileCommitService`, `GitFileSystemService`) | clones, pushes under way | create, update, delete, rename, move, push, rollback | wrappers, GitHub | no lost update; staging-lite is staging without assets; acknowledged edits reach GitHub | `SiteEdit` |
| Git file system (`GitFileSystemService`) | commit, index, work tree | the same, path by path | git, the disk | success commits exactly what was asked, an error changes nothing | `GitFileSystem` |
| EFS repositories | clones of a site, local branches | clone, pull, fast-forward, reset, remove, repair | git, lock, GitHub | a repair loses no edit and leaves staging-lite as it should be; a review hides nothing | `EfsRepos` |
| Site link checker | lock file, error log, report, temporary clone | run, read | EFS, page names | not locked out by nobody; reports what is broken and nothing else, though the site changes while it reads | `LinkChecker`, `PageNames` |
| GitHub repositories (`GitHubService`, `RepoService`) | the branch on GitHub | commits by contents and tree API, revert | GitHub | a success has done all it says, an error leaves nothing | `GitHubRepo`, `SiteContent` |
| Resource rooms, media, settings, home page, contact us | files, the name of the room in the config | create, rename, move, update, delete | RepoService, wrappers | files that belong together change together | `SiteContent` |
| Collections (`fileServices`, `directoryServices`, `moverServices`) | pages, folders, `collection.yml`, links of `navigation.yml` | create, rename, move, reorder, delete | RepoService, wrappers | the order lists exactly the pages there are; no page is lost on its way | `Collections` |
| Review requests (`routes/.../review.ts`, `ReviewRequestService`) | rows, reviewers, meta, views, pull requests | create, update, approve, unapprove, close, merge, view | GitHub, database, lock | rows and GitHub agree, both ways; merging needs an approval | `ReviewRequest` |
| Review comments and diffs | comments, times of viewing | comment, list, mark | database, clones | a comment later than the mark counts as new; a review hides no change | `ReviewDiscussion`, `EfsRepos` |
| Site launch (`InfraService`, `LaunchesService`, `DynamoDBService`) | status of site and job, records, item | launch from CMS or form, poll | step function, DynamoDB, database | a site shown as live is live; launches settle | `SiteLaunch` |
| Site creation (`InfraService.createSite`) | rows, repository, Amplify apps, clones | create from a form | GitHub, Amplify, EFS, mail | a site that looks ready is complete; one that is not is not shown as being made | `SiteCreation` |
| Privacy of a site (`SettingsService.updatePassword`) | passwords and flags in four places | set, change, delete | GitHub, Amplify, Netlify, database | the places agree | `SitePrivacy` |
| One-time passwords | rows with attempts | send, verify | database, mail | used once; no more comparisons than allowed | `OneTimePasswords` |
| Users, sessions, authorisation | accounts, sessions | log in, whoami, verify addresses | identity providers | requests run with the rights checked at their start | `People` |
| Collaborators, notifications | memberships, notifications | add, remove; create, read, mark | database | a site keeps an admin; one unread notification per subject | `Collaborators`, `People` |
| GitHub access tokens | rows, timers, knowledge of each server | select, reserve, free, reset | database, GitHub | a reserved token serves one server; reservations end | `TokenPool` |
| Site list cache, mail, DNS, monitoring, audit logs, configuration | none, or external | | | | left out, see below |

## Modules

Specifications hold one action per handler step, written between two points where others
can run (an `await`).  MC modules only give constants their values.

| module | models | composes |
| --- | --- | --- |
| `SiteMutex` | lock, unlock and the write wrapper | abstract specification of every write handler |
| `SiteEdit` | the rollback wrapper, the commits of an edit on both clones, pushes, forced pushes, crashes | implements `SiteMutex` by `Mutex == INSTANCE SiteMutex WITH ...` |
| `GitFileSystem` | one clone and every write operation at the level of paths | gives the ground for what `SiteEdit` takes an operation to do |
| `EfsRepos` | both clones as wholes: repair, clone, pull, reset, merge | an edit is one step |
| `LinkChecker` | the link checker | extends `EfsRepos`, `PageNames` |
| `PageNames` | what a path is to the CMS | operators only |
| `GitHubRepo` | calls of the GitHub API on a tree of files | operators only |
| `SiteContent` | requests as chains of these calls, the wrapper, deletions nobody awaits | extends `GitHubRepo` |
| `Collections` | requests for pages, collections and subfolders, as chains of calls | takes from `SiteEdit` that requests do not overlap and that a failed one is undone; implements `PageStore` by `Store == INSTANCE PageStore WITH ...` |
| `PageStore` | what the editor promises about pages: create, delete, move, rename, each whole or not at all | abstract specification of the requests in `Collections` |
| `ReviewRequest` | handlers of review requests against GitHub and the database | |
| `ReviewDiscussion` | comments and who has seen them | extends `ReviewRequest`: its steps are `RequestStep` |
| `SiteLaunch` | launches, step function, polls | |
| `SitePrivacy` | rows, repository, apps of a site and changes of its privacy | |
| `SiteCreation` | the creation of a site | extends `SitePrivacy` |
| `OneTimePasswords` | sending and verifying | |
| `Collaborators` | members and notifications of a site | |
| `People` | accounts, sessions, authorisation, the requests | extends the two above |
| `TokenPool` | access tokens and servers | |
| `CloneProofs` | theorems about `SiteMutex` and `GitFileSystem` | extends both, which share no names |
| `GitHubProofs` | theorems about `TokenPool` and `SiteContent` | extends both, likewise |
| `SiteLifeProofs` | theorems about `SiteLaunch` and `SiteCreation`, with `SitePrivacy` | extends all three |
| `SiteEditProofs`, `CollectionsProofs`, `LinkCheckerProofs` | theorems about the module of that name (the last with `EfsRepos`) | |
| `ReviewRequestProofs` | theorems about `ReviewRequest` and `ReviewDiscussion` | |
| `PeopleProofs` | theorems about `People`, with `OneTimePasswords` and `Collaborators` | |
| `MC*` | constants for TLC, symmetry | |

How state and actions correspond to code (`PROJECT.json` "map" has the lines):

**SiteMutex.** `items` is the mutex table, with the primary key `repo_id`.  `Lock` is the conditional
put, which is refused for any error, including one whose write went through.  `Expire` is
DynamoDB's deletion; since nothing bounds the time of a handler, an item may expire at any
time, and the history variable `overran` remembers the requests that were inside.  `left` remembers those that may have
gone without their item: dead, refused after the put went through, or with an unlock that threw.

**SiteEdit.** A commit is the set of edits in its history: histories are linear and each
edit is committed once per branch, so ancestry is inclusion and the blob hash of a file is
the set of edits that touched it.  `ReadContent`/`ReadHash` are the two halves of `read`,
which run side by side and without the lock.  `CheckGitFileLock`, `Lock`, `Snapshot`,
`CheckOp`, `CommitOp`, `Rollback`, `ForcePush`, `Unlock` are the steps of a write request;
`EndBranchOp` is what follows an operation on one branch (go on to `staging-lite`, reject,
start the push, go on to the next commit, answer).  `PushRefused` is the check that
a push begins with (`isValidGitRepo`), whose error ends it at once; `PushStarts`, `PushLands`, `PushFails` are the
push, retried and then forced.  A failed `git` command may leave the work tree or the index
changed, and a killed one its `index.lock`.

**GitFileSystem.** An operation is a chain: checks (`Passes`), writing, `git add`,
`git commit`; errors before the commit that the code does not roll back are told from
those it does.  A move is file by file, and a conflict found half way returns without a rollback.  A rename comes to
the checks of its commit after `git mv`, and their error is passed on without a rollback too.
The names of the specification carry its own prefix (`GitInit`, `GitNext`, `GitSpec`, `GitTypeOK`),
as those of `SiteContent` (`ContentSpec`) and `SiteLaunch` (`LaunchSpec`) do, so that a module of proofs can extend two of them.

**EfsRepos, LinkChecker.** A clone is whole, half made or missing, with the edits of its
local branches; `TrackingBranch` is the local `master`, made when it is missing.  A
repair works off the steps of the form's handler (lock, `DoesRepoNeedClone`, pull or clone,
`RemoveLite`, `CloneLite`, `InitLite`, `PushLite`, unlock); edits and merges need the
lock, pushes and the checker do not.  What the checker reads is a tree of pages whose permalinks and
references come with the way they are written (slashes, quotes, query), so that
`HasValidReference` resolves them as the code does.  It reads listings and files one after the other while `SiteChanges`
gives the site another tree: `shown` has the trees there were since it began to read, and `Finds` lets each
listing and each file, on both of its readings, be of any of them.  A page without a permalink is skipped, a file that is gone ends the
check on the first reading and is skipped on the second, and a name that cannot be decoded throws past every handler (`Abandon`).
`tail` has the calls of a failed check that nobody waits for, and `stuck` remembers the checks that left their lock for good.

**GitHubRepo, SiteContent.** A tree maps files to records of the fields that matter.  A request is a
sequence of calls; `Step` makes the next one, on the head of staging for the contents API, on
the tree looked up under the lock for the tree API (`Base`), as `RepoService` chooses.
`late` holds deletions of folders that nobody waits for.

**Collections.** A request is a sequence of calls, `todo`, that it works off one commit at a
time: `Moves` is `MoverService.movePage` in a loop, `TakeCalls` and `PutCalls` are delete and
create of the page services, with the change of `collection.yml` first, as in the code.
`Rollback` may replace any call.  `want` remembers where the requests that succeeded have
put each page, whose content is an identity.
`Asked`, which stands for `pages` of `PageStore`, is what the files have between requests, and what they had
before it while one is under way.  `Updated` has `splice(-1, ...)` for an entry that
is not there, `Including` the substring test.  A save from a list that is out of date (`stale`) is one
that shows other pages or folders than the order does, or puts a page into a folder that is gone.

**ReviewRequest, ReviewDiscussion.** `row` is `reviewStatus`, `pull` is GitHub.  Each handler loads a row
(`Load`), decides, and writes later from what it has loaded; approve, unapprove and close
take no lock, as in the routes.  `linked` holds the requests with a `reviewMeta`.  A time is
the number of comments written so far.  `apart` remembers the requests that a failure between GitHub and
the save, or an approval or withdrawal saved too late, has put out of step with GitHub, until the next close or merge.

**SiteLaunch.** Launches from the CMS first set the status, launches from a form do not.
Both write the launch, its redirections and the DynamoDB item, then start the step
function, which reports by writing the item.  A poll scans the items, fires the deletes
without waiting for them, and updates the site from the items it read.  Polls overlap,
and a late delete removes whatever item the app has.

**SitePrivacy, SiteCreation.** One action per external call, in the order of the code, each of which may fail
(`StepFails`, `ChangeFails`) with what the call may have done; `halfway` remembers which
changes of privacy have stopped between two calls.

**OneTimePasswords, Collaborators, People.** A verification is three steps on the row it
loaded: count, compare, destroy; `CountAttempt` succeeds only if the row in the table still has the number of
attempts loaded.  A row found expired, which any may be, is destroyed in a later step (`DestroyExpired`).  Members and notifications are looked for in one step and written in
another.  `People` has who may ask: a request is checked once, at its start.

**TokenPool.** What a server knows of a token is from answers, which come in any order.
`Occupy` is the search for a reserved token, its booking an update in `writes` that lands
at any time or is rejected, of which nobody learns; `timers` are those of a process and die with it, and so do the updates it has not
sent.  `orphaned` remembers the tokens that lost a timer or an update, and `asked`, the last time that a server asked
for stranded bookings, is forgotten when a clearing update is lost, by a death or a rejection.

## Runs

What each passing run asks, and its properties.

| run | question | properties |
| --- | --- | --- |
| `site_mutex` | Do lock and unlock, which know no owner, exclude handlers, and does an unlock free the site without the help of expiry? | `ExclusiveUnlessOverrun`, `NoTheftWithoutOverrun`, `SiteComesFree` |
| `site_edit` | Two at a time of an edit of two commits, an edit, a rename and a change of an image, on both branches, with a failure anywhere: is anything acknowledged lost, anything failed kept, does every edit have its push? | `AckedEditsSurvive`, `FailedLeavesNoTrace`, `NoLostUpdate`, `AckedEditsArePushed`, `GitHubKeepsAckedEdits`, `ImplementsMutex` |
| `git_file_system` | Does each operation commit what it was asked, or nothing? | `OkCommitsExactlyThat`, `ErrorChangesNothing` |
| `efs_volume` | Edits, merges, repairs, a reset and link checks on the clones of a site: do edits survive, is staging-lite rebuilt right, is the checker locked by somebody only, is the report right although the site changes while it is read? | `AckedEditsKept`, `SyncedMeansSynced`, `ReviewHidesNothing`, `LockHasOwner`, `ReportIsRight` |
| `github_content` | Requests on resource room, media, settings and single pages through the GitHub API: all or nothing, although each is several calls? | `OkDidAll`, `FailedLeavesNothing`, `RoomIsThere` |
| `collections` | After any sequence of requests, some of them rolled back half way: is every page where it was asked to be, listed once, with its folder's title, does every collection load, and is each request one step of `PageStore`? | `OrderListsPages`, `PagesWhereAsked`, `NavFindsPages`, `ImplementsStore` |
| `review_request` | One pull request, two handlers at a time, comments, a failure: do rows and GitHub agree, is what is merged approved, can what is opened be found? | `RowsFollowGitHub`, `MergedOnlyIfApproved`, `OpenPullsAreFound` |
| `site_launch` | A site is launched, and launched again on the same or another domain: does a launch settle, is only a reported success shown as live, are status and records those of the last launch? | `ShownLiveWasLaunched`, `SettledShowsOutcome`, `LaunchSettles` |
| `site_creation` | Two forms and changes of privacy, with two failures: is a site that looks ready complete, are private sites private everywhere? | `ReadyIsComplete` (with `OneSitePerRepo`), `RunningIsUnderWay`, `PrivacyAgrees` |
| `people` | Three interleaved requests to log in, verify, add, remove, notify, read: passwords used once, sites with an admin, one unread notification? | `UsedIsGone`, `GuessesAreBounded`, `SiteKeepsAnAdmin`, `OneUnreadNote` |
| `token_pool` | Two servers through two hours, with two losses (a process dies, an update is rejected): does a reserved token serve one, and does every booking end? | `ReserveIsExclusive`, `TimersRunOut`, `StrandedEndAtStart` |

Every property has a mutant in `PROJECT.json`: a definition of the model changed as a
plausible bug would change the code (the operators named `Bug...`), which breaks that
property under that run.  `TypeOK` states the types of the variables of each specification; it is
a theorem for each, and any configuration can list it.

What the properties hold *up to* is part of the result:

- Exclusion, and everything built on it, holds until a handler outlives its lock item (60 s
  by default); the items carry no owner, so afterwards `unlock` may free another's lock.
- `SiteComesFree` excepts a request that died, one whose unlock threw and one that was refused although its put
  went through; what they leave only DynamoDB's expiry removes.
- `FailedLeavesNoTrace` excepts requests whose rollback, tried five times, fails, and its
  second half, that staging-lite is staging without assets, crashes.
- `AckedEditsArePushed` excepts edits whose forced push fails too, whose push was refused by the check it begins
  with, or whose process died.
- `ErrorChangesNothing` says for every operation that an error has not moved the branch.  The clone may be left dirty
  by the exits it names (a move that meets a conflict half way, a rename whose commit fails its checks, a rollback that fails);
  in `SiteEdit` the wrapper's rollback cleans up after them.
- `AckedEditsKept` excepts edits that a reset or a repair drops on purpose, and those whose push had failed
  before their clone was replaced; `SyncedMeansSynced` excepts repairs that meet others at work.
- `OkDidAll`, `FailedLeavesNothing` and `RoomIsThere` hold until a deletion of a folder, which
  nobody waits for, lands late.
- `MergedOnlyIfApproved` says that an admin other than the requestor approved at some time,
  not that the approval stands when GitHub merges.
- `RowsFollowGitHub` has three parts: an ended row has a pull request that ended so, a row of an open pull request is
  active, an active row has an open pull request.  The last excepts a close or merge about to save, one that failed between GitHub and the save, and an
  approval or withdrawal saved when the pull request had ended, which sets an ended row back.
- `LockHasOwner` excepts a failed clone, something thrown while reading, a lock file written but reported as failed, a dead process,
  and a last deletion that failed: each leaves `checker.lock` for good.
- `ReportIsRight` speaks of links of pages that are the same all the while: a link is not reported if it leads somewhere all
  the time, and is if it never does.  Queries and links that are neither rooted nor external are left out, as are pages that could not be read.
- `LaunchSettles` and `SettledShowsOutcome` hold for launches that neither overlap nor are
  cut short by a failure; the code does not recover the others.
- `PrivacyAgrees` excepts what a change that stopped half way has left; `RunningIsUnderWay` a process that died.
- `UsedIsGone` allows two verifications that overlap to accept one password; `GuessesAreBounded` excepts
  passwords sent while a verification is under way; `SiteKeepsAnAdmin` excepts deletions of two different admins
  that overlap, `OneUnreadNote` searches for one notification that do.
- `ReserveIsExclusive` excepts searches that overlap, and with `TimersRunOut` tokens of whose row an update or a timer was lost, with
  a server or by a rejection; `StrandedEndAtStart` a start whose clearing update was lost so.
- `OrderListsPages` holds until an order is saved that is out of date, which the code does not
  notice, and in sites where no subfolder's name ends with another's (`Tails = {}`).  A page put into
  a folder that is gone brings the folder back without its `.keep`: renamed, it has a `.keep`
  that the order does not list.  The other properties of `collections` have neither exception.

## Disagreements found

`site_edit_unseen` is a run that expects a violation: it checks the sentence "File has been
changed recently, please try again" (`GitFileSystemService.ts:1292`), which the code does not keep. A page
read while an edit commits pairs old content with the new hash, so saving it
overwrites that edit, with no failure of the environment.

The models also show the following, each with the definition and the configuration named, to
be run by hand; they are not among the runs.

| configuration | violated | sentence | what happens |
| --- | --- | --- | --- |
| `SiteEditMirror` | `GitHubMirrorsEFS` | "EFS is the source of truth" (`GitFileSystemService.ts:751`) | a push that has read its head lands after the forced push of a rollback (needs one failed commit) |
| `SiteEditLiteAhead` | `LiteNotAheadOnGitHub` | "We don't want a case when staging lite updates but staging doesn't" (`GitFileCommitService.ts:28`) | the lite push of one edit carries the next edit to GitHub before its staging push |
| `GitDeleteMany` | `DeleteManyHashProtects` | "File has been changed recently ..." (`GitFileSystemService.ts:1512`) | an async callback in `every` is always true: the hashes are never compared |
| `ReviewApproveRace` | `ApprovesOnlyOpen` | "Only allow approving review requests that are currently open" (`review.ts:827`) | an approval that loaded the open row is saved after the close |
| `ReviewComments` | `LaterCommentsAreNew` | "It is a new comment to the user if any of the following conditions satisfy" (`ReviewRequestService.ts:691`) | the comments of the database and of GitHub are merged by their text (`unionBy`, line 1220): one that repeats an earlier one is neither shown nor counted |
| `SiteLaunchDelete` | `DeletesOnlyRetrieved` | "Delete after retrieving the items" (`DynamoDBService.ts:73`) | a late delete removes the item of a later launch |
| `SiteLaunchOverlap` | `OneLaunchAtATime` | "This prevents users from retrying" (`InfraService.ts:301`) | nothing looks at the status of a site before a launch starts |
| `Collections`, with `Tails <- OneTail` | `OrderListsPages` | | deleting the subfolder "Team" also takes the pages of "Our Team" out of the order (`item.includes("Team/")`, `CollectionYmlService.js:139`) |

What the models contain, the properties except, and a reader of the code may not expect:

- **GitHub flow.** `deleteDirectory` is not awaited (`RepoService.ts:437`): its tree, built on the state at the
  start of the request, is made the head by force after the request was answered. It can drop the
  change of the config that `deleteResourceRoom` makes next, or an acknowledged change of the next request.
- **Pushes.** A push whose first check (`isValidGitRepo`) fails is not tried again: the edit stays on EFS until a
  later push of its branch.
- **Tokens.** An update of a row that is rejected, at a booking, its end, or the start, is noticed by nobody: the server goes on with a token that is
  free, or the booking stays until a server starts.  While a server is to use reserved tokens and the one it has is exhausted, every
  request books another without storing it. A reserved token kept beyond its hour is used
  though it is no longer booked. Until a booking lands the search finds the same token again. Two first requests
  initialise twice, and forget what was known in between.
- **Passwords.** Two verifications that overlap accept one password. One that loaded the old
  row, or found it expired, destroys the new password. Sending sets the attempts back to 0, so a verification under way
  passes the comparison of the count.
- **People.** Two admins who delete each other leave a site without one. A user with two rows on the whitelist gets
  the role of either. Marking as read covers what came after the list was shown. Marking by an Isomer admin who is
  no member is an error. `whoami` ends the session of an e-mail user whose address has changed.
- **Creation.** An error returned by `collaboratorsService.create` is ignored. A failed site
  keeps its name and repository, so a second try fails too. The death of the process leaves
  `RUNNING` for ever. The second Amplify app is made although the first has failed.
  A site whose clone fails is `READY`, and its requester is mailed a failure.
- **Privacy.** A change that fails between GitHub and the site's row, followed by a new
  password, leaves a site shown as private with a public repository. A failed change to public can leave a private site with no
  password, which `getPassword` then decrypts. Netlify is told without waiting, also for a site
  without a deployment, whose change is then refused, and never told back.
- **Reviews.** An approval or its withdrawal that is saved after a close or a merge makes the ended request active again; a
  close or merge whose save fails leaves it active. A request
  without its `reviewMeta`, while or after its creation fails, makes the listing of the dashboard throw.
- **Repair and links.** `doesRepoNeedClone` catches its own answer. A repair that fails keeps
  its lock until it expires. A clone that fails leaves `checker.lock` for ever, and so does a
  link such as `/50%`: `decodeURIComponent` throws past every handler, and the process lives on. During a first check the status is
  "error". Query strings are kept by an inverted test (`RepoCheckerService.ts:825`). Duplicates are found by comparing
  raw with normalised permalinks. A site without `files` or `images` cannot be checked.

## Bounds

| constant | value | why it is enough |
| --- | --- | --- |
| `Requests` (mutex) | 3 on one site, 1 on a site exempt from locking | two may compete while the third still holds or has overrun |
| `Requests`, `MaxServed` (edits) | 4 kinds, 2 served | every pair of kinds; a conflict, a rollback, or a push past a rollback has two parties |
| `Files` (edits) | 3: a page, `collection.yml`, an image | one in common, one touched by one request only, one that staging-lite has not |
| `PlainPushes` | 1 (the code has 2) | one attempt that is not forced shows all that a second does |
| `Dirs`, `Names`, `Contents` | 2 each | a source and a target, a file that moves and one that stays, an old and a new version |
| `Edits`, `MaxJobs`, `MaxEdits` (EFS) | a page and an image, 2 jobs of any kind beside them; one job and no edit where the files change | a repair or reset meets a check, or another repair; what a check reads depends on the files alone |
| `Histories` (links) | 3 states of up to 4 pages of one site; 2 bare sites that stay as they are | every way to write a link, duplicates, a page with no place in the CMS, pages and media that come and go while they are read; for the clones it is enough that a check finds nothing, fails or throws |
| `MaxRequests` (content) | 3, from an empty or a grown site | create, then rename, then what depends on the new name |
| `Calls` | 2 | every race of the handlers is between two |
| `MaxPulls`, `MaxComments`, `Viewers` | 1, 2, one admin | a comment before and one after the listing; the theorems cover any number of pull requests |
| `Launches`, `Polls`, `Domains` | 2 each | one launch after or over another, one poll over another |
| `Submissions`, `SiteNames`, `Repos`, `Passwords` | 2 each, 3 requests | two forms for one repository, with a change of privacy of an older site |
| `Ips`, `Emails`, `Slots`, `Changers` | 2 each, 3 requests | two verifications, deletions or notifications that overlap, and a third that comes between |
| `MaxAttempts`, `MaxSent` | 1, 2 | one attempt too many, a password after another |
| `MaxNotes`, `MaxMembers` | 2, 3 | a notification too many; members go and come |
| `Servers`, `Hour`, `MaxNow`, `MaxLosses` | 2, 1, 2, 2 | a booking is made, ends, and is over; one loss strands it, the next takes the update that clears it |
| `Cols`, `Subs`, `Names`, `Pages` | 2 each | a source and a target of every move and rename, a page that goes and one that stays |
| `MaxItems`, `MaxStale` | 2, 1 | a move that stops between two pages; one save that is out of date, and all that follows |
| `MaxSize` | 4 | files, collections and outdated saves together: two pages and a `.keep` in one collection, or two collections with a page each |
| `MaxFaults`, `MaxFailures` (launches) | 1; 2 in `site_creation` | a fault anywhere, with all that follows it; there, a second one while the first is being handled |

These bound failures of the environment (git, disk, network, database, crashes);
the others bound what is asked of the system.  Everything else is
finite by itself: a request or launch is served once, a push is retried at most `PlainPushes`
times.  The theorems have none of these bounds except as arbitrary constants.

`CHECK_DEADLOCK FALSE` is set where requests, launches or time are finite in number, and the system
stops when all are served; `GitFileSystem`, `ReviewRequest` and `Collections` serve operations
without end and are checked for deadlock.

## Fairness

- A handler that has started goes on (`WF` of its step): the event loop resumes each promise
  that is settled, and git, GitHub and the databases answer or time out.  Nothing forces a
  request to begin, nor a process not to crash.
- DynamoDB's expiry is not fair: `SiteComesFree` is about what unlock does, and expiry would free any item.
- A step function ends with an outcome, and polls start every 30 s (`setInterval`), scan, and
  update the sites.  Neither crashes nor failures are fair.

Liveness is checked under these in `site_mutex` and `site_launch`, without
symmetry reduction.  Elsewhere what must eventually happen is stated as a safety property: whatever
is not done yet has someone still to do it (`AckedEditsArePushed`, `TimersRunOut`,
`RunningIsUnderWay`, `LockHasOwner`), which needs no fairness.

## Proofs

TLAPS proves, for every value of the constants that the modules' assumptions admit:

| module | theorem | property |
| --- | --- | --- |
| `CloneProofs` | `MutualExclusion`, `LockNotStolen` | `ExclusiveUnlessOverrun`, `NoTheftWithoutOverrun` |
| | `CommitsAreExact`, `ErrorsAreClean` | `OkCommitsExactlyThat`, `ErrorChangesNothing` |
| `SiteEditProofs` | `SavedIsSafe`, `NothingOverwritten`, `NothingForgotten`, `FailureIsClean` | `AckedEditsSurvive`, `NoLostUpdate`, `AckedEditsArePushed`, `FailedLeavesNoTrace` |
| | `GitHubForgetsNothing` | `GitHubKeepsAckedEdits`, of every step |
| | `EditsUseMutex` | `ImplementsMutex`: `SiteEdit` implements `SiteMutex` |
| `ReviewRequestProofs` | `RowsAgree`, `MergeNeedsApproval`, `CreationCompletes` | `RowsFollowGitHub`, `MergedOnlyIfApproved`, `OpenPullsAreFound` |
| | `RowsEndAfterGitHub`, `OpenPullsClosable` | two parts of `RowsFollowGitHub` |
| | `RowsAgreeThroughout` | `RowsFollowGitHub`, of `DiscussionSpec` |
| `CollectionsProofs` | `OrdersListPages` (with `Tails = {}`), `PagesAreWhereAsked`, `NavAndTitlesFindPages` | `OrderListsPages`, `PagesWhereAsked`, `NavFindsPages` |
| | `RequestsAreSteps` | `ImplementsStore`: `Collections` implements `PageStore` |
| `SiteLifeProofs` | `ShownLiveIsLive`, `OutcomeIsShown` | `ShownLiveWasLaunched`, `SettledShowsOutcome` |
| `LinkCheckerProofs` | `EditsAreKept`, `RepairsSync`, `ReviewsAreWhole` | `AckedEditsKept`, `SyncedMeansSynced`, `ReviewHidesNothing` |
| | `LocksAreOwned`, `ReportsAreRight` | `LockHasOwner`, `ReportIsRight` |
| `GitHubProofs` | `SuccessIsWhole`, `FailureIsUndone`, `NamedRoomIsThere` | `OkDidAll`, `FailedLeavesNothing`, `RoomIsThere` |
| | `TokensAreExclusive`, `BookingsEnd`, `StrandedAreCleared` | `ReserveIsExclusive`, `TimersRunOut`, `StrandedEndAtStart` |
| `PeopleProofs` | `PasswordsAreSpent`, `GuessesAreCounted` | `UsedIsGone`, `GuessesAreBounded` |
| | `AdminsRemain`, `NotesAreOne` | `SiteKeepsAnAdmin`, `OneUnreadNote` |
| | `RepositoriesAreOwned`, `ReadySitesAreComplete`, `RunningSitesAreMade`, `PlacesAgree` | `OneSitePerRepo`, `ReadyIsComplete`, `RunningIsUnderWay`, `PrivacyAgrees` |
| each | `TypeCorrect` (`CloneTypes`, `CollectionsTypes`, `ContentTypes`, `LaunchTypes`, `TokenTypes`) | `TypeOK` of each specification |

In each module `Invariance` (`CloneInvariance`, `FullInvariance`, `DiscussionInvariance`,
`TokenInvariance`, `ContentInvariance`, `LaunchInvariance` where a module has a second one,
`CollectionsInvariance`) says that the
inductive invariant is one; the theorems above follow from it.

What is assumed of the constants, beside their being of the right kind (`ASSUME` in each module, and
evaluated by TLC in each run):

- Each request has a site; each edit makes at least one commit; an attempt, a password and an hour
  are allowed at least (`MaxAttempts`, `MaxSent`, `Hour` are not 0).
- The admins and the viewers of a review are users, the Isomer admins are members' ids, the media are edits.
- A marker for "nothing" is not a thing: `Absent` a content, `None` a launch, `NoToken` a token, `NoRow` a row,
  `NoPassword` a password, `"none"` a room, `Unlinked` a collection, `Top` a subfolder, `Keep` a name.  Tokens are active or reserved.
- There is a room, a category, an album and a text, of which the grown site takes one each; no
  picture is called `index.html`.
- The pages of a site, and the names that pages can have, are finite in number.

The arguments:

- **Lock.** Exclusion alone is not inductive: a request must know that its item is still
  in the table, or the next `Lock` would let a second one in.  `ItemBacksHolder` adds it.
  What takes the item away from under a request is an expiry, which sets `overran`, or
  an unlock by another request inside, of which there is none.
- **Operations on a clone.** An operation that begins clean takes index and work tree in step from
  `start` to `Intended`, write by write, add, commit (`ChainInv`); that each file written has its directory is
  what its checks have seen to (`RoomInv`).  What is committed is the index, so a success is
  exactly what was asked.  The branch moves in the commit alone, so no error has moved it.
- **Edits.** `AckedEditsSurvive` is threatened by resets.  A reset goes to `base[r]` (head
  when the operation began) or `snap[r]` (head when the request began).  `IInv` says that
  each of these has every acknowledged edit: true when it is read, because the clones
  have them, and kept, because nobody acknowledges while the request is inside (exclusion,
  carried along in `IInv`), and the request itself does so only as it leaves.  The second
  part is that the edits of a request are all committed when it answers `ok`: the operations
  behind the current one are on both branches, the current one on staging once it is on to
  `staging-lite`.  All of it is conditional on no lock having expired under a request.
  `EditsUseMutex` maps each step to one of `SiteMutex` or a stutter; it needs `TypeOK` only.
- **Pushes, failures, lost updates.** On the same condition, `MoreInv` follows an edit everywhere it can be: the disk, GitHub, the
  heads of requests and of pushes.  It is nowhere before it is made (`FreshInv`), so what a request
  resets to, or a push carries, cannot have it early.  GitHub has of the kept edits what the clone has, and
  no push has seen one that it does not send (`RemoteInv`): a forced push takes none away.  Each has landed, has a push or was
  given up, by the first check or after the last try (`PushInv`).  What has passed the check of its hash has seen the acknowledged edits of its file
  (`SeenInv`).  A request that has failed is in no head anybody resets to (`TraceInv`), and the two
  clones agree but for the commit being made (`AgreeInv`, `LiteInv`).
- **Review requests.** Rows are written from stale loads, so the invariant is about what a
  handler carries with it: a close that is about to save has closed the pull request, a merge
  that is about to call GitHub has seen an approval by an admin other than the requestor.
  Both facts are stable: GitHub reopens nothing here and approvals are remembered.  That an active row has an open pull request can fail only
  where a handler returns without its save, or writes a row whose pull request has ended, and both go into `apart`.
  Creation is the only handler at work on its row until the row is linked.
- **Discussion.** Handlers and marks share the views and nothing else, so what `ReviewRequest` proves carries over.
- **Launches.** A `SUCCESS` is in an item only after the step function has reported it,
  whatever overlaps (`SuccessesAreReal`).  For `OutcomeIsShown`, an undisturbed launch is
  in one of three phases, the handler at work, the step function at work, or the polls, and
  for each `IInv` says where the last outcome is: nowhere, in the item, or in what a poll
  has scanned and not yet written.
- **EFS.** An acknowledged edit is in the clone or, while there is no whole one, on GitHub (`KeptInv`); what
  the clone knows of `master` GitHub has (`MasterInv`), so a review compares with no more than was merged.
  A repair that has met no other job holds the lock (`MeetInv`), so nothing comes between its steps and
  `staging-lite` is what it has built (`BuiltInv`).
- **Links.** A report is right from the step that computes it (`ReportsInv`).  Whatever of the trees each file was read from, the paths collected lie
  between those that were always there and those that ever were; a lemma for each way in which a link leads somewhere or not carries
  this over to what is reported.  Nothing in it depends on the order of the pages.
- **Lock of the checker.** Behind the lock is a check between its creation and its deletion, or one that has failed and whose
  deletion is still to come (`tail`), or an exit that was remembered in `stuck`.
- **Collections.** Between requests a site is `Sound`: an order lists what its collection has (`Orderly`), every
  page is where it is wanted (`Placed`), keys and links are right (`Tended`).  Half way through a request none of this
  need be so, and what is missing depends on the calls it still has to make.  So `Underway` has a predicate for each form that `todo` takes.
  In `Taking` the order lacks the page that is still in its old place; in `Putting` it has the one that is in hand; in
  `Reputting` the files are in two folders and the order names neither rightly, until the last call renames it.  `Heading` says of
  the pages that are still to move where the rest of the request takes each: to the place it is wanted at, unless one is in the
  way, in which case the next call throws.  `before` is `Sound`, which is all that `Rollback` needs.  Below this are the lemmas about
  orders: what inserting, deleting, filtering, renaming, showing (`YmlToObj`) and saving one does to its items, to their being there once, and
  to the entries of a folder being next to each other (`Tidy`).
- **Requests as steps.** `Asked` changes with the last call of a request alone, and by then the files are those wanted
  (`PagesWhereAsked`), so what is left is what a request wants: `Whole` remembers it from its first call on.  Either it deletes
  (`Erased`), or it leaves each page somewhere (`Rearranged`), none of its calls takes one away (`Sparing`) and what the
  site had is in the files or in hand (`Unlost`).  The latter is why a rename or a move onto another page, which `want` would
  count as overwritten, stops at the call that would have done it.
- **Content.** A request is a chain of calls (`Chain`): a tree call comes before any
  change, so it builds on the head, and after a deletion that nobody waits for only the config is
  written.  So staging and what the calls make of it one after the other (`want`) are the same, or differ by
  the one deletion still to land, which commutes with the writes of the config (`SyncInv`).  A handler
  that makes, renames or deletes a room has in its chain what the named room is still owed (`RoomPending`).
- **Tokens.** A token nobody raced for goes round: free, found by one search, its booking being written, booked with
  one timer, its end being written (`CleanInv`); the server that keeps it within its hour is the one with the timer.
  With races only `BookedInv` holds: what is booked has a timer, or its end is being written.  An update that is
  rejected, or dies with its server, puts its token into `orphaned` and out of these claims.
- **Passwords.** A row and the verifications that have loaded it count the same attempts for a password
  (`GuessInv`); a password is in one row at most and in none after its use (`PasswordInv`).
- **Members, notifications.** Whoever has counted the admins knows of another one than the member he deletes, until a second
  deletion of an admin overlaps with his (`MembersInv`).  What a request has found is what there is when it writes
  (`FoundInv`, `NotesInv`), unless another has found the same.
- **Creation and privacy.** A submission at work has a site and a repository that no other has
  (`HoldsInv`), and all that its steps so far have made (`DoneInv`), which none of the others
  undoes.  A site without a deployment has not had its privacy changed (`UnchangedInv`), so the two meet only in
  sites that are complete; a change has set what its steps so far set (`ChangeInv`).

TLC has checked each inductive invariant before its proof, on the instance of the module's run (where two failures
decide, with two).  Two things came out of it.  `StrandedEndAtStart` was too strong: the update of a start
that clears the booking may be lost too, which one loss alone cannot
show; hence `asked` and two losses in the run.  And the longest request on content makes eight
calls, not six.

Only model-checked:

- Liveness (`SiteComesFree`, `LaunchSettles`): the prover has neither `ENABLED` nor fairness.
- That the specifications fit together, beside the two refinements: `SiteEdit` takes an operation to
  do what `CloneProofs` proves of `GitFileSystem`, and `Collections` takes from `SiteEdit` that
  requests do not overlap, by reading and not by refinement.

The induction theorems of the library are out of reach of the installed provers, because they take an operator.  Where a fold or a recursive
function is met (`FlattenSeq`, `YmlToObj`), `CollectionsProofs` gets by with the least number of which a claim fails (`LeastNat`).
No module with a theorem reaches a `RECURSIVE` operator.

## What is not modelled

- Contents of files, names, messages, mails, logs: no property is about them.
- The clock.  Expiry and timeouts happen at any time after they are armed, which
  contains every real timing; `TokenPool` has a coarse one.
- Identity providers, mail and SMS services, DNS, the builds of Amplify and Netlify: external, and
  without state that the backend relies on later.
- The cookies of the OAuth and sgID hand-shakes, the expiry of sessions, rate limiters: state of
  libraries and of the browser.
- Quotas of tokens as numbers: `TokenPool` knows whether one is low.
- The site list cache: one map that a timer replaces; a slow refresh can put back an older list
  until the next.
- Who edited an item of a review, and its address on the staging site: reads of the commit log.
- Monitoring, statistics, audit logs, notices to collaborators, isobot: reads, mails and messages; no state of
  the backend changes.
- Configuration, validators, error classes, logging, database migrations and declarations of
  models: wiring.

## Plan

1. One abstract specification of an edit (all or nothing, nothing acknowledged is lost) that
   `SiteEdit` and `SiteContent` both implement, each by the invariant it already has.
2. The author of an edited item and the filters of audit logs, if a property about them
   comes up.

## How to run

    tlc -workers 2 -config SiteEdit.cfg MCSiteEdit
    tlapm SiteEditProofs.tla

`PROJECT.json` names the module and configuration of each run.  The longest run takes about
two minutes, the longest proof (`CollectionsProofs`) about eight.
