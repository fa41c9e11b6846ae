----------------------------- MODULE LinkChecker ------------------------------
(***************************************************************************)
(* The broken link checker of a site (RepoCheckerService), which reads the *)
(* staging clone of EfsRepos, makes it if it is not there, and keeps three *)
(* files of its own: checker.lock, error.log and the report log.csv.       *)
(*                                                                         *)
(* A check reads the site file by file, in any order and over many awaits, *)
(* and does not take its lock: shown has every tree the site had in the    *)
(* meantime, and each look at a file finds it as one of them has it.       *)
(* Edits, pulls, resets and checkouts, which are sets of edits in EfsRepos, *)
(* are here any change from one tree to another.                           *)
(*                                                                         *)
(* Data.  A tree is the pages, each with the permalink of its front matter *)
(* (there may be none) and the references in its text, the media files,    *)
(* and which of the folders files and images exist.  A permalink or a      *)
(* reference is a name with the way it is written: a slash before or after *)
(* it, quotes, a query string, a scheme.                                   *)
(***************************************************************************)
EXTENDS EfsRepos, PageNames, SequencesExt

CONSTANTS
  Checks,      \* runs of runBrokenLinkChecker, by users and by the form for admins
  Histories,   \* of each site there may be: the contents it may have, one after the other
  Undecodable, \* names that decodeURIComponent throws on
  MaxJobs,     \* bound, by the contents of the site: repairs, resets and checks begun
  MaxEdits     \* bound, by the contents of the site: edits acknowledged

\* What a site may have: files as PageNames has them, permalinks, references, pages.
Files == [dirs : Seq(STRING), name : STRING, ext : STRING, layout : STRING]
Links == [name : STRING, slash : BOOLEAN, tail : BOOLEAN, quoted : BOOLEAN]
References == [name : STRING, slash : BOOLEAN, tail : BOOLEAN, query : BOOLEAN, external : BOOLEAN]
Pages == [file : Files, permalink : SUBSET Links, refs : SUBSET References]
Contents == [pages : SUBSET Pages, media : SUBSET STRING, room : STRING, dirs : SUBSET {"files", "images"}]

\* What is seen where there is no folder of the site.
NoFiles == [pages |-> {}, media |-> {}, room |-> "none", dirs |-> {}]

Trees == UNION Histories

ASSUME LinkCheckerAssumption ==
  /\ Trees \subseteq Contents /\ Trees # {}
  /\ \A t \in Trees : /\ IsFiniteSet(t.pages)
                      /\ \A p, q \in t.pages : p.file = q.file => p = q
                      /\ \A p \in t.pages : \A l, m \in p.permalink : l = m
  /\ MaxJobs \in [Trees -> Nat] /\ MaxEdits \in [Trees -> Nat]

VARIABLES
  tree,         \* the files of the site, as far as there is a clone
  shown,        \* of each check that is reading: the trees the site had meanwhile
  checkerLock,  \* checker.lock exists
  errorLog,     \* error.log exists
  report,       \* log.csv: what the last check found
  at,           \* where each check is
  mine,         \* checks that cloned the repository themselves
  found,        \* errors a check has found and not yet written
  tail,         \* calls of a failed check that nobody waits for
  stuck         \* history: since checker.lock was last deleted, a check has ended that left it

filesVars == <<checkerLock, errorLog, report>>
ownVars == <<tree, shown, filesVars, at, mine, found, tail, stuck>>
vars == <<efsVars, ownVars>>

CheckSteps == {"look", "deleteLog", "createLock", "clone", "cloning", "check", "report",
               "remove", "unlock"}
Holding == {"clone", "cloning", "check", "report", "remove", "unlock"}
NoReport == [exists |-> FALSE, whole |-> FALSE]

\* What writeFile leaves that fails half way.
CutReport == [exists |-> TRUE, whole |-> FALSE]

TypeOK ==
  /\ EfsTypeOK
  /\ tree \in Trees /\ shown \in [Checks -> SUBSET (Trees \cup {NoFiles})]
  /\ checkerLock \in BOOLEAN /\ errorLog \in BOOLEAN /\ stuck \in BOOLEAN
  /\ at \in [Checks -> CheckSteps \cup {"idle", "done"}]
  /\ mine \subseteq Checks
  /\ DOMAIN found = Checks
  /\ report.exists \in BOOLEAN /\ report.whole \in BOOLEAN
  /\ \A c \in Checks : found[c].exists \in BOOLEAN /\ found[c].whole \in BOOLEAN
  /\ tail \in [Checks -> SUBSET {"unlock", "log"}]

Init ==
  /\ EfsInit
  /\ tree \in Trees /\ shown = [c \in Checks |-> {}]
  /\ checkerLock = FALSE /\ errorLog = FALSE /\ stuck = FALSE
  /\ report = NoReport
  /\ at = [c \in Checks |-> "idle"]
  /\ mine = {}
  /\ found = [c \in Checks |-> NoReport]
  /\ tail = [c \in Checks |-> {}]

-----------------------------------------------------------------------------
(* What the checker reads, and makes of it                                 *)

\* normalisePermalink: quotes off, a slash in front.
Normalise(l) == [l EXCEPT !.quoted = FALSE, !.slash = TRUE]

\* A clone that is being made shows some of its files.
Visible == CASE stg.dir = "repo" -> {tree}
             [] stg.dir = "cloning" -> {tree, NoFiles}
             [] OTHER -> {NoFiles}

Versions(trees) == UNION {t.pages : t \in trees}
HasFile(t, file) == \E p \in t.pages : p.file = file

\* getMapOfMdFilesAndViewableLinkInCms: the markdown pages, each with its address in the
\* CMS; a page that has none is left out and the check goes on without it.
Listed(t, file) == IsMarkdownPage(file) /\ HasPathInCms(file, t.room)
Places(trees) ==
  UNION {{<<p.file, PathInCms(p.file, t.room)>> :
            p \in {p \in Versions(trees) : Listed(t, p.file)}} : t \in trees}
Listings(trees) ==
  {map \in SUBSET Places(trees) :
     /\ \A x, y \in map : x[1] = y[1] => x = y
     /\ \A p \in Versions(trees) :
          (\A t \in trees : HasFile(t, p.file) /\ Listed(t, p.file))
             => \E x \in map : x[1] = p.file}

\* What reading these files may give: of each the page of one of the trees, or no page.
Readings(trees, files) ==
  {pages \in SUBSET {p \in Versions(trees) : p.file \in files} :
     \A p, q \in pages : p.file = q.file => p = q}
ReadsAll(pages, files) == \A f \in files : \E p \in pages : p.file = f

\* getAllMediaPath: the files in the two folders.
MediaListings(trees) ==
  {media \in SUBSET UNION {t.media : t \in trees} :
     \A m \in UNION {t.media : t \in trees} : (\A t \in trees : m \in t.media) => m \in media}
Folders == {"files", "images"}
FoldersFound(trees) == \A d \in Folders : \E t \in trees : d \in t.dirs

\* getAllPermalinks: the files are read side by side and each looks for its permalink, as
\* it is written, among those of the files read before it, as they are normalised.
IsPost(p) == \E i \in DOMAIN p.file.dirs : p.file.dirs[i] = "_posts"
ReadBefore(order, i) == {Normalise(l) : l \in UNION {order[k].permalink : k \in 1..(i - 1)}}
DuplicatePermalinks(order) ==
  UNION {{l.name : l \in order[i].permalink \cap ReadBefore(order, i)} :
           i \in {i \in DOMAIN order : ~IsPost(order[i])}}

Plain(name) == [name |-> name, slash |-> TRUE, tail |-> FALSE, quoted |-> FALSE]
Permalinks(pages, room) ==
  {Normalise(l) : l \in UNION {p.permalink : p \in pages}}
    \cup {Plain(name) : name \in {room} \ {"none"}}

\* isExternalLinkOrPageRef
IsExternal(ref) == ref.external

\* mediaPathDecoder: a path with a query string keeps it (its test is the wrong way
\* round), so no such path is one of the paths of the site.
DecodesTo(ref) ==
  IF ref.query THEN {}
  ELSE {[name |-> ref.name, slash |-> ref.slash, tail |-> ref.tail, quoted |-> FALSE]}

\* Mutation: a path without the slash that the server would add is not looked for.
BugHasValidReference(paths, ref) == IsExternal(ref) \/ DecodesTo(ref) \cap paths # {}

\* hasValidReference
HasValidReference(paths, ref) ==
  \/ IsExternal(ref)
  \/ \E p \in DecodesTo(ref) :
       p \in paths \/ (~p.tail /\ [p EXCEPT !.tail = TRUE] \in paths)

\* A page without a permalink is skipped, and so is one that cannot be read any more.
Parsed(pages) == {p \in pages : p.permalink # {}}
Throws(p) == \E ref \in p.refs : ~IsExternal(ref) /\ ref.name \in Undecodable

\* checker: the references that lead to none of the paths, each with the address of its page.
BrokenReferences(places, paths, pages) ==
  UNION {{<<x[1][2], ref>> : ref \in {ref \in x[2].refs : ~HasValidReference(paths, ref)}} :
           x \in {y \in places \X Parsed(pages) : y[1][1] = y[2].file}}

\* What is written, with the trees it was read from and what could not be read as notes of
\* the model.
Report(trees, unread, links, duplicates) ==
  [exists |-> TRUE, whole |-> TRUE, of |-> trees, unread |-> unread,
   links |-> links, duplicates |-> duplicates]

\* What a check can find that is not cut short: it has read every listed file for its
\* permalink, and then once more for its references.
Finds(c, trees, unread) ==
  \E places \in Listings(trees), media \in MediaListings(trees), room \in {t.room : t \in trees} :
    LET files == {x[1] : x \in places}
        kept == {f \in files \ unread : \A t \in trees : HasFile(t, f)} IN
    \E first \in Readings(trees, files), pages \in Readings(trees, files \ unread) :
      /\ ReadsAll(first, files) /\ ReadsAll(pages, kept)
      /\ media \cap Undecodable = {} /\ \A p \in Parsed(pages) : ~Throws(p)
      /\ \E duplicates \in {DuplicatePermalinks(order) : order \in SetToSeqs(first)} :
           found' = [found EXCEPT ![c] = Report(trees, unread,
                       BrokenReferences(places,
                         Permalinks(first, room) \cup {Plain(m) : m \in media}, pages),
                       duplicates)]

\* A folder or a listed file is not there when it is read.
MayFail(trees) ==
  \/ \E t \in trees : t.dirs # Folders
  \/ \E p \in Versions(trees), t, u \in trees : Listed(t, p.file) /\ ~HasFile(u, p.file)

\* decodeURIComponent throws on the name of a media file or on a reference of a page.
MayThrow(trees) ==
  /\ FoldersFound(trees)
  /\ \/ \E t \in trees : t.media \cap Undecodable # {}
     \/ \E p \in Parsed(Versions(trees)), t \in trees : Listed(t, p.file) /\ Throws(p)

-----------------------------------------------------------------------------
\* A call fails that has nothing to do with the clones.
FaultOnly == Fault /\ UNCHANGED <<site, locked, github, stg, lite, owed, pc, history>>

To(c, p) == at' = [at EXCEPT ![c] = p]

\* runBrokenLinkChecker: nothing but "loading" is returned while checker.lock exists; a
\* failure to find out counts as no lock.
IsCurrentlyLocked(c) ==
  /\ at[c] = "idle"
  /\ \/ To(c, IF checkerLock THEN "done" ELSE "look") /\ UNCHANGED efsVars
     \/ To(c, "look") /\ FaultOnly
  /\ UNCHANGED <<tree, filesVars, mine, found, tail, stuck>>

IsCurrentlyErrored(c) ==
  /\ at[c] = "look"
  /\ To(c, IF errorLog THEN "deleteLog" ELSE "createLock")
  /\ UNCHANGED <<efsVars, tree, filesVars, mine, found, tail, stuck>>

\* deleteErrorLog: unlink fails also when another check has been faster; this one is over.
DeleteErrorLog(c) ==
  /\ at[c] = "deleteLog"
  /\ \/ /\ errorLog' = FALSE
        /\ To(c, IF errorLog THEN "createLock" ELSE "done")
        /\ UNCHANGED efsVars
     \/ To(c, "done") /\ FaultOnly /\ UNCHANGED errorLog
  /\ UNCHANGED <<tree, checkerLock, report, mine, found, tail, stuck>>

\* A check ends that never deletes the lock: what fails is outside the orElse that would.
Abandon(c) == To(c, "done") /\ stuck' = TRUE

\* createLock: writeFile, whether or not the file is there; it may fail when the file is.
CreateLock(c) ==
  /\ at[c] = "createLock"
  /\ \/ checkerLock' = TRUE /\ To(c, "clone") /\ UNCHANGED <<efsVars, stuck>>
     \/ checkerLock' = TRUE /\ Abandon(c) /\ FaultOnly
     \/ To(c, "done") /\ FaultOnly /\ UNCHANGED <<checkerLock, stuck>>
  /\ UNCHANGED <<tree, errorLog, report, mine, found, tail>>

CloneFailed(c) == Abandon(c) /\ tail' = [tail EXCEPT ![c] = {"log"}]

\* cloner: cloneBranch only where there is no valid repository.
Cloner(c) ==
  /\ at[c] = "clone"
  /\ \/ /\ IsValidGitRepo
        /\ To(c, "check")
        /\ UNCHANGED <<stg, tail, stuck>>
     \/ /\ ~IsValidGitRepo /\ stg.dir = "absent"
        /\ stg' = [NoRepo EXCEPT !.dir = "cloning"]
        /\ To(c, "cloning")
        /\ UNCHANGED <<tail, stuck>>
     \/ /\ ~IsValidGitRepo /\ stg.dir # "absent"
        /\ CloneFailed(c)
        /\ UNCHANGED stg
  /\ UNCHANGED <<site, locked, github, lite, owed, pc, history, faults,
                 tree, filesVars, mine, found>>

ClonerEnds(c) ==
  /\ at[c] = "cloning"
  /\ \/ /\ stg.dir = "cloning"
        /\ stg' = FreshClone
        /\ mine' = mine \cup {c}
        /\ To(c, "check")
        /\ UNCHANGED <<tail, stuck, faults>>
     \/ /\ stg' = IF stg.dir = "cloning" THEN NoRepo ELSE stg
        /\ CloneFailed(c)
        /\ Fault
        /\ UNCHANGED mine
  /\ UNCHANGED <<site, locked, github, lite, owed, pc, history, tree, filesVars, found>>

\* Mutation: the lock is left when a check fails.
BugFailed(c) == To(c, "done") /\ tail' = [tail EXCEPT ![c] = {"log"}] /\ UNCHANGED stuck

\* An error after the clone: deleteLock and createErrorLog start, nobody waits for them.
Failed(c) ==
  /\ To(c, "done")
  /\ tail' = [tail EXCEPT ![c] = {"unlock", "log"}]
  /\ UNCHANGED stuck

\* checker: a file that cannot be read ends it on the first reading and is skipped on the
\* second.  What is thrown rejects the promise of the check, which goes past orElse and
\* mapErr: the lock stays, nothing is logged, and the process lives.
Checker(c) ==
  /\ at[c] = "check"
  /\ \/ /\ FoldersFound(shown[c])
        /\ \/ Finds(c, shown[c], {}) /\ UNCHANGED efsVars
           \/ \E p \in Versions(shown[c]) : Finds(c, shown[c], {p.file}) /\ FaultOnly
        /\ To(c, "report")
        /\ UNCHANGED <<tail, stuck>>
     \/ MayFail(shown[c]) /\ Failed(c) /\ UNCHANGED <<efsVars, found>>
     \/ Failed(c) /\ FaultOnly /\ UNCHANGED found
     \/ MayThrow(shown[c]) /\ Abandon(c) /\ UNCHANGED <<efsVars, found, tail>>
  /\ UNCHANGED <<tree, filesVars, mine>>

\* reporter: log.csv; that it is pushed to GitHub in production is for observers only.
Reporter(c) ==
  /\ at[c] = "report"
  /\ found' = [found EXCEPT ![c] = NoReport]
  /\ \/ /\ report' = found[c]
        /\ To(c, IF c \in mine THEN "remove" ELSE "unlock")
        /\ UNCHANGED <<efsVars, tail, stuck>>
     \/ report' \in {report, CutReport} /\ Failed(c) /\ FaultOnly
  /\ UNCHANGED <<tree, checkerLock, errorLog, mine>>

\* remover: outside production the clone is removed again, with what was not pushed; a
\* removal that fails may have come as far as its .git.
Remover(c) ==
  /\ at[c] = "remove"
  /\ \/ /\ site = "production"
        /\ To(c, "unlock")
        /\ UNCHANGED <<stg, dropped, faults, tail, stuck>>
     \/ /\ site # "production"
        /\ stg' = NoRepo
        /\ dropped' = dropped \cup (stg.staging \ github.staging)
        /\ To(c, "unlock")
        /\ UNCHANGED <<faults, tail, stuck>>
     \/ /\ site # "production"
        /\ \/ UNCHANGED <<stg, dropped>>
           \/ /\ stg' = [NoRepo EXCEPT !.dir = "foreign"]
              /\ dropped' = dropped \cup (stg.staging \ github.staging)
        /\ Failed(c)
        /\ Fault
  /\ UNCHANGED <<site, locked, github, lite, owed, pc, acked, exact, disturbed,
                 tree, filesVars, mine, found>>

\* The lock file goes, whoever made it.
Unlinked == checkerLock' = FALSE /\ stuck' = (stuck /\ ~checkerLock)

\* deleteLock: a lock that another check has deleted makes this one a failure.
DeleteLock(c) ==
  /\ at[c] = "unlock"
  /\ \/ checkerLock /\ Unlinked /\ To(c, "done") /\ UNCHANGED <<efsVars, tail>>
     \/ ~checkerLock /\ Failed(c) /\ UNCHANGED <<efsVars, checkerLock>>
     \/ Failed(c) /\ FaultOnly /\ UNCHANGED checkerLock
  /\ UNCHANGED <<tree, errorLog, report, mine, found>>

\* The calls a failed check leaves behind, in either order; nobody learns of their failure.
TailUnlock(c) ==
  /\ "unlock" \in tail[c]
  /\ \/ Unlinked /\ UNCHANGED efsVars
     \/ stuck' = TRUE /\ FaultOnly /\ UNCHANGED checkerLock
  /\ tail' = [tail EXCEPT ![c] = @ \ {"unlock"}]
  /\ UNCHANGED <<tree, errorLog, report, at, mine, found>>

TailLog(c) ==
  /\ "log" \in tail[c]
  /\ \/ errorLog' = TRUE /\ UNCHANGED efsVars
     \/ FaultOnly /\ UNCHANGED errorLog
  /\ tail' = [tail EXCEPT ![c] = @ \ {"log"}]
  /\ UNCHANGED <<tree, checkerLock, report, at, mine, found, stuck>>

\* The process dies with all its jobs, checks and unawaited calls.
ProcessDies ==
  /\ Crash
  /\ at' = [c \in Checks |-> IF at[c] \in CheckSteps THEN "done" ELSE at[c]]
  /\ tail' = [c \in Checks |-> {}]
  /\ found' = [c \in Checks |-> NoReport]
  /\ stuck' = (stuck \/ \E c \in Checks : at[c] \in Holding \/ "unlock" \in tail[c])
  /\ UNCHANGED <<tree, filesVars, mine>>

Check(c) ==
  \/ IsCurrentlyLocked(c) \/ IsCurrentlyErrored(c) \/ DeleteErrorLog(c) \/ CreateLock(c)
  \/ Cloner(c) \/ ClonerEnds(c) \/ Checker(c) \/ Reporter(c) \/ Remover(c) \/ DeleteLock(c)
  \/ TailUnlock(c) \/ TailLog(c)

\* The files of the site change, by whatever works on it.
SiteChanges ==
  /\ \E contents \in Histories : tree \in contents /\ tree' \in contents \ {tree}
  /\ UNCHANGED <<efsVars, filesVars, at, mine, found, tail, stuck>>

\* While a check reads, nothing that the site shows passes it by.
Watched ==
  shown' = [c \in Checks |->
              IF at'[c] # "check" THEN {}
              ELSE Visible' \cup IF at[c] = "check" THEN shown[c] ELSE {}]

Begun == Cardinality({j \in Jobs : pc[j] # "idle"}) + Cardinality({c \in Checks : at[c] # "idle"})

Next ==
  /\ \/ EfsStep /\ UNCHANGED <<tree, filesVars, at, mine, found, tail, stuck>>
     \/ \E c \in Checks : Check(c)
     \/ SiteChanges
     \/ ProcessDies
  /\ Watched
  /\ Begun' <= MaxJobs[tree'] /\ Cardinality(acked') <= MaxEdits[tree']

Spec == Init /\ [][Next]_vars

\* readRepoErrors: what the site's page shows.
Status ==
  CASE ~report.exists -> "error"
    [] report.exists /\ errorLog -> "error"
    [] report.exists /\ ~errorLog /\ checkerLock -> "loading"
    [] OTHER -> "success"

-----------------------------------------------------------------------------
\* A site is kept from being checked only by a check that is at work or about to delete
\* the lock.  Exceptions, of which none is ever cleaned up after: a clone that failed,
\* something thrown while the files were read, a lock that was written but reported as
\* failed, a dead process, and a failed deletion that was the last try.
LockHasOwner ==
  checkerLock =>
    \/ stuck
    \/ \E c \in Checks : at[c] \in Holding \/ "unlock" \in tail[c]

\* By the meaning of a link: it leads out of the site, to one of these pages, or to one of
\* these other names, and the server adds a slash at the end where the page has one.
Leads(pages, names, ref) ==
  \/ ref.external
  \/ \E l \in UNION {p.permalink : p \in pages} : l.name = ref.name /\ (ref.tail => l.tail)
  \/ ref.name \in names /\ ~ref.tail

Always(trees) == {p \in Versions(trees) : \A t \in trees : p \in t.pages /\ Listed(t, p.file)}
Ever(trees) == {p \in Versions(trees) : \E t \in trees : Listed(t, p.file)}
Names(t) == t.media \cup ({t.room} \ {"none"})
AlwaysNames(trees) ==
  {n \in UNION {Names(t) : t \in trees} :
     (\A t \in trees : n \in t.media) \/ (\A t \in trees : n = t.room /\ n # "none")}

\* Though it reads the files one after the other while the site is edited: of the links of
\* a page that stays as it is, those from the root of the site or out of it, the report
\* names none that leads somewhere all the time, and every one that never leads anywhere,
\* unless that page could not be read; and it calls a permalink a duplicate only if two
\* pages had it.  Links with a query string are left out, and pages without a permalink.
ReportIsRight ==
  report.whole =>
    LET trees == report.of IN
    /\ \A p \in Parsed(Always(trees)) : \A ref \in p.refs :
         ~ref.query /\ (ref.slash \/ ref.external) =>
           /\ Leads(Always(trees), AlwaysNames(trees), ref)
                => \A t \in trees : <<PathInCms(p.file, t.room), ref>> \notin report.links
           /\ ~Leads(Ever(trees), UNION {Names(t) : t \in trees}, ref) /\ p.file \notin report.unread
                => \E t \in trees : <<PathInCms(p.file, t.room), ref>> \in report.links
    /\ \A d \in report.duplicates :
         \E p, q \in Versions(trees) :
           /\ p.file # q.file
           /\ \E l \in p.permalink, m \in q.permalink : l.name = d /\ m.name = d
=============================================================================
