------------------------------ MODULE SiteContent -----------------------------
(***************************************************************************)
(* The requests on resource rooms, media and settings of a site, on a      *)
(* repository that only GitHub has: each handler is the sequence of calls  *)
(* its services make, between taking and releasing the lock of the site;   *)
(* a call that fails is answered by putting staging back to the commit it  *)
(* was at.  The lock lets one request in at a time, but a deleted folder   *)
(* is not waited for (RepoService.deleteDirectory).                        *)
(***************************************************************************)
EXTENDS GitHubRepo

CONSTANTS
  Rooms,        \* names of resource rooms
  Categories,   \* names of resource categories
  Posts,        \* names of posts
  Albums,       \* folders of images/
  Pictures,     \* names of images
  Texts,        \* titles and bodies a user may enter
  MaxRequests,  \* bound: requests
  MaxFaults     \* bound: calls that fail for no reason of the content

ASSUME SiteContentAssumption ==
  /\ "none" \notin Rooms /\ Texts # {}
  /\ Rooms # {} /\ Categories # {} /\ Albums # {}
  /\ "index.html" \notin Pictures
  /\ MaxRequests \in Nat /\ MaxFaults \in Nat

VARIABLES
  head,      \* the tree of staging on GitHub
  snap,      \* githubSessionData: the tree when the lock was taken
  todo,      \* calls the handler has still to make
  seen,      \* files the handler has read
  phase,     \* "idle", "work", "revert", or how the last request ended
  late,      \* deletions of folders that nobody waits for: the trees they will leave
  want,      \* history: what the calls so far make of the tree, one after the other
  swept,     \* history: a deletion has landed too late, or failed unnoticed
  unreverted,\* history: staging could not be put back
  requests, faults

contentVars == <<head, snap, todo, seen, phase, late, want, swept, unreverted, requests, faults>>

-----------------------------------------------------------------------------
\* Files of a site.
Config == File(<<>>, "_config.yml")
Homepage == File(<<>>, "index.md")
ContactUs == File(<<"pages">>, "contact-us.md")
Footer == File(<<"_data">>, "footer.yml")
Nav == File(<<"_data">>, "navigation.yml")
Index(d) == File(d, "index.html")
Category(room, cat) == <<room, cat>>
PostsOf(room, cat) == <<room, cat, "_posts">>
Album(a) == <<"images", a>>

Titled(t) == [title |-> t]
Body(b) == [body |-> b]

FirstTree ==
  LET files == {Config, Homepage, ContactUs, Footer, Nav, File(<<"images">>, "logo.png")}
      t == CHOOSE t \in Texts : TRUE
  IN [f \in files |->
        CASE f = Config -> [title |-> t, room |-> "none"]
          [] f = Homepage -> Titled(t)
          [] f = Footer -> [feedback |-> t]
          [] f = Nav -> [logo |-> t]
          [] OTHER -> Body(t)]

\* A site with a room, a category with posts, and an album.
GrownTree ==
  LET room == CHOOSE r \in Rooms : TRUE
      cat == CHOOSE c \in Categories : TRUE
      album == CHOOSE a \in Albums : TRUE
      more == {Index(<<room>>), Index(Category(room, cat)), File(Album(album), ".keep")}
                \cup {File(PostsOf(room, cat), p) : p \in Posts}
                \cup {File(Album(album), p) : p \in Pictures}
      t == CHOOSE t \in Texts : TRUE
      grown == [f \in more \cup DOMAIN FirstTree |->
                  CASE f = Index(<<room>>) -> Titled(room)
                    [] f = Index(Category(room, cat)) -> Titled(cat)
                    [] f \in DOMAIN FirstTree -> FirstTree[f]
                    [] OTHER -> Body(t)]
  IN With(grown, Config, [title |-> t, room |-> room])

-----------------------------------------------------------------------------
\* Calls, and the calls of each handler.
create(f, text) == [op |-> "create", file |-> f, text |-> text]
read(f) == [op |-> "read", file |-> f]
write(f, change) == [op |-> "write", file |-> f, from |-> f, change |-> change]
writeTo(f, from, change) == [op |-> "write", file |-> f, from |-> from, change |-> change]
update(f, sha, text) == [op |-> "update", file |-> f, sha |-> sha, text |-> text]
delete(f, sha) == [op |-> "delete", file |-> f, sha |-> sha]
deleteDir(d) == [op |-> "deleteDir", dir |-> d]
renameDir(d, new) == [op |-> "renameDir", dir |-> d, new |-> new]
renameFile(f, new) == [op |-> "renameFile", file |-> f, new |-> new]
moveFiles(d, new, names) == [op |-> "moveFiles", dir |-> d, new |-> new, names |-> names]
deleteMany(files) == [op |-> "deleteMany", files |-> files]

\* ResourceRoomDirectoryService.  The room in the request is the one the page showed.
CreateRoom(room) ==
  <<read(Config), [op |-> "noRoom"], write(Config, [room |-> room]), create(Index(<<room>>), Titled(room))>>

\* Mutation: the new name is not written to the config.
BugRenameRoom(room, new) ==
  <<read(Index(<<room>>)), renameDir(<<room>>, <<new>>),
    writeTo(Index(<<new>>), Index(<<room>>), Titled(new))>>

RenameRoom(room, new) ==
  <<read(Index(<<room>>)), renameDir(<<room>>, <<new>>),
    writeTo(Index(<<new>>), Index(<<room>>), Titled(new)),
    read(Config), write(Config, [room |-> new])>>

DeleteRoom(room) ==
  <<deleteDir(<<room>>), read(Config), write(Config, [room |-> "none"])>>

\* ResourceDirectoryService
CreateCategory(room, cat) == <<create(Index(Category(room, cat)), Titled(cat))>>
RenameCategory(room, cat, new) ==
  <<read(Index(Category(room, cat))), renameDir(Category(room, cat), Category(room, new)),
    writeTo(Index(Category(room, new)), Index(Category(room, cat)), Titled(new))>>
DeleteCategory(room, cat) == <<deleteDir(Category(room, cat))>>
MoveResourcePages(room, cat, target, names) ==
  <<moveFiles(PostsOf(room, cat), PostsOf(room, target), names)>>

\* ResourcePageService
CreatePost(room, cat, p, b) == <<create(File(PostsOf(room, cat), p), Body(b))>>
UpdatePost(room, cat, p, sha, b) == <<update(File(PostsOf(room, cat), p), sha, Body(b))>>
DeletePost(room, cat, p, sha) == <<delete(File(PostsOf(room, cat), p), sha)>>
RenamePost(room, cat, p, new, sha, b) ==
  <<delete(File(PostsOf(room, cat), p), sha), create(File(PostsOf(room, cat), new), Body(b))>>

\* Mutation: the placeholder first, which the tree of the move does not have.
BugCreateAlbum(a, names) ==
  <<create(File(Album(a), ".keep"), Body(""))>>
    \o (IF names = {} THEN <<>> ELSE <<moveFiles(<<"images">>, Album(a), names)>>)

\* MediaDirectoryService
CreateAlbum(a, names) ==
  (IF names = {} THEN <<>> ELSE <<moveFiles(<<"images">>, Album(a), names)>>)
    \o <<create(File(Album(a), ".keep"), Body(""))>>
RenameAlbum(a, new) == <<renameDir(Album(a), Album(new))>>
DeleteAlbum(a) == <<deleteDir(Album(a))>>
MovePictures(a, b, names) == <<moveFiles(Album(a), Album(b), names)>>

\* MediaFileService: an upload that the virus scan or the check of its type refuses makes
\* no call; an update is a deletion and a creation, under the extension that is detected.
CreatePicture(d, p, b) == <<create(File(d, p), Body(b))>>
UpdatePicture(d, p, sha, b) == <<delete(File(d, p), sha), create(File(d, p), Body(b))>>
DeletePicture(d, p, sha) == <<delete(File(d, p), sha)>>
RenamePicture(d, p, new) == <<renameFile(File(d, p), File(d, new))>>
DeletePictures(files) == <<deleteMany(files)>>

\* SettingsService.retrieveSettingsFiles and updateSettingsFiles: everything is read, then
\* the files with a change are written one by one; a new title goes to the home page too.
SettingsFiles == <<read(Config), read(Footer), read(Nav), read(Homepage)>>
UpdateSettings(title, feedback, logo) ==
  SettingsFiles
    \o (IF title = "same" THEN <<>>
        ELSE <<write(Config, Titled(title)), [op |-> "titleHome", title |-> title]>>)
    \o (IF feedback = "same" THEN <<>> ELSE <<write(Footer, [feedback |-> feedback])>>)
    \o (IF logo = "same" THEN <<>> ELSE <<write(Nav, [logo |-> logo])>>)

\* HomepagePageService, ContactUsPageService: the feedback address is kept in the footer.
UpdateHomepage(sha, t) == <<update(Homepage, sha, Titled(t))>>
UpdateContactUs(sha, b, feedback) ==
  <<update(ContactUs, sha, Body(b)), read(Footer), write(Footer, [feedback |-> feedback])>>

\* What the routes accept: a hash that is not the one of the file is one of a page that
\* was loaded before the file was changed.
Shas == {NoSha} \cup {Body(t) : t \in Texts}
MediaFolders == {<<"images">>} \cup {Album(a) : a \in Albums}

RoomRequests ==
  {CreateRoom(r) : r \in Rooms} \cup {RenameRoom(r, s) : r \in Rooms, s \in Rooms}
    \cup {DeleteRoom(r) : r \in Rooms}

CategoryRequests ==
  UNION {{CreateCategory(r, c), DeleteCategory(r, c), RenameCategory(r, c, d),
          MoveResourcePages(r, c, d, {p})} :
            r \in Rooms, c \in Categories, d \in Categories, p \in Posts}

PostRequests ==
  UNION {{CreatePost(r, c, p, t), UpdatePost(r, c, p, h, t), DeletePost(r, c, p, h),
          RenamePost(r, c, p, q, h, t)} :
            r \in Rooms, c \in Categories, p \in Posts, q \in Posts, h \in Shas, t \in Texts}

AlbumRequests ==
  UNION {{CreateAlbum(a, names), RenameAlbum(a, b), DeleteAlbum(a), MovePictures(a, b, names)} :
            a \in Albums, b \in Albums, names \in SUBSET Pictures}

PictureRequests ==
  UNION {{CreatePicture(d, p, t), UpdatePicture(d, p, h, t), DeletePicture(d, p, h),
          RenamePicture(d, p, q), DeletePictures({File(d, p), File(d, q)})} :
            d \in MediaFolders, p \in Pictures, q \in Pictures, h \in Shas, t \in Texts}

SettingsRequests ==
  LET Choice == Texts \cup {"same"}
  IN {UpdateSettings(t, f, l) : t \in Choice, f \in Choice, l \in Choice}

HomepageRequests ==
  {UpdateHomepage(h, t) : h \in {NoSha} \cup {Titled(t) : t \in Texts}, t \in Texts}

ContactUsRequests ==
  {UpdateContactUs(h, t, f) : h \in Shas, t \in Texts, f \in Texts}

Requests ==
  RoomRequests \cup CategoryRequests \cup PostRequests \cup AlbumRequests \cup PictureRequests
    \cup SettingsRequests \cup HomepageRequests \cup ContactUsRequests

-----------------------------------------------------------------------------
ContentTypeOK ==
  /\ Config \in DOMAIN head /\ head[Config].room \in Rooms \cup {"none"}
  /\ phase \in {"idle", "work", "revert", "ok", "failed", "dead"}
  /\ Len(todo) <= 8
  /\ swept \in BOOLEAN /\ unreverted \in BOOLEAN
  /\ requests \in 0..MaxRequests /\ faults \in 0..MaxFaults

ContentInit ==
  /\ head \in {FirstTree, GrownTree} /\ snap = head /\ want = head
  /\ todo = <<>> /\ seen = << >> /\ phase = "idle"
  /\ late = {} /\ swept = FALSE /\ unreverted = FALSE
  /\ requests = 0 /\ faults = 0

AtWork == phase \in {"work", "revert"}
Fault == faults < MaxFaults /\ faults' = faults + 1

\* attachRollbackRouteHandlerWrapper takes the lock and looks up the head of staging.
Begin(calls) ==
  /\ ~AtWork /\ phase # "dead"
  /\ requests < MaxRequests
  /\ snap' = head /\ want' = head
  /\ todo' = calls /\ seen' = << >>
  /\ phase' = "work"
  /\ requests' = requests + 1
  /\ UNCHANGED <<head, late, swept, unreverted, faults>>

\* A call as the handler makes it; the title of the home page is its own only if it
\* changes the one of the config as it was read.
Meant(call) ==
  IF call.op = "titleHome"
  THEN IF seen[Config].title = call.title THEN read(Homepage)
       ELSE writeTo(Homepage, Homepage, Titled(call.title))
  ELSE call

\* The tree a call is built on.
Base(call) == IF IsTreeCall(call) THEN snap ELSE head

Throws(call) == call.op = "noRoom" /\ seen[Config].room # "none"

Fails == phase' = "revert" /\ UNCHANGED <<head, todo, seen, late, want>>

\* One call of the handler.
Step ==
  /\ phase = "work" /\ todo # <<>>
  /\ UNCHANGED <<snap, swept, unreverted, requests>>
  /\ LET call == Meant(Head(todo)) IN
     \/ Fails /\ Fault
     \/ Throws(call) /\ Fails /\ UNCHANGED faults
     \/ /\ call.op = "noRoom" /\ ~Throws(call)
        /\ todo' = Tail(todo)
        /\ UNCHANGED <<head, seen, phase, late, want, faults>>
     \/ /\ call.op = "deleteDir"     \* RepoService.deleteDirectory does not wait
        /\ late' = late \cup {[base |-> snap, dir |-> call.dir, of |-> requests]}
        /\ want' = Apply(want, call, seen).tree
        /\ todo' = Tail(todo)
        /\ UNCHANGED <<head, seen, phase, faults>>
     \/ /\ call.op \notin {"noRoom", "deleteDir"}
        /\ UNCHANGED faults
        /\ LET result == Apply(Base(call), call, seen) IN
           \/ /\ ~result.ok \/ (IsTreeCall(call) /\ ~FindsFiles(snap, call))
              /\ Fails
           \/ /\ result.ok
              /\ head' = result.tree
              /\ want' = Apply(want, call, seen).tree
              /\ seen' = IF call.op = "read" THEN With(seen, call.file, head[call.file]) ELSE seen
              /\ todo' = Tail(todo)
              /\ UNCHANGED <<phase, late>>

\* The answer is sent and the lock released.
Finish ==
  /\ phase = "work" /\ todo = <<>>
  /\ phase' = "ok"
  /\ UNCHANGED <<head, snap, todo, seen, late, want, swept, unreverted, requests, faults>>

\* Mutation: staging is only put back by a handler that uses the local file system.
BugRevert ==
  /\ phase = "revert" /\ phase' = "failed" /\ todo' = <<>>
  /\ UNCHANGED <<head, snap, seen, late, want, swept, unreverted, requests, faults>>

\* revertCommit: staging is put back by force to the commit it was at, with retries.
Revert ==
  /\ phase = "revert" /\ phase' = "failed" /\ todo' = <<>>
  /\ \/ head' = snap /\ UNCHANGED <<unreverted, faults>>
     \/ Fault /\ unreverted' = TRUE /\ UNCHANGED head
  /\ UNCHANGED <<snap, seen, late, want, swept, requests>>

\* A deletion lands: the tree it was built on without the folder becomes the head.  It is
\* in time if its request is still at work and has changed nothing else.
InTime(d) == d.base = head /\ d.of = requests /\ phase # "failed"
DeletionLands(d) ==
  /\ late' = late \ {d}
  /\ head' = DeleteDirectory(d.base, d.dir).tree
  /\ swept' = (swept \/ ~InTime(d))
  /\ UNCHANGED <<snap, todo, seen, phase, want, unreverted, requests, faults>>

\* It fails, because of GitHub or because there is no such folder; nobody handles that,
\* which may end the process with the request it is at.
DeletionFails(d) ==
  /\ late' = late \ {d}
  /\ IF FilesUnder(d.base, d.dir) # {} THEN Fault ELSE UNCHANGED faults
  /\ swept' = TRUE
  /\ \/ UNCHANGED phase
     \/ AtWork /\ phase' = "dead"
  /\ UNCHANGED <<head, snap, todo, seen, want, unreverted, requests>>

ContentNext ==
  \/ \E calls \in Requests : Begin(calls)
  \/ Step \/ Finish \/ Revert
  \/ \E d \in late : DeletionLands(d) \/ DeletionFails(d)

ContentSpec == ContentInit /\ [][ContentNext]_contentVars

-----------------------------------------------------------------------------
Undisturbed == late = {} /\ ~swept

\* A request that is answered with success has left what its calls make of the tree one
\* after the other: none of them, built on the tree the request began with, undoes an
\* earlier one, unless a deletion that was not waited for came in between.
OkDidAll == phase = "ok" /\ Undisturbed => head = want

\* A request that is answered with an error has left staging as it found it.
FailedLeavesNothing == phase = "failed" /\ Undisturbed /\ ~unreverted => head = snap

\* Between requests, the resource room the config names is there.
RoomIsThere ==
  ~AtWork /\ phase # "dead" /\ Undisturbed /\ ~unreverted =>
    (head[Config].room # "none" => Index(<<head[Config].room>>) \in DOMAIN head)
=============================================================================
