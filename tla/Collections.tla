----------------------------- MODULE Collections -----------------------------
(***************************************************************************)
(* The pages of a site, the collections and subfolders they are in, the    *)
(* order of each collection (collection.yml) and the links of the          *)
(* navigation to collections.                                              *)
(*                                                                         *)
(* A request of the editor (src/src/routes/v2/authenticatedSites) becomes  *)
(* a chain of calls of RepoService, one commit on EFS each.  The wrapper   *)
(* keeps the requests of a site apart and puts everything back when a call *)
(* throws (module SiteEdit), so that todo, the calls one request still has *)
(* to make, is all there is of it.  A list that an editor reorders was     *)
(* shown earlier and may be out of date.                                   *)
(*                                                                         *)
(* A path is <<collection, subfolder, name>>; an entry of an order is      *)
(* <<subfolder, name>>.  Names are the ones that slugifyCollectionName and *)
(* deslugifyCollectionName return.                                         *)
(***************************************************************************)
EXTENDS Naturals, Sequences, FiniteSets, SequencesExt

CONSTANTS
  Cols,       \* collections
  Subs,       \* subfolders
  Names,      \* file names of pages
  Pages,      \* identities of pages, which no code sees
  Tails,      \* pairs of subfolders <<s, t>> where the name of s ends with that of t
  Unlinked,   \* the directory pages/, in place of a collection
  Top,        \* no subfolder
  Keep,       \* the file .keep, which holds an empty subfolder
  Nothing,
  MaxItems,   \* bound: pages in one move
  MaxSize,    \* bound: files, collections, and saves from a list that is out of date
  MaxStale    \* bound: saves made from a list that is out of date

Orders == Seq((Subs \cup {Top}) \X (Names \cup {Keep}))
Yml == [key : Cols \cup {Nothing}, order : Orders]

ASSUME CollectionsAssumption ==
  /\ Unlinked \notin Cols
  /\ Top \notin Subs
  /\ Keep \notin Names \cup Pages
  /\ Nothing \notin Cols \cup Pages \cup Subs \cup {Keep, Top} \cup Yml
  /\ Tails \subseteq Subs \X Subs
  /\ IsFiniteSet(Names)
  /\ {MaxItems, MaxSize, MaxStale} \subseteq Nat

VARIABLES
  files,    \* what is at each path: a page, with its third_nav_title, or .keep
  yml,      \* collection.yml of each collection that has one: its key and the order
  nav,      \* collections that navigation.yml links to
  todo,     \* calls the request still has to make
  hand,     \* the page that the request holds between two calls
  before,   \* the site the wrapper would go back to
  want,     \* history: where each page should be once the request is done
  stale     \* history: how many saves were made from lists out of date

site == <<files, yml, nav>>
vars == <<site, todo, hand, before, want, stale>>

Locations == {<<Unlinked, Top>>} \cup (Cols \X (Subs \cup {Top}))
PathIn(loc, name) == <<loc[1], loc[2], name>>
IsPage(path) == path[3] # Keep
PagePaths == {p \in DOMAIN files : IsPage(p)}
Under(fs, loc) == {p \in fs : p[1] = loc[1] /\ p[2] = loc[2]}

TypeOK ==
  /\ DOMAIN files \subseteq (Cols \cup {Unlinked}) \X (Subs \cup {Top}) \X (Names \cup {Keep})
  /\ \A p \in DOMAIN files : files[p].page \in Pages \cup {Keep}
                             /\ files[p].third \in Subs \cup {Top}
                             /\ (files[p].page = Keep <=> ~IsPage(p))
  /\ yml \in [Cols -> {Nothing} \cup Yml]
  /\ nav \subseteq Cols
  /\ stale \in 0..MaxStale

\* fs with what is now at path.
With(fs, path, file) == [p \in DOMAIN fs \cup {path} |-> IF p = path THEN file ELSE fs[p]]

Idle == todo = <<>>
NoPage == [page |-> Nothing, third |-> Top]

\* A site starts with pages that are in no collection.
Init ==
  /\ \E ns \in SUBSET Names, id \in [Names -> Pages] :
       /\ \A m, n \in ns : id[m] = id[n] => m = n
       /\ files = [p \in {PathIn(<<Unlinked, Top>>, n) : n \in ns} |->
                     [page |-> id[p[3]], third |-> Top]]
       /\ want = [p \in DOMAIN files |-> id[p[3]]]
  /\ yml = [c \in Cols |-> Nothing]
  /\ nav = {}
  /\ todo = <<>> /\ hand = NoPage /\ before = Nothing
  /\ stale = 0

Collections == {c \in Cols : yml[c] # Nothing}

-----------------------------------------------------------------------------
(* Changes of an order, as CollectionYmlService makes them                 *)

\* addItemToOrder: in front of the first entry of its subfolder, or of all.
Inserted(order, item) ==
  LET first == SelectInSeq(order, LAMBDA x : x[1] = item[1]) IN
  InsertAt(order, IF item[1] = Top \/ first = 0 THEN 1 ELSE first, item)

Deleted(order, item) == RemoveFirst(order, item)

\* updateItemInOrder: when old is not there its index is -1, for which splice takes the
\* last entry away and puts the new one in front of the one that is then last.
Updated(order, old, new) ==
  IF Contains(order, old) THEN [order EXCEPT ![SelectInSeq(order, LAMBDA x : x = old)] = new]
  ELSE LET rest == SubSeq(order, 1, Len(order) - 1) IN
       InsertAt(rest, IF rest = <<>> THEN 1 ELSE Len(rest), new)

\* item.includes(`${sub}/`) holds of every folder whose name ends with that of sub.
Including(sub) == {t \in Subs : t = sub \/ <<t, sub>> \in Tails}

OutOf(folders, order) ==
  FlattenSeq([i \in DOMAIN order |-> IF order[i][1] \in folders THEN <<>> ELSE <<order[i]>>])

WithoutFolder(order, sub) == OutOf(Including(sub), order)

FolderRenamed(order, old, new) ==
  [i \in DOMAIN order |->
     IF order[i][1] \in Including(old) THEN <<new, order[i][2]>> ELSE order[i]]

\* convertYmlToObjOrder: what an editor is shown, pages and folders with their pages.
Folder(sub, names) == [dir |-> sub, names |-> names]
AddToList(list, item) ==
  LET shown == IF item[2] = Keep THEN <<>> ELSE <<item[2]>>
      last == list[Len(list)]
  IN
  IF item[1] # Top /\ list # <<>> /\ last.dir = item[1]
  THEN [list EXCEPT ![Len(list)].names = @ \o shown]
  ELSE Append(list, Folder(item[1], shown))
YmlToObj(order) ==
  LET list[i \in 0..Len(order)] == IF i = 0 THEN <<>> ELSE AddToList(list[i - 1], order[i])
  IN list[Len(order)]

\* convertObjToYmlOrder: every folder gets an entry for .keep.
ObjToYml(list) ==
  FlattenSeq([i \in DOMAIN list |->
    LET dir == list[i].dir
        names == [j \in DOMAIN list[i].names |-> <<dir, list[i].names[j]>>]
    IN IF dir = Top THEN names ELSE <<<<dir, Keep>>>> \o names])

-----------------------------------------------------------------------------
(* The calls                                                               *)

Doing(op) == todo # <<>> /\ Head(todo).op = op

\* The next call, or the answer, after which the wrapper unlocks.
Advance ==
  /\ todo' = Tail(todo)
  /\ before' = IF Tail(todo) = <<>> THEN Nothing ELSE before
  /\ UNCHANGED <<want, stale>>

\* collection.yml of c can be read and has an entry for c.
Loads(c) == yml[c] # Nothing /\ yml[c].key = c

ChangeOrder(c, order) == yml' = [yml EXCEPT ![c].order = order] /\ UNCHANGED <<files, nav, hand>>

CreateYml ==
  LET c == Head(todo).col IN
  /\ Doing("createYml")
  /\ yml[c] = Nothing
  /\ yml' = [yml EXCEPT ![c] = [key |-> c, order |-> <<>>]]
  /\ UNCHANGED <<files, nav, hand>>
  /\ Advance

AddItemToOrder ==
  LET do == Head(todo) IN
  /\ Doing("addItem")
  /\ Loads(do.col)
  /\ ChangeOrder(do.col, Inserted(yml[do.col].order, do.item))
  /\ Advance

DeleteItemFromOrder ==
  LET do == Head(todo) IN
  /\ Doing("deleteItem")
  /\ Loads(do.col)
  /\ ChangeOrder(do.col, Deleted(yml[do.col].order, do.item))
  /\ Advance

UpdateItemInOrder ==
  LET do == Head(todo) IN
  /\ Doing("updateItem")
  /\ Loads(do.col)
  /\ ChangeOrder(do.col, Updated(yml[do.col].order, do.item, do.new))
  /\ Advance

DeleteSubfolderFromOrder ==
  LET do == Head(todo) IN
  /\ Doing("deleteFolder")
  /\ Loads(do.col)
  /\ ChangeOrder(do.col, WithoutFolder(yml[do.col].order, do.sub))
  /\ Advance

RenameSubfolderInOrder ==
  LET do == Head(todo) IN
  /\ Doing("renameFolder")
  /\ Loads(do.col)
  /\ ChangeOrder(do.col, FolderRenamed(yml[do.col].order, do.sub, do.new))
  /\ Advance

\* updateOrder writes the whole file, without a look at what it had.
UpdateOrder ==
  LET do == Head(todo) IN
  /\ Doing("setOrder")
  /\ yml[do.col] # Nothing
  /\ yml' = [yml EXCEPT ![do.col] = [key |-> do.col, order |-> do.order]]
  /\ UNCHANGED <<files, nav, hand>>
  /\ Advance

\* A file that has another key than the old name loses its entry.
RenameCollectionInOrder ==
  LET do == Head(todo) IN
  /\ Doing("renameKey")
  /\ yml[do.new] # Nothing
  /\ yml' = [yml EXCEPT ![do.new] =
       IF @.key = do.col THEN [@ EXCEPT !.key = do.new] ELSE [key |-> Nothing, order |-> <<>>]]
  /\ UNCHANGED <<files, nav, hand>>
  /\ Advance

WriteNav ==
  LET do == Head(todo) IN
  /\ Doing("nav")
  /\ nav' = IF do.col \in nav THEN (nav \ {do.col}) \cup do.cols ELSE nav
  /\ UNCHANGED <<files, yml, hand>>
  /\ Advance

SetNav ==
  /\ Doing("setNav")
  /\ nav' = Head(todo).cols
  /\ UNCHANGED <<files, yml, hand>>
  /\ Advance

\* read and delete of a page: the request has its content in hand.
TakePage ==
  LET path == Head(todo).path IN
  /\ Doing("take")
  /\ path \in DOMAIN files
  /\ hand' = files[path]
  /\ files' = [p \in DOMAIN files \ {path} |-> files[p]]
  /\ UNCHANGED <<yml, nav>>
  /\ Advance

DropFile ==
  LET path == Head(todo).path IN
  /\ Doing("drop")
  /\ path \in DOMAIN files
  /\ files' = [p \in DOMAIN files \ {path} |-> files[p]]
  /\ UNCHANGED <<yml, nav, hand>>
  /\ Advance

\* Mutant: a page goes where there may be one.
BugPutOver ==
  LET do == Head(todo)
      third == IF do.third = Nothing THEN hand.third ELSE do.third
  IN
  /\ Doing("put")
  /\ files' = With(files, do.path, [hand EXCEPT !.third = third])
  /\ hand' = NoPage
  /\ UNCHANGED <<yml, nav>>
  /\ Advance

\* create of the page in hand, with third_nav_title as the service sets it, or as it is
PutPage ==
  LET do == Head(todo)
      third == IF do.third = Nothing THEN hand.third ELSE do.third
  IN
  /\ Doing("put")
  /\ do.path \notin DOMAIN files
  /\ files' = With(files, do.path, [hand EXCEPT !.third = third])
  /\ hand' = NoPage
  /\ UNCHANGED <<yml, nav>>
  /\ Advance

CreateKeep ==
  LET path == Head(todo).path IN
  /\ Doing("keep")
  /\ path \notin DOMAIN files
  /\ files' = With(files, path, [page |-> Keep, third |-> Top])
  /\ UNCHANGED <<yml, nav, hand>>
  /\ Advance

\* Mutant: the delete of a subfolder takes the collection.
BugAllOfCollection(col, sub) == {p \in DOMAIN files : p[1] = col}

\* The files of a collection, or of one of its subfolders
FilesOf(col, sub) == {p \in DOMAIN files : p[1] = col /\ sub \in {Top, p[2]}}

\* baseDirectoryService.delete of a collection or of a subfolder
DeleteDir ==
  LET do == Head(todo)
      gone == FilesOf(do.col, do.sub)
  IN
  /\ Doing("deleteDir")
  /\ gone # {} \/ (do.sub = Top /\ yml[do.col] # Nothing)
  /\ files' = [p \in DOMAIN files \ gone |-> files[p]]
  /\ yml' = IF do.sub = Top THEN [yml EXCEPT ![do.col] = Nothing] ELSE yml
  /\ UNCHANGED <<nav, hand>>
  /\ Advance

\* The paths of fs, changed by to; one path may come to stand for another.
Renamed(fs, to(_)) ==
  [q \in {to(p) : p \in DOMAIN fs} |-> fs[CHOOSE p \in DOMAIN fs : to(p) = q]]

Rebased(fs, old, new) ==
  Renamed(fs, LAMBDA p : IF p[1] = old THEN <<new, p[2], p[3]>> ELSE p)

Exists(c) == yml[c] # Nothing \/ \E p \in DOMAIN files : p[1] = c

\* baseDirectoryService.rename of a collection
RenameDir ==
  LET do == Head(todo) IN
  /\ Doing("renameDir")
  /\ Exists(do.col) /\ ~Exists(do.new)
  /\ files' = Rebased(files, do.col, do.new)
  /\ yml' = [yml EXCEPT ![do.new] = yml[do.col], ![do.col] = Nothing]
  /\ UNCHANGED <<nav, hand>>
  /\ Advance

\* A call throws, for one of the conditions above, a sha that is out of date, or a
\* failure of git: the rollback wrapper puts the site back.
Rollback ==
  /\ ~Idle
  /\ files' = before.files /\ yml' = before.yml /\ nav' = before.nav /\ want' = before.want
  /\ stale' = before.stale
  /\ todo' = <<>> /\ hand' = NoPage /\ before' = Nothing

-----------------------------------------------------------------------------
(* The requests, for pages and folders there are.  For one that is gone a  *)
(* call throws, and what is left is as after any Rollback.                 *)

InCollection(loc) == loc[1] # Unlinked

\* Mutant: a page that goes stays in the order.
BugEntryKept(loc, name) == <<[op |-> "take", path |-> PathIn(loc, name)]>>

\* read and delete of the page services: out of the order first, then the file
TakeCalls(loc, name) ==
  LET entry == [op |-> "deleteItem", col |-> loc[1], item |-> <<loc[2], name>>]
  IN (IF InCollection(loc) THEN <<entry>> ELSE <<>>)
     \o <<[op |-> "take", path |-> PathIn(loc, name)]>>

\* Mutant: third_nav_title is left as it was.
BugTitleKept(loc, name) ==
  LET entry == [op |-> "addItem", col |-> loc[1], item |-> <<loc[2], name>>]
  IN (IF InCollection(loc) THEN <<entry>> ELSE <<>>)
     \o <<[op |-> "put", path |-> PathIn(loc, name), third |-> Nothing]>>

\* create of the page services: into the order first, then the file, with
\* third_nav_title set to the subfolder or removed
PutCalls(loc, name) ==
  LET entry == [op |-> "addItem", col |-> loc[1], item |-> <<loc[2], name>>]
  IN (IF InCollection(loc) THEN <<entry>> ELSE <<>>)
     \o <<[op |-> "put", path |-> PathIn(loc, name), third |-> loc[2]]>>

\* movePages: one page after the other
Moves(src, dst, names) ==
  FlattenSeq([i \in DOMAIN names |-> TakeCalls(src, names[i]) \o PutCalls(dst, names[i])])

\* Pages of one request, in the order of its list
Lists == {ns \in BoundedSeq(Names, MaxItems) : IsInjective(ns)}

Begin(calls, wanted) ==
  /\ Idle
  /\ todo' = calls
  /\ before' = [files |-> files, yml |-> yml, nav |-> nav, want |-> want, stale |-> stale]
  /\ want' = wanted
  /\ stale' <= MaxStale
  /\ UNCHANGED site

Room == Cardinality(DOMAIN files) + Cardinality(Collections) + stale < MaxSize

\* An editor asks for pages to go to a folder that is gone.
Outdated(loc) == loc[2] # Top /\ Under(DOMAIN files, loc) = {}
Aging(outdated) == IF outdated THEN Room /\ stale' = stale + 1 ELSE stale' = stale

WantWithout(gone) == [p \in DOMAIN want \ gone |-> want[p]]

WantMoved(src, dst, ns) ==
  Renamed(want, LAMBDA p : IF p[1] = src[1] /\ p[2] = src[2] /\ p[3] \in ns
                           THEN PathIn(dst, p[3]) ELSE p)

CreatePage(loc, name) ==
  /\ loc[1] \in Collections \cup {Unlinked}
  /\ Room
  /\ Aging(Outdated(loc))
  /\ \E page \in Pages \ Range(want) :
    /\ Begin(PutCalls(loc, name), With(want, PathIn(loc, name), page))
    /\ hand' = [page |-> page, third |-> Top]

DeletePage(loc, name) ==
  /\ PathIn(loc, name) \in PagePaths
  /\ Aging(FALSE)
  /\ Begin(Front(TakeCalls(loc, name)) \o <<[op |-> "drop", path |-> PathIn(loc, name)]>>,
           WantWithout({PathIn(loc, name)}))
  /\ UNCHANGED hand

\* Only a page at the top of a collection loses its third_nav_title.
RenamePage(loc, old, new) ==
  LET entry == [op |-> "updateItem", col |-> loc[1], item |-> <<loc[2], old>>, new |-> <<loc[2], new>>]
      third == IF InCollection(loc) /\ loc[2] = Top THEN Top ELSE Nothing
  IN
  /\ PathIn(loc, old) \in PagePaths
  /\ Aging(FALSE)
  /\ Begin((IF InCollection(loc) THEN <<entry>> ELSE <<>>)
             \o <<[op |-> "take", path |-> PathIn(loc, old)],
                  [op |-> "put", path |-> PathIn(loc, new), third |-> third]>>,
           Renamed(want, LAMBDA p : IF p = PathIn(loc, old) THEN PathIn(loc, new) ELSE p))
  /\ UNCHANGED hand

MovePages(src, dst, names) ==
  /\ names # <<>>
  /\ \A n \in Range(names) : PathIn(src, n) \in PagePaths
  /\ Aging(Outdated(dst))
  /\ Begin(Moves(src, dst, names), WantMoved(src, dst, Range(names)))
  /\ UNCHANGED hand

CreateCollection(c, names) ==
  /\ Room
  /\ \A n \in Range(names) : <<Unlinked, Top, n>> \in PagePaths
  /\ Aging(FALSE)
  /\ Begin(<<[op |-> "createYml", col |-> c]>> \o Moves(<<Unlinked, Top>>, <<c, Top>>, names),
           WantMoved(<<Unlinked, Top>>, <<c, Top>>, Range(names)))
  /\ UNCHANGED hand

RenameCollection(c, new) ==
  /\ c \in Collections
  /\ Aging(FALSE)
  /\ Begin(<<[op |-> "renameDir", col |-> c, new |-> new],
             [op |-> "renameKey", col |-> c, new |-> new],
             [op |-> "nav", col |-> c, cols |-> {new}]>>,
           Rebased(want, c, new))
  /\ UNCHANGED hand

DeleteCollection(c) ==
  /\ c \in Collections
  /\ Aging(FALSE)
  /\ Begin(<<[op |-> "deleteDir", col |-> c, sub |-> Top], [op |-> "nav", col |-> c, cols |-> {}]>>,
           WantWithout({p \in DOMAIN want : p[1] = c}))
  /\ UNCHANGED hand

CreateSubcollection(c, s, names) ==
  /\ c \in Collections /\ Room
  /\ \A n \in Range(names) : <<c, Top, n>> \in PagePaths
  /\ Aging(FALSE)
  /\ Begin(<<[op |-> "keep", path |-> <<c, s, Keep>>],
             [op |-> "addItem", col |-> c, item |-> <<s, Keep>>]>>
             \o Moves(<<c, Top>>, <<c, s>>, names),
           WantMoved(<<c, Top>>, <<c, s>>, Range(names)))
  /\ UNCHANGED hand

\* updateSubcollection of a page, or the delete of .keep
Refile(c, s, new, name) ==
  IF name = Keep THEN <<[op |-> "drop", path |-> <<c, s, name>>]>>
  ELSE <<[op |-> "take", path |-> <<c, s, name>>],
         [op |-> "put", path |-> <<c, new, name>>, third |-> new]>>

\* The files are the ones there were before the new folder got its .keep.
RenameSubcollection(c, s, new) ==
  LET dir == Under(DOMAIN files, <<c, s>>) IN
  /\ dir # {}
  /\ Aging(FALSE)
  /\ \E names \in SetToSeqs({p[3] : p \in dir}) :
       Begin(<<[op |-> "keep", path |-> <<c, new, Keep>>]>>
               \o FlattenSeq([i \in DOMAIN names |-> Refile(c, s, new, names[i])])
               \o <<[op |-> "renameFolder", col |-> c, sub |-> s, new |-> new]>>,
             WantMoved(<<c, s>>, <<c, new>>, Names))
  /\ UNCHANGED hand

DeleteSubcollection(c, s) ==
  /\ Under(DOMAIN files, <<c, s>>) # {}
  /\ Aging(FALSE)
  /\ Begin(<<[op |-> "deleteDir", col |-> c, sub |-> s],
             [op |-> "deleteFolder", col |-> c, sub |-> s]>>,
           WantWithout(Under(DOMAIN want, <<c, s>>)))
  /\ UNCHANGED hand

\* The pages and the folders an order shows
Shown(order) == [pages   |-> {x \in Range(order) : x[2] # Keep},
                 folders |-> {x[1] : x \in Range(order)}]

\* updateOrder with what the editor saved, which may not be what there is by now
SaveOrder(c, order) ==
  /\ Aging(Shown(order) # Shown(yml[c].order))
  /\ Begin(<<[op |-> "setOrder", col |-> c, order |-> order]>>, want)
  /\ UNCHANGED hand

\* The list as shown, in another order, possibly without what came later.
ReorderCollection(c) ==
  /\ Loads(c)
  /\ \E list \in SetToAllKPermutations(Range(YmlToObj(yml[c].order))) : SaveOrder(c, ObjToYml(list))

\* The folder goes where its first entry was; findIndex gives -1, and splice puts it
\* before the last entry, when it had none.
ReorderSubcollection(c, s) ==
  LET order  == yml[c].order
      pos    == SelectInSeq(order, LAMBDA x : x[1] = s)
      others == OutOf({s}, order)
      at     == IF pos # 0 THEN pos ELSE IF others = <<>> THEN 1 ELSE Len(others)
  IN
  /\ Loads(c)
  /\ \E names \in Lists :
       SaveOrder(c, SubSeq(others, 1, at - 1)
                    \o <<<<s, Keep>>>> \o [i \in DOMAIN names |-> <<s, names[i]>>]
                    \o SubSeq(others, at, Len(others)))

\* The navigation is saved whole.  An editor that links to a collection that is gone
\* has only made a wrong link, so cols are collections there are.
UpdateNavigation(cols) ==
  /\ cols \subseteq Collections
  /\ Aging(FALSE)
  /\ Begin(<<[op |-> "setNav", cols |-> cols]>>, want)
  /\ UNCHANGED hand

Requests ==
  \/ \E loc \in Locations, n \in Names : CreatePage(loc, n) \/ DeletePage(loc, n)
  \/ \E loc \in Locations, m, n \in Names : RenamePage(loc, m, n)
  \/ \E src, dst \in Locations, names \in Lists : MovePages(src, dst, names)
  \/ \E c \in Cols, names \in Lists : CreateCollection(c, names)
  \/ \E c, d \in Cols : RenameCollection(c, d)
  \/ \E c \in Cols : DeleteCollection(c) \/ ReorderCollection(c)
  \/ \E c \in Cols, s \in Subs, names \in Lists : CreateSubcollection(c, s, names)
  \/ \E c \in Cols, s, t \in Subs : RenameSubcollection(c, s, t)
  \/ \E c \in Cols, s \in Subs : DeleteSubcollection(c, s) \/ ReorderSubcollection(c, s)
  \/ \E cols \in SUBSET Cols : UpdateNavigation(cols)

Calls ==
  \/ CreateYml \/ AddItemToOrder \/ DeleteItemFromOrder \/ UpdateItemInOrder
  \/ DeleteSubfolderFromOrder \/ RenameSubfolderInOrder \/ UpdateOrder
  \/ RenameCollectionInOrder \/ WriteNav \/ SetNav
  \/ TakePage \/ DropFile \/ PutPage \/ CreateKeep \/ DeleteDir \/ RenameDir

Next == Requests \/ Calls \/ Rollback

Spec == Init /\ [][Next]_vars

-----------------------------------------------------------------------------
(* Properties                                                              *)

\* A collection lists each page and each subfolder it has, once, and nothing it does not
\* have, after any sequence of requests, failed ones among them, unless an order was saved
\* that was out of date; the entries of a subfolder are next to each other, so that it is
\* shown once.
OrderListsPages ==
  Idle /\ stale = 0 =>
    \A c \in Collections :
      LET order == yml[c].order IN
      /\ IsInjective(order)
      /\ Range(order) = {<<p[2], p[3]>> : p \in {q \in DOMAIN files : q[1] = c}}
      /\ \A i, k \in DOMAIN order : order[i][1] = order[k][1] /\ order[i][1] # Top =>
           \A j \in i..k : order[j][1] = order[i][1]

\* Every page is where the requests that succeeded put it, whatever lists were out of date;
\* and while a request is under way, a page it is not to delete is in one place, or held.
PagesWhereAsked ==
  /\ Idle => PagePaths = DOMAIN want /\ \A p \in PagePaths : files[p].page = want[p]
  /\ ~Idle =>
       \A id \in Range(want) \cap Range(before.want) :
         LET at == {p \in PagePaths : files[p].page = id} IN
         IF hand.page = id THEN at = {} ELSE Cardinality(at) = 1

\* What is shown of a page leads to it: its third_nav_title is the subfolder it is in, its
\* collection has a collection.yml under its name, and the navigation links to no other.
NavFindsPages ==
  Idle => /\ \A p \in PagePaths : files[p].third = p[2]
          /\ \A p \in DOMAIN files : p[1] # Unlinked => Loads(p[1])
          /\ nav \subseteq {c \in Cols : Loads(c)}

\* The pages of a site as an editor that asks next will find them: the ones there are between
\* requests, the ones there were before while one is under way.
PagesAt(fs) == [p \in {q \in DOMAIN fs : IsPage(q)} |-> fs[p].page]
Asked == PagesAt(IF Idle THEN files ELSE before.files)

\* To the editors a request is one step: its chain of calls, broken off anywhere by a failure,
\* does to the pages what was asked or nothing, and only a delete takes a page away.
Store == INSTANCE PageStore WITH pages <- Asked
ImplementsStore == Store!Spec
=============================================================================
