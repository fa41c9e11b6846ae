------------------------------ MODULE PageNames -------------------------------
(***************************************************************************)
(* What a file of a site is to the CMS (PageService.parsePageName and      *)
(* retrieveRelativeCmsPermalink, extractPathInfo), and how a changed file  *)
(* is listed for review (ReviewRequestService.extractEditedItemInfo).      *)
(*                                                                         *)
(* A file is [dirs, name, ext, layout]: the folders of its path, its name  *)
(* and extension, and the layout of its front matter.  The underscore that *)
(* Jekyll wants in front of the folder of a collection is left out.        *)
(***************************************************************************)
EXTENDS Naturals, Sequences

\* extractPathInfo: a path without a folder is an Err; every file has a name.
HasFolder(f) == f.dirs # <<>>
LastDir(f) == f.dirs[Len(f.dirs)]

IsMarkdownPage(f) == f.ext = "md"

NotAPage == [kind |-> "none"]

\* parseHomepage: index.md, outside any folder.
IsHomepage(f) == IsMarkdownPage(f) /\ ~HasFolder(f) /\ f.name = "index.md"

\* parseContactUsPage: the last folder is looked at, not all of the path.
IsContactUs(f) == HasFolder(f) /\ LastDir(f) = "pages" /\ f.name = "contact-us.md"

\* parseUnlinkedPages
IsUnlinked(f) == f.dirs = <<"pages">>

\* extractResourcePageName: three folders, or the last of them _posts, and a post layout.
IsResourcePage(f, room) ==
  /\ room # "none"
  /\ HasFolder(f) /\ f.dirs[1] = room
  /\ Len(f.dirs) = 3 \/ LastDir(f) = "_posts"
  /\ f.layout = "post"

\* parseCollectionPage: whatever is left, at most two folders deep.
CollectionPageName(f) ==
  CASE Len(f.dirs) = 1 -> [kind |-> "CollectionPage", name |-> f.name, collection |-> f.dirs[1]]
    [] Len(f.dirs) = 2 -> [kind |-> "SubcollectionPage", name |-> f.name,
                           collection |-> f.dirs[1], subcollection |-> f.dirs[2]]
    [] OTHER -> NotAPage

\* parsePageName; room is the resource room of the site, "none" if it has none.
ParsePageName(f, room) ==
  CASE IsHomepage(f) -> [kind |-> "Homepage"]
    [] IsContactUs(f) -> [kind |-> "ContactUsPage"]
    [] IsUnlinked(f) -> [kind |-> "UnlinkedPage", name |-> f.name]
    [] IsResourcePage(f, room) ->
         [kind |-> "ResourceCategoryPage", name |-> f.name, room |-> room,
          category |-> IF Len(f.dirs) > 1 THEN f.dirs[2] ELSE "none"]
    [] OTHER -> CollectionPageName(f)

\* retrieveRelativeCmsPermalink: the path of the editor, as the parts it is made of; the
\* home page and the contact-us page have an address without a name.
CmsPermalink(page) ==
  CASE page.kind = "Homepage" -> <<"homepage">>
    [] page.kind = "ContactUsPage" -> <<"contact-us">>
    [] page.kind = "UnlinkedPage" -> <<"editPage", page.name>>
    [] page.kind = "CollectionPage" -> <<"folders", page.collection, "editPage", page.name>>
    [] page.kind = "SubcollectionPage" ->
         <<"folders", page.collection, "subfolders", page.subcollection, "editPage", page.name>>
    [] page.kind = "ResourceCategoryPage" ->
         <<"resourceRoom", page.room, "resourceCategory", page.category, "editPage", page.name>>

PathInCms(f, room) == CmsPermalink(ParsePageName(f, room))
HasPathInCms(f, room) == ParsePageName(f, room) # NotAPage
=============================================================================
