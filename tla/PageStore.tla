------------------------------ MODULE PageStore ------------------------------
(***************************************************************************)
(* What the editor promises about the pages of a site: a request is done   *)
(* whole or not at all.  A page stays the page it is, wherever it goes,    *)
(* no request but a delete loses one, and none puts a page in the place of *)
(* another.                                                                *)
(***************************************************************************)
CONSTANTS Cols, Subs, Names, Pages, Unlinked, Top

VARIABLE pages    \* the page at each path <<collection, subfolder, name>>

Locations == {<<Unlinked, Top>>} \cup (Cols \X (Subs \cup {Top}))
PathIn(loc, name) == <<loc[1], loc[2], name>>
IsIn(path, loc) == path[1] = loc[1] /\ path[2] = loc[2]

Init ==
  \E ns \in SUBSET Names :
    /\ pages \in [{PathIn(<<Unlinked, Top>>, n) : n \in ns} -> Pages]
    /\ \A p, q \in DOMAIN pages : pages[p] = pages[q] => p = q

\* Each page goes where to says: as to is of paths and pages differ, none is lost.
Relocate(to) ==
  /\ pages' \in [{to[p] : p \in DOMAIN pages} -> Pages]
  /\ \A p \in DOMAIN pages : pages'[to[p]] = pages[p]

Remove(gone) == pages' = [p \in DOMAIN pages \ gone |-> pages[p]]

CreatePage(path) ==
  /\ path \notin DOMAIN pages
  /\ \E page \in Pages :
       /\ \A p \in DOMAIN pages : pages[p] # page
       /\ pages' = [p \in DOMAIN pages \cup {path} |-> IF p = path THEN page ELSE pages[p]]

DeletePage(path) == Remove({path})

\* The delete of a collection or of a subfolder
DeleteCollection(c) == Remove({p \in DOMAIN pages : p[1] = c})
DeleteSubcollection(c, s) == Remove({p \in DOMAIN pages : IsIn(p, <<c, s>>)})

\* Pages of one folder to another, which may be new
MovePages(src, dst, names) ==
  Relocate([p \in DOMAIN pages |->
              IF IsIn(p, src) /\ p[3] \in names THEN PathIn(dst, p[3]) ELSE p])

RenamePage(loc, old, new) ==
  Relocate([p \in DOMAIN pages |-> IF p = PathIn(loc, old) THEN PathIn(loc, new) ELSE p])

RenameCollection(c, new) ==
  Relocate([p \in DOMAIN pages |-> IF p[1] = c THEN <<new, p[2], p[3]>> ELSE p])

Next ==
  \/ \E src, dst \in Locations, names \in SUBSET Names : MovePages(src, dst, names)
  \/ \E loc \in Locations, n \in Names :
       CreatePage(PathIn(loc, n)) \/ DeletePage(PathIn(loc, n))
  \/ \E loc \in Locations, m, n \in Names : RenamePage(loc, m, n)
  \/ \E c, d \in Cols : RenameCollection(c, d)
  \/ \E c \in Cols : DeleteCollection(c)
  \/ \E c \in Cols, s \in Subs : DeleteSubcollection(c, s)

Spec == Init /\ [][Next]_pages
=============================================================================
