---------------------------- MODULE MCLinkChecker ----------------------------
(* One site: an edit of a page and one of an image, a repair with and one      *)
(* without the lock, a lock only, a reset, two checks of its links.  A site    *)
(* with something to read changes under a check, and nothing else meets it.    *)
EXTENDS LinkChecker, TLC

CONSTANTS page, image, repair, hasty, hold, reset, c1, c2

MCEdits == {page, image}
MCMedia == {image}
MCRepairs == {repair, hasty, hold}
MCModeOf == (repair :> "repair_with_lock") @@ (hasty :> "repair_without_lock")
              @@ (hold :> "only_lock")
MCResets == {reset}
MCChecks == {c1, c2}
Symmetry == Permutations(MCChecks)

File(dirs, name) == [dirs |-> dirs, name |-> name, ext |-> "md", layout |-> "post"]
Link(name, slash, end) == [name |-> name, slash |-> slash, tail |-> end, quoted |-> FALSE]
Ref(name, slash, end) ==
  [name |-> name, slash |-> slash, tail |-> end, query |-> FALSE, external |-> FALSE]
Page(file, permalink, refs) == [file |-> file, permalink |-> permalink, refs |-> refs]
Tree(pages, media) ==
  [pages |-> pages, media |-> media, room |-> "news", dirs |-> {"files", "images"}]

\* For the clones it is enough that a check may find nothing, throw, or fail.
Bare == [NoFiles EXCEPT !.dirs = {"files", "images"}]
BareTrees == {Bare, [Bare EXCEPT !.media = {"50%"}]}

\* "about" and "team" are pages, the first with a slash at its end; "old" has, while it is
\* there, the permalink of "team"; "deep" has no place in the CMS and "draft" no permalink.
About == Page(File(<<"pages">>, "about.md"), {Link("about", TRUE, TRUE)},
              {Ref("team", TRUE, FALSE), Ref("gone", TRUE, FALSE), Ref("logo", TRUE, FALSE),
               Ref("about", TRUE, FALSE), Ref("deep", TRUE, FALSE), Ref("news", TRUE, FALSE),
               [Ref("logo", TRUE, FALSE) EXCEPT !.query = TRUE],
               [Ref("elsewhere", FALSE, FALSE) EXCEPT !.external = TRUE]})
Team == Page(File(<<"us">>, "team.md"), {Link("team", TRUE, FALSE)}, {Ref("about", TRUE, TRUE)})
Old == Page(File(<<"us", "past">>, "old.md"), {Link("team", TRUE, FALSE)}, {Ref("about", TRUE, FALSE)})
Renamed == Page(Old.file, {Link("old", FALSE, FALSE)}, {Ref("50%", TRUE, FALSE)})
Deep == Page(File(<<"us", "past", "far", "away">>, "deep.md"), {Link("deep", TRUE, FALSE)}, {})
Draft == Page(File(<<"pages">>, "draft.md"), {}, {Ref("nowhere", TRUE, FALSE)})

\* The site as it is, after old has been renamed and draft made, and without old and logo.
FullTrees ==
  {Tree({About, Team, Old, Deep}, {"logo"}), Tree({About, Team, Renamed, Draft}, {"logo"}),
   Tree({About, Team}, {"50%"})}

MCHistories == {{t} : t \in BareTrees} \cup {FullTrees}
MCUndecodable == {"50%"}
MCMaxJobs == [t \in BareTrees \cup FullTrees |-> IF t \in BareTrees THEN 2 ELSE 1]
MCMaxEdits == [t \in BareTrees \cup FullTrees |-> IF t \in BareTrees THEN 2 ELSE 0]
=============================================================================
