------------------------------ MODULE GitHubRepo ------------------------------
(***************************************************************************)
(* A repository on GitHub as the services see it where the local git file  *)
(* system is off (GitHubService, RepoService): files are written one by    *)
(* one through the contents API, which works on the head of staging, or as *)
(* a tree, which is built on the tree of the commit the route handler      *)
(* looked up when it took the lock, and made the head by force.            *)
(*                                                                         *)
(* Data.  A file is [dir, name] with dir the folders of its path; a tree   *)
(* maps files to texts; a text is a record of the fields that matter, and  *)
(* its hash is itself.  Folders exist as far as there are files in them.   *)
(***************************************************************************)
EXTENDS Naturals, Sequences, FiniteSets

File(d, n) == [dir |-> d, name |-> n]

\* The strings of a path in front of another.
IsUnder(d, prefix) == Len(prefix) <= Len(d) /\ SubSeq(d, 1, Len(prefix)) = prefix
FilesUnder(tree, d) == {f \in DOMAIN tree : IsUnder(f.dir, d)}
DirExists(tree, d) == d = <<>> \/ FilesUnder(tree, d) # {}
Parent(d) == SubSeq(d, 1, Len(d) - 1)

Without(tree, files) == [f \in DOMAIN tree \ files |-> tree[f]]
With(tree, file, text) == [f \in DOMAIN tree \cup {file} |-> IF f = file THEN text ELSE tree[f]]

\* The result of a call: what it leaves, or that it was refused.
Done(tree) == [ok |-> TRUE, tree |-> tree]
Refused(tree) == [ok |-> FALSE, tree |-> tree]
Unless(refused, was, becomes) == IF refused THEN Refused(was) ELSE Done(becomes)

-----------------------------------------------------------------------------
\* The contents API.

\* GitHubService.create: which folder must exist already.  A collection.yml or an
\* index.html makes its folder, a .keep and a post are checked for the folder above.
MustExist(file) ==
  CASE file.name = "index.html" -> <<>>
    [] file.name = ".keep" \/ file.dir[Len(file.dir)] = "_posts" -> Parent(file.dir)
    [] OTHER -> file.dir

Create(tree, file, text) ==
  Unless(~DirExists(tree, MustExist(file)) \/ file \in DOMAIN tree,
         tree, With(tree, file, text))

\* GitHubService.update and delete: GitHub compares the hash, or takes any if the caller
\* sends none and the file is read for it.
NoSha == [none |-> TRUE]
ShaAgrees(tree, file, sha) == file \in DOMAIN tree /\ (sha = NoSha \/ sha = tree[file])
Update(tree, file, sha, text) ==
  Unless(~DirExists(tree, file.dir) \/ ~ShaAgrees(tree, file, sha), tree, With(tree, file, text))
Delete(tree, file, sha) ==
  Unless(~ShaAgrees(tree, file, sha), tree, Without(tree, {file}))

-----------------------------------------------------------------------------
\* What the tree calls make of a tree.

\* Each file in the domain of `target' goes where that says.
Moved(tree, target) ==
  LET files == DOMAIN target
      made == {target[f] : f \in files}
  IN [g \in (DOMAIN tree \ files) \cup made |->
        IF g \in made THEN tree[CHOOSE f \in files : target[f] = g] ELSE tree[g]]

\* deleteMultipleFiles: files that are not there are left out, hashes are not compared.
DeleteMany(tree, files) == Done(Without(tree, files))
DeleteDirectory(tree, d) == Done(Without(tree, FilesUnder(tree, d)))

\* moveFiles: refused if the target has a file of one of the names.
MoveFiles(tree, old, new, names) ==
  LET files == {f \in DOMAIN tree : f.dir = old /\ f.name \in names}
      target == [f \in files |-> File(new, f.name)]
  IN Unless(\E n \in names : File(new, n) \in DOMAIN tree, tree, Moved(tree, target))

\* renameSinglePath, of a folder or of a file: refused if the new path is one of the same kind.
RenameDir(tree, old, new) ==
  LET target == [f \in FilesUnder(tree, old) |->
                   File(new \o SubSeq(f.dir, Len(old) + 1, Len(f.dir)), f.name)]
  IN Unless(FilesUnder(tree, new) # {}, tree, Moved(tree, target))
RenameFile(tree, old, new) ==
  Unless(new \in DOMAIN tree, tree, Moved(tree, [f \in {old} \cap DOMAIN tree |-> new]))

\* Whether a tree call finds anything to change; an empty list of changes is a commit of
\* the tree it is built on, or refused by GitHub.
FindsFiles(tree, call) ==
  CASE call.op = "deleteMany" -> call.files \cap DOMAIN tree # {}
    [] call.op = "deleteDir" -> FilesUnder(tree, call.dir) # {}
    [] call.op = "moveFiles" -> \E f \in DOMAIN tree : f.dir = call.dir /\ f.name \in call.names
    [] call.op = "renameDir" -> FilesUnder(tree, call.dir) # {}
    [] call.op = "renameFile" -> call.file \in DOMAIN tree

IsTreeCall(call) == call.op \in {"deleteMany", "deleteDir", "moveFiles", "renameDir", "renameFile"}

\* A call on a tree; texts read earlier in the request are in seen.
Merged(text, change) ==
  [k \in DOMAIN text |-> IF k \in DOMAIN change THEN change[k] ELSE text[k]]

Apply(tree, call, seen) ==
  CASE call.op = "create" -> Create(tree, call.file, call.text)
    [] call.op = "read" -> Unless(call.file \notin DOMAIN tree, tree, tree)
    [] call.op = "write" ->    \* what was read, changed, under the hash that was read
         Update(tree, call.file, seen[call.from], Merged(seen[call.from], call.change))
    [] call.op = "update" -> Update(tree, call.file, call.sha, call.text)
    [] call.op = "delete" -> Delete(tree, call.file, call.sha)
    [] call.op = "deleteMany" -> DeleteMany(tree, call.files)
    [] call.op = "deleteDir" -> DeleteDirectory(tree, call.dir)
    [] call.op = "moveFiles" -> MoveFiles(tree, call.dir, call.new, call.names)
    [] call.op = "renameDir" -> RenameDir(tree, call.dir, call.new)
    [] call.op = "renameFile" -> RenameFile(tree, call.file, call.new)
=============================================================================
