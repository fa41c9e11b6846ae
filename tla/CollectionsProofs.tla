-------------------------- MODULE CollectionsProofs --------------------------
(***************************************************************************)
(* Collections, for any number of collections, subfolders, names and       *)
(* pages and any bounds.                                                   *)
(*                                                                         *)
(* Between requests a site is Sound.  While one is under way, the calls it *)
(* still has to make say what is missing: the invariant has a predicate    *)
(* for each form that todo takes, with the order of a collection that is   *)
(* ahead of its files or behind them, the key that a renamed collection    *)
(* still has, and the places the pages that are still to be moved will     *)
(* have (Heading).                                                         *)
(***************************************************************************)
EXTENDS Collections, WellFoundedInduction, FiniteSetTheorems, SequenceTheorems, TLAPS

Folders == Subs \cup {Top}
Items == Folders \X (Names \cup {Keep})
Paths == {p \in (Cols \cup {Unlinked}) \X Folders \X (Names \cup {Keep}) :
            (p[1] = Unlinked => p[2] = Top) /\ (p[3] = Keep => p[2] # Top)}
Held == [page : Pages \cup {Keep}, third : Folders]
Ymls == [Cols -> {Nothing} \cup Yml]

PagesOf(fs) == {p \in DOMAIN fs : IsPage(p)}
Entries(fs, c) == {<<p[2], p[3]>> : p \in {q \in DOMAIN fs : q[1] = c}}
KeepOf(p) == <<p[1], p[2], Keep>>

-----------------------------------------------------------------------------
(* The parts of a sound site                                               *)

\* The files are where files can be, a page is at one place, and says its subfolder.
FilesFit(fs) ==
  /\ DOMAIN fs \subseteq Paths
  /\ \A p \in DOMAIN fs : fs[p] \in Held /\ (fs[p].page = Keep <=> ~IsPage(p))
  /\ \A p, q \in PagesOf(fs) : fs[p].page = fs[q].page => p = q
  /\ \A p \in PagesOf(fs) : fs[p].third = p[2]

Placed(fs, w) == DOMAIN w = PagesOf(fs) /\ \A p \in PagesOf(fs) : w[p] = fs[p].page

\* Each collection.yml has the key of its collection, and each collection with a file has
\* one, but for c; the navigation links to no other, but for d.
Keyed(ys, c) == \A b \in Cols \ {c} : ys[b] # Nothing => ys[b].key = b
Covered(fs, ys) == \A p \in DOMAIN fs : p[1] # Unlinked => ys[p[1]] # Nothing
Linked(ys, nv, d) == \A b \in nv \ {d} : ys[b] # Nothing
Tended(fs, ys, nv) == Keyed(ys, Nothing) /\ Covered(fs, ys) /\ Linked(ys, nv, Nothing)

Grouped(o) ==
  \A i, k \in DOMAIN o : o[i][1] = o[k][1] /\ o[i][1] # Top => \A j \in i..k : o[j][1] = o[i][1]

\* o lists L, each item once and the items of a folder next to each other.
Orderly(o, L) == IsInjective(o) /\ Range(o) = L /\ Grouped(o)

\* The orders list what the collections have, but that of c lists L.
OrdersBut(fs, ys, c, L) ==
  \A b \in Cols : ys[b] # Nothing => Orderly(ys[b].order, IF b = c THEN L ELSE Entries(fs, b))
Ordered(fs, ys) == OrdersBut(fs, ys, Nothing, {})

\* Every subfolder has its .keep, but for <<c, s>>.
KeptBut(fs, c, s) ==
  \A p \in DOMAIN fs : p[2] # Top /\ <<p[1], p[2]>> # <<c, s>> => KeepOf(p) \in DOMAIN fs
Kept(fs) == KeptBut(fs, Nothing, Nothing)

\* No list that was out of date was saved, and no folder's name ends with another's.
Exactly(st) == st = 0 /\ Tails = {}

Sound(fs, ys, nv, w, st) ==
  /\ FilesFit(fs) /\ ys \in Ymls /\ nv \subseteq Cols /\ st \in 0..MaxStale
  /\ Placed(fs, w)
  /\ Tended(fs, ys, nv)
  /\ Exactly(st) => Ordered(fs, ys) /\ Kept(fs)

-----------------------------------------------------------------------------
(* The forms of todo                                                       *)

Exact == Exactly(stale)
SoundNow == Tended(files, yml, nav) /\ (Exact => Ordered(files, yml) /\ Kept(files))

\* Where the pages that are still to be moved are to go.
Shift(src, dst, names) == [p \in {PathIn(src, n) : n \in names} |-> PathIn(dst, p[3])]
Goal(to, p) == IF p \in DOMAIN to THEN to[p] ELSE p

\* Unless a page is in the way, which will stop the request, each page of fs is at a place
\* from which to leads where w wants it, and the page id in hand is wanted at new.
Clear(fs, to, new) == /\ \A p \in DOMAIN to : to[p] = p \/ to[p] \notin PagesOf(fs)
                      /\ new \cap PagesOf(fs) = {}
Leads(fs, w, id, to, new) ==
  Clear(fs, to, new) =>
    /\ \A p \in PagesOf(fs) : Goal(to, p) \in DOMAIN w /\ w[Goal(to, p)] = fs[p].page
    /\ \A q \in new : q \in DOMAIN w /\ w[q] = id
    /\ DOMAIN w \subseteq {Goal(to, p) : p \in PagesOf(fs)} \cup new
Heading(to, new) == Leads(files, want, hand.page, to, new)
Without(gone) == /\ DOMAIN want = PagePaths \ gone
                 /\ \A p \in DOMAIN want : want[p] = files[p].page

NameLists == {ns \in Seq(Names) : IsInjective(ns)}
HasKeep(fs, loc) == loc[2] # Top => KeepOf(loc) \in DOMAIN fs
Reaches(ys, loc) == loc[1] \in Cols => ys[loc[1]] # Nothing
TakeCall(loc, n) == [op |-> "take", path |-> PathIn(loc, n)]
PutCall(loc, n, third) == [op |-> "put", path |-> PathIn(loc, n), third |-> third]
ItemCall(op, loc, n) == [op |-> op, col |-> loc[1], item |-> <<loc[2], n>>]

\* Moves, before and after an item is out of the order, and before and after it is in
Moving(src, dst, ns) ==
  /\ todo = Moves(src, dst, ns) /\ hand = NoPage
  /\ Heading(Shift(src, dst, Range(ns)), {})
  /\ SoundNow /\ (Exact => HasKeep(files, dst))
Taking(src, dst, n, rest) ==
  /\ todo = <<TakeCall(src, n)>> \o PutCalls(dst, n) \o Moves(src, dst, rest) /\ hand = NoPage
  /\ n \notin Range(rest) /\ Heading(Shift(src, dst, Range(rest) \cup {n}), {})
  /\ Tended(files, yml, nav)
  /\ Exact => /\ OrdersBut(files, yml, src[1], Entries(files, src[1]) \ {<<src[2], n>>})
              /\ Kept(files) /\ HasKeep(files, dst)
Entering(src, dst, n, rest) ==
  /\ todo = PutCalls(dst, n) \o Moves(src, dst, rest) /\ hand.page # Nothing
  /\ n \notin Range(rest) /\ Heading(Shift(src, dst, Range(rest)), {PathIn(dst, n)})
  /\ SoundNow /\ (Exact => HasKeep(files, dst))
Putting(src, dst, n, third, rest) ==
  /\ todo = <<PutCall(dst, n, third)>> \o Moves(src, dst, rest) /\ hand.page # Nothing
  /\ n \notin Range(rest) /\ Heading(Shift(src, dst, Range(rest)), {PathIn(dst, n)})
  /\ third = dst[2] \/ (third = Nothing /\ hand.third = dst[2])
  /\ Reaches(yml, dst)
  /\ Tended(files, yml, nav)
  /\ Exact => /\ PathIn(dst, n) \notin DOMAIN files =>
                   OrdersBut(files, yml, dst[1], Entries(files, dst[1]) \cup {<<dst[2], n>>})
              /\ Kept(files) /\ HasKeep(files, dst)

\* A new collection or subfolder
NewCollection(c, ns) ==
  /\ todo = <<[op |-> "createYml", col |-> c]>> \o Moves(<<Unlinked, Top>>, <<c, Top>>, ns)
  /\ hand = NoPage /\ Heading(Shift(<<Unlinked, Top>>, <<c, Top>>, Range(ns)), {}) /\ SoundNow
NewFolder(c, s, ns) ==
  /\ todo = <<[op |-> "keep", path |-> <<c, s, Keep>>], ItemCall("addItem", <<c, s>>, Keep)>>
            \o Moves(<<c, Top>>, <<c, s>>, ns)
  /\ hand = NoPage /\ Heading(Shift(<<c, Top>>, <<c, s>>, Range(ns)), {})
  /\ SoundNow /\ yml[c] # Nothing
FolderItem(c, s, ns) ==
  /\ todo = <<ItemCall("addItem", <<c, s>>, Keep)>> \o Moves(<<c, Top>>, <<c, s>>, ns)
  /\ hand = NoPage /\ Heading(Shift(<<c, Top>>, <<c, s>>, Range(ns)), {})
  /\ Tended(files, yml, nav)
  /\ Exact => /\ OrdersBut(files, yml, c, Entries(files, c) \ {<<s, Keep>>})
              /\ Kept(files) /\ <<c, s, Keep>> \in DOMAIN files

\* The rename of a page
Title(loc) == IF InCollection(loc) /\ loc[2] = Top THEN Top ELSE Nothing
Onto(loc, old, new) == [p \in {PathIn(loc, old)} |-> PathIn(loc, new)]
Updating(loc, old, new) ==
  /\ todo = <<[op |-> "updateItem", col |-> loc[1], item |-> <<loc[2], old>>, new |-> <<loc[2], new>>],
              TakeCall(loc, old), PutCall(loc, new, Title(loc))>>
  /\ InCollection(loc) /\ PathIn(loc, old) \in PagePaths
  /\ hand = NoPage /\ Heading(Onto(loc, old, new), {}) /\ SoundNow
Retaking(loc, old, new) ==
  /\ todo = <<TakeCall(loc, old), PutCall(loc, new, Title(loc))>>
  /\ PathIn(loc, old) \in PagePaths
  /\ hand = NoPage /\ Heading(Onto(loc, old, new), {}) /\ Tended(files, yml, nav)
  /\ Exact =>
       /\ PathIn(loc, new) \notin DOMAIN files \/ new = old =>
            OrdersBut(files, yml, loc[1], (Entries(files, loc[1]) \ {<<loc[2], old>>}) \cup {<<loc[2], new>>})
       /\ Kept(files)

\* The delete of a page
Deleting(loc, n) ==
  /\ todo = <<ItemCall("deleteItem", loc, n), [op |-> "drop", path |-> PathIn(loc, n)]>>
  /\ InCollection(loc) /\ hand = NoPage /\ Without({PathIn(loc, n)}) /\ SoundNow
Dropping(loc, n) ==
  /\ todo = <<[op |-> "drop", path |-> PathIn(loc, n)]>>
  /\ hand = NoPage /\ Without({PathIn(loc, n)}) /\ Tended(files, yml, nav)
  /\ Exact => /\ OrdersBut(files, yml, loc[1], Entries(files, loc[1]) \ {<<loc[2], n>>})
              /\ Kept(files)

\* The rename and the delete of a collection
NavCall(c, cols) == [op |-> "nav", col |-> c, cols |-> cols]
KeyCall(c, new) == [op |-> "renameKey", col |-> c, new |-> new]
RenamingDir(c, new) ==
  /\ todo = <<[op |-> "renameDir", col |-> c, new |-> new], KeyCall(c, new), NavCall(c, {new})>>
  /\ hand = NoPage /\ SoundNow
  /\ \E w \in {before.want} : Placed(files, w) /\ want = Rebased(w, c, new)
RenamingKey(c, new) ==
  /\ todo = <<KeyCall(c, new), NavCall(c, {new})>>
  /\ hand = NoPage /\ Placed(files, want)
  /\ yml[new] # Nothing /\ yml[new].key = c
  /\ Keyed(yml, new) /\ Covered(files, yml) /\ Linked(yml, nav, c)
  /\ Exact => Ordered(files, yml) /\ Kept(files)
Linking(c, cols) ==
  /\ todo = <<NavCall(c, cols)>>
  /\ hand = NoPage /\ Placed(files, want)
  /\ \A d \in cols : yml[d] # Nothing
  /\ Keyed(yml, Nothing) /\ Covered(files, yml) /\ Linked(yml, nav, c)
  /\ Exact => Ordered(files, yml) /\ Kept(files)
DeletingDir(c) ==
  /\ todo = <<[op |-> "deleteDir", col |-> c, sub |-> Top], NavCall(c, {})>>
  /\ hand = NoPage /\ Without({p \in PagePaths : p[1] = c}) /\ SoundNow

\* The delete of a subfolder
DeletingFolder(c, s) ==
  /\ todo = <<[op |-> "deleteDir", col |-> c, sub |-> s], [op |-> "deleteFolder", col |-> c, sub |-> s]>>
  /\ hand = NoPage /\ Without(Under(PagePaths, <<c, s>>)) /\ SoundNow
Unlisting(c, s) ==
  /\ todo = <<[op |-> "deleteFolder", col |-> c, sub |-> s]>>
  /\ hand = NoPage /\ Placed(files, want) /\ Tended(files, yml, nav) /\ yml[c] # Nothing
  /\ LET L == Range(yml[c].order) IN
     Exact => /\ OrdersBut(files, yml, c, L)
              /\ {x \in L : x[1] # s} = Entries(files, c)
              /\ Kept(files)

\* The rename of a subfolder
Refiles(c, s, new, names) == FlattenSeq([i \in DOMAIN names |-> Refile(c, s, new, names[i])])
ListCall(c, s, new) == [op |-> "renameFolder", col |-> c, sub |-> s, new |-> new]
InNew(s, new, x) == IF x[1] = s THEN <<new, x[2]>> ELSE x
NamesOf(fs, c, s) == {p[3] : p \in Under(DOMAIN fs, <<c, s>>)}
\* The order is still that of the old name, with what names are left of it.
Listed(c, s, new, names, more) ==
  /\ Tended(files, yml, nav) /\ yml[c] # Nothing
  /\ LET L == Range(yml[c].order) IN
     Exact => /\ s # new /\ OrdersBut(files, yml, c, L)
              /\ \A x \in L : x[1] # new
              /\ {InNew(s, new, x) : x \in L} = {InNew(s, new, x) : x \in Entries(files, c)} \cup more
              /\ NamesOf(files, c, s) = names
              /\ KeptBut(files, c, s) /\ <<c, new, Keep>> \in DOMAIN files
NewName(c, s, new, names) ==
  /\ todo = <<[op |-> "keep", path |-> <<c, new, Keep>>]>> \o Refiles(c, s, new, names)
            \o <<ListCall(c, s, new)>>
  /\ hand = NoPage /\ Heading(Shift(<<c, s>>, <<c, new>>, Range(names) \ {Keep}), {})
  /\ SoundNow /\ yml[c] # Nothing /\ names # <<>>
  /\ NamesOf(files, c, s) = Range(names)
Refiling(c, s, new, names) ==
  /\ todo = Refiles(c, s, new, names) \o <<ListCall(c, s, new)>>
  /\ hand = NoPage /\ Heading(Shift(<<c, s>>, <<c, new>>, Range(names) \ {Keep}), {})
  /\ Listed(c, s, new, Range(names), {})
Reputting(c, s, new, n, rest) ==
  /\ todo = <<PutCall(<<c, new>>, n, new)>> \o Refiles(c, s, new, rest) \o <<ListCall(c, s, new)>>
  /\ hand.page # Nothing /\ n \in Names /\ n \notin Range(rest)
  /\ Heading(Shift(<<c, s>>, <<c, new>>, Range(rest) \ {Keep}), {<<c, new, n>>})
  /\ Listed(c, s, new, Range(rest), {<<new, n>>})

\* The save of an order or of the navigation
Saving(c, order) ==
  /\ todo = <<[op |-> "setOrder", col |-> c, order |-> order]>> /\ order \in Orders
  /\ hand = NoPage /\ Placed(files, want) /\ SoundNow
  /\ Exact => Orderly(order, Entries(files, c))
SavingNav(cols) ==
  /\ todo = <<[op |-> "setNav", cols |-> cols]>>
  /\ hand = NoPage /\ Placed(files, want) /\ SoundNow
  /\ \A c \in cols : yml[c] # Nothing

FileLists == {ns \in Seq(Names \cup {Keep}) : IsInjective(ns)}

Underway ==
  \/ \E src, dst \in Locations, ns \in NameLists : Moving(src, dst, ns)
  \/ \E src, dst \in Locations, n \in Names, rest \in NameLists :
       \/ Taking(src, dst, n, rest) \/ Entering(src, dst, n, rest)
       \/ \E third \in Folders \cup {Nothing} : Putting(src, dst, n, third, rest)
  \/ \E c \in Cols, ns \in NameLists : NewCollection(c, ns)
  \/ \E c \in Cols, s \in Subs, ns \in NameLists : NewFolder(c, s, ns) \/ FolderItem(c, s, ns)
  \/ \E loc \in Locations, m, n \in Names : Updating(loc, m, n) \/ Retaking(loc, m, n)
  \/ \E loc \in Locations, n \in Names : Deleting(loc, n) \/ Dropping(loc, n)
  \/ \E c, d \in Cols : RenamingDir(c, d) \/ RenamingKey(c, d)
  \/ \E c \in Cols, cols \in SUBSET Cols : Linking(c, cols)
  \/ \E c \in Cols : DeletingDir(c) \/ (Doing("setOrder") /\ Saving(c, Head(todo).order))
  \/ \E c \in Cols, s \in Subs : DeletingFolder(c, s) \/ Unlisting(c, s)
  \/ \E c \in Cols, s, t \in Subs, names \in FileLists :
       NewName(c, s, t, names) \/ Refiling(c, s, t, names)
  \/ \E c \in Cols, s, t \in Subs, n \in Names, rest \in FileLists : Reputting(c, s, t, n, rest)
  \/ \E cols \in SUBSET Cols : SavingNav(cols)

\* What is so at any time
Steady ==
  /\ FilesFit(files) /\ yml \in Ymls /\ nav \subseteq Cols /\ stale \in 0..MaxStale
  /\ hand \in [page : Pages \cup {Nothing}, third : Folders]
  /\ \A p \in PagePaths : files[p].page # hand.page

\* No page that is wanted and was there is lost.
Unlost(fs, id, w, was) == Range(w) \cap Range(was) \subseteq {fs[p].page : p \in PagesOf(fs)} \cup {id}

InMid ==
  /\ Underway
  /\ Sound(before.files, before.yml, before.nav, before.want, before.stale)
  /\ Unlost(files, hand.page, want, before.want)

IInv ==
  /\ Steady
  /\ Idle => Sound(files, yml, nav, want, stale) /\ hand = NoPage
  /\ ~Idle => InMid

-----------------------------------------------------------------------------
(* Recursive functions and sequences                                       *)

\* A set of numbers that is not empty has a least one.
LEMMA LeastNat ==
  ASSUME NEW T \in SUBSET Nat, T # {}
  PROVE  \E n \in T : \A m \in T : n <= m
<1> DEFINE R == {ss \in Nat \X Nat : ss[1] < ss[2]}
<1>1. IsWellFoundedOn(R, Nat)
  BY NatLessThanWellFounded DEF OpToRel
<1>2. \A m, n \in Nat : m < n => <<m, n>> \in R
  OBVIOUS
<1> HIDE DEF R
<1>3. \E x \in T : \A y \in T : ~(<<y, x>> \in R)
  BY <1>1, WFMin
<1>4. \A m, n \in T : ~(<<m, n>> \in R) => n <= m
  BY <1>2
<1> QED
  BY <1>3, <1>4

\* Induction up to n, for a set of numbers.
Climbs(T, n) == n \in Nat /\ 0 \in T /\ \A i \in 0..(n - 1) : i \in T => i + 1 \in T

\* What holds of 0 and of i + 1 when of i holds of each number up to n.
LEMMA UpTo ==
  ASSUME NEW n, NEW T, Climbs(T, n)
  PROVE  \A i \in 0..n : i \in T
<1> USE DEF Climbs
<1> DEFINE M == {i \in 0..n : i \notin T}
<1> SUFFICES ASSUME M # {}
             PROVE  FALSE
  OBVIOUS
<1>0. M \in SUBSET Nat
  OBVIOUS
<1>1. PICK i \in M : \A j \in M : i <= j
  <2> HIDE DEF M
  <2> QED
    BY <1>0, LeastNat
<1>2. i # 0 /\ i - 1 \in 0..(n - 1)
  BY <1>1
<1>3. i - 1 \in T
  BY <1>1, <1>2
<1>4. (i - 1) + 1 \in T
  BY <1>2, <1>3
<1> QED
  BY <1>1, <1>2, <1>4

\* What is computed from x by n steps exists.
Steps(S, x, n, step) == x \in S /\ n \in Nat /\ step \in [1..n -> [S -> S]]
Follows(G, S, x, n, step) ==
  G \in [0..n -> S] /\ G[0] = x /\ \A i \in 1..n : G[i] = step[i][G[i - 1]]

\* A function that is defined by steps is there.
LEMMA StepsExist ==
  ASSUME NEW S, NEW x, NEW n, NEW step, Steps(S, x, n, step)
  PROVE  \E G : Follows(G, S, x, n, step)
<1> USE DEF Steps, Follows
<1> DEFINE Good(k, G) == G \in [0..k -> S] /\ G[0] = x /\ \A i \in 1..k : G[i] = step[i][G[i - 1]]
           T == {k \in 0..n : \E G \in [0..k -> S] : Good(k, G)}
<1>1. 0 \in T
  <2> DEFINE H == [i \in 0..0 |-> x]
  <2>1. H \in [0..0 -> S] /\ H[0] = x /\ \A i \in 1..0 : H[i] = step[i][H[i - 1]]
    OBVIOUS
  <2> HIDE DEF H
  <2>2. \E G \in [0..0 -> S] : Good(0, G)
    BY <2>1
  <2> HIDE DEF Good
  <2> QED
    BY <2>2
<1>2. ASSUME NEW k \in 0..(n - 1), k \in T PROVE k + 1 \in T
  <2>1. PICK G \in [0..k -> S] : Good(k, G)
    BY <1>2
  <2> DEFINE H == [i \in 0..(k + 1) |-> IF i = k + 1 THEN step[k + 1][G[k]] ELSE G[i]]
  <2>2. G[k] \in S /\ step[k + 1][G[k]] \in S
    BY <2>1
  <2>3. H \in [0..(k + 1) -> S]
    BY <2>1, <2>2
  <2>4. ASSUME NEW i \in 1..(k + 1) PROVE H[i] = step[i][H[i - 1]]
    <3>1. CASE i = k + 1
      <4>1. H[i] = step[k + 1][G[k]] /\ H[i - 1] = G[k]
        BY <3>1
      <4> QED
        BY <4>1, <3>1
    <3>2. CASE i # k + 1
      <4>1. i \in 1..k /\ H[i] = G[i] /\ H[i - 1] = G[i - 1]
        BY <3>2
      <4> QED
        BY <4>1, <2>1
    <3> QED
      BY <3>1, <3>2
  <2>5. H[0] = x
    BY <2>1
  <2>6. Good(k + 1, H)
    BY <2>3, <2>4, <2>5
  <2> HIDE DEF H, Good
  <2> QED
    BY <2>3, <2>6
<1> HIDE DEF T
<1>3. n \in T
  <2>1. Climbs(T, n)
    BY <1>1, <1>2 DEF Climbs
  <2>2. n \in 0..n
    OBVIOUS
  <2> QED
    BY <2>1, <2>2, UpTo
<1> QED
  BY <1>3 DEF T

\* FlattenSeq joins one sequence after the other.
LEMMA FlattenSteps ==
  ASSUME NEW S, NEW s \in Seq(Seq(S))
  PROVE  \E G \in [0..Len(s) -> Seq(S)] :
           /\ G[0] = <<>> /\ \A i \in 1..Len(s) : G[i] = G[i - 1] \o s[i]
           /\ FlattenSeq(s) = G[Len(s)]
<1> DEFINE n == Len(s)
           Ss == Seq(S)
           step == [i \in 1..n |-> [y \in Ss |-> y \o s[i]]]
<1>0. n \in Nat /\ \A i \in 1..n : s[i] \in Ss
  OBVIOUS
<1>1. \A i \in 1..n, y \in Ss : step[i][y] = y \o s[i] /\ step[i][y] \in Ss
  BY <1>0, ConcatProperties
<1>2. <<>> \in Ss /\ \A y \in Ss : <<>> \o y = y
  BY ConcatEmptySeq
<1>a. step \in [1..n -> [Ss -> Ss]]
  BY <1>0, <1>1
<1> HIDE DEF step, n, Ss
<1>3. PICK G \in [0..n -> Ss] : G[0] = <<>> /\ \A i \in 1..n : G[i] = step[i][G[i - 1]]
  <2>1. Steps(Ss, <<>>, n, step)
    BY <1>0, <1>a, <1>2 DEF Steps
  <2>2. PICK G : Follows(G, Ss, <<>>, n, step)
    BY <2>1, StepsExist
  <2> QED
    BY <2>2 DEF Follows
<1>4. \A i \in 1..n : G[i] = G[i - 1] \o s[i]
  <2> SUFFICES ASSUME NEW i \in 1..n
               PROVE  G[i] = G[i - 1] \o s[i]
    OBVIOUS
  <2>1. i - 1 \in 0..n
    BY <1>0
  <2>2. G[i - 1] \in Ss
    BY <2>1
  <2> QED
    BY <2>2, <1>1, <1>3
<1>5. CASE n = 0
  <2>1. s = <<>>
    BY <1>5 DEF n
  <2>2. FlattenSeq(s) = <<>>
    BY <2>1, <1>5 DEF FlattenSeq, n
  <2> QED
    BY <1>3, <1>5, <2>2 DEF n, Ss
<1>6. CASE n # 0
  <2> DEFINE Is(g) == g = [i \in 1..n |-> IF i = 1 THEN s[i] ELSE g[i - 1] \o s[i]]
             K == [i \in 1..n |-> G[i]]
             F == CHOOSE g : Is(g)
  <2>1. ASSUME NEW i \in 1..n PROVE K[i] = IF i = 1 THEN s[i] ELSE K[i - 1] \o s[i]
    <3>1. CASE i = 1
      <4>0. i - 1 = 0
        BY <3>1
      <4>1. G[i] = <<>> \o s[i]
        BY <1>3, <1>4, <4>0
      <4> QED
        BY <4>1, <3>1, <1>0, <1>2
    <3>2. CASE i # 1
      <4>1. i - 1 \in 1..n
        BY <1>0, <3>2
      <4> QED
        BY <4>1, <3>2, <1>4
    <3> QED
      BY <3>1, <3>2
  <2>2. Is(K)
    BY <2>1, Zenon
  <2>3. Is(F)
    BY <2>2, Zenon
  <2>5. FlattenSeq(s) = F[n]
    BY <1>6, Zenon DEF FlattenSeq, n
  <2>6. \A i \in 1..n : F[i] = IF i = 1 THEN s[i] ELSE F[i - 1] \o s[i]
    <3> HIDE DEF F
    <3> QED
      BY <2>3
  <2> HIDE DEF F, K
  <2> DEFINE T == {i \in 0..n : i # 0 => F[i] = G[i]}
  <2>7. 0 \in T
    BY <1>0
  <2>8. ASSUME NEW i \in 0..(n - 1), i \in T PROVE i + 1 \in T
    <3>1. i + 1 \in 1..n /\ i \in 0..n
      BY <1>0
    <3>2. CASE i = 0
      <4>0. i + 1 = 1 /\ (i + 1) - 1 = 0
        BY <3>2
      <4>1. F[i + 1] = s[i + 1] /\ G[i + 1] = <<>> \o s[i + 1]
        BY <3>1, <4>0, <2>6, <1>3, <1>4
      <4> QED
        BY <4>1, <3>1, <3>2, <1>0, <1>2
    <3>3. CASE i # 0
      <4>0. (i + 1) - 1 = i /\ i + 1 # 1
        BY <1>0, <3>3
      <4>1. F[i + 1] = F[i] \o s[i + 1] /\ G[i + 1] = G[i] \o s[i + 1]
        BY <3>1, <4>0, <2>6, <1>4
      <4>2. F[i] = G[i]
        BY <3>3, <2>8
      <4>3. F[i + 1] = G[i + 1] /\ i + 1 \in 0..n
        BY <4>1, <4>2, <3>1, <1>0
      <4> QED
        BY <4>3
    <3> QED
      BY <3>2, <3>3
  <2> HIDE DEF T
  <2>9. n \in T
    <3>1. Climbs(T, n)
      BY <1>0, <2>7, <2>8 DEF Climbs
    <3>2. n \in 0..n
      BY <1>0
    <3> QED
      BY <3>1, <3>2, UpTo
  <2> QED
    BY <2>9, <2>5, <1>6, <1>3, <1>4 DEF T, n, Ss
<1> QED
  BY <1>5, <1>6

\* FlattenSeq of what is first, and of the rest.
LEMMA FlattenHead ==
  ASSUME NEW S, NEW s \in Seq(Seq(S))
  PROVE  /\ FlattenSeq(s) \in Seq(S)
         /\ s = <<>> => FlattenSeq(s) = <<>>
         /\ s # <<>> => FlattenSeq(s) = Head(s) \o FlattenSeq(Tail(s))
<1>1. PICK G \in [0..Len(s) -> Seq(S)] :
        /\ G[0] = <<>> /\ \A i \in 1..Len(s) : G[i] = G[i - 1] \o s[i]
        /\ FlattenSeq(s) = G[Len(s)]
  BY FlattenSteps
<1>2. Len(s) \in Nat /\ Len(s) \in 0..Len(s) /\ G[Len(s)] \in Seq(S)
  OBVIOUS
<1>3. s = <<>> => FlattenSeq(s) = <<>>
  BY <1>1
<1>4. ASSUME s # <<>> PROVE FlattenSeq(s) = Head(s) \o FlattenSeq(Tail(s))
  <2> DEFINE t == Tail(s)
             n == Len(t)
  <2>1. t \in Seq(Seq(S)) /\ n \in Nat /\ Len(s) = n + 1 /\ \A i \in 1..n : t[i] = s[i + 1] /\ t[i] \in Seq(S)
    BY <1>4
  <2>2. s[1] = Head(s) /\ s[1] \in Seq(S)
    BY <1>4
  <2> HIDE DEF t, n
  <2>3. PICK K \in [0..n -> Seq(S)] :
          /\ K[0] = <<>> /\ \A i \in 1..n : K[i] = K[i - 1] \o t[i]
          /\ FlattenSeq(t) = K[n]
    BY <2>1, FlattenSteps DEF n
  <2> DEFINE T == {i \in 0..n : G[i + 1] = s[1] \o K[i]}
  <2>4. 0 \in T
    <3>1. 1 \in 1..Len(s) /\ 1 - 1 = 0 /\ 0 + 1 = 1 /\ 0 \in 0..n
      BY <2>1
    <3>2. G[1] = <<>> \o s[1]
      BY <3>1, <1>1
    <3>3. <<>> \o s[1] = s[1] /\ s[1] \o <<>> = s[1]
      BY <2>2, ConcatEmptySeq
    <3> QED
      BY <3>1, <3>2, <3>3, <2>3
  <2>5. ASSUME NEW i \in 0..(n - 1), i \in T PROVE i + 1 \in T
    <3>1. i + 2 \in 1..Len(s) /\ i + 1 \in 1..n /\ (i + 2) - 1 = i + 1 /\ (i + 1) - 1 = i /\ i \in 0..n
          /\ (i + 1) + 1 = i + 2 /\ i + 1 \in 0..n
      BY <2>1
    <3>2. G[i + 2] = G[i + 1] \o s[i + 2]
      BY <3>1, <1>1
    <3>3. K[i + 1] = K[i] \o t[i + 1] /\ t[i + 1] = s[i + 2] /\ K[i] \in Seq(S) /\ t[i + 1] \in Seq(S)
      BY <3>1, <2>1, <2>3
    <3>4. G[i + 1] = s[1] \o K[i]
      BY <2>5
    <3>5. (s[1] \o K[i]) \o t[i + 1] = s[1] \o (K[i] \o t[i + 1])
      <4>1. \A a, b, c \in Seq(S) : (a \o b) \o c = a \o (b \o c)
        BY ConcatAssociative
      <4>2. s[1] \in Seq(S) /\ K[i] \in Seq(S) /\ t[i + 1] \in Seq(S)
        BY <2>2, <3>3
      <4> QED
        BY <4>1, <4>2, Zenon
    <3>6. G[(i + 1) + 1] = s[1] \o K[i + 1]
      BY <3>1, <3>2, <3>3, <3>4, <3>5
    <3> QED
      BY <3>6, <3>1
  <2> HIDE DEF T
  <2>6. Climbs(T, n) /\ n \in 0..n
    BY <2>1, <2>4, <2>5 DEF Climbs
  <2>7. n \in T
    BY <2>6, UpTo
  <2> QED
    BY <2>7, <2>1, <2>2, <2>3, <1>1 DEF T, t
<1> QED
  BY <1>1, <1>2, <1>3, <1>4

\* The least number of a set is in it, and under no other.
LEMMA MinOf ==
  ASSUME NEW T \in SUBSET Nat, T # {}
  PROVE  Min(T) \in T /\ \A y \in T : Min(T) <= y
  BY LeastNat DEF Min

-----------------------------------------------------------------------------
(* Orders                                                                  *)

Tidy(o) == IsInjective(o) /\ Grouped(o)
Apart(a, b) == \A x \in Range(a), y \in Range(b) : x # y /\ (x[1] = y[1] => x[1] = Top)

\* Two lists with no folder in common, one after the other
LEMMA ConcatTidy ==
  ASSUME NEW S, NEW a \in Seq(S), NEW b \in Seq(S), Tidy(a), Tidy(b), Apart(a, b)
  PROVE  Tidy(a \o b)
<1> DEFINE o == a \o b
           m == Len(a)
           n == Len(b)
<1>1. /\ m \in Nat /\ n \in Nat /\ Len(o) = m + n /\ DOMAIN o = 1..(m + n)
      /\ \A i \in 1..(m + n) : o[i] = IF i <= m THEN a[i] ELSE b[i - m]
      /\ DOMAIN a = 1..m /\ DOMAIN b = 1..n
  BY ConcatProperties
<1> HIDE DEF o, m, n
<1>2. \A i \in 1..m : a[i] \in Range(a)
  BY <1>1 DEF Range
<1>3. \A i \in 1..n : b[i] \in Range(b)
  BY <1>1 DEF Range
<1>4. \A i \in 1..m, k \in 1..n : a[i] # b[k] /\ (a[i][1] = b[k][1] => a[i][1] = Top)
  BY <1>2, <1>3 DEF Apart
<1>5. \A i \in 1..(m + n) : (i <= m => i \in 1..m) /\ (~(i <= m) => i - m \in 1..n)
  BY <1>1
<1>6. ASSUME NEW i \in 1..(m + n), NEW k \in 1..(m + n), o[i] = o[k] PROVE i = k
  <2>1. (i <= m) = (k <= m)
    BY <1>6, <1>1, <1>4, <1>5
  <2>2. CASE i <= m
    BY <2>1, <2>2, <1>6, <1>1, <1>5 DEF Tidy, IsInjective
  <2>3. CASE ~(i <= m)
    <3>1. i - m = k - m
      BY <2>1, <2>3, <1>6, <1>1, <1>5 DEF Tidy, IsInjective
    <3> QED
      BY <3>1, <1>1
  <2> QED
    BY <2>2, <2>3
<1>7. ASSUME NEW i \in 1..(m + n), NEW k \in 1..(m + n), o[i][1] = o[k][1], o[i][1] # Top, NEW j \in i..k
      PROVE  o[j][1] = o[i][1]
  <2>1. (i <= m) = (k <= m)
    BY <1>7, <1>1, <1>4, <1>5
  <2>2. CASE i <= m
    <3>1. j \in i..k /\ j <= m /\ j \in 1..(m + n)
      BY <2>1, <2>2, <1>1
    <3> QED
      BY <3>1, <2>1, <2>2, <1>7, <1>1, <1>5 DEF Tidy, Grouped
  <2>3. CASE ~(i <= m)
    <3>1. j - m \in (i - m)..(k - m) /\ ~(j <= m) /\ j \in 1..(m + n)
      BY <2>1, <2>3, <1>1
    <3> QED
      BY <3>1, <2>1, <2>3, <1>7, <1>1, <1>5 DEF Tidy, Grouped
  <2> QED
    BY <2>2, <2>3
<1> QED
  BY <1>1, <1>6, <1>7 DEF Tidy, IsInjective, Grouped, o

\* One item more at the end, of the folder that is last or of one that is new
LEMMA AppendTidy ==
  ASSUME NEW S, NEW a \in Seq(S), NEW x \in S, Tidy(a), x \notin Range(a),
         (\E y \in Range(a) : y[1] = x[1]) /\ x[1] # Top => a[Len(a)][1] = x[1]
  PROVE  Tidy(a \o <<x>>)
<1> DEFINE o == a \o <<x>>
           m == Len(a)
<1>1. /\ m \in Nat /\ DOMAIN o = 1..(m + 1) /\ DOMAIN a = 1..m /\ o[m + 1] = x
      /\ \A i \in 1..m : o[i] = a[i] /\ a[i] \in Range(a) /\ m \in 1..m
  BY DEF Range
<1>2. (\E y \in Range(a) : y[1] = x[1]) /\ x[1] # Top => a[m][1] = x[1]
  OBVIOUS
<1> HIDE DEF o, m
<1>3. ASSUME NEW i \in 1..(m + 1), NEW k \in 1..(m + 1), o[i] = o[k] PROVE i = k
  <2>1. CASE i \in 1..m /\ k \in 1..m
    BY <2>1, <1>3, <1>1 DEF Tidy, IsInjective
  <2>2. CASE i = m + 1 \/ k = m + 1
    BY <2>2, <1>3, <1>1
  <2> QED
    BY <2>1, <2>2, <1>1
<1>4. ASSUME NEW i \in 1..(m + 1), NEW k \in 1..(m + 1), o[i][1] = o[k][1], o[i][1] # Top, NEW j \in i..k
      PROVE  o[j][1] = o[i][1]
  <2>1. CASE k \in 1..m
    <3>1. i \in 1..m /\ j \in 1..m
      BY <2>1, <1>1
    <3> QED
      BY <3>1, <2>1, <1>4, <1>1 DEF Tidy, Grouped
  <2>2. CASE k = m + 1 /\ i \in 1..m
    <3>1. a[m][1] = x[1] /\ a[i][1] = x[1] /\ m \in 1..m
      BY <2>2, <1>4, <1>1, <1>2
    <3>2. CASE j = m + 1
      BY <3>2, <2>2, <1>4
    <3>3. CASE j # m + 1
      <4>1. j \in i..m /\ j \in 1..m
        BY <3>3, <2>2, <1>1
      <4> QED
        BY <4>1, <3>1, <2>2, <1>4, <1>1 DEF Tidy, Grouped
    <3> QED
      BY <3>2, <3>3
  <2>3. CASE k = m + 1 /\ i = m + 1
    BY <2>3, <1>1
  <2> QED
    BY <2>1, <2>2, <2>3, <1>1
<1> QED
  BY <1>1, <1>3, <1>4 DEF Tidy, IsInjective, Grouped, o

\* A part of a list
LEMMA PartTidy ==
  ASSUME NEW S, NEW o \in Seq(S), Tidy(o), NEW m \in Nat \ {0}, NEW n \in Nat, n <= Len(o)
  PROVE  /\ SubSeq(o, m, n) \in Seq(S) /\ Tidy(SubSeq(o, m, n))
         /\ Range(SubSeq(o, m, n)) = {o[i] : i \in m..n}
<1> DEFINE t == SubSeq(o, m, n)
           k == IF m <= n THEN n - m + 1 ELSE 0
<1>1. \A i \in m..n : o[i] \in S /\ i \in DOMAIN o
  OBVIOUS
<1>2. t \in Seq(S) /\ Len(t) = k /\ \A i \in 1..(n - m + 1) : t[i] = o[m + i - 1]
  BY <1>1, SubSeqProperties
<1>3. k \in Nat /\ DOMAIN t = 1..k /\ \A i \in 1..k : t[i] = o[m + i - 1] /\ m + i - 1 \in m..n
  <2>1. DOMAIN t = 1..Len(t)
    BY <1>2, LenProperties
  <2> HIDE DEF t
  <2> QED
    BY <1>2, <2>1
<1>4. Range(t) = {o[i] : i \in m..n}
  <2>1. ASSUME NEW i \in m..n PROVE o[i] \in Range(t)
    <3> DEFINE j == i - m + 1
    <3>1. j \in 1..k /\ m + j - 1 = i
      OBVIOUS
    <3> HIDE DEF t, k, j
    <3> QED
      BY <1>3, <3>1 DEF Range
  <2>2. ASSUME NEW x \in Range(t) PROVE \E i \in m..n : x = o[i]
    <3> HIDE DEF t, k
    <3> QED
      BY <1>3 DEF Range
  <2> HIDE DEF t
  <2> QED
    BY <2>1, <2>2
<1>5. IsInjective(t)
  <2> HIDE DEF t, k
  <2> SUFFICES ASSUME NEW i \in 1..k, NEW j \in 1..k, t[i] = t[j]
               PROVE  i = j
    BY <1>3 DEF IsInjective
  <2>1. m + i - 1 = m + j - 1
    BY <1>1, <1>3 DEF Tidy, IsInjective
  <2> QED
    BY <2>1
<1>6. Grouped(t)
  <2> HIDE DEF t, k
  <2> SUFFICES ASSUME NEW i \in 1..k, NEW j \in 1..k, t[i][1] = t[j][1], t[i][1] # Top, NEW l \in i..j
               PROVE  t[l][1] = t[i][1]
    BY <1>3 DEF Grouped
  <2> DEFINE p == m + i - 1
             q == m + j - 1
             r == m + l - 1
  <2>1. l \in 1..k /\ r \in p..q
    BY <1>3
  <2>2. /\ p \in DOMAIN o /\ q \in DOMAIN o
        /\ t[i] = o[p] /\ t[j] = o[q] /\ t[l] = o[r]
    BY <1>1, <1>3, <2>1
  <2> HIDE DEF p, q, r
  <2> QED
    BY <2>1, <2>2 DEF Tidy, Grouped
<1> QED
  BY <1>2, <1>4, <1>5, <1>6 DEF Tidy

\* One item more at the start, of the folder that is first or of one that is new
LEMMA PrependTidy ==
  ASSUME NEW S, NEW b \in Seq(S), NEW x \in S, Tidy(b), x \notin Range(b),
         (\E y \in Range(b) : y[1] = x[1]) /\ x[1] # Top => b[1][1] = x[1]
  PROVE  Tidy(<<x>> \o b)
<1> DEFINE o == <<x>> \o b
           m == Len(b)
<1>1. /\ m \in Nat /\ DOMAIN o = 1..(m + 1) /\ DOMAIN b = 1..m /\ o[1] = x
      /\ \A i \in 1..m : o[i + 1] = b[i] /\ b[i] \in Range(b) /\ 1 \in 1..m
  BY DEF Range
<1>2. (\E y \in Range(b) : y[1] = x[1]) /\ x[1] # Top => b[1][1] = x[1]
  OBVIOUS
<1> HIDE DEF o, m
<1>0. \A i \in 2..(m + 1) : i - 1 \in 1..m /\ o[i] = b[i - 1]
  <2> SUFFICES ASSUME NEW i \in 2..(m + 1)
               PROVE  i - 1 \in 1..m /\ o[i] = b[i - 1]
    OBVIOUS
  <2>1. i - 1 \in 1..m /\ (i - 1) + 1 = i
    BY <1>1
  <2>2. o[(i - 1) + 1] = b[i - 1]
    BY <2>1, <1>1
  <2> QED
    BY <2>1, <2>2
<1>3. ASSUME NEW i \in 1..(m + 1), NEW k \in 1..(m + 1), o[i] = o[k] PROVE i = k
  <2>1. CASE i # 1 /\ k # 1
    <3>1. i \in 2..(m + 1) /\ k \in 2..(m + 1)
      BY <2>1, <1>1
    <3>2. i - 1 = k - 1
      BY <3>1, <1>0, <1>3, <1>1 DEF Tidy, IsInjective
    <3> QED
      BY <3>1, <3>2
  <2>2. CASE i = 1 /\ k # 1
    <3>1. k \in 2..(m + 1)
      BY <2>2, <1>1
    <3> QED
      BY <3>1, <2>2, <1>0, <1>3, <1>1
  <2>3. CASE i # 1 /\ k = 1
    <3>1. i \in 2..(m + 1)
      BY <2>3, <1>1
    <3> QED
      BY <3>1, <2>3, <1>0, <1>3, <1>1
  <2> QED
    BY <2>1, <2>2, <2>3
<1>4. ASSUME NEW i \in 1..(m + 1), NEW k \in 1..(m + 1), o[i][1] = o[k][1], o[i][1] # Top, NEW j \in i..k
      PROVE  o[j][1] = o[i][1]
  <2>1. CASE i # 1
    <3> DEFINE p == i - 1
               q == k - 1
               r == j - 1
    <3>1. /\ p \in 1..m /\ q \in 1..m /\ r \in p..q
          /\ o[i] = b[p] /\ o[k] = b[q] /\ o[j] = b[r]
      <4>1. i \in 2..(m + 1) /\ k \in 2..(m + 1) /\ j \in 2..(m + 1) /\ r \in p..q
        BY <2>1, <1>1
      <4> QED
        BY <4>1, <1>0
    <3> HIDE DEF p, q, r
    <3>2. b[p][1] = b[q][1] /\ b[p][1] # Top /\ \A l \in p..q : b[l][1] = b[p][1]
      <4>1. b[p][1] = b[q][1] /\ b[p][1] # Top
        BY <3>1, <1>4
      <4> QED
        BY <4>1, <3>1, <1>1 DEF Tidy, Grouped
    <3> QED
      BY <3>1, <3>2
  <2>2. CASE i = 1 /\ j # 1
    <3> DEFINE q == k - 1
               r == j - 1
    <3>1. /\ q \in 1..m /\ r \in 1..q /\ 1 \in 1..m
          /\ o[k] = b[q] /\ o[j] = b[r]
      <4>1. k \in 2..(m + 1) /\ j \in 2..(m + 1) /\ r \in 1..q
        BY <2>2, <1>1
      <4> QED
        BY <4>1, <1>0, <1>1
    <3> HIDE DEF q, r
    <3>2. b[1][1] = x[1] /\ b[q][1] = x[1] /\ x[1] # Top
      BY <3>1, <2>2, <1>1, <1>2, <1>4
    <3>3. \A l \in 1..q : b[l][1] = b[1][1]
      BY <3>1, <3>2, <1>1 DEF Tidy, Grouped
    <3> QED
      BY <3>1, <3>2, <3>3, <2>2, <1>1
  <2> QED
    BY <2>1, <2>2
<1> QED
  BY <1>1, <1>3, <1>4 DEF Tidy, IsInjective, Grouped, o

\* Some of the items of a list, in the same order
LEMMA ThinTidy ==
  ASSUME NEW o, NEW t, NEW m \in Nat, NEW n \in Nat, DOMAIN o = 1..m, DOMAIN t = 1..n,
         NEW pos \in [1..n -> 1..m], \A i \in 1..n : t[i] = o[pos[i]],
         \A i, k \in 1..n : i < k => pos[i] < pos[k], Tidy(o)
  PROVE  Tidy(t)
<1>1. ASSUME NEW i \in 1..n, NEW k \in 1..n, t[i] = t[k] PROVE i = k
  <2>1. pos[i] = pos[k]
    BY <1>1 DEF Tidy, IsInjective
  <2>2. ~(i < k) /\ ~(k < i)
    BY <2>1
  <2> QED
    BY <2>2
<1>2. ASSUME NEW i \in 1..n, NEW k \in 1..n, t[i][1] = t[k][1], t[i][1] # Top, NEW j \in i..k
      PROVE  t[j][1] = t[i][1]
  <2>1. j \in 1..n /\ (i < j \/ i = j) /\ (j < k \/ j = k)
    OBVIOUS
  <2>2. pos[j] \in pos[i]..pos[k]
    BY <2>1
  <2> QED
    BY <2>1, <2>2, <1>2 DEF Tidy, Grouped
<1> QED
  BY <1>1, <1>2 DEF Tidy, IsInjective, Grouped

\* addItemToOrder keeps the items of a folder together.
LEMMA InsertedFits ==
  ASSUME NEW o \in Orders, NEW x \in Items
  PROVE  /\ Inserted(o, x) \in Orders
         /\ Range(Inserted(o, x)) = Range(o) \cup {x}
         /\ Tidy(o) /\ x \notin Range(o) => Tidy(Inserted(o, x))
<1> DEFINE n == Len(o)
           I == {i \in 1..n : o[i][1] = x[1]}
           first == IF I # {} THEN Min(I) ELSE 0
           at == IF x[1] = Top \/ first = 0 THEN 1 ELSE first
           a == SubSeq(o, 1, at - 1)
           b == SubSeq(o, at, n)
<1>0. o \in Seq(Items) /\ n \in Nat /\ DOMAIN o = 1..n
  BY DEF Orders, Items, Folders
<1>1. Inserted(o, x) = a \o <<x>> \o b
  BY DEF Inserted, SelectInSeq, InsertAt
<1>2. /\ at \in 1..(n + 1)
      /\ at = 1 \/ (at \in 1..n /\ x[1] # Top /\ o[at][1] = x[1])
      /\ x[1] # Top => \A i \in 1..(at - 1) : o[i][1] # x[1]
      /\ x[1] # Top /\ I # {} => at \in 1..n /\ o[at][1] = x[1]
  <2>0. I \in SUBSET Nat /\ \A i \in I : i \in 1..n /\ o[i][1] = x[1]
    OBVIOUS
  <2>1. I # {} => Min(I) \in I /\ \A i \in I : Min(I) <= i
    <3> HIDE DEF I
    <3> QED
      BY <2>0, MinOf
  <2>2. \A i \in 1..n : o[i][1] = x[1] => i \in I
    OBVIOUS
  <2> HIDE DEF I
  <2>3. CASE I = {} \/ x[1] = Top
    <3>1. at = 1
      BY <2>3
    <3> HIDE DEF at, first
    <3> QED
      BY <3>1, <2>3, <1>0
  <2>4. CASE I # {} /\ x[1] # Top
    <3>1. first = Min(I) /\ first \in 1..n /\ o[first][1] = x[1] /\ \A i \in I : first <= i
      BY <2>4, <2>0, <2>1
    <3>2. at = first
      BY <2>4, <3>1
    <3> HIDE DEF at, first
    <3>3. \A i \in 1..(at - 1) : i \in 1..n /\ i \notin I
      BY <3>1, <3>2, <1>0
    <3> QED
      BY <2>4, <3>1, <3>2, <3>3, <2>2, <1>0
  <2> QED
    BY <2>3, <2>4
<1> HIDE DEF I, first, at
<1>3. a \in Seq(Items) /\ Range(a) = {o[i] : i \in 1..(at - 1)} /\ (Tidy(o) => Tidy(a))
  <2>1. at - 1 \in Nat /\ at - 1 <= Len(o)
    BY <1>2, <1>0
  <2>2. \A i \in 1..(at - 1) : o[i] \in Items
    BY <1>0, <1>2
  <2>3. Len(a) = at - 1 /\ a \in Seq(Items) /\ \A i \in 1..(at - 1) : a[i] = o[i]
    BY <2>1, <2>2, <1>0, SubSeqProperties
  <2>4. Range(a) = {o[i] : i \in 1..(at - 1)}
    <3>1. DOMAIN a = 1..(at - 1)
      BY <2>3, LenProperties
    <3> QED
      BY <3>1, <2>3 DEF Range
  <2>5. Tidy(o) => Tidy(a)
    BY <2>1, <1>0, PartTidy
  <2> QED
    BY <2>3, <2>4, <2>5
<1>4. b \in Seq(Items) /\ Range(b) = {o[i] : i \in at..n} /\ (Tidy(o) => Tidy(b)) /\ (at \in 1..n => b[1] = o[at])
  <2>1. at \in Nat \ {0} /\ n <= Len(o) /\ at <= n + 1
    BY <1>2, <1>0
  <2>2. \A i \in at..n : o[i] \in Items
    BY <1>0, <1>2
  <2>3. Len(b) = n - at + 1 /\ b \in Seq(Items) /\ \A i \in 1..(n - at + 1) : b[i] = o[at + i - 1]
    <3>1. n - at + 1 = IF at <= n THEN n - at + 1 ELSE 0
      BY <2>1, <1>0
    <3> QED
      BY <3>1, <2>1, <2>2, <1>0, SubSeqProperties
  <2>4. Range(b) = {o[i] : i \in at..n}
    <3>1. DOMAIN b = 1..(n - at + 1)
      BY <2>3, LenProperties
    <3> HIDE DEF b
    <3>2. ASSUME NEW i \in at..n PROVE o[i] \in Range(b)
      <4> DEFINE j == i - at + 1
      <4>1. j \in 1..(n - at + 1) /\ at + j - 1 = i
        BY <1>0, <1>2
      <4> HIDE DEF j
      <4> QED
        BY <4>1, <3>1, <2>3 DEF Range
    <3>3. ASSUME NEW y \in Range(b) PROVE \E i \in at..n : y = o[i]
      <4>1. PICK j \in 1..(n - at + 1) : y = b[j]
        BY <3>1 DEF Range
      <4>2. at + j - 1 \in at..n
        BY <1>0, <1>2
      <4> QED
        BY <4>1, <4>2, <2>3
    <3> QED
      BY <3>2, <3>3
  <2>5. Tidy(o) => Tidy(b)
    BY <2>1, <1>0, PartTidy
  <2>6. at \in 1..n => b[1] = o[at]
    <3> SUFFICES ASSUME at \in 1..n PROVE b[1] = o[at]
      OBVIOUS
    <3>1. 1 \in 1..(n - at + 1) /\ at + 1 - 1 = at
      BY <1>0
    <3> QED
      BY <3>1, <2>3
  <2> QED
    BY <2>3, <2>4, <2>5, <2>6
<1>5. <<x>> \in Seq(Items) /\ Range(<<x>>) = {x}
  BY DEF Range
<1> HIDE DEF a, b
<1>6. (a \o <<x>>) \o b = a \o (<<x>> \o b) /\ <<x>> \o b \in Seq(Items) /\ a \o <<x>> \o b \in Seq(Items)
  <2>1. \A u, v, w \in Seq(Items) : (u \o v) \o w = u \o (v \o w) /\ u \o v \in Seq(Items)
    BY ConcatAssociative, ConcatProperties
  <2> QED
    BY <2>1, <1>3, <1>4, <1>5
<1>7. Range(<<x>> \o b) = {x} \cup Range(b) /\ Range(a \o <<x>> \o b) = Range(a) \cup {x} \cup Range(b)
  <2>1. \A u, v \in Seq(Items) : Range(u \o v) = Range(u) \cup Range(v)
    BY RangeConcatenation
  <2>2. Range(<<x>> \o b) = {x} \cup Range(b)
    BY <2>1, <1>4, <1>5
  <2>3. Range(a \o (<<x>> \o b)) = Range(a) \cup ({x} \cup Range(b))
    BY <2>1, <2>2, <1>3, <1>6
  <2> QED
    BY <2>2, <2>3, <1>6
<1>8. Range(o) = Range(a) \cup Range(b)
  <2>1. Range(o) = {o[i] : i \in 1..n}
    BY <1>0 DEF Range
  <2>2. \A i \in 1..n : i \in 1..(at - 1) \/ i \in at..n
    BY <1>0, <1>2
  <2>3. \A i \in 1..(at - 1) : i \in 1..n
    BY <1>0, <1>2
  <2>4. \A i \in at..n : i \in 1..n
    BY <1>0, <1>2
  <2> QED
    BY <2>1, <2>2, <2>3, <2>4, <1>3, <1>4
<1>9. ASSUME Tidy(o), x \notin Range(o) PROVE Tidy(a \o (<<x>> \o b))
  <2>1. x \notin Range(b) /\ x \notin Range(a)
    BY <1>8, <1>9
  <2>2. ASSUME NEW y \in Range(b), y[1] = x[1], x[1] # Top PROVE b[1][1] = x[1]
    <3>1. PICK i \in at..n : y = o[i]
      BY <1>4
    <3>2. i \in I
      BY <3>1, <2>2, <1>0, <1>2 DEF I
    <3> QED
      BY <3>2, <2>2, <1>2, <1>4
  <2>3. Tidy(<<x>> \o b)
    BY <2>1, <2>2, <1>4, <1>9, PrependTidy
  <2>4. Apart(a, <<x>> \o b)
    <3> SUFFICES ASSUME NEW y \in Range(a), NEW z \in Range(<<x>> \o b)
                 PROVE  y # z /\ (y[1] = z[1] => y[1] = Top)
      BY DEF Apart
    <3>1. PICK i \in 1..(at - 1) : y = o[i]
      BY <1>3
    <3>2. at \in 1..n /\ x[1] # Top /\ o[at][1] = x[1] /\ o[i][1] # x[1] /\ i \in 1..n
      BY <3>1, <1>2, <1>0
    <3>3. CASE z = x
      BY <3>3, <3>1, <3>2, <2>1
    <3>4. CASE z \in Range(b)
      <4>1. PICK k \in at..n : z = o[k]
        BY <3>4, <1>4
      <4>2. k \in 1..n /\ at \in i..k /\ i # k
        BY <3>2, <1>2, <1>0
      <4>3. y # z
        BY <3>1, <3>2, <4>1, <4>2, <1>0, <1>9 DEF Tidy, IsInjective
      <4>4. ASSUME y[1] = z[1], y[1] # Top PROVE FALSE
        <5>1. o[at][1] = o[i][1]
          BY <3>1, <3>2, <4>1, <4>2, <4>4, <1>0, <1>9 DEF Tidy, Grouped
        <5> QED
          BY <5>1, <3>2
      <4> QED
        BY <4>3, <4>4
    <3> QED
      BY <3>3, <3>4, <1>7
  <2> QED
    BY <2>3, <2>4, <1>3, <1>6, <1>9, ConcatTidy
<1> QED
  BY <1>1, <1>6, <1>7, <1>8, <1>9 DEF Orders, Items, Folders

\* SelectInSeq finds an entry that is there.
LEMMA FirstIs ==
  ASSUME NEW o, NEW x, Len(o) \in Nat
  PROVE  LET i == SelectInSeq(o, LAMBDA v : v = x) IN
         (\E j \in 1..Len(o) : o[j] = x) => i \in 1..Len(o) /\ o[i] = x
<1> DEFINE I == {j \in 1..Len(o) : o[j] = x}
<1>1. SelectInSeq(o, LAMBDA v : v = x) = IF I # {} THEN Min(I) ELSE 0
  BY DEF SelectInSeq
<1>2. I \in SUBSET Nat /\ \A i \in I : i \in 1..Len(o) /\ o[i] = x
  OBVIOUS
<1>3. (\E j \in 1..Len(o) : o[j] = x) => I # {}
  OBVIOUS
<1> HIDE DEF I
<1>4. I # {} => Min(I) \in I
  BY <1>2, MinOf
<1> QED
  BY <1>1, <1>2, <1>3, <1>4

\* deleteItemFromOrder takes one item away.
LEMMA DeletedFits ==
  ASSUME NEW o \in Orders, NEW x
  PROVE  /\ Deleted(o, x) \in Orders
         /\ Tidy(o) => Tidy(Deleted(o, x)) /\ Range(Deleted(o, x)) = Range(o) \ {x}
<1> DEFINE n == Len(o)
           i == SelectInSeq(o, LAMBDA v : v = x)
           t == SubSeq(o, 1, i - 1) \o SubSeq(o, i + 1, n)
<1>0. o \in Seq(Items) /\ n \in Nat /\ DOMAIN o = 1..n /\ \A k \in 1..n : o[k] \in Items
  BY DEF Orders, Items, Folders
<1>1. CASE \E k \in 1..n : o[k] = x
  <2>1. Deleted(o, x) = t
    BY <1>1 DEF Deleted, RemoveFirst, RemoveAt
  <2>2. i \in 1..n /\ o[i] = x
    BY <1>0, <1>1, FirstIs
  <2> HIDE DEF i
  <2> DEFINE pos == [k \in 1..(n - 1) |-> IF k < i THEN k ELSE k + 1]
  <2>3. /\ t \in Seq(Items) /\ Len(t) = n - 1 /\ DOMAIN t = 1..(n - 1)
        /\ \A k \in 1..(n - 1) : t[k] = o[pos[k]]
    <3> DEFINE a == SubSeq(o, 1, i - 1)
               b == SubSeq(o, i + 1, n)
    <3>1. /\ a \in Seq(Items) /\ Len(a) = i - 1 /\ \A k \in 1..(i - 1) : a[k] = o[k]
      BY <1>0, <2>2, SubSeqProperties
    <3>2. /\ b \in Seq(Items) /\ Len(b) = n - i /\ \A k \in 1..(n - i) : b[k] = o[i + k]
      <4>1. \A k \in (i + 1)..n : o[k] \in Items
        BY <1>0, <2>2
      <4>0. i \in Int /\ n \in Int /\ i <= n
        BY <1>0, <2>2
      <4> HIDE DEF n
      <4>2. /\ n - (i + 1) + 1 = n - i /\ (~(i + 1 <= n) => n - i = 0) /\ i + 1 \in Int
            /\ \A k \in 1..(n - i) : (i + 1) + k - 1 = i + k
        BY <4>0
      <4>3. /\ b \in Seq(Items) /\ Len(b) = IF i + 1 <= n THEN n - (i + 1) + 1 ELSE 0
            /\ \A k \in 1..(n - (i + 1) + 1) : b[k] = o[(i + 1) + k - 1]
        BY <4>0, <4>1, <4>2, SubSeqProperties
      <4> HIDE DEF b
      <4> QED
        BY <4>2, <4>3
    <3> HIDE DEF a, b
    <3>3. /\ a \o b \in Seq(Items) /\ Len(a \o b) = n - 1
          /\ \A k \in 1..(n - 1) : (a \o b)[k] = IF k <= i - 1 THEN a[k] ELSE b[k - (i - 1)]
      <4>1. (i - 1) + (n - i) = n - 1
        BY <1>0, <2>2
      <4> QED
        BY <3>1, <3>2, <4>1, ConcatProperties
    <3>4. ASSUME NEW k \in 1..(n - 1) PROVE (a \o b)[k] = o[pos[k]]
      <4>1. CASE k < i
        BY <4>1, <3>1, <3>3, <1>0, <2>2
      <4>2. CASE ~(k < i)
        <5>1. k - (i - 1) \in 1..(n - i) /\ i + (k - (i - 1)) = k + 1 /\ ~(k <= i - 1)
          BY <4>2, <1>0, <2>2
        <5>2. (a \o b)[k] = b[k - (i - 1)]
          BY <5>1, <3>3
        <5>3. b[k - (i - 1)] = o[i + (k - (i - 1))]
          BY <5>1, <3>2
        <5>4. pos[k] = k + 1
          BY <4>2
        <5> QED
          BY <5>1, <5>2, <5>3, <5>4
      <4> QED
        BY <4>1, <4>2
    <3> HIDE DEF pos
    <3> QED
      BY <3>3, <3>4, LenProperties DEF a, b
  <2>4. /\ n - 1 \in Nat /\ pos \in [1..(n - 1) -> 1..n]
        /\ \A k, l \in 1..(n - 1) : k < l => pos[k] < pos[l]
        /\ \A k \in 1..(n - 1) : pos[k] # i
    BY <1>0, <2>2
  <2>5. \A k \in 1..n : k # i => \E l \in 1..(n - 1) : pos[l] = k
    <3> SUFFICES ASSUME NEW k \in 1..n, k # i PROVE \E l \in 1..(n - 1) : pos[l] = k
      OBVIOUS
    <3>1. CASE k < i
      <4>1. k \in 1..(n - 1) /\ pos[k] = k
        BY <3>1, <2>2, <1>0
      <4> QED
        BY <4>1
    <3>2. CASE k > i
      <4>1. k - 1 \in 1..(n - 1) /\ pos[k - 1] = k
        BY <3>2, <2>2, <1>0
      <4> QED
        BY <4>1
    <3> QED
      BY <3>1, <3>2, <2>2, <1>0
  <2> HIDE DEF t, pos
  <2>6. Tidy(o) => Tidy(t)
    BY <1>0, <2>3, <2>4, ThinTidy
  <2>7. ASSUME Tidy(o) PROVE Range(t) = Range(o) \ {x}
    <3>1. \A k \in 1..(n - 1) : pos[k] \in 1..n /\ o[pos[k]] # x
      BY <2>2, <2>4, <2>7, <1>0 DEF Tidy, IsInjective
    <3>2. \A k \in 1..n : o[k] # x => k # i
      BY <2>2
    <3>3. ASSUME NEW y \in Range(t) PROVE y \in Range(o) \ {x}
      <4>1. PICK k \in 1..(n - 1) : y = t[k]
        BY <2>3 DEF Range
      <4> QED
        BY <4>1, <3>1, <2>3, <1>0 DEF Range
    <3>4. ASSUME NEW y \in Range(o), y # x PROVE y \in Range(t)
      <4>1. PICK k \in 1..n : y = o[k]
        BY <1>0 DEF Range
      <4>2. PICK l \in 1..(n - 1) : pos[l] = k
        BY <4>1, <3>2, <3>4, <2>5
      <4> QED
        BY <4>1, <4>2, <2>3 DEF Range
    <3> QED
      BY <3>3, <3>4
  <2> QED
    BY <2>1, <2>3, <2>6, <2>7 DEF Orders, Items, Folders
<1>2. CASE ~ \E k \in 1..n : o[k] = x
  <2>1. Deleted(o, x) = o
    BY <1>2 DEF Deleted, RemoveFirst
  <2>2. x \notin Range(o)
    BY <1>2, <1>0 DEF Range
  <2> QED
    BY <2>1, <2>2
<1> QED
  BY <1>1, <1>2

\* updateItemInOrder puts the new name where the old one was.
LEMMA UpdatedFits ==
  ASSUME NEW o \in Orders, NEW x \in Items, NEW y \in Items
  PROVE  /\ Updated(o, x, y) \in Orders
         /\ Tidy(o) /\ x \in Range(o) /\ y[1] = x[1] /\ (y = x \/ y \notin Range(o)) =>
              /\ Tidy(Updated(o, x, y))
              /\ Range(Updated(o, x, y)) = (Range(o) \ {x}) \cup {y}
<1> DEFINE n == Len(o)
           i == SelectInSeq(o, LAMBDA v : v = x)
           t == [o EXCEPT ![i] = y]
<1>0. o \in Seq(Items) /\ n \in Nat /\ DOMAIN o = 1..n /\ \A k \in 1..n : o[k] \in Items
  BY DEF Orders, Items, Folders
<1>1. CASE \E k \in 1..n : o[k] = x
  <2>1. Updated(o, x, y) = t
    BY <1>1 DEF Updated, Contains
  <2>2. i \in 1..n /\ o[i] = x
    BY <1>0, <1>1, FirstIs
  <2> HIDE DEF i
  <2>3. t \in Seq(Items) /\ DOMAIN t = 1..n /\ \A k \in 1..n : t[k] = IF k = i THEN y ELSE o[k]
    BY <1>0, <2>2
  <2> HIDE DEF t
  <2>4. ASSUME Tidy(o), y[1] = x[1], y = x \/ y \notin Range(o)
        PROVE  Tidy(t) /\ Range(t) = (Range(o) \ {x}) \cup {y}
    <3>1. \A k \in 1..n : t[k][1] = o[k][1]
      BY <2>2, <2>3, <2>4
    <3>2. \A k \in 1..n : k # i => o[k] # x /\ o[k] # y /\ o[k] \in Range(o)
      BY <1>0, <2>2, <2>4 DEF Tidy, IsInjective, Range
    <3>3. Grouped(t)
      <4> SUFFICES ASSUME NEW k \in 1..n, NEW l \in 1..n, t[k][1] = t[l][1], t[k][1] # Top, NEW j \in k..l
                   PROVE  t[j][1] = t[k][1]
        BY <2>3 DEF Grouped
      <4>1. j \in 1..n
        BY <1>0
      <4>2. o[j][1] = o[k][1]
        BY <3>1, <1>0, <2>4 DEF Tidy, Grouped
      <4> QED
        BY <3>1, <4>1, <4>2
    <3>4. IsInjective(t)
      <4> SUFFICES ASSUME NEW k \in 1..n, NEW l \in 1..n, t[k] = t[l]
                   PROVE  k = l
        BY <2>3 DEF IsInjective
      <4>1. k = i <=> l = i
        BY <2>3, <3>2
      <4> QED
        BY <4>1, <2>3, <2>4, <1>0 DEF Tidy, IsInjective
    <3>5. Range(t) = (Range(o) \ {x}) \cup {y}
      <4>1. \A z \in Range(t) : z = y \/ (z \in Range(o) /\ z # x)
        BY <2>3, <3>2 DEF Range
      <4>2. ASSUME NEW z \in Range(o), z # x PROVE z \in Range(t)
        <5>1. PICK k \in 1..n : o[k] = z
          BY <1>0 DEF Range
        <5>2. t[k] = z
          BY <5>1, <4>2, <2>2, <2>3
        <5> QED
          BY <5>2, <2>3 DEF Range
      <4>3. y \in Range(t)
        BY <2>2, <2>3 DEF Range
      <4> QED
        BY <4>1, <4>2, <4>3
    <3> QED
      BY <3>3, <3>4, <3>5 DEF Tidy
  <2> QED
    BY <2>1, <2>3, <2>4 DEF Orders, Items, Folders
<1>2. CASE ~ \E k \in 1..n : o[k] = x
  <2> DEFINE rest == SubSeq(o, 1, n - 1)
             at == IF rest = <<>> THEN 1 ELSE Len(rest)
             a == SubSeq(rest, 1, at - 1)
             b == SubSeq(rest, at, Len(rest))
  <2>1. Updated(o, x, y) = a \o <<y>> \o b
    BY <1>2 DEF Updated, Contains, InsertAt
  <2>2. rest \in Seq(Items)
    BY <1>0, SubSeqProperties
  <2> HIDE DEF rest
  <2>3. Len(rest) \in Nat /\ (rest # <<>> => Len(rest) # 0) /\ \A k \in 1..Len(rest) : rest[k] \in Items
    BY <2>2
  <2>4. at \in Nat \ {0} /\ (at <= Len(rest) \/ at - 1 = 0)
    BY <2>3
  <2> HIDE DEF at
  <2>5. a \in Seq(Items) /\ b \in Seq(Items)
    <3>1. \A k \in 1..(at - 1) : rest[k] \in Items
      BY <2>3, <2>4
    <3>2. \A k \in at..Len(rest) : rest[k] \in Items
      BY <2>3, <2>4
    <3> QED
      BY <3>1, <3>2, <2>3, <2>4, SubSeqProperties
  <2> HIDE DEF a, b
  <2>6. a \o <<y>> \o b \in Seq(Items)
    BY <2>5
  <2>7. x \notin Range(o)
    BY <1>2, <1>0 DEF Range
  <2> QED
    BY <2>1, <2>6, <2>7 DEF Orders, Items, Folders
<1> QED
  BY <1>1, <1>2

\* Lists of items, one after the other
LEMMA ItemSeqs ==
  /\ \A u, v \in Seq(Items) : u \o v \in Seq(Items) /\ Range(u \o v) = Range(u) \cup Range(v)
  /\ \A u, v, w \in Seq(Items) : (u \o v) \o w = u \o (v \o w)
  /\ \A u \in Seq(Items) : u \o <<>> = u /\ <<>> \o u = u
<1>1. \A u, v \in Seq(Items) : u \o v \in Seq(Items)
  BY ConcatProperties
<1>2. \A u, v \in Seq(Items) : Range(u \o v) = Range(u) \cup Range(v)
  BY RangeConcatenation
<1>3. \A u, v, w \in Seq(Items) : (u \o v) \o w = u \o (v \o w)
  BY ConcatAssociative
<1>4. \A u \in Seq(Items) : u \o <<>> = u /\ <<>> \o u = u
  BY ConcatEmptySeq
<1> QED
  BY <1>1, <1>2, <1>3, <1>4

\* What OutOf has after each item: those so far of other folders, in their order.
OutSoFar(G, folders, o) ==
  /\ G \in [0..Len(o) -> Orders] /\ G[0] = <<>> /\ OutOf(folders, o) = G[Len(o)]
  /\ \A k \in 1..Len(o) : G[k] = IF o[k][1] \in folders THEN G[k - 1] ELSE G[k - 1] \o <<o[k]>>

\* OutOf, entry by entry
LEMMA OutSteps ==
  ASSUME NEW o \in Orders, NEW folders
  PROVE  \E G : OutSoFar(G, folders, o)
<1> DEFINE n == Len(o)
           b == [i \in DOMAIN o |-> IF o[i][1] \in folders THEN <<>> ELSE <<o[i]>>]
<1>0. o \in Seq(Items) /\ n \in Nat /\ DOMAIN o = 1..n /\ \A k \in 1..n : o[k] \in Items
  BY DEF Orders, Items, Folders
<1>1. b \in Seq(Seq(Items)) /\ Len(b) = n /\ \A k \in 1..n : b[k] = IF o[k][1] \in folders THEN <<>> ELSE <<o[k]>>
  BY <1>0
<1> HIDE DEF b
<1>2. PICK G \in [0..n -> Seq(Items)] :
        /\ G[0] = <<>> /\ \A i \in 1..n : G[i] = G[i - 1] \o b[i]
        /\ FlattenSeq(b) = G[n]
  <2>1. \E G \in [0..Len(b) -> Seq(Items)] :
          /\ G[0] = <<>> /\ \A i \in 1..Len(b) : G[i] = G[i - 1] \o b[i]
          /\ FlattenSeq(b) = G[Len(b)]
    BY <1>1, FlattenSteps
  <2> QED
    BY <2>1, <1>1
<1>3. ASSUME NEW k \in 1..n PROVE G[k] = IF o[k][1] \in folders THEN G[k - 1] ELSE G[k - 1] \o <<o[k]>>
  <2>1. k - 1 \in 0..n
    BY <1>0
  <2>2. G[k - 1] \in Seq(Items)
    BY <2>1
  <2>3. G[k - 1] \o <<>> = G[k - 1]
    BY <2>2, ConcatEmptySeq
  <2> QED
    BY <2>3, <1>1, <1>2
<1>4. OutOf(folders, o) = G[n]
  BY <1>2 DEF OutOf, b
<1> QED
  BY <1>2, <1>3, <1>4 DEF OutSoFar, Orders, Items, Folders

\* deleteSubfolderFromOrder takes the items of the folders away, and leaves the others
\* in their order; where the first of them was, the others go on.
LEMMA OutOfFits ==
  ASSUME NEW o \in Orders, NEW folders
  PROVE  /\ OutOf(folders, o) \in Orders
         /\ Range(OutOf(folders, o)) = {x \in Range(o) : x[1] \notin folders}
         /\ Tidy(o) => Tidy(OutOf(folders, o))
<1> DEFINE n == Len(o)
<1>0. n \in Nat /\ DOMAIN o = 1..n /\ \A k \in 1..n : o[k] \in Items
  BY DEF Orders, Items, Folders
<1>1. PICK G : OutSoFar(G, folders, o)
  BY OutSteps
<1>2. /\ G \in [0..n -> Seq(Items)] /\ G[0] = <<>> /\ OutOf(folders, o) = G[n]
      /\ \A k \in 1..n : G[k] = IF o[k][1] \in folders THEN G[k - 1] ELSE G[k - 1] \o <<o[k]>>
  BY <1>1 DEF OutSoFar, Orders, Items, Folders
<1> HIDE DEF n
<1> DEFINE Left(k) == {x \in Items : \E i \in 1..k : x = o[i] /\ o[i][1] \notin folders}
           T == {k \in 0..n : Range(G[k]) = Left(k)}
           U == {k \in 0..n : /\ Tidy(G[k])
                              /\ k # 0 /\ o[k][1] \notin folders =>
                                   G[k] # <<>> /\ G[k][Len(G[k])] = o[k]}
<1>3. 0 \in T
  <2>1. Range(G[0]) = {}
    BY <1>2 DEF Range
  <2>2. Left(0) = {}
    OBVIOUS
  <2> QED
    BY <2>1, <2>2, <1>0
<1>4. ASSUME NEW k \in 0..(n - 1), k \in T PROVE k + 1 \in T
  <2>1. k + 1 \in 1..n /\ (k + 1) - 1 = k /\ k \in 0..n /\ k + 1 \in 0..n
    BY <1>0
  <2>2. o[k + 1] \in Items /\ G[k] \in Seq(Items)
    BY <1>0, <1>2, <2>1
  <2>3. Range(G[k]) = Left(k)
    BY <1>4
  <2>4. \A i \in 1..(k + 1) : i \in 1..k \/ i = k + 1
    BY <2>1
  <2>5. \A i \in 1..k : i \in 1..(k + 1)
    BY <2>1
  <2>6. CASE o[k + 1][1] \in folders
    <3>1. G[k + 1] = G[k]
      BY <1>2, <2>1, <2>6
    <3>2. Left(k + 1) = Left(k)
      BY <2>4, <2>5, <2>6
    <3> QED
      BY <2>1, <2>3, <3>1, <3>2
  <2>7. CASE o[k + 1][1] \notin folders
    <3>1. G[k + 1] = G[k] \o <<o[k + 1]>>
      BY <1>2, <2>1, <2>7
    <3>2. Range(<<o[k + 1]>>) = {o[k + 1]} /\ <<o[k + 1]>> \in Seq(Items)
      BY <2>2 DEF Range
    <3>3. Range(G[k + 1]) = Range(G[k]) \cup {o[k + 1]}
      <4>1. Range(G[k] \o <<o[k + 1]>>) = Range(G[k]) \cup Range(<<o[k + 1]>>)
        <5> HIDE DEF T, U
        <5> QED
          BY <2>2, <3>2, ItemSeqs
      <4> QED
        BY <4>1, <3>1, <3>2
    <3>4. Left(k + 1) = Left(k) \cup {o[k + 1]}
      <4>1. k + 1 \in 1..(k + 1)
        BY <2>1
      <4> QED
        BY <2>2, <2>4, <2>5, <2>7, <4>1
    <3> QED
      BY <2>1, <2>3, <3>3, <3>4
  <2> QED
    BY <2>6, <2>7
<1>5. Range(OutOf(folders, o)) = {x \in Range(o) : x[1] \notin folders}
  <2>1. Climbs(T, n) /\ n \in 0..n
    <3> HIDE DEF T
    <3> QED
      BY <1>0, <1>3, <1>4 DEF Climbs
  <2>2. n \in T
    <3> HIDE DEF T
    <3> QED
      BY <2>1, UpTo
  <2>3. Range(o) = {o[i] : i \in 1..n}
    BY <1>0 DEF Range
  <2>4. Left(n) = {x \in Range(o) : x[1] \notin folders}
    BY <1>0, <2>3
  <2> QED
    BY <1>2, <2>2, <2>4
<1>6. ASSUME Tidy(o) PROVE 0 \in U
  <2>1. Tidy(<<>>)
    BY DEF Tidy, IsInjective, Grouped
  <2> QED
    BY <2>1, <1>0, <1>2
<1>7. ASSUME Tidy(o), NEW k \in 0..(n - 1), k \in U PROVE k + 1 \in U
  <2>1. k + 1 \in 1..n /\ (k + 1) - 1 = k /\ k \in 0..n /\ k + 1 \in 0..n
    BY <1>0
  <2>2. o[k + 1] \in Items /\ G[k] \in Seq(Items)
    BY <1>0, <1>2, <2>1
  <2>3. CASE o[k + 1][1] \in folders
    <3>1. G[k + 1] = G[k]
      BY <1>2, <2>1, <2>3
    <3> QED
      BY <2>1, <2>3, <3>1, <1>7
  <2>4. CASE o[k + 1][1] \notin folders
    <3>1. G[k + 1] = G[k] \o <<o[k + 1]>>
      BY <1>2, <2>1, <2>4
    <3>2. G[k + 1] # <<>> /\ G[k + 1][Len(G[k + 1])] = o[k + 1]
      BY <3>1, <2>2
    <3>3. Range(G[k]) = Left(k)
      <4>1. Climbs(T, n)
        <5> HIDE DEF T
        <5> QED
          BY <1>0, <1>3, <1>4 DEF Climbs
      <4>2. k \in T
        <5> HIDE DEF T
        <5> QED
          BY <2>1, <4>1, UpTo
      <4> QED
        BY <4>2
    <3>4. o[k + 1] \notin Range(G[k])
      <4> SUFFICES ASSUME NEW i \in 1..k, o[k + 1] = o[i] PROVE FALSE
        BY <3>3
      <4>1. i \in 1..n /\ i # k + 1
        BY <2>1, <1>0
      <4> QED
        BY <4>1, <2>1, <1>0, <1>7 DEF Tidy, IsInjective
    <3>5. ASSUME NEW y \in Range(G[k]), y[1] = o[k + 1][1], o[k + 1][1] # Top
          PROVE  G[k][Len(G[k])][1] = o[k + 1][1]
      <4>1. PICK i \in 1..k : y = o[i]
        BY <3>3
      <4>2. i \in 1..n /\ k \in i..(k + 1) /\ k # 0 /\ k \in 1..n
        BY <2>1, <1>0
      <4>3. o[k][1] = o[k + 1][1]
        BY <4>1, <4>2, <3>5, <2>1, <1>0, <1>7 DEF Tidy, Grouped
      <4>4. G[k][Len(G[k])] = o[k]
        BY <4>2, <4>3, <2>4, <1>7
      <4> QED
        BY <4>3, <4>4
    <3>6. Tidy(G[k] \o <<o[k + 1]>>)
      <4>1. Tidy(G[k])
        BY <1>7
      <4> QED
        BY <4>1, <2>2, <3>4, <3>5, AppendTidy
    <3> QED
      BY <2>1, <3>1, <3>2, <3>6
  <2> QED
    BY <2>3, <2>4
<1>8. ASSUME Tidy(o) PROVE Tidy(OutOf(folders, o))
  <2>1. Climbs(U, n) /\ n \in 0..n
    <3>1. 0 \in U
      BY <1>6, <1>8
    <3>2. \A k \in 0..(n - 1) : k \in U => k + 1 \in U
      BY <1>7, <1>8
    <3> HIDE DEF U
    <3> QED
      BY <1>0, <3>1, <3>2 DEF Climbs
  <2>2. n \in U
    <3> HIDE DEF U
    <3> QED
      BY <2>1, UpTo
  <2> QED
    BY <1>2, <2>2
<1>9. OutOf(folders, o) \in Orders
  BY <1>0, <1>2 DEF Orders, Items, Folders
<1> QED
  BY <1>5, <1>8, <1>9

\* OutOf leaves an order alone up to the first entry of the folders.
LEMMA OutOfGoesOn ==
  ASSUME NEW o \in Orders, NEW folders, NEW at \in 1..(Len(o) + 1),
         \A i \in 1..(at - 1) : o[i][1] \notin folders
  PROVE  \E rest \in Orders :
           /\ OutOf(folders, o) = SubSeq(o, 1, at - 1) \o rest
           /\ Range(rest) = {x \in Items : \E i \in at..Len(o) : x = o[i] /\ o[i][1] \notin folders}
<1> DEFINE n == Len(o)
           A(k) == SubSeq(o, 1, k)
<1>0. n \in Nat /\ DOMAIN o = 1..n /\ o \in Seq(Items) /\ \A k \in 1..n : o[k] \in Items
  BY DEF Orders, Items, Folders
<1>1. PICK G : OutSoFar(G, folders, o)
  BY OutSteps
<1>2. /\ G \in [0..n -> Seq(Items)] /\ G[0] = <<>> /\ OutOf(folders, o) = G[n]
      /\ \A k \in 1..n : G[k] = IF o[k][1] \in folders THEN G[k - 1] ELSE G[k - 1] \o <<o[k]>>
  BY <1>1 DEF OutSoFar, Orders, Items, Folders
<1>3. at \in Nat /\ at - 1 \in 0..n
  BY <1>0
<1> HIDE DEF n
<1> DEFINE T == {k \in 0..(at - 1) : G[k] = SubSeq(o, 1, k)}
<1>4. 0 \in T
  <2>1. SubSeq(o, 1, 0) = <<>>
    <3>1. \A s \in Seq(Items) : \A i, j \in Int : j < i => SubSeq(s, i, j) = <<>>
      BY SubSeqEmpty
    <3> QED
      BY <3>1, <1>0
  <2>2. 0 \in 0..(at - 1) /\ 0 \in 0..n
    BY <1>0, <1>3
  <2> QED
    BY <1>2, <2>1, <2>2
<1>5. ASSUME NEW k \in 0..((at - 1) - 1), k \in T PROVE k + 1 \in T
  <2>1. k + 1 \in 1..n /\ (k + 1) - 1 = k /\ k + 1 \in 0..(at - 1) /\ k + 1 \in 1..(at - 1)
    BY <1>0, <1>3
  <2>2. G[k + 1] = G[k] \o <<o[k + 1]>> /\ G[k] = SubSeq(o, 1, k)
    BY <2>1, <1>2, <1>5
  <2>3. SubSeq(o, 1, k + 1) = SubSeq(o, 1, (k + 1) - 1) \o <<o[k + 1]>>
    BY <2>1, <1>0, SubSeqRecursiveSecond DEF n
  <2> QED
    BY <2>1, <2>2, <2>3
<1>6. G[at - 1] = SubSeq(o, 1, at - 1)
  <2>1. Climbs(T, at - 1) /\ at - 1 \in 0..(at - 1)
    <3> HIDE DEF T
    <3> QED
      BY <1>3, <1>4, <1>5 DEF Climbs
  <2>2. at - 1 \in T
    <3> HIDE DEF T
    <3> QED
      BY <2>1, UpTo
  <2> QED
    BY <2>2
<1> DEFINE a == SubSeq(o, 1, at - 1)
           m == n - (at - 1)
           Left(k) == {x \in Items : \E i \in at..k : x = o[i] /\ o[i][1] \notin folders}
           U == {j \in 0..m : \E rest \in Orders : G[(at - 1) + j] = a \o rest /\ Range(rest) = Left((at - 1) + j)}
<1>7. m \in Nat /\ a \in Seq(Items)
  <2>1. m \in Nat
    BY <1>0, <1>3
  <2>2. \A i \in 1..(at - 1) : o[i] \in Items
    BY <1>0, <1>3
  <2> QED
    BY <2>1, <2>2, <1>3, SubSeqProperties
<1> HIDE DEF T
<1>8. 0 \in U
  <2>1. <<>> \in Orders /\ Range(<<>>) = {}
    BY DEF Orders, Range
  <2>2. a \o <<>> = a
    BY <1>7, ConcatEmptySeq
  <2>3. (at - 1) + 0 = at - 1
    BY <1>3
  <2>4. Left((at - 1) + 0) = {}
    BY <1>3
  <2>5. 0 \in 0..m
    BY <1>7
  <2>6. G[(at - 1) + 0] = a
    BY <2>3, <1>6
  <2> HIDE DEF a, Left
  <2>7. G[(at - 1) + 0] = a \o <<>> /\ Range(<<>>) = Left((at - 1) + 0)
    BY <2>1, <2>2, <2>4, <2>6
  <2> QED
    BY <2>1, <2>5, <2>7
<1>9. ASSUME NEW j \in 0..(m - 1), j \in U PROVE j + 1 \in U
  <2> DEFINE k == (at - 1) + j
  <2>1. k + 1 \in 1..n /\ (k + 1) - 1 = k /\ k + 1 = (at - 1) + (j + 1) /\ j + 1 \in 0..m /\ k \in Nat
        /\ at <= k + 1
    BY <1>0, <1>3
  <2>2. PICK rest \in Orders : G[k] = a \o rest /\ Range(rest) = Left(k)
    BY <1>9
  <2>3. rest \in Seq(Items) /\ o[k + 1] \in Items
    BY <2>1, <1>0 DEF Orders, Items, Folders
  <2> HIDE DEF a, k, m
  <2>4. \A i \in at..(k + 1) : i \in at..k \/ i = k + 1
    BY <2>1, <1>3
  <2>5. \A i \in at..k : i \in at..(k + 1)
    BY <2>1, <1>3
  <2>6. CASE o[k + 1][1] \in folders
    <3>1. G[k + 1] = G[k]
      BY <1>2, <2>1, <2>6
    <3>2. Left(k + 1) = Left(k)
      BY <2>4, <2>5, <2>6
    <3> HIDE DEF Left
    <3> QED
      BY <2>1, <2>2, <3>1, <3>2
  <2>7. CASE o[k + 1][1] \notin folders
    <3>1. G[k + 1] = G[k] \o <<o[k + 1]>>
      BY <1>2, <2>1, <2>7
    <3>2. Range(<<o[k + 1]>>) = {o[k + 1]} /\ <<o[k + 1]>> \in Seq(Items)
      BY <2>3 DEF Range
    <3>3. Range(rest \o <<o[k + 1]>>) = Range(rest) \cup {o[k + 1]} /\ rest \o <<o[k + 1]>> \in Orders
      <4>1. Range(rest \o <<o[k + 1]>>) = Range(rest) \cup Range(<<o[k + 1]>>)
        BY <2>3, <3>2, RangeConcatenation
      <4> QED
        BY <4>1, <2>3, <3>2 DEF Orders, Items, Folders
    <3>4. Left(k + 1) = Left(k) \cup {o[k + 1]}
      <4>1. k + 1 \in at..(k + 1)
        BY <2>1, <1>3
      <4> QED
        BY <2>3, <2>4, <2>5, <2>7, <4>1
    <3>5. G[k + 1] = a \o (rest \o <<o[k + 1]>>)
      <4>1. \A u, v, w \in Seq(Items) : (u \o v) \o w = u \o (v \o w)
        BY ConcatAssociative
      <4>2. (a \o rest) \o <<o[k + 1]>> = a \o (rest \o <<o[k + 1]>>)
        BY <4>1, <1>7, <2>3, <3>2
      <4> QED
        BY <4>2, <2>2, <3>1
    <3>6. Range(rest \o <<o[k + 1]>>) = Left(k + 1)
      BY <2>2, <3>3, <3>4
    <3> HIDE DEF Left
    <3> QED
      BY <2>1, <3>3, <3>5, <3>6
  <2> QED
    BY <2>6, <2>7
<1>10. m \in U
  <2> HIDE DEF U, m
  <2>1. Climbs(U, m) /\ m \in 0..m
    BY <1>7, <1>8, <1>9 DEF Climbs
  <2> QED
    BY <2>1, UpTo
<1>11. (at - 1) + m = n
  BY <1>0, <1>3
<1> QED
  BY <1>2, <1>10, <1>11 DEF n

\* The entries of names in a folder, and with that of .keep first
InFolder(s, names) == [j \in DOMAIN names |-> <<s, names[j]>>]

\* The entries of one folder
LEMMA InFolderFits ==
  ASSUME NEW s \in Folders, NEW names \in Seq(Names)
  PROVE  /\ InFolder(s, names) \in Seq(Items)
         /\ Range(InFolder(s, names)) = {<<s, n>> : n \in Range(names)}
         /\ IsInjective(names) => Tidy(InFolder(s, names))
<1> DEFINE b == InFolder(s, names)
           n == Len(names)
<1>1. n \in Nat /\ DOMAIN names = 1..n /\ \A i \in 1..n : names[i] \in Names
  OBVIOUS
<1>2. b = [j \in 1..n |-> <<s, names[j]>>]
  BY <1>1 DEF InFolder
<1>3. \A i \in 1..n : <<s, names[i]>> \in Items
  BY <1>1 DEF Items
<1> HIDE DEF b, n
<1>4. b \in Seq(Items) /\ DOMAIN b = 1..n /\ \A i \in 1..n : b[i] = <<s, names[i]>>
  BY <1>1, <1>2, <1>3
<1>5. Range(b) = {<<s, m>> : m \in Range(names)}
  <2>1. Range(b) = {b[i] : i \in 1..n} /\ Range(names) = {names[i] : i \in 1..n}
    BY <1>1, <1>4 DEF Range
  <2> QED
    BY <2>1, <1>4
<1>6. ASSUME IsInjective(names) PROVE Tidy(b)
  <2>1. IsInjective(b)
    <3> SUFFICES ASSUME NEW i \in 1..n, NEW k \in 1..n, b[i] = b[k] PROVE i = k
      BY <1>4 DEF IsInjective
    <3>1. names[i] = names[k]
      BY <1>4
    <3> QED
      BY <3>1, <1>6, <1>1 DEF IsInjective
  <2>2. Grouped(b)
    <3> SUFFICES ASSUME NEW i \in 1..n, NEW k \in 1..n, NEW j \in i..k PROVE b[j][1] = b[i][1]
      BY <1>4 DEF Grouped
    <3>1. j \in 1..n
      BY <1>1
    <3> QED
      BY <3>1, <1>4
  <2> QED
    BY <2>1, <2>2 DEF Tidy
<1> QED
  BY <1>4, <1>5, <1>6 DEF b

WithKeep(s, names) == <<<<s, Keep>>>> \o InFolder(s, names)

\* The entries of a subfolder, with .keep in front
LEMMA WithKeepFits ==
  ASSUME NEW s \in Subs, NEW names \in Seq(Names)
  PROVE  /\ WithKeep(s, names) \in Seq(Items)
         /\ Range(WithKeep(s, names)) = {<<s, n>> : n \in Range(names) \cup {Keep}}
         /\ IsInjective(names) => Tidy(WithKeep(s, names))
<1> DEFINE b == InFolder(s, names)
           x == <<s, Keep>>
<1>1. s \in Folders /\ x \in Items /\ s # Top
  BY CollectionsAssumption DEF Folders, Items
<1>2. /\ b \in Seq(Items) /\ Range(b) = {<<s, n>> : n \in Range(names)}
      /\ IsInjective(names) => Tidy(b)
  BY <1>1, InFolderFits
<1>3. b # <<>> => b[1][1] = s
  <2>1. Len(names) \in Nat /\ DOMAIN names = 1..Len(names)
    OBVIOUS
  <2>2. DOMAIN b = 1..Len(names) /\ \A j \in 1..Len(names) : b[j] = <<s, names[j]>>
    BY <2>1 DEF InFolder
  <2> QED
    BY <1>2, <2>1, <2>2
<1>4. \A y \in Range(names) : y \in Names
  BY DEF Range
<1>5. x \notin Range(b)
  BY <1>2, <1>4, CollectionsAssumption
<1>6. Range(<<x>>) = {x} /\ <<x>> \in Seq(Items)
  BY <1>1 DEF Range
<1> HIDE DEF b
<1>7. <<x>> \o b \in Seq(Items) /\ Range(<<x>> \o b) = Range(<<x>>) \cup Range(b)
  BY <1>2, <1>6, ItemSeqs
<1>8. ASSUME IsInjective(names) PROVE Tidy(<<x>> \o b)
  <2>1. (\E y \in Range(b) : y[1] = x[1]) => b[1][1] = x[1]
    <3>1. b = <<>> => Range(b) = {}
      BY DEF Range
    <3> QED
      BY <3>1, <1>3
  <2> QED
    BY <2>1, <1>1, <1>2, <1>5, <1>8, PrependTidy
<1>9. {x} \cup {<<s, n>> : n \in Range(names)} = {<<s, n>> : n \in Range(names) \cup {Keep}}
  OBVIOUS
<1> QED
  BY <1>2, <1>6, <1>7, <1>8, <1>9 DEF WithKeep, b

\* Parts of a list of items
LEMMA ItemParts ==
  \A u \in Seq(Items), i \in Nat \ {0}, k \in Nat : k <= Len(u) =>
    /\ SubSeq(u, i, k) \in Seq(Items)
    /\ Len(SubSeq(u, i, k)) = IF i <= k THEN k - i + 1 ELSE 0
    /\ \A j \in 1..(k - i + 1) : SubSeq(u, i, k)[j] = u[i + j - 1]
    /\ Tidy(u) => Tidy(SubSeq(u, i, k))
    /\ Range(SubSeq(u, i, k)) = {u[j] : j \in i..k}
<1> SUFFICES ASSUME NEW u \in Seq(Items), NEW i \in Nat \ {0}, NEW k \in Nat, k <= Len(u)
    PROVE  /\ SubSeq(u, i, k) \in Seq(Items)
           /\ Len(SubSeq(u, i, k)) = IF i <= k THEN k - i + 1 ELSE 0
           /\ \A j \in 1..(k - i + 1) : SubSeq(u, i, k)[j] = u[i + j - 1]
           /\ Tidy(u) => Tidy(SubSeq(u, i, k))
           /\ Range(SubSeq(u, i, k)) = {u[j] : j \in i..k}
  OBVIOUS
<1>1. Len(u) \in Nat /\ \A j \in 1..Len(u) : u[j] \in Items
  OBVIOUS
<1>2. \A j \in i..k : u[j] \in Items
  BY <1>1
<1>3. /\ SubSeq(u, i, k) \in Seq(Items)
      /\ Len(SubSeq(u, i, k)) = IF i <= k THEN k - i + 1 ELSE 0
      /\ \A j \in 1..(k - i + 1) : SubSeq(u, i, k)[j] = u[i + j - 1]
  BY <1>2, SubSeqProperties
<1>4. Tidy(u) => Tidy(SubSeq(u, i, k))
  BY PartTidy
<1>5. Range(SubSeq(u, i, k)) = {u[j] : j \in i..k}
  <2> DEFINE t == SubSeq(u, i, k)
  <2>0. t \in Seq(Items)
    BY <1>3
  <2>1. Range(t) = {t[j] : j \in 1..Len(t)}
    <3> HIDE DEF t
    <3> QED
      BY <2>0 DEF Range
  <2>2. \A j \in 1..Len(t) : j + i - 1 \in i..k /\ t[j] = u[j + i - 1]
    BY <1>3
  <2>3. \A j \in i..k : j - i + 1 \in 1..Len(t) /\ t[j - i + 1] = u[j]
    BY <1>3
  <2>4. Range(t) = {u[j] : j \in i..k}
    <3> HIDE DEF t
    <3>1. ASSUME NEW x \in Range(t) PROVE x \in {u[j] : j \in i..k}
      BY <2>1, <2>2
    <3>2. ASSUME NEW x \in {u[j] : j \in i..k} PROVE x \in Range(t)
      BY <2>1, <2>3
    <3> QED
      BY <3>1, <3>2
  <2> QED
    BY <2>4
<1> QED
  BY <1>3, <1>4, <1>5

\* updateOrder of a folder with what the editor saved: the folder stays where it was,
\* if it was there.
FolderPut(o, s, names) ==
  LET pos    == SelectInSeq(o, LAMBDA x : x[1] = s)
      others == OutOf({s}, o)
      at     == IF pos # 0 THEN pos ELSE IF others = <<>> THEN 1 ELSE Len(others)
  IN  SubSeq(others, 1, at - 1)
      \o <<<<s, Keep>>>> \o [i \in DOMAIN names |-> <<s, names[i]>>]
      \o SubSeq(others, at, Len(others))

\* The order that the save of a subfolder writes (reorderDirectory) has its pages, next to each
\* other, in place of what it had.
LEMMA FolderPutFits ==
  ASSUME NEW o \in Orders, NEW s \in Subs, NEW names \in Seq(Names)
  PROVE  /\ FolderPut(o, s, names) \in Orders
         /\ <<s, Keep>> \in Range(FolderPut(o, s, names))
         /\ Tidy(o) /\ IsInjective(names) /\ (\E x \in Range(o) : x[1] = s) =>
              /\ Tidy(FolderPut(o, s, names))
              /\ Range(FolderPut(o, s, names)) =
                   {x \in Range(o) : x[1] # s} \cup {<<s, n>> : n \in Range(names) \cup {Keep}}
<1> DEFINE n == Len(o)
           I == {i \in 1..n : o[i][1] = s}
           pos == IF I # {} THEN Min(I) ELSE 0
           others == OutOf({s}, o)
           at == IF pos # 0 THEN pos ELSE IF others = <<>> THEN 1 ELSE Len(others)
           A == SubSeq(others, 1, at - 1)
           B == SubSeq(others, at, Len(others))
           W == WithKeep(s, names)
<1>0. n \in Nat /\ DOMAIN o = 1..n /\ o \in Seq(Items) /\ \A k \in 1..n : o[k] \in Items
  BY DEF Orders, Items, Folders
<1>1. /\ others \in Seq(Items)
      /\ Range(others) = {x \in Range(o) : x[1] # s}
      /\ Tidy(o) => Tidy(others)
  <2>1. OutOf({s}, o) \in Orders /\ (Tidy(o) => Tidy(OutOf({s}, o)))
        /\ Range(OutOf({s}, o)) = {x \in Range(o) : x[1] \notin {s}}
    BY OutOfFits
  <2> QED
    BY <2>1 DEF Orders, Items, Folders
<1>2. I # {} => pos \in I /\ \A i \in I : pos <= i
  <2>1. I \in SUBSET Nat
    BY <1>0
  <2> HIDE DEF I
  <2> QED
    BY <2>1, MinOf
<1>3. pos \in Nat /\ at \in Nat \ {0}
  BY <1>0, <1>1, <1>2
<1>4. A \in Seq(Items) /\ B \in Seq(Items)
  <2>1. SubSeq(others, 1, at - 1) \in Seq(Items)
    <3>1. at - 1 <= Len(others) \/ pos # 0 \/ others = <<>>
      BY <1>1
    <3>2. CASE pos = 0
      <4>1. at - 1 \in Nat /\ at - 1 <= Len(others) /\ 1 \in Nat \ {0}
        BY <3>2, <1>1, <1>3
      <4> HIDE DEF others, at
      <4> QED
        BY <4>1, <1>1, ItemParts
    <3>3. CASE pos # 0
      <4>1. pos \in 1..n /\ \A i \in 1..(pos - 1) : i \in 1..n /\ o[i][1] # s
        <5>1. pos \in I /\ \A i \in I : pos <= i
          BY <3>3, <1>2
        <5> HIDE DEF pos
        <5> QED
          BY <5>1, <1>0
      <4> HIDE DEF pos
      <4>2. PICK rest \in Orders : others = SubSeq(o, 1, pos - 1) \o rest
        <5>1. pos \in 1..(Len(o) + 1)
          BY <4>1, <1>0
        <5>2. \A i \in 1..(pos - 1) : o[i][1] \notin {s}
          BY <4>1
        <5>3. \E rest \in Orders :
                /\ OutOf({s}, o) = SubSeq(o, 1, pos - 1) \o rest
                /\ Range(rest) = {x \in Items : \E i \in pos..Len(o) : x = o[i] /\ o[i][1] \notin {s}}
          BY <5>1, <5>2, OutOfGoesOn
        <5> QED
          BY <5>3
      <4>3. \A i \in 1..(pos - 1) : o[i] \in Items
        BY <4>1, <1>0
      <4>4. SubSeq(o, 1, pos - 1) \in Seq(Items) /\ Len(SubSeq(o, 1, pos - 1)) = pos - 1
        BY <4>1, <4>3, <1>3, SubSeqProperties
      <4>5. rest \in Seq(Items)
        BY DEF Orders, Items, Folders
      <4>6. Len(others) >= pos - 1
        BY <4>2, <4>4, <4>5
      <4>7. at - 1 \in Nat /\ at - 1 <= Len(others) /\ 1 \in Nat \ {0}
        BY <4>6, <3>3, <1>1, <1>3
      <4> HIDE DEF others, at
      <4> QED
        BY <4>7, <1>1, ItemParts
    <3> QED
      BY <3>2, <3>3
  <2>3. Len(others) \in Nat /\ Len(others) <= Len(others)
    BY <1>1
  <2>4. SubSeq(others, at, Len(others)) \in Seq(Items)
    <3> HIDE DEF others, at
    <3> QED
      BY <2>3, <1>1, <1>3, ItemParts
  <2> QED
    BY <2>1, <2>4
<1>5. /\ W \in Seq(Items) /\ Range(W) = {<<s, m>> : m \in Range(names) \cup {Keep}}
      /\ IsInjective(names) => Tidy(W)
  BY WithKeepFits
<1>6. FolderPut(o, s, names) = (A \o W) \o B
  <2>1. SelectInSeq(o, LAMBDA x : x[1] = s) = pos
    BY DEF SelectInSeq
  <2>2. FolderPut(o, s, names) = ((A \o <<<<s, Keep>>>>) \o InFolder(s, names)) \o B
    BY <2>1 DEF FolderPut, InFolder
  <2>3. <<<<s, Keep>>>> \in Seq(Items) /\ InFolder(s, names) \in Seq(Items)
    <3>1. s \in Folders
      BY DEF Folders
    <3> QED
      BY <3>1, InFolderFits DEF Items
  <2> HIDE DEF A, B
  <2>4. (A \o <<<<s, Keep>>>>) \o InFolder(s, names) = A \o W
    BY <1>4, <2>3, ItemSeqs DEF WithKeep
  <2> QED
    BY <2>2, <2>4
<1> HIDE DEF A, B, W
<1>7. /\ A \o W \in Seq(Items) /\ (A \o W) \o B \in Seq(Items)
      /\ Range(A \o W) = Range(A) \cup Range(W)
      /\ Range((A \o W) \o B) = Range(A \o W) \cup Range(B)
  <2>1. A \o W \in Seq(Items) /\ Range(A \o W) = Range(A) \cup Range(W)
    BY <1>4, <1>5, ItemSeqs
  <2> QED
    BY <2>1, <1>4, ItemSeqs
<1>8. ASSUME Tidy(o), IsInjective(names), NEW z \in Range(o), z[1] = s
      PROVE  /\ Tidy((A \o W) \o B)
             /\ Range((A \o W) \o B) =
                   {x \in Range(o) : x[1] # s} \cup {<<s, m>> : m \in Range(names) \cup {Keep}}
  <2>1. I # {}
    BY <1>0, <1>8 DEF Range
  <2>2. pos \in 1..n /\ o[pos][1] = s /\ \A i \in 1..(pos - 1) : i \in 1..n /\ o[i][1] # s
    <3>1. pos \in I /\ \A i \in I : pos <= i
      BY <2>1, <1>2
    <3> HIDE DEF pos
    <3> QED
      BY <3>1, <1>0
  <2>3. at = pos /\ pos \in 1..(n + 1)
    BY <2>2, <1>0
  <2> HIDE DEF I, pos, at
  <2>4. PICK rest \in Orders :
          /\ others = SubSeq(o, 1, pos - 1) \o rest
          /\ Range(rest) = {x \in Items : \E i \in pos..n : x = o[i] /\ o[i][1] # s}
    <3>1. \A i \in 1..(pos - 1) : o[i][1] \notin {s}
      BY <2>2
    <3>2. \E rest \in Orders :
            /\ OutOf({s}, o) = SubSeq(o, 1, pos - 1) \o rest
            /\ Range(rest) = {x \in Items : \E i \in pos..Len(o) : x = o[i] /\ o[i][1] \notin {s}}
      BY <3>1, <2>3, OutOfGoesOn
    <3> QED
      BY <3>2
  <2> DEFINE C == SubSeq(o, 1, pos - 1)
  <2>5. /\ C \in Seq(Items) /\ Tidy(C) /\ Range(C) = {o[i] : i \in 1..(pos - 1)}
        /\ Len(C) = pos - 1
    <3>1. pos - 1 \in Nat /\ pos - 1 <= n
      BY <2>2, <1>0
    <3>2. \A i \in 1..(pos - 1) : o[i] \in Items
      BY <2>2, <1>0
    <3>3. Len(C) = pos - 1
      BY <3>1, <3>2, SubSeqProperties
    <3>4. C \in Seq(Items) /\ Tidy(C) /\ Range(C) = {o[i] : i \in 1..(pos - 1)}
      <4>1. 1 \in Nat \ {0} /\ pos - 1 <= Len(o)
        BY <3>1
      <4> QED
        BY <3>1, <4>1, <1>0, <1>8, ItemParts
    <3> QED
      BY <3>3, <3>4
  <2>6. rest \in Seq(Items)
    BY DEF Orders, Items, Folders
  <2> HIDE DEF C, others
  <2>7. A = C
    <3>1. others = C \o rest
      BY <2>4 DEF C
    <3>2. Len(C \o rest) = Len(C) + Len(rest) /\ \A i \in 1..Len(C) : (C \o rest)[i] = C[i]
      BY <2>5, <2>6
    <3>3. pos - 1 \in Nat /\ Len(rest) \in Nat
      BY <2>2, <1>0, <2>6
    <3>4. \A i \in 1..(pos - 1) : others[i] \in Items
      BY <3>1, <3>2, <3>3, <2>5
    <3>5. /\ SubSeq(others, 1, pos - 1) \in Seq(Items)
          /\ Len(SubSeq(others, 1, pos - 1)) = pos - 1
          /\ \A i \in 1..(pos - 1) : SubSeq(others, 1, pos - 1)[i] = others[1 + i - 1]
      <4>1. (pos - 1) - 1 + 1 = pos - 1 /\ pos - 1 \in Int
        BY <3>3
      <4> QED
        BY <4>1, <3>3, <3>4, SubSeqProperties
    <3>6. \A i \in 1..(pos - 1) : SubSeq(others, 1, pos - 1)[i] = C[i]
      BY <3>5, <3>1, <3>2, <2>5, <3>3
    <3>7. A = SubSeq(others, 1, pos - 1)
      BY <2>3 DEF A
    <3> QED
      BY <3>5, <3>6, <3>7, <2>5
  <2>8. Range(B) = Range(rest) /\ Tidy(B)
    <3>0. pos \in Nat \ {0} /\ Len(others) \in Nat /\ Len(rest) \in Nat
      BY <2>2, <1>0, <1>1, <2>6
    <3>1. Tidy(B) /\ Range(B) = {others[i] : i \in pos..Len(others)}
      <4>1. Tidy(others)
        BY <1>1, <1>8
      <4> QED
        BY <3>0, <4>1, <1>1, <2>3, PartTidy DEF B
    <3>2. others = C \o rest
      BY <2>4 DEF C
    <3>3. Len(others) = (pos - 1) + Len(rest)
      <4>1. \A u, v \in Seq(Items) : Len(u \o v) = Len(u) + Len(v)
        BY ConcatProperties
      <4> QED
        BY <4>1, <3>2, <2>5, <2>6
    <3>4. \A i \in pos..Len(others) : i - (pos - 1) \in 1..Len(rest) /\ others[i] = rest[i - (pos - 1)]
      BY <3>0, <3>2, <3>3, <2>5, <2>6
    <3>5. \A j \in 1..Len(rest) : j + (pos - 1) \in pos..Len(others) /\ others[j + (pos - 1)] = rest[j]
      BY <3>0, <3>2, <3>3, <2>5, <2>6
    <3>6. Range(rest) = {rest[j] : j \in 1..Len(rest)}
      BY <2>6 DEF Range
    <3> HIDE DEF B
    <3> QED
      BY <3>1, <3>4, <3>5, <3>6
  <2>9. Apart(A, W)
    <3> SUFFICES ASSUME NEW i \in 1..(pos - 1), NEW y \in Range(W)
                 PROVE  o[i] # y /\ (o[i][1] = y[1] => y[1] = Top)
      BY <2>5, <2>7 DEF Apart
    <3> QED
      BY <1>5, <2>2
  <2>10. Apart(A \o W, B)
    <3> SUFFICES ASSUME NEW x \in Range(A) \cup Range(W), NEW y \in Range(B)
                 PROVE  x # y /\ (x[1] = y[1] => x[1] = Top)
      BY <1>7 DEF Apart
    <3>1. PICK k \in pos..n : y = o[k] /\ o[k][1] # s
      BY <2>4, <2>8
    <3>2. CASE x \in Range(W)
      BY <3>1, <3>2, <1>5
    <3>3. CASE x \in Range(A)
      <4>1. PICK i \in 1..(pos - 1) : x = o[i]
        BY <3>3, <2>5, <2>7
      <4>2. i \in 1..n /\ k \in 1..n /\ pos \in i..k /\ i # k /\ o[i][1] # s
        BY <2>2, <1>0
      <4>3. x # y
        BY <3>1, <4>1, <4>2, <1>0, <1>8 DEF Tidy, IsInjective
      <4>4. ASSUME x[1] = y[1], x[1] # Top PROVE FALSE
        <5>1. o[pos][1] = o[i][1]
          BY <3>1, <4>1, <4>2, <4>4, <1>0, <1>8 DEF Tidy, Grouped
        <5> QED
          BY <5>1, <2>2, <4>2
      <4> QED
        BY <4>3, <4>4
    <3> QED
      BY <3>2, <3>3
  <2>11. Tidy((A \o W) \o B)
    <3>1. Tidy(A \o W)
      BY <1>4, <1>5, <1>8, <2>5, <2>7, <2>9, ConcatTidy
    <3> QED
      BY <3>1, <1>4, <1>7, <2>8, <2>10, ConcatTidy
  <2>12. Range(A) \cup Range(B) = {x \in Range(o) : x[1] # s}
    <3>1. Range(o) = {o[i] : i \in 1..n}
      BY <1>0 DEF Range
    <3>2. \A i \in 1..n : i \in 1..(pos - 1) \/ i \in pos..n
      BY <2>2, <1>0
    <3>3. \A i \in pos..n : i \in 1..n
      BY <2>2, <1>0
    <3>4. Range(A) = {o[i] : i \in 1..(pos - 1)}
      BY <2>5, <2>7
    <3>5. Range(B) = {x \in Items : \E i \in pos..n : x = o[i] /\ o[i][1] # s}
      BY <2>4, <2>8
    <3>6. ASSUME NEW x \in Range(A) \cup Range(B) PROVE x \in {v \in Range(o) : v[1] # s}
      BY <2>2, <3>1, <3>3, <3>4, <3>5
    <3>7. ASSUME NEW x \in {v \in Range(o) : v[1] # s} PROVE x \in Range(A) \cup Range(B)
      <4>1. PICK i \in 1..n : x = o[i]
        BY <3>1
      <4> QED
        BY <4>1, <1>0, <3>2, <3>4, <3>5
    <3> QED
      BY <3>6, <3>7
  <2> QED
    BY <2>11, <2>12, <1>5, <1>7
<1>9. FolderPut(o, s, names) \in Orders
  BY <1>6, <1>7 DEF Orders, Items, Folders
<1>10. <<s, Keep>> \in Range(FolderPut(o, s, names))
  BY <1>5, <1>6, <1>7
<1> QED
  BY <1>6, <1>8, <1>9, <1>10

\* When no folder's name ends with another's, a folder stands for itself.
LEMMA OnlyItself ==
  ASSUME Tails = {}, NEW s \in Subs
  PROVE  Including(s) = {s} /\ \A o : WithoutFolder(o, s) = OutOf({s}, o)
BY DEF Including, WithoutFolder

\* renameSubfolderInOrder
LEMMA FolderRenamedFits ==
  ASSUME NEW o \in Orders, NEW s \in Subs, NEW new \in Subs
  PROVE  /\ FolderRenamed(o, s, new) \in Orders
         /\ Tails = {} =>
              /\ Range(FolderRenamed(o, s, new)) = {InNew(s, new, x) : x \in Range(o)}
              /\ Tidy(o) /\ (\A x \in Range(o) : x[1] # new) => Tidy(FolderRenamed(o, s, new))
<1> DEFINE n == Len(o)
           t == FolderRenamed(o, s, new)
<1>0. n \in Nat /\ DOMAIN o = 1..n /\ o \in Seq(Items) /\ \A k \in 1..n : o[k] \in Items
  BY DEF Orders, Items, Folders
<1>1. t = [i \in 1..n |-> IF o[i][1] \in Including(s) THEN <<new, o[i][2]>> ELSE o[i]]
  BY <1>0 DEF FolderRenamed
<1>2. \A i \in 1..n : <<new, o[i][2]>> \in Items
  BY <1>0 DEF Items, Folders
<1> HIDE DEF t, n
<1>3. t \in Seq(Items) /\ DOMAIN t = 1..n
  BY <1>0, <1>1, <1>2
<1>4. ASSUME Tails = {}
      PROVE  /\ Range(t) = {InNew(s, new, x) : x \in Range(o)}
             /\ Tidy(o) /\ (\A x \in Range(o) : x[1] # new) => Tidy(t)
  <2>1. \A i \in 1..n : t[i] = InNew(s, new, o[i]) /\ o[i] \in Range(o)
    <3>1. Including(s) = {s}
      BY <1>4, OnlyItself
    <3> QED
      BY <3>1, <1>0, <1>1 DEF InNew, Range
  <2>2. Range(t) = {InNew(s, new, x) : x \in Range(o)}
    <3>1. Range(t) = {t[i] : i \in 1..n} /\ Range(o) = {o[i] : i \in 1..n}
      BY <1>0, <1>3 DEF Range
    <3> QED
      BY <3>1, <2>1
  <2>3. ASSUME Tidy(o), \A x \in Range(o) : x[1] # new PROVE Tidy(t)
    <3>1. \A i, k \in 1..n : (o[i] = o[k] => i = k) /\ o[i] \in Items /\ o[i][1] # new /\ o[k] \in Items
      BY <2>1, <2>3, <1>0 DEF Tidy, IsInjective
    <3>2. \A i \in 1..n : o[i] = <<o[i][1], o[i][2]>>
      BY <1>0 DEF Items
    <3>3. IsInjective(t)
      <4> SUFFICES ASSUME NEW i \in 1..n, NEW k \in 1..n, t[i] = t[k] PROVE i = k
        BY <1>3 DEF IsInjective
      <4>1. InNew(s, new, o[i]) = InNew(s, new, o[k])
        BY <2>1
      <4>2. o[i] = o[k]
        BY <4>1, <3>1, <3>2 DEF InNew
      <4> QED
        BY <4>2, <3>1
    <3>4. \A i \in 1..n : t[i][1] = IF o[i][1] = s THEN new ELSE o[i][1]
      <4>1. \A x : InNew(s, new, x)[1] = IF x[1] = s THEN new ELSE x[1]
        BY Zenon DEF InNew
      <4> QED
        BY <4>1, <2>1, Zenon
    <3>5. Grouped(t)
      <4> SUFFICES ASSUME NEW i \in 1..n, NEW k \in 1..n, t[i][1] = t[k][1], t[i][1] # Top, NEW j \in i..k
                   PROVE  t[j][1] = t[i][1]
        BY <1>3 DEF Grouped
      <4>1. j \in 1..n
        BY <1>0
      <4>2. o[i][1] = o[k][1] /\ o[i][1] # Top
        <5>1. s # Top
          BY CollectionsAssumption
        <5> QED
          BY <3>1, <3>4, <5>1
      <4>3. o[j][1] = o[i][1]
        BY <4>1, <4>2, <2>3, <1>0 DEF Tidy, Grouped
      <4> QED
        BY <4>1, <4>3, <3>4
    <3> QED
      BY <3>3, <3>5 DEF Tidy
  <2> QED
    BY <2>2, <2>3
<1> QED
  BY <1>3, <1>4 DEF t, Orders, Items, Folders

\* A sequence of the elements of a finite set has each of them once.
LEMMA ListsOfSet ==
  ASSUME NEW S, IsFiniteSet(S), NEW f \in SetToSeqs(S)
  PROVE  f \in Seq(S) /\ IsInjective(f) /\ Range(f) = S
<1> DEFINE n == Cardinality(S)
<1>1. n \in Nat /\ IsFiniteSet(1..n) /\ Cardinality(1..n) = n
  BY FS_CardinalityType, FS_Interval
<1>2. f \in [1..n -> S] /\ \A i, j \in 1..n : i # j => f[i] # f[j]
  BY DEF SetToSeqs
<1> HIDE DEF n
<1>3. IsInjective(f) /\ f \in Seq(S)
  BY <1>1, <1>2 DEF IsInjective
<1>4. f \in Injection(1..n, S)
  BY <1>2, <1>3 DEF Injection
<1>5. f \in Surjection(1..n, S)
  BY <1>1, <1>4, FS_Injection DEF n
<1> QED
  BY <1>2, <1>3, <1>5 DEF Surjection, Range

\* A list has finitely many members.
LEMMA FiniteRange ==
  ASSUME NEW S, NEW s \in Seq(S)
  PROVE  IsFiniteSet(Range(s))
<1>1. Len(s) \in Nat /\ IsFiniteSet(1..Len(s)) /\ DOMAIN s = 1..Len(s)
  BY FS_Interval
<1>2. s \in Surjection(1..Len(s), Range(s))
  BY <1>1 DEF Surjection, Range
<1> QED
  BY <1>1, <1>2, FS_Surjection

\* What an editor is shown: of each folder its pages
Dirs == [dir : Folders, names : Seq(Names)]

\* AddToList puts an item into the last folder of the list, or behind it.
LEMMA AddFits ==
  ASSUME NEW x \in Items, NEW list \in Seq(Dirs)
  PROVE  LET m == Len(list)
             shown == IF x[2] = Keep THEN <<>> ELSE <<x[2]>>
             more == AddToList(list, x)
         IN /\ shown \in Seq(Names) /\ m \in Nat /\ more \in Seq(Dirs)
            /\ x[1] # Top /\ m # 0 /\ list[m].dir = x[1] =>
                 /\ Len(more) = m /\ \A i \in 1..(m - 1) : more[i] = list[i]
                 /\ more[m] = [dir |-> x[1], names |-> list[m].names \o shown]
            /\ ~(x[1] # Top /\ m # 0 /\ list[m].dir = x[1]) =>
                 /\ Len(more) = m + 1 /\ \A i \in 1..m : more[i] = list[i]
                 /\ more[m + 1] = [dir |-> x[1], names |-> shown]
<1> DEFINE m == Len(list)
           shown == IF x[2] = Keep THEN <<>> ELSE <<x[2]>>
           more == AddToList(list, x)
<1>1. m \in Nat /\ (list = <<>> <=> m = 0) /\ \A i \in 1..m : list[i] \in Dirs
  OBVIOUS
<1>2. x[1] \in Folders /\ x[2] \in Names \cup {Keep}
  BY DEF Items
<1>3. shown \in Seq(Names)
  BY <1>2
<1> HIDE DEF shown
<1>4. CASE x[1] # Top /\ m # 0 /\ list[m].dir = x[1]
  <2>1. m \in 1..m /\ list[m] \in Dirs
    BY <1>1, <1>4
  <2>2. more = [list EXCEPT ![m].names = @ \o shown]
    BY <1>1, <1>4 DEF AddToList, shown
  <2>3. list[m].names \o shown \in Seq(Names)
    BY <2>1, <1>3 DEF Dirs
  <2>4. [dir |-> x[1], names |-> list[m].names \o shown] \in Dirs
    BY <2>3, <1>2 DEF Dirs
  <2>5. [list[m] EXCEPT !.names = @ \o shown] = [dir |-> x[1], names |-> list[m].names \o shown]
    <3>1. \A v : \A e \in Dirs : [e EXCEPT !.names = @ \o v] = [dir |-> e.dir, names |-> e.names \o v]
      <4> SUFFICES ASSUME NEW e \in Dirs, NEW v
                   PROVE  [e EXCEPT !.names = e.names \o v] = [dir |-> e.dir, names |-> e.names \o v]
        OBVIOUS
      <4> DEFINE w == e.names \o v
      <4> HIDE DEF w
      <4>1. [e EXCEPT !.names = w] = [dir |-> e.dir, names |-> w]
        BY DEF Dirs
      <4> QED
        BY <4>1 DEF w
    <3> QED
      BY <3>1, <2>1, <1>4
  <2>6. more = [list EXCEPT ![m] = [dir |-> x[1], names |-> list[m].names \o shown]]
    BY <2>2, <2>5
  <2>7. more \in Seq(Dirs) /\ Len(more) = m /\ (\A i \in 1..(m - 1) : more[i] = list[i])
        /\ more[m] = [dir |-> x[1], names |-> list[m].names \o shown]
    <3> DEFINE v == [dir |-> x[1], names |-> list[m].names \o shown]
    <3>1. v \in Dirs /\ more = [list EXCEPT ![m] = v]
      BY <2>4, <2>6
    <3> HIDE DEF v, more
    <3>2. more \in Seq(Dirs) /\ Len(more) = m /\ \A i \in 1..m : more[i] = IF i = m THEN v ELSE list[i]
      BY <3>1, <2>1, ExceptSeq
    <3>3. \A i \in 1..(m - 1) : i \in 1..m /\ i # m
      BY <1>1
    <3> QED
      BY <3>2, <3>3, <2>1 DEF v
  <2> QED
    BY <2>7, <1>1, <1>3, <1>4 DEF shown
<1>5. CASE ~(x[1] # Top /\ m # 0 /\ list[m].dir = x[1])
  <2>1. more = Append(list, [dir |-> x[1], names |-> shown])
    BY <1>1, <1>5 DEF AddToList, Folder, shown
  <2>2. [dir |-> x[1], names |-> shown] \in Dirs
    BY <1>2, <1>3 DEF Dirs
  <2>3. /\ more \in Seq(Dirs) /\ Len(more) = m + 1 /\ \A i \in 1..m : more[i] = list[i]
        /\ more[m + 1] = [dir |-> x[1], names |-> shown]
    BY <2>1, <2>2, <1>1
  <2> QED
    BY <2>3, <1>1, <1>3, <1>5 DEF shown
<1> QED
  BY <1>4, <1>5

\* The list after each entry of the order
ListSoFar(G, o) ==
  /\ G \in [0..Len(o) -> Seq(Dirs)] /\ G[0] = <<>> /\ YmlToObj(o) = G[Len(o)]
  /\ \A k \in 1..Len(o) : G[k] = AddToList(G[k - 1], o[k])

\* YmlToObj, item by item
LEMMA ListSteps ==
  ASSUME NEW o \in Orders
  PROVE  \E G : ListSoFar(G, o)
<1> DEFINE n == Len(o)
           S == Seq(Dirs)
           step == [i \in 1..n |-> [y \in S |-> AddToList(y, o[i])]]
<1>0. n \in Nat /\ \A k \in 1..n : o[k] \in Items
  BY DEF Orders, Items, Folders
<1>1. \A x \in Items, y \in S : AddToList(y, x) \in S
  BY AddFits
<1>2. <<>> \in S
  OBVIOUS
<1> HIDE DEF S, n
<1>3. step \in [1..n -> [S -> S]]
  BY <1>0, <1>1
<1>4. \A i \in 1..n, y \in S : step[i][y] = AddToList(y, o[i])
  OBVIOUS
<1> HIDE DEF step
<1>5. PICK G : Follows(G, S, <<>>, n, step)
  <2>1. Steps(S, <<>>, n, step)
    BY <1>0, <1>2, <1>3 DEF Steps
  <2> QED
    BY <2>1, StepsExist
<1>6. G \in [0..n -> S] /\ G[0] = <<>> /\ \A i \in 1..n : G[i] = step[i][G[i - 1]]
  BY <1>5 DEF Follows
<1>7. \A i \in 1..n : G[i] = AddToList(G[i - 1], o[i])
  <2>1. \A i \in 1..n : i - 1 \in 0..n
    BY <1>0
  <2> QED
    BY <2>1, <1>4, <1>6
<1> DEFINE Is(g) == g = [i \in 0..n |-> IF i = 0 THEN <<>> ELSE AddToList(g[i - 1], o[i])]
           F == CHOOSE g : Is(g)
<1>8. Is(G)
  <2>1. \A i \in 0..n : G[i] = IF i = 0 THEN <<>> ELSE AddToList(G[i - 1], o[i])
    <3>1. \A i \in 0..n : i = 0 \/ i \in 1..n
      BY <1>0
    <3> QED
      BY <3>1, <1>6, <1>7
  <2>2. G = [i \in 0..n |-> G[i]]
    BY <1>6
  <2> QED
    BY <2>1, <2>2
<1>9. Is(F)
  BY <1>8, Zenon
<1>10. YmlToObj(o) = F[n]
  BY Zenon DEF YmlToObj, n
<1> HIDE DEF F
<1>11. \A i \in 0..n : F[i] = IF i = 0 THEN <<>> ELSE AddToList(F[i - 1], o[i])
  BY <1>9
<1>12. DOMAIN F = 0..n
  BY <1>9
<1>13. \A i \in 0..n : F[i] \in S
  <2> DEFINE T == {k \in 0..n : F[k] \in S}
  <2>1. 0 \in T
    BY <1>0, <1>2, <1>11
  <2>2. ASSUME NEW k \in 0..(n - 1), k \in T PROVE k + 1 \in T
    <3>1. k + 1 \in 0..n /\ k + 1 # 0 /\ (k + 1) - 1 = k /\ k + 1 \in 1..n
      BY <1>0
    <3>2. F[k + 1] = AddToList(F[k], o[k + 1])
      BY <3>1, <1>11
    <3> QED
      BY <3>1, <3>2, <2>2, <1>0, <1>1
  <2>3. Climbs(T, n)
    <3> HIDE DEF T
    <3> QED
      BY <1>0, <2>1, <2>2 DEF Climbs
  <2>4. \A i \in 0..n : i \in T
    <3> HIDE DEF T
    <3> QED
      BY <2>3, UpTo
  <2> QED
    BY <2>4
<1>14. F \in [0..n -> S]
  <2>1. F = [i \in 0..n |-> F[i]]
    BY <1>9, <1>11
  <2> QED
    BY <2>1, <1>13
<1>15. \A k \in 1..n : F[k] = AddToList(F[k - 1], o[k])
  <2>1. \A k \in 1..n : k \in 0..n /\ k # 0
    BY <1>0
  <2> QED
    BY <2>1, <1>11
<1>16. F[0] = <<>>
  BY <1>0, <1>11
<1> QED
  BY <1>10, <1>14, <1>15, <1>16 DEF ListSoFar, n, S

\* A name that is new, behind a list of names
LEMMA NamesAppend ==
  ASSUME NEW u \in Seq(Names), NEW m \in Names, m \notin Range(u), IsInjective(u)
  PROVE  u \o <<m>> \in Seq(Names) /\ IsInjective(u \o <<m>>) /\ Range(u \o <<m>>) = Range(u) \cup {m}
<1> DEFINE n == Len(u)
           t == u \o <<m>>
<1>1. n \in Nat /\ DOMAIN u = 1..n
  OBVIOUS
<1>2. t \in Seq(Names) /\ DOMAIN t = 1..(n + 1) /\ t[n + 1] = m /\ \A i \in 1..n : t[i] = u[i]
  OBVIOUS
<1>3. \A i \in 1..n : u[i] \in Range(u)
  BY <1>1 DEF Range
<1> HIDE DEF n, t
<1>4. \A i \in 1..(n + 1) : i \in 1..n \/ i = n + 1
  BY <1>1
<1>5. IsInjective(t)
  <2> SUFFICES ASSUME NEW i \in 1..(n + 1), NEW k \in 1..(n + 1), t[i] = t[k] PROVE i = k
    BY <1>2 DEF IsInjective
  <2>1. i \in 1..n /\ k \in 1..n => i = k
    BY <1>1, <1>2 DEF IsInjective
  <2> QED
    BY <2>1, <1>2, <1>3, <1>4
<1>6. Range(t) = Range(u) \cup {m}
  <2>1. Range(t) = {t[i] : i \in 1..(n + 1)} /\ Range(u) = {u[i] : i \in 1..n}
    BY <1>1, <1>2 DEF Range
  <2>2. \A i \in 1..n : i \in 1..(n + 1)
    BY <1>1
  <2>3. n + 1 \in 1..(n + 1)
    BY <1>1
  <2>4. ASSUME NEW y \in Range(t) PROVE y \in Range(u) \cup {m}
    BY <2>1, <1>2, <1>4
  <2>5. ASSUME NEW y \in Range(u) \cup {m} PROVE y \in Range(t)
    BY <2>1, <2>2, <2>3, <1>2
  <2> QED
    BY <2>4, <2>5
<1> QED
  BY <1>2, <1>5, <1>6 DEF t

\* d has names that the first k entries of o have, each once.
DirFits(d, o, k) ==
  /\ IsInjective(d.names)
  /\ \A m \in Range(d.names) : \E j \in 1..k : o[j] = <<d.dir, m>>
  /\ \E j \in 1..k : o[j][1] = d.dir
DirsApart(d, e) == d.dir = e.dir => d.dir = Top /\ Range(d.names) \cap Range(e.names) = {}

\* A folder whose entries are next to each other is shown once.
LEMMA ListFits ==
  ASSUME NEW o \in Orders
  PROVE  /\ YmlToObj(o) \in Seq(Dirs)
         /\ Tidy(o) => LET list == YmlToObj(o) IN
              /\ \A i \in 1..Len(list) : IsInjective(list[i].names)
              /\ \A i, j \in 1..Len(list) : i # j => DirsApart(list[i], list[j])
<1> DEFINE n == Len(o)
<1>0. n \in Nat /\ \A k \in 1..n : o[k] \in Items
  BY DEF Orders, Items, Folders
<1>1. PICK G : ListSoFar(G, o)
  BY ListSteps
<1>2. /\ G \in [0..n -> Seq(Dirs)] /\ G[0] = <<>> /\ YmlToObj(o) = G[n]
      /\ \A k \in 1..n : G[k] = AddToList(G[k - 1], o[k])
  BY <1>1 DEF ListSoFar
<1>3. DOMAIN o = 1..n
  BY DEF Orders
<1> HIDE DEF n
<1> DEFINE T == {k \in 0..n :
             /\ \A i \in 1..Len(G[k]) : DirFits(G[k][i], o, k)
             /\ \A i, j \in 1..Len(G[k]) : i # j => DirsApart(G[k][i], G[k][j])
             /\ k # 0 => Len(G[k]) # 0 /\ G[k][Len(G[k])].dir = o[k][1]}
<1>4. 0 \in T
  <2>1. Len(G[0]) = 0
    BY <1>2
  <2> QED
    BY <2>1, <1>0
<1>5. ASSUME Tidy(o), NEW k \in 0..(n - 1), k \in T PROVE k + 1 \in T
  <2>1. k + 1 \in 1..n /\ (k + 1) - 1 = k /\ k \in 0..n /\ k + 1 \in 0..n /\ k + 1 # 0
        /\ k + 1 \in 1..(k + 1) /\ (\A j \in 1..k : j \in 1..(k + 1) /\ j \in 1..n /\ j # k + 1)
    BY <1>0
  <2> DEFINE l == G[k]
             more == G[k + 1]
             x == o[k + 1]
             m == Len(l)
             shown == IF x[2] = Keep THEN <<>> ELSE <<x[2]>>
             adds == x[1] # Top /\ m # 0 /\ l[m].dir = x[1]
             names == IF adds THEN l[m].names \o shown ELSE shown
             v == [dir |-> x[1], names |-> names]
             p == IF adds THEN m ELSE m + 1
  <2>2. x \in Items /\ l \in Seq(Dirs) /\ more = AddToList(l, x)
    BY <2>1, <1>0, <1>2
  <2>2a. x = <<x[1], x[2]>> /\ x[2] \in Names \cup {Keep}
    BY <2>2 DEF Items
  <2>3. /\ shown \in Seq(Names) /\ m \in Nat /\ more \in Seq(Dirs)
        /\ Len(more) = p /\ p \in 1..p /\ more[p] = v
        /\ \A i \in 1..(p - 1) : i \in 1..m /\ more[i] = l[i]
    <3> HIDE DEF l, x
    <3>1. /\ shown \in Seq(Names) /\ m \in Nat /\ more \in Seq(Dirs)
          /\ adds => Len(more) = m /\ (\A i \in 1..(m - 1) : more[i] = l[i])
                       /\ more[m] = [dir |-> x[1], names |-> l[m].names \o shown]
          /\ ~adds => Len(more) = m + 1 /\ (\A i \in 1..m : more[i] = l[i])
                       /\ more[m + 1] = [dir |-> x[1], names |-> shown]
      <4>1. /\ shown \in Seq(Names) /\ m \in Nat /\ AddToList(l, x) \in Seq(Dirs)
            /\ adds => Len(AddToList(l, x)) = m /\ (\A i \in 1..(m - 1) : AddToList(l, x)[i] = l[i])
                         /\ AddToList(l, x)[m] = [dir |-> x[1], names |-> l[m].names \o shown]
            /\ ~adds => Len(AddToList(l, x)) = m + 1 /\ (\A i \in 1..m : AddToList(l, x)[i] = l[i])
                         /\ AddToList(l, x)[m + 1] = [dir |-> x[1], names |-> shown]
        <5>1. x \in Items /\ l \in Seq(Dirs)
          BY <2>2
        <5> QED
          BY <5>1, AddFits
      <4> HIDE DEF m, shown
      <4> QED
        BY <4>1, <2>2
    <3> HIDE DEF shown, more, m
    <3>2. CASE adds
      BY <3>1, <3>2
    <3>3. CASE ~adds
      BY <3>1, <3>3
    <3> QED
      BY <3>2, <3>3
  <2>4. /\ \A i \in 1..m : DirFits(l[i], o, k) /\ l[i] \in Dirs
        /\ \A i, j \in 1..m : i # j => DirsApart(l[i], l[j])
        /\ k # 0 => m # 0 /\ l[m].dir = o[k][1]
    BY <1>5, <2>2
  <2>5. \A j \in 1..k : o[j] # x
    BY <2>1, <1>3, <1>5 DEF Tidy, IsInjective
  <2>6. \A i \in 1..m : DirFits(l[i], o, k + 1)
    BY <2>4, <2>1 DEF DirFits
  <2>7. IsInjective(shown) /\ Range(shown) = IF x[2] = Keep THEN {} ELSE {x[2]}
    BY DEF IsInjective, Range
  <2>8. \A i \in 1..m : l[i].dir = x[1] => x[2] \notin Range(l[i].names)
    BY <2>2a, <2>4, <2>5 DEF DirFits
  <2> HIDE DEF shown
  <2>9. ASSUME adds PROVE DirFits(v, o, k + 1) /\ \A i \in 1..(p - 1) : DirsApart(l[i], v) /\ DirsApart(v, l[i])
    <3>1. m \in 1..m /\ l[m].names \in Seq(Names)
      BY <2>3, <2>4, <2>9 DEF Dirs
    <3>2. x[2] \notin Range(l[m].names) /\ IsInjective(l[m].names)
      BY <3>1, <2>4, <2>8, <2>9 DEF DirFits
    <3>3. /\ IsInjective(l[m].names \o shown)
          /\ Range(l[m].names \o shown) = Range(l[m].names) \cup Range(shown)
      <4>1. CASE x[2] = Keep
        <5>1. l[m].names \o <<>> = l[m].names
          BY <3>1, ConcatEmptySeq
        <5>2. shown = <<>>
          BY <4>1 DEF shown
        <5> QED
          BY <4>1, <5>1, <5>2, <3>2, <2>7
      <4>2. CASE x[2] # Keep
        <5>1. shown = <<x[2]>> /\ x[2] \in Names
          BY <4>2, <2>2a DEF shown
        <5> HIDE DEF l, m, x
        <5>2. IsInjective(l[m].names \o <<x[2]>>)
              /\ Range(l[m].names \o <<x[2]>>) = Range(l[m].names) \cup {x[2]}
          BY <5>1, <3>1, <3>2, NamesAppend
        <5> QED
          BY <5>1, <5>2, <4>2, <2>7
      <4> QED
        BY <4>1, <4>2
    <3>4. v.dir = x[1] /\ v.names = l[m].names \o shown
      BY <2>9
    <3>5. DirFits(v, o, k + 1)
      <4>1. \A y \in Range(l[m].names) : \E j \in 1..(k + 1) : o[j] = <<x[1], y>>
        BY <3>1, <2>6, <2>9 DEF DirFits
      <4>2. \A y \in Range(shown) : o[k + 1] = <<x[1], y>>
        BY <2>2a, <2>7
      <4> HIDE DEF v, l, m
      <4> QED
        BY <4>1, <4>2, <3>3, <3>4, <2>1 DEF DirFits
    <3>6. \A i \in 1..(p - 1) : DirsApart(l[i], v) /\ DirsApart(v, l[i])
      <4>1. \A i \in 1..(p - 1) : i \in 1..m /\ i # m
        BY <2>3, <2>9
      <4>2. \A i \in 1..(p - 1) : l[i].dir # x[1]
        BY <4>1, <3>1, <2>4, <2>9 DEF DirsApart
      <4> QED
        BY <4>2, <3>4 DEF DirsApart
    <3> QED
      BY <3>5, <3>6
  <2>10. ASSUME ~adds PROVE DirFits(v, o, k + 1) /\ \A i \in 1..(p - 1) : DirsApart(l[i], v) /\ DirsApart(v, l[i])
    <3>1. v.dir = x[1] /\ v.names = shown
      BY <2>10
    <3>2. DirFits(v, o, k + 1)
      <4>1. \A y \in Range(shown) : o[k + 1] = <<x[1], y>>
        BY <2>2a, <2>7
      <4> HIDE DEF v
      <4> QED
        BY <4>1, <3>1, <2>1, <2>7 DEF DirFits
    <3>3. \A i \in 1..(p - 1) : DirsApart(l[i], v) /\ DirsApart(v, l[i])
      <4> SUFFICES ASSUME NEW i \in 1..(p - 1), l[i].dir = x[1]
                   PROVE  x[1] = Top /\ Range(l[i].names) \cap Range(shown) = {}
        BY <3>1 DEF DirsApart
      <4>0. i \in 1..m
        BY <2>3
      <4>1. Range(l[i].names) \cap Range(shown) = {}
        BY <4>0, <2>7, <2>8
      <4>2. ASSUME x[1] # Top PROVE FALSE
        <5>1. PICK j \in 1..k : o[j][1] = x[1]
          BY <4>0, <2>4 DEF DirFits
        <5>2. k # 0 /\ k \in 1..n /\ k \in j..(k + 1) /\ j \in 1..n
          BY <5>1, <2>1, <1>0
        <5>3. o[k][1] = o[j][1]
          BY <5>1, <5>2, <4>2, <2>1, <1>3, <1>5 DEF Tidy, Grouped
        <5>4. l[m].dir = x[1] /\ m # 0
          BY <5>1, <5>2, <5>3, <2>4
        <5> QED
          BY <5>4, <4>2, <2>10
      <4> QED
        BY <4>1, <4>2
    <3> QED
      BY <3>2, <3>3
  <2>11. DirFits(v, o, k + 1) /\ \A i \in 1..(p - 1) : DirsApart(l[i], v) /\ DirsApart(v, l[i])
    BY <2>9, <2>10
  <2>12. v.dir = o[k + 1][1] /\ p # 0
    BY <2>3
  <2>13. p \in Nat /\ \A i \in 1..p : i \in 1..(p - 1) \/ i = p
    BY <2>3
  <2> HIDE DEF p, v, l, m, x, adds
  <2>14. \A i \in 1..p : DirFits(more[i], o, k + 1)
    BY <2>3, <2>6, <2>11, <2>13
  <2>15. ASSUME NEW i \in 1..p, NEW j \in 1..p, i # j PROVE DirsApart(more[i], more[j])
    BY <2>3, <2>4, <2>11, <2>13, <2>15
  <2>16. more[p].dir = o[k + 1][1]
    BY <2>3, <2>12
  <2> QED
    BY <2>1, <2>3, <2>12, <2>14, <2>15, <2>16
<1>6. n \in 0..n
  BY <1>0
<1>7. ASSUME Tidy(o) PROVE n \in T
  <2>1. \A k \in 0..(n - 1) : k \in T => k + 1 \in T
    BY <1>5, <1>7
  <2> HIDE DEF T
  <2>2. Climbs(T, n)
    BY <1>0, <1>4, <2>1 DEF Climbs
  <2> QED
    BY <2>2, <1>6, UpTo
<1> QED
  BY <1>2, <1>6, <1>7 DEF DirFits

\* Every folder of the order has its .keep there, and the top has none.
Keepers(o) == \A x \in Range(o) : /\ x[1] # Top => <<x[1], Keep>> \in Range(o)
                                  /\ x[1] = Top => x[2] # Keep

\* The entries of what is shown of a folder
EntriesOf(d) == IF d.dir = Top THEN InFolder(Top, d.names) ELSE WithKeep(d.dir, d.names)

\* The entries that ObjToYml makes of one folder
LEMMA EntriesOfFits ==
  ASSUME NEW d \in Dirs
  PROVE  /\ EntriesOf(d) \in Seq(Items)
         /\ Range(EntriesOf(d)) =
              {<<d.dir, m>> : m \in IF d.dir = Top THEN Range(d.names) ELSE Range(d.names) \cup {Keep}}
         /\ IsInjective(d.names) => Tidy(EntriesOf(d))
<1>1. d.names \in Seq(Names) /\ d.dir \in Folders /\ Top \in Folders
  BY DEF Dirs, Folders
<1>2. CASE d.dir = Top
  BY <1>1, <1>2, InFolderFits DEF EntriesOf
<1>3. CASE d.dir # Top
  <2>1. d.dir \in Subs
    BY <1>1, <1>3 DEF Folders
  <2> QED
    BY <2>1, <1>1, <1>3, WithKeepFits DEF EntriesOf
<1> QED
  BY <1>2, <1>3

\* Those of two folders have nothing in common.
LEMMA EntriesApart ==
  ASSUME NEW d \in Dirs, NEW e \in Dirs, DirsApart(d, e)
  PROVE  Apart(EntriesOf(d), EntriesOf(e))
<1> SUFFICES ASSUME NEW x \in Range(EntriesOf(d)), NEW y \in Range(EntriesOf(e))
             PROVE  x # y /\ (x[1] = y[1] => x[1] = Top)
  BY DEF Apart
<1>1. PICK m \in (IF d.dir = Top THEN Range(d.names) ELSE Range(d.names) \cup {Keep}) : x = <<d.dir, m>>
  BY EntriesOfFits
<1>2. PICK n \in (IF e.dir = Top THEN Range(e.names) ELSE Range(e.names) \cup {Keep}) : y = <<e.dir, n>>
  BY EntriesOfFits
<1> QED
  BY <1>1, <1>2 DEF DirsApart

\* ObjToYml gives an order, tidy when no folder is shown twice.
LEMMA ObjFits ==
  ASSUME NEW list \in Seq(Dirs)
  PROVE  /\ ObjToYml(list) \in Orders /\ Keepers(ObjToYml(list))
         /\ /\ \A i \in 1..Len(list) : IsInjective(list[i].names)
            /\ \A i, j \in 1..Len(list) : i # j => DirsApart(list[i], list[j])
            => Tidy(ObjToYml(list))
<1> DEFINE n == Len(list)
           b == [i \in DOMAIN list |->
                   LET dir == list[i].dir
                       names == [j \in DOMAIN list[i].names |-> <<dir, list[i].names[j]>>]
                   IN IF dir = Top THEN names ELSE <<<<dir, Keep>>>> \o names]
<1>0. n \in Nat /\ DOMAIN list = 1..n /\ \A k \in 1..n : list[k] \in Dirs
  OBVIOUS
<1>1. b = [i \in 1..n |-> EntriesOf(list[i])]
  BY <1>0 DEF EntriesOf, WithKeep, InFolder
<1>2. ObjToYml(list) = FlattenSeq(b)
  BY DEF ObjToYml
<1> HIDE DEF b, n
<1>3. \A i \in 1..n : EntriesOf(list[i]) \in Seq(Items)
  BY <1>0, EntriesOfFits
<1>4. b \in Seq(Seq(Items)) /\ Len(b) = n
  BY <1>0, <1>1, <1>3
<1>5. PICK G \in [0..n -> Seq(Items)] :
        /\ G[0] = <<>> /\ \A i \in 1..n : G[i] = G[i - 1] \o b[i]
        /\ FlattenSeq(b) = G[n]
  <2>1. \E G \in [0..Len(b) -> Seq(Items)] :
          /\ G[0] = <<>> /\ \A i \in 1..Len(b) : G[i] = G[i - 1] \o b[i]
          /\ FlattenSeq(b) = G[Len(b)]
    BY <1>4, FlattenSteps
  <2> QED
    BY <2>1, <1>4
<1> DEFINE Sofar(k) == {x \in Items : \E i \in 1..k : x \in Range(EntriesOf(list[i]))}
           Good == /\ \A i \in 1..n : IsInjective(list[i].names)
                   /\ \A i, j \in 1..n : i # j => DirsApart(list[i], list[j])
           T == {k \in 0..n : Range(G[k]) = Sofar(k) /\ (Good => Tidy(G[k]))}
<1>6. 0 \in T
  <2>1. Range(<<>>) = {} /\ Tidy(<<>>)
    BY DEF Range, Tidy, IsInjective, Grouped
  <2>2. Sofar(0) = {}
    OBVIOUS
  <2> QED
    BY <2>1, <2>2, <1>0, <1>5
<1>7. ASSUME NEW k \in 0..(n - 1), k \in T PROVE k + 1 \in T
  <2>1. k + 1 \in 1..n /\ (k + 1) - 1 = k /\ k \in 0..n /\ k + 1 \in 0..n
        /\ k + 1 \in 1..(k + 1) /\ (\A i \in 1..k : i \in 1..(k + 1) /\ i \in 1..n /\ i # k + 1)
        /\ \A i \in 1..(k + 1) : i \in 1..k \/ i = k + 1
    BY <1>0
  <2> DEFINE e == EntriesOf(list[k + 1])
  <2>2. G[k + 1] = G[k] \o e /\ e \in Seq(Items) /\ G[k] \in Seq(Items)
    BY <2>1, <1>1, <1>3, <1>5
  <2>3. Range(G[k]) = Sofar(k)
    BY <1>7
  <2>4. Range(G[k] \o e) = Range(G[k]) \cup Range(e)
    <3> HIDE DEF e, T
    <3> QED
      BY <2>2, ItemSeqs
  <2>5. Range(e) \subseteq Items
    <3> HIDE DEF e
    <3> QED
      BY <2>2 DEF Range
  <2>6. Sofar(k + 1) = Sofar(k) \cup Range(e)
    <3>1. ASSUME NEW x \in Sofar(k + 1) PROVE x \in Sofar(k) \cup Range(e)
      BY <2>1
    <3>2. ASSUME NEW x \in Sofar(k) \cup Range(e) PROVE x \in Sofar(k + 1)
      BY <2>1, <2>5
    <3> QED
      BY <3>1, <3>2
  <2>7. ASSUME Good PROVE Tidy(G[k] \o e)
    <3>1. Tidy(G[k])
      BY <1>7, <2>7
    <3>2. Tidy(e)
      BY <2>1, <2>7, <1>0, EntriesOfFits
    <3>3. Apart(G[k], e)
      <4> SUFFICES ASSUME NEW x \in Sofar(k), NEW y \in Range(e)
                   PROVE  x # y /\ (x[1] = y[1] => x[1] = Top)
        BY <2>3 DEF Apart
      <4>1. PICK i \in 1..k : x \in Range(EntriesOf(list[i]))
        OBVIOUS
      <4>2. DirsApart(list[i], list[k + 1]) /\ list[i] \in Dirs /\ list[k + 1] \in Dirs
        BY <2>1, <2>7, <1>0
      <4>3. Apart(EntriesOf(list[i]), e)
        BY <4>2, EntriesApart
      <4> QED
        BY <4>1, <4>3 DEF Apart
    <3> HIDE DEF e
    <3> QED
      BY <3>1, <3>2, <3>3, <2>2, ConcatTidy
  <2> HIDE DEF e, Sofar, Good
  <2> QED
    BY <2>1, <2>2, <2>3, <2>4, <2>6, <2>7
<1>8. n \in T
  <2> HIDE DEF T
  <2>1. Climbs(T, n) /\ n \in 0..n
    BY <1>0, <1>6, <1>7 DEF Climbs
  <2> QED
    BY <2>1, UpTo
<1>9. Range(G[n]) = Sofar(n) /\ (Good => Tidy(G[n])) /\ G[n] \in Seq(Items)
  BY <1>0, <1>5, <1>8
<1>10. Keepers(G[n])
  <2> SUFFICES ASSUME NEW x \in Sofar(n)
               PROVE  /\ x[1] # Top => <<x[1], Keep>> \in Sofar(n)
                      /\ x[1] = Top => x[2] # Keep
    BY <1>9 DEF Keepers
  <2>1. PICK i \in 1..n : x \in Range(EntriesOf(list[i]))
    OBVIOUS
  <2> DEFINE d == list[i]
  <2>2. d \in Dirs /\ Range(EntriesOf(d)) =
              {<<d.dir, m>> : m \in IF d.dir = Top THEN Range(d.names) ELSE Range(d.names) \cup {Keep}}
    BY <1>0, EntriesOfFits
  <2>3. d.names \in Seq(Names) /\ d.dir \in Folders
    BY <2>2 DEF Dirs
  <2>4. PICK m \in (IF d.dir = Top THEN Range(d.names) ELSE Range(d.names) \cup {Keep}) : x = <<d.dir, m>>
    BY <2>1, <2>2
  <2>5. x[1] = Top => x[2] # Keep
    <3>1. \A y \in Range(d.names) : y \in Names
      BY <2>3 DEF Range
    <3> QED
      BY <2>4, <3>1, CollectionsAssumption
  <2>6. x[1] # Top => <<x[1], Keep>> \in Sofar(n)
    <3> SUFFICES ASSUME x[1] # Top PROVE <<d.dir, Keep>> \in Range(EntriesOf(d)) /\ <<d.dir, Keep>> \in Items /\ x[1] = d.dir
      OBVIOUS
    <3> QED
      BY <2>2, <2>3, <2>4 DEF Items
  <2> QED
    BY <2>5, <2>6
<1> QED
  BY <1>2, <1>5, <1>9, <1>10 DEF n, Orders, Items, Folders

\* The list as shown in another order, or a part of it, saved
LEMMA ReorderedFits ==
  ASSUME NEW o \in Orders, NEW list \in SetToAllKPermutations(Range(YmlToObj(o)))
  PROVE  /\ ObjToYml(list) \in Orders /\ Keepers(ObjToYml(list))
         /\ Tidy(o) => Tidy(ObjToYml(list))
<1> DEFINE all == YmlToObj(o)
<1>1. PICK r \in SUBSET Range(all) : list \in SetToSeqs(r)
  BY DEF SetToAllKPermutations
<1>2. all \in Seq(Dirs)
  BY ListFits
<1>3. IsFiniteSet(Range(all)) /\ Range(all) \subseteq Dirs /\ Range(all) = {all[i] : i \in 1..Len(all)}
  <2> HIDE DEF all
  <2>1. IsFiniteSet(Range(all))
    BY <1>2, FiniteRange
  <2> QED
    BY <2>1, <1>2 DEF Range
<1>4. IsFiniteSet(r)
  BY <1>3, FS_Subset
<1>5. list \in Seq(r) /\ IsInjective(list)
  BY <1>1, <1>4, ListsOfSet
<1>6. list \in Seq(Dirs)
  BY <1>3, <1>5
<1>7. ASSUME Tidy(o)
      PROVE  /\ \A i \in 1..Len(list) : IsInjective(list[i].names)
             /\ \A i, j \in 1..Len(list) : i # j => DirsApart(list[i], list[j])
  <2>1. /\ \A i \in 1..Len(all) : IsInjective(all[i].names)
        /\ \A i, j \in 1..Len(all) : i # j => DirsApart(all[i], all[j])
    BY <1>7, ListFits
  <2> HIDE DEF all
  <2>2. \A i \in 1..Len(list) : list[i] \in r /\ \E k \in 1..Len(all) : list[i] = all[k]
    BY <1>3, <1>5
  <2>3. ASSUME NEW i \in 1..Len(list), NEW j \in 1..Len(list), i # j PROVE DirsApart(list[i], list[j])
    <3>1. list[i] # list[j]
      BY <1>5, <2>3 DEF IsInjective
    <3> QED
      BY <3>1, <2>1, <2>2
  <2> QED
    BY <2>1, <2>2, <2>3
<1> QED
  BY <1>6, <1>7, ObjFits

\* Two orders that show the same list the same.
LEMMA ShownSame ==
  ASSUME NEW a \in Orders, NEW b \in Orders, Keepers(a), Keepers(b), Shown(a) = Shown(b)
  PROVE  Range(a) = Range(b)
<1>1. Range(a) \subseteq Items /\ Range(b) \subseteq Items
  BY DEF Orders, Items, Folders, Range
<1>2. {x \in Range(a) : x[2] # Keep} = {x \in Range(b) : x[2] # Keep}
  BY DEF Shown
<1>3. {x[1] : x \in Range(a)} = {x[1] : x \in Range(b)}
  BY DEF Shown
<1>4. ASSUME NEW u, NEW v, Range(u) \subseteq Items, Keepers(u), Keepers(v),
             {x \in Range(u) : x[2] # Keep} = {x \in Range(v) : x[2] # Keep},
             {x[1] : x \in Range(u)} = {x[1] : x \in Range(v)},
             NEW x \in Range(u)
      PROVE  x \in Range(v)
  <2>1. CASE x[2] # Keep
    BY <1>4, <2>1
  <2>2. CASE x[2] = Keep
    <3>1. x[1] # Top
      BY <1>4, <2>2 DEF Keepers
    <3>2. PICK y \in Range(v) : y[1] = x[1]
      BY <1>4
    <3>3. <<x[1], Keep>> \in Range(v)
      BY <3>1, <3>2, <1>4 DEF Keepers
    <3>4. x = <<x[1], x[2]>>
      BY <1>4 DEF Items
    <3> QED
      BY <3>3, <3>4, <2>2
  <2> QED
    BY <2>1, <2>2
<1>5. \A x \in Range(a) : x \in Range(b)
  BY <1>1, <1>2, <1>3, <1>4
<1>6. \A x \in Range(b) : x \in Range(a)
  BY <1>1, <1>2, <1>3, <1>4
<1> QED
  BY <1>5, <1>6

\* A folder's list saved, of an order that was tidy
LEMMA FolderSaved ==
  ASSUME NEW o \in Orders, NEW s \in Subs, NEW names \in NameLists, NEW L, Orderly(o, L), Keepers(o),
         Shown(FolderPut(o, s, names)) = Shown(o)
  PROVE  Orderly(FolderPut(o, s, names), L)
<1> DEFINE new == FolderPut(o, s, names)
<1>1. names \in Seq(Names) /\ IsInjective(names)
  BY DEF NameLists
<1>2. new \in Orders /\ <<s, Keep>> \in Range(new)
  BY <1>1, FolderPutFits
<1>3. Tidy(o) /\ Range(o) = L
  BY DEF Orderly, Tidy
<1>4. \E x \in Range(o) : x[1] = s
  <2>1. {x[1] : x \in Range(o)} = {x[1] : x \in Range(new)}
    BY DEF Shown
  <2>2. s \in {x[1] : x \in Range(new)}
    BY <1>2
  <2> QED
    BY <2>1, <2>2
<1>5. /\ Tidy(new)
      /\ Range(new) = {x \in Range(o) : x[1] # s} \cup {<<s, n>> : n \in Range(names) \cup {Keep}}
  BY <1>1, <1>3, <1>4, FolderPutFits
<1>6. Keepers(new)
  <2> SUFFICES ASSUME NEW x \in Range(new)
               PROVE  /\ x[1] # Top => <<x[1], Keep>> \in Range(new)
                      /\ x[1] = Top => x[2] # Keep
    BY DEF Keepers
  <2>1. CASE x[1] = s
    <3>1. s # Top
      BY CollectionsAssumption
    <3> QED
      BY <2>1, <3>1, <1>2
  <2>2. CASE x[1] # s
    <3>1. x \in Range(o)
      BY <2>2, <1>5
    <3> QED
      BY <3>1, <2>2, <1>5 DEF Keepers
  <2> QED
    BY <2>1, <2>2
<1>7. Range(new) = Range(o)
  BY <1>2, <1>6, ShownSame
<1> QED
  BY <1>3, <1>5, <1>7 DEF Orderly, Tidy

\* A collection's list that is saved as it was shown, in another order, lists what it did.
LEMMA ListSaved ==
  ASSUME NEW o \in Orders, NEW list \in SetToAllKPermutations(Range(YmlToObj(o))), NEW L,
         Orderly(o, L), Keepers(o), Shown(ObjToYml(list)) = Shown(o)
  PROVE  Orderly(ObjToYml(list), L)
<1>1. Tidy(o) /\ Range(o) = L
  BY DEF Orderly, Tidy
<1>2. ObjToYml(list) \in Orders /\ Keepers(ObjToYml(list)) /\ Tidy(ObjToYml(list))
  BY <1>1, ReorderedFits
<1>3. Range(ObjToYml(list)) = Range(o)
  BY <1>2, ShownSame
<1> QED
  BY <1>1, <1>2, <1>3 DEF Orderly, Tidy

-----------------------------------------------------------------------------
(* Files                                                                   *)

\* A path is its collection, subfolder and name.
LEMMA Triples ==
  /\ \A p \in Paths : /\ p = <<p[1], p[2], p[3]>> /\ p[1] \in Cols \cup {Unlinked} /\ p[2] \in Folders
                      /\ p[3] \in Names \cup {Keep}
                      /\ p[1] = Unlinked => p[2] = Top /\ p[3] # Keep
                      /\ p[3] = Keep => p[2] # Top
                      /\ p[2] # Top => p[1] \in Cols
  /\ \A p, q \in Paths : p[1] = q[1] /\ p[2] = q[2] /\ p[3] = q[3] => p = q
  /\ \A loc \in Locations, n \in Names : PathIn(loc, n) \in Paths
  /\ \A c \in Cols, s \in Subs, n \in Names \cup {Keep} : <<c, s, n>> \in Paths
<1>1. \A p \in Paths : p = <<p[1], p[2], p[3]>> /\ p[1] \in Cols \cup {Unlinked} /\ p[2] \in Folders
                      /\ p[3] \in Names \cup {Keep}
  BY DEF Paths
<1>2. ASSUME NEW p \in Paths PROVE (p[1] = Unlinked => p[2] = Top) /\ (p[3] = Keep => p[2] # Top)
  BY DEF Paths
<1>3. ASSUME NEW p \in Paths PROVE (p[1] = Unlinked => p[3] # Keep) /\ (p[2] # Top => p[1] \in Cols)
  <2>1. p[1] \in Cols \cup {Unlinked}
    BY <1>1
  <2>2. (p[1] = Unlinked => p[2] = Top) /\ (p[3] = Keep => p[2] # Top)
    BY <1>2
  <2> QED
    BY <2>1, <2>2, Zenon
<1>4. \A p, q \in Paths : p[1] = q[1] /\ p[2] = q[2] /\ p[3] = q[3] => p = q
  BY <1>1
<1>5. ASSUME NEW loc \in Locations, NEW n \in Names PROVE PathIn(loc, n) \in Paths
  <2>1. loc = <<Unlinked, Top>> \/ loc \in Cols \X (Subs \cup {Top})
    BY DEF Locations
  <2>2. loc[1] \in Cols \cup {Unlinked} /\ loc[2] \in Subs \cup {Top} /\ (loc[1] = Unlinked => loc[2] = Top)
    BY <2>1, CollectionsAssumption
  <2>3. n # Keep
    BY CollectionsAssumption
  <2> QED
    BY <2>2, <2>3 DEF PathIn, Paths, Folders
<1>6. ASSUME NEW c \in Cols, NEW s \in Subs, NEW n \in Names \cup {Keep} PROVE <<c, s, n>> \in Paths
  BY CollectionsAssumption DEF Paths, Folders
<1>7. ASSUME NEW p \in Paths
      PROVE /\ p = <<p[1], p[2], p[3]>> /\ p[1] \in Cols \cup {Unlinked} /\ p[2] \in Folders
            /\ p[3] \in Names \cup {Keep}
            /\ p[1] = Unlinked => p[2] = Top /\ p[3] # Keep
            /\ p[3] = Keep => p[2] # Top
            /\ p[2] # Top => p[1] \in Cols
  <2>1. p = <<p[1], p[2], p[3]>> /\ p[1] \in Cols \cup {Unlinked} /\ p[2] \in Folders
        /\ p[3] \in Names \cup {Keep}
    BY <1>1
  <2>2. (p[1] = Unlinked => p[2] = Top) /\ (p[3] = Keep => p[2] # Top)
    BY <1>2
  <2> QED
    BY <2>1, <2>2, <1>3, Zenon
<1> QED
  BY <1>4, <1>5, <1>6, <1>7, Zenon

\* A location is its collection and subfolder.
LEMMA Places ==
  /\ \A loc \in Locations : /\ loc = <<loc[1], loc[2]>>
                            /\ loc[1] \in Cols \cup {Unlinked} /\ loc[2] \in Folders
                            /\ loc[1] = Unlinked => loc[2] = Top
                            /\ InCollection(loc) <=> loc[1] \in Cols
  /\ <<Unlinked, Top>> \in Locations
  /\ \A c \in Cols, s \in Folders : <<c, s>> \in Locations
  /\ Unlinked \notin Cols /\ Top \notin Subs /\ Keep \notin Names /\ Keep \notin Pages
<1>1. Unlinked \notin Cols /\ Top \notin Subs /\ Keep \notin Names /\ Keep \notin Pages
  BY CollectionsAssumption
<1>2. <<Unlinked, Top>> \in Locations
  BY DEF Locations
<1>3. \A c \in Cols, s \in Folders : <<c, s>> \in Locations
  BY DEF Locations, Folders
<1>4. ASSUME NEW loc \in Locations
      PROVE /\ loc = <<loc[1], loc[2]>>
            /\ loc[1] \in Cols \cup {Unlinked} /\ loc[2] \in Folders
            /\ loc[1] = Unlinked => loc[2] = Top
            /\ InCollection(loc) <=> loc[1] \in Cols
  <2>1. loc = <<Unlinked, Top>> \/ loc \in Cols \X (Subs \cup {Top})
    BY DEF Locations
  <2> QED
    BY <2>1, <1>1 DEF Folders, InCollection
<1> QED
  BY <1>1, <1>2, <1>3, <1>4

\* fs without the files at gone
Less(fs, gone) == [p \in DOMAIN fs \ gone |-> fs[p]]

\* Files with one gone are as files can be,
LEMMA LessFits ==
  ASSUME NEW fs, FilesFit(fs), NEW gone
  PROVE  /\ FilesFit(Less(fs, gone)) /\ PagesOf(Less(fs, gone)) = PagesOf(fs) \ gone
         /\ DOMAIN Less(fs, gone) = DOMAIN fs \ gone
         /\ \A p \in DOMAIN fs \ gone : Less(fs, gone)[p] = fs[p]
<1> DEFINE gs == Less(fs, gone)
<1>1. DOMAIN gs = DOMAIN fs \ gone /\ \A p \in DOMAIN fs \ gone : gs[p] = fs[p]
  BY DEF Less
<1> HIDE DEF gs
<1>2. PagesOf(gs) = PagesOf(fs) \ gone
  BY <1>1 DEF PagesOf
<1>3. PagesOf(gs) \subseteq DOMAIN gs
  BY DEF PagesOf
<1>4. DOMAIN gs \subseteq Paths
  BY <1>1 DEF FilesFit
<1>5. \A p \in DOMAIN gs : gs[p] \in Held /\ (gs[p].page = Keep <=> ~IsPage(p))
  BY <1>1 DEF FilesFit
<1>6. \A p, q \in PagesOf(gs) : gs[p].page = gs[q].page => p = q
  BY <1>1, <1>2, <1>3 DEF FilesFit
<1>7. \A p \in PagesOf(gs) : gs[p].third = p[2]
  BY <1>1, <1>2, <1>3 DEF FilesFit
<1>8. FilesFit(gs)
  BY <1>4, <1>5, <1>6, <1>7 DEF FilesFit
<1> QED
  BY <1>1, <1>2, <1>8 DEF gs

\* so are they with a page more that was nowhere,
LEMMA PutFits ==
  ASSUME NEW fs, FilesFit(fs), NEW path \in Paths, path \notin DOMAIN fs, IsPage(path),
         NEW f \in Held, f.page \in Pages, f.third = path[2],
         \A p \in PagesOf(fs) : fs[p].page # f.page
  PROVE  FilesFit(With(fs, path, f)) /\ PagesOf(With(fs, path, f)) = PagesOf(fs) \cup {path}
<1> DEFINE gs == With(fs, path, f)
<1>1. DOMAIN gs = DOMAIN fs \cup {path} /\ gs[path] = f /\ \A p \in DOMAIN fs : gs[p] = fs[p] /\ p # path
  <2>1. /\ DOMAIN gs = DOMAIN fs \cup {path} /\ gs[path] = f
        /\ \A p \in DOMAIN fs \ {path} : gs[p] = fs[p]
    BY DEF With
  <2> HIDE DEF gs
  <2> QED
    BY <2>1
<1> HIDE DEF gs
<1>2. PagesOf(gs) = PagesOf(fs) \cup {path}
  BY <1>1 DEF PagesOf
<1>3. PagesOf(fs) \subseteq DOMAIN fs
  BY DEF PagesOf
<1>4. DOMAIN gs \subseteq Paths
  BY <1>1 DEF FilesFit
<1>5. \A p \in DOMAIN gs : gs[p] \in Held /\ (gs[p].page = Keep <=> ~IsPage(p))
  BY <1>1, CollectionsAssumption DEF FilesFit
<1>6. \A p, q \in PagesOf(gs) : gs[p].page = gs[q].page => p = q
  BY <1>1, <1>2, <1>3 DEF FilesFit
<1>7. \A p \in PagesOf(gs) : gs[p].third = p[2]
  BY <1>1, <1>2, <1>3 DEF FilesFit
<1>8. FilesFit(gs)
  BY <1>4, <1>5, <1>6, <1>7 DEF FilesFit
<1> QED
  BY <1>2, <1>8 DEF gs

KeepFile == [page |-> Keep, third |-> Top]

\* and with a .keep more.
LEMMA KeepFits ==
  ASSUME NEW fs, FilesFit(fs), NEW path \in Paths, path \notin DOMAIN fs, ~IsPage(path)
  PROVE  FilesFit(With(fs, path, KeepFile)) /\ PagesOf(With(fs, path, KeepFile)) = PagesOf(fs)
<1> DEFINE gs == With(fs, path, KeepFile)
<1>1. DOMAIN gs = DOMAIN fs \cup {path} /\ gs[path] = KeepFile /\ \A p \in DOMAIN fs : gs[p] = fs[p] /\ p # path
  <2>1. /\ DOMAIN gs = DOMAIN fs \cup {path} /\ gs[path] = KeepFile
        /\ \A p \in DOMAIN fs \ {path} : gs[p] = fs[p]
    BY DEF With
  <2> HIDE DEF gs
  <2> QED
    BY <2>1
<1>0. KeepFile \in Held /\ KeepFile.page = Keep
  BY DEF KeepFile, Held, Folders
<1> HIDE DEF gs
<1>2. PagesOf(gs) = PagesOf(fs)
  BY <1>1 DEF PagesOf
<1>3. PagesOf(fs) \subseteq DOMAIN fs
  BY DEF PagesOf
<1>4. DOMAIN gs \subseteq Paths
  BY <1>1 DEF FilesFit
<1>5. \A p \in DOMAIN gs : gs[p] \in Held /\ (gs[p].page = Keep <=> ~IsPage(p))
  BY <1>0, <1>1 DEF FilesFit
<1>6. \A p, q \in PagesOf(gs) : gs[p].page = gs[q].page => p = q
  BY <1>1, <1>2, <1>3 DEF FilesFit
<1>7. \A p \in PagesOf(gs) : gs[p].third = p[2]
  BY <1>1, <1>2, <1>3 DEF FilesFit
<1>8. FilesFit(gs)
  BY <1>4, <1>5, <1>6, <1>7 DEF FilesFit
<1> QED
  BY <1>2, <1>8 DEF gs

\* What an entry of a collection stands for
LEMMA EntriesAre ==
  ASSUME NEW fs, DOMAIN fs \subseteq Paths, NEW b, NEW x
  PROVE  x \in Entries(fs, b) <=> /\ x = <<x[1], x[2]>>
                                  /\ <<b, x[1], x[2]>> \in DOMAIN fs
<1>1. ASSUME x \in Entries(fs, b)
      PROVE  x = <<x[1], x[2]>> /\ <<b, x[1], x[2]>> \in DOMAIN fs
  <2>1. PICK p \in DOMAIN fs : p[1] = b /\ x = <<p[2], p[3]>>
    BY <1>1 DEF Entries
  <2>2. p = <<p[1], p[2], p[3]>>
    BY Triples
  <2> QED
    BY <2>1, <2>2
<1>2. ASSUME x = <<x[1], x[2]>>, <<b, x[1], x[2]>> \in DOMAIN fs PROVE x \in Entries(fs, b)
  <2> DEFINE p == <<b, x[1], x[2]>>
  <2>1. p \in DOMAIN fs /\ p[1] = b /\ p[2] = x[1] /\ p[3] = x[2]
    BY <1>2
  <2> HIDE DEF p
  <2>2. <<p[2], p[3]>> \in Entries(fs, b)
    BY <2>1 DEF Entries
  <2> QED
    BY <2>1, <2>2, <1>2
<1> QED
  BY <1>1, <1>2

\* The entries of a collection when a file goes,
LEMMA EntriesLess ==
  ASSUME NEW fs, FilesFit(fs), NEW path \in Paths, NEW b
  PROVE  Entries(Less(fs, {path}), b) =
           IF b = path[1] THEN Entries(fs, b) \ {<<path[2], path[3]>>} ELSE Entries(fs, b)
<1>1. DOMAIN fs \subseteq Paths
  BY DEF FilesFit
<1>2. DOMAIN Less(fs, {path}) = DOMAIN fs \ {path} /\ DOMAIN fs \ {path} \subseteq Paths
  BY <1>1, LessFits
<1>3. path = <<path[1], path[2], path[3]>>
  BY Triples
<1>4. \A x : x \in Entries(Less(fs, {path}), b) <=>
               x = <<x[1], x[2]>> /\ <<b, x[1], x[2]>> \in DOMAIN fs \ {path}
  BY <1>2, EntriesAre
<1>5. \A x : x \in Entries(fs, b) <=> x = <<x[1], x[2]>> /\ <<b, x[1], x[2]>> \in DOMAIN fs
  BY <1>1, EntriesAre
<1>6. \A x : x = <<x[1], x[2]>> => (<<b, x[1], x[2]>> = path <=> b = path[1] /\ x = <<path[2], path[3]>>)
  BY <1>3
<1> QED
  BY <1>4, <1>5, <1>6

\* and when one comes
LEMMA EntriesWith ==
  ASSUME NEW fs, FilesFit(fs), NEW path \in Paths, NEW f, NEW b
  PROVE  Entries(With(fs, path, f), b) =
           IF b = path[1] THEN Entries(fs, b) \cup {<<path[2], path[3]>>} ELSE Entries(fs, b)
<1>1. DOMAIN fs \subseteq Paths
  BY DEF FilesFit
<1>2. DOMAIN With(fs, path, f) = DOMAIN fs \cup {path} /\ DOMAIN fs \cup {path} \subseteq Paths
  BY <1>1 DEF With
<1>3. path = <<path[1], path[2], path[3]>>
  BY Triples
<1>4. \A x : x \in Entries(With(fs, path, f), b) <=>
               x = <<x[1], x[2]>> /\ <<b, x[1], x[2]>> \in DOMAIN fs \cup {path}
  BY <1>2, EntriesAre
<1>5. \A x : x \in Entries(fs, b) <=> x = <<x[1], x[2]>> /\ <<b, x[1], x[2]>> \in DOMAIN fs
  BY <1>1, EntriesAre
<1>6. \A x : x = <<x[1], x[2]>> => (<<b, x[1], x[2]>> = path <=> b = path[1] /\ x = <<path[2], path[3]>>)
  BY <1>3
<1>7. \A x : x = <<path[2], path[3]>> => x = <<x[1], x[2]>>
  OBVIOUS
<1> QED
  BY <1>4, <1>5, <1>6, <1>7

\* A page that goes takes no .keep along,
LEMMA KeptLess ==
  ASSUME NEW fs, FilesFit(fs), NEW path \in Paths, IsPage(path), NEW c, NEW s, KeptBut(fs, c, s)
  PROVE  KeptBut(Less(fs, {path}), c, s)
<1> SUFFICES ASSUME NEW p \in DOMAIN fs \ {path}, p[2] # Top, <<p[1], p[2]>> # <<c, s>>
             PROVE  KeepOf(p) \in DOMAIN fs \ {path}
  BY DEF KeptBut, Less
<1>1. KeepOf(p) \in DOMAIN fs
  BY DEF KeptBut
<1>2. KeepOf(p) # path
  BY DEF KeepOf, IsPage
<1> QED
  BY <1>1, <1>2

\* and one that comes finds its folder's.
LEMMA KeptWith ==
  ASSUME NEW fs, FilesFit(fs), NEW path \in Paths, NEW f, NEW c, NEW s, KeptBut(fs, c, s),
         path[2] = Top \/ KeepOf(path) \in DOMAIN fs \/ ~IsPage(path)
  PROVE  KeptBut(With(fs, path, f), c, s)
<1> SUFFICES ASSUME NEW p \in DOMAIN fs \cup {path}, p[2] # Top, <<p[1], p[2]>> # <<c, s>>
             PROVE  KeepOf(p) \in DOMAIN fs \cup {path}
  BY DEF KeptBut, With
<1>1. CASE p \in DOMAIN fs
  BY <1>1 DEF KeptBut
<1>2. CASE p = path
  <2>1. ~IsPage(path) => KeepOf(path) = path
    <3>1. path = <<path[1], path[2], path[3]>>
      BY Triples
    <3> QED
      BY <3>1 DEF KeepOf, IsPage
  <2> QED
    BY <1>2, <2>1
<1> QED
  BY <1>1, <1>2

\* Kept, in terms of the files alone
LEMMA KeptHere ==
  ASSUME NEW fs, DOMAIN fs \subseteq Paths
  PROVE  /\ Kept(fs) <=> \A p \in DOMAIN fs : p[2] # Top => KeepOf(p) \in DOMAIN fs
         /\ \A c, s : Kept(fs) => KeptBut(fs, c, s)
<1>1. \A p \in DOMAIN fs : p[2] # Top => <<p[1], p[2]>> # <<Nothing, Nothing>>
  <2> SUFFICES ASSUME NEW p \in DOMAIN fs, p[2] # Top PROVE p[1] # Nothing
    OBVIOUS
  <2>1. p[1] \in Cols
    BY Triples
  <2> QED
    BY <2>1, CollectionsAssumption
<1>2. Kept(fs) <=> \A p \in DOMAIN fs : p[2] # Top => KeepOf(p) \in DOMAIN fs
  BY <1>1 DEF Kept, KeptBut
<1> QED
  BY <1>2 DEF KeptBut

\* c's order is the only one that changes.
LEMMA OrdersOf ==
  ASSUME NEW fs, NEW ys
  PROVE  /\ \A c : Ordered(fs, ys) <=> OrdersBut(fs, ys, c, Entries(fs, c))
         /\ \A c, L : c \notin Cols => (Ordered(fs, ys) <=> OrdersBut(fs, ys, c, L))
<1>1. Nothing \notin Cols
  BY CollectionsAssumption
<1>2. Ordered(fs, ys) <=> \A b \in Cols : ys[b] # Nothing => Orderly(ys[b].order, Entries(fs, b))
  BY <1>1 DEF Ordered, OrdersBut
<1>3. ASSUME NEW c
      PROVE  OrdersBut(fs, ys, c, Entries(fs, c)) <=>
               \A b \in Cols : ys[b] # Nothing => Orderly(ys[b].order, Entries(fs, b))
  <2>1. \A b : (IF b = c THEN Entries(fs, c) ELSE Entries(fs, b)) = Entries(fs, b)
    OBVIOUS
  <2> QED
    BY <2>1 DEF OrdersBut
<1>4. ASSUME NEW c, NEW L, c \notin Cols
      PROVE  OrdersBut(fs, ys, c, L) <=>
               \A b \in Cols : ys[b] # Nothing => Orderly(ys[b].order, Entries(fs, b))
  BY <1>4 DEF OrdersBut
<1> QED
  BY <1>2, <1>3, <1>4

\* Orders and a change of the files of one collection
LEMMA OrdersFiles ==
  ASSUME NEW fs, NEW gs, NEW ys, NEW c, NEW L, OrdersBut(fs, ys, c, L),
         \A b \in Cols : b # c => Entries(gs, b) = Entries(fs, b)
  PROVE  OrdersBut(gs, ys, c, L)
<1> SUFFICES ASSUME NEW b \in Cols, ys[b] # Nothing
             PROVE  Orderly(ys[b].order, IF b = c THEN L ELSE Entries(gs, b))
  BY DEF OrdersBut
<1>1. Orderly(ys[b].order, IF b = c THEN L ELSE Entries(fs, b))
  BY DEF OrdersBut
<1> QED
  BY <1>1

\* ys with another order for c
Reordered(ys, c, o) == [ys EXCEPT ![c].order = o]

\* A change of the order of one collection
LEMMA ReorderedIs ==
  ASSUME NEW ys \in Ymls, NEW c \in Cols, ys[c] # Nothing, NEW o \in Orders
  PROVE  /\ Reordered(ys, c, o) \in Ymls
         /\ \A b \in Cols : Reordered(ys, c, o)[b] = IF b = c THEN [key |-> ys[c].key, order |-> o] ELSE ys[b]
<1>1. ys[c] \in Yml /\ ys[c] \in [key : Cols \cup {Nothing}, order : Orders]
  BY DEF Ymls, Yml
<1>2. [ys[c] EXCEPT !.order = o] = [key |-> ys[c].key, order |-> o]
  BY <1>1
<1>3. Reordered(ys, c, o) = [ys EXCEPT ![c] = [key |-> ys[c].key, order |-> o]]
  BY <1>2 DEF Reordered
<1>4. [key |-> ys[c].key, order |-> o] \in Yml
  BY <1>1 DEF Yml
<1> DEFINE r == [key |-> ys[c].key, order |-> o]
<1> HIDE DEF r
<1>5. Reordered(ys, c, o) = [ys EXCEPT ![c] = r] /\ r \in Yml
  BY <1>3, <1>4 DEF r
<1>6. Reordered(ys, c, o) \in Ymls
  BY <1>5 DEF Ymls
<1>7. \A b \in Cols : Reordered(ys, c, o)[b] = IF b = c THEN r ELSE ys[b]
  BY <1>5 DEF Ymls
<1> QED
  BY <1>6, <1>7 DEF r

\* It leaves the keys, and who has a collection.yml, alone,
LEMMA ReorderedFrame ==
  ASSUME NEW ys \in Ymls, NEW c \in Cols, ys[c] # Nothing, NEW o \in Orders
  PROVE  LET zs == Reordered(ys, c, o) IN
         /\ \A b \in Cols : (zs[b] # Nothing <=> ys[b] # Nothing) /\ (ys[b] # Nothing => zs[b].key = ys[b].key)
         /\ zs[c].order = o
         /\ \A d : Keyed(ys, d) => Keyed(zs, d)
         /\ \A fs : DOMAIN fs \subseteq Paths /\ Covered(fs, ys) => Covered(fs, zs)
         /\ \A nv, d : nv \subseteq Cols /\ Linked(ys, nv, d) => Linked(zs, nv, d)
         /\ \A fs, nv : DOMAIN fs \subseteq Paths /\ nv \subseteq Cols /\ Tended(fs, ys, nv) => Tended(fs, zs, nv)
<1> DEFINE zs == Reordered(ys, c, o)
<1>1. \A b \in Cols : zs[b] = IF b = c THEN [key |-> ys[c].key, order |-> o] ELSE ys[b]
  BY ReorderedIs
<1>2. [key |-> ys[c].key, order |-> o] # Nothing
  <2>1. ys[c] \in [key : Cols \cup {Nothing}, order : Orders]
    BY DEF Ymls, Yml
  <2>2. [key |-> ys[c].key, order |-> o] \in Yml
    BY <2>1 DEF Yml
  <2> QED
    BY <2>2, CollectionsAssumption
<1> HIDE DEF zs
<1>3. \A b \in Cols : (zs[b] # Nothing <=> ys[b] # Nothing) /\ (ys[b] # Nothing => zs[b].key = ys[b].key)
  BY <1>1, <1>2
<1>4. zs[c].order = o
  BY <1>1
<1>5. \A d : Keyed(ys, d) => Keyed(zs, d)
  BY <1>3 DEF Keyed
<1>6. ASSUME NEW fs, DOMAIN fs \subseteq Paths, Covered(fs, ys) PROVE Covered(fs, zs)
  <2>1. \A p \in DOMAIN fs : p[1] \in Cols \cup {Unlinked}
    BY <1>6, Triples
  <2> QED
    BY <2>1, <1>3, <1>6 DEF Covered
<1>7. \A nv, d : nv \subseteq Cols /\ Linked(ys, nv, d) => Linked(zs, nv, d)
  BY <1>3 DEF Linked
<1> QED
  BY <1>3, <1>4, <1>5, <1>6, <1>7 DEF Tended, zs

\* and the orders of the other collections.
LEMMA OrdersOne ==
  ASSUME NEW fs, NEW ys \in Ymls, NEW c \in Cols, ys[c] # Nothing, NEW L, OrdersBut(fs, ys, c, L),
         NEW o \in Orders, NEW M, Orderly(o, M)
  PROVE  OrdersBut(fs, Reordered(ys, c, o), c, M)
<1> DEFINE zs == Reordered(ys, c, o)
<1>1. \A b \in Cols : zs[b] = IF b = c THEN [key |-> ys[c].key, order |-> o] ELSE ys[b]
  BY ReorderedIs
<1> HIDE DEF zs
<1> SUFFICES ASSUME NEW b \in Cols, zs[b] # Nothing
             PROVE  Orderly(zs[b].order, IF b = c THEN M ELSE Entries(fs, b))
  BY DEF OrdersBut, zs
<1>2. CASE b = c
  BY <1>1, <1>2
<1>3. CASE b # c
  BY <1>1, <1>3 DEF OrdersBut
<1> QED
  BY <1>2, <1>3

-----------------------------------------------------------------------------
(* Where pages are to go                                                   *)

\* A page that is taken is then to go where it was to be moved.
LEMMA LeadsTaken ==
  ASSUME NEW fs, NEW w, NEW id, NEW to, Leads(fs, w, id, to, {}), NEW path \in PagesOf(fs),
         NEW more, DOMAIN more = DOMAIN to \ {path}, \A p \in DOMAIN more : more[p] = to[p] /\ to[p] # path,
         NEW q, q = Goal(to, path)
  PROVE  Leads(Less(fs, {path}), w, fs[path].page, more, {q})
<1> DEFINE gs == Less(fs, {path})
<1>1. PagesOf(gs) = PagesOf(fs) \ {path} /\ \A p \in PagesOf(gs) : gs[p] = fs[p]
  BY DEF Less, PagesOf
<1> HIDE DEF gs
<1> SUFFICES ASSUME Clear(gs, more, {q})
             PROVE  /\ \A p \in PagesOf(gs) : Goal(more, p) \in DOMAIN w /\ w[Goal(more, p)] = gs[p].page
                    /\ q \in DOMAIN w /\ w[q] = fs[path].page
                    /\ DOMAIN w \subseteq {Goal(more, p) : p \in PagesOf(gs)} \cup {q}
  BY DEF Leads, gs
<1>2. Clear(fs, to, {})
  <2>1. \A p \in DOMAIN more : to[p] = p \/ to[p] \notin PagesOf(fs)
    BY <1>1 DEF Clear
  <2>2. path \in DOMAIN to => to[path] = path \/ to[path] \notin PagesOf(fs)
    BY <1>1 DEF Clear, Goal
  <2> QED
    BY <2>1, <2>2 DEF Clear
<1>3. /\ \A p \in PagesOf(fs) : Goal(to, p) \in DOMAIN w /\ w[Goal(to, p)] = fs[p].page
      /\ DOMAIN w \subseteq {Goal(to, p) : p \in PagesOf(fs)}
  BY <1>2 DEF Leads
<1>4. \A p \in PagesOf(gs) : Goal(more, p) = Goal(to, p)
  BY <1>1 DEF Goal
<1> QED
  BY <1>1, <1>3, <1>4

\* The page in hand is put where it is to go.
LEMMA LeadsPut ==
  ASSUME NEW fs, NEW w, NEW id, NEW to, NEW q, Leads(fs, w, id, to, {q}),
         q \notin DOMAIN fs, IsPage(q), q \notin DOMAIN to, NEW f, f.page = id, NEW none
  PROVE  Leads(With(fs, q, f), w, none, to, {})
<1> DEFINE gs == With(fs, q, f)
<1>1. /\ PagesOf(gs) = PagesOf(fs) \cup {q} /\ gs[q] = f
      /\ \A p \in PagesOf(fs) : gs[p] = fs[p] /\ p # q
  BY DEF With, PagesOf
<1> HIDE DEF gs
<1> SUFFICES ASSUME Clear(gs, to, {})
             PROVE  /\ \A p \in PagesOf(gs) : Goal(to, p) \in DOMAIN w /\ w[Goal(to, p)] = gs[p].page
                    /\ DOMAIN w \subseteq {Goal(to, p) : p \in PagesOf(gs)}
  BY DEF Leads, gs
<1>2. Clear(fs, to, {q})
  BY <1>1 DEF Clear
<1>3. /\ \A p \in PagesOf(fs) : Goal(to, p) \in DOMAIN w /\ w[Goal(to, p)] = fs[p].page
      /\ q \in DOMAIN w /\ w[q] = id
      /\ DOMAIN w \subseteq {Goal(to, p) : p \in PagesOf(fs)} \cup {q}
  BY <1>2 DEF Leads
<1>4. Goal(to, q) = q
  BY DEF Goal
<1> QED
  BY <1>1, <1>3, <1>4

\* Nothing is to be moved.
LEMMA LeadsNowhere ==
  ASSUME NEW fs, NEW w, NEW id, NEW to, DOMAIN to = {} \/ \A p \in DOMAIN to : to[p] = p
  PROVE  Leads(fs, w, id, to, {}) <=> Placed(fs, w)
<1>1. Clear(fs, to, {})
  BY DEF Clear
<1>2. \A p \in PagesOf(fs) : Goal(to, p) = p
  BY DEF Goal
<1>3. {Goal(to, p) : p \in PagesOf(fs)} = PagesOf(fs)
  BY <1>2
<1> QED
  BY <1>1, <1>2, <1>3 DEF Leads, Placed

\* Only the pages matter to Leads.
LEMMA LeadsSame ==
  ASSUME NEW fs, NEW gs, NEW w, NEW id, NEW to, NEW new, Leads(fs, w, id, to, new),
         PagesOf(gs) = PagesOf(fs), \A p \in PagesOf(fs) : gs[p] = fs[p]
  PROVE  Leads(gs, w, id, to, new)
BY DEF Leads, Clear

\* When a request to move pages begins, each page is where it will be moved from.
LEMMA MovedLeads ==
  ASSUME FilesFit(files), Placed(files, want), NEW src \in Locations, NEW dst \in Locations,
         NEW ns \in SUBSET Names, NEW ms \in SUBSET Names,
         \A p \in PagesOf(files) : p = PathIn(src, p[3]) => (p[3] \in ns <=> p[3] \in ms),
         NEW id
  PROVE  Leads(files, WantMoved(src, dst, ns), id, Shift(src, dst, ms), {})
<1> DEFINE to(p) == IF p[1] = src[1] /\ p[2] = src[2] /\ p[3] \in ns THEN PathIn(dst, p[3]) ELSE p
           v == WantMoved(src, dst, ns)
           sh == Shift(src, dst, ms)
<1>1. /\ DOMAIN v = {to(p) : p \in DOMAIN want}
      /\ \A q \in DOMAIN v : v[q] = want[CHOOSE p \in DOMAIN want : to(p) = q]
  BY DEF WantMoved, Renamed
<1>2. DOMAIN want = PagesOf(files) /\ PagesOf(files) \subseteq Paths
  BY DEF Placed, PagesOf, FilesFit
<1>3. \A p \in Paths : p[1] = src[1] /\ p[2] = src[2] <=> p = PathIn(src, p[3])
  <2> SUFFICES ASSUME NEW p \in Paths PROVE p[1] = src[1] /\ p[2] = src[2] <=> p = PathIn(src, p[3])
    OBVIOUS
  <2>1. p = <<p[1], p[2], p[3]>>
    BY Triples
  <2> QED
    BY <2>1 DEF PathIn
<1>4. \A p \in PagesOf(files) : to(p) = Goal(sh, p)
  <2> SUFFICES ASSUME NEW p \in PagesOf(files) PROVE to(p) = Goal(sh, p)
    OBVIOUS
  <2>0. p \in Paths
    BY <1>2
  <2>1. p \in DOMAIN sh <=> p = PathIn(src, p[3]) /\ p[3] \in ms
    <3>1. \A n : PathIn(src, n)[3] = n
      BY DEF PathIn
    <3> QED
      BY <3>1 DEF Shift
  <2>2. p \in DOMAIN sh => sh[p] = PathIn(dst, p[3])
    BY DEF Shift
  <2>3. p[1] = src[1] /\ p[2] = src[2] <=> p = PathIn(src, p[3])
    BY <1>3, <2>0
  <2> HIDE DEF sh
  <2>4. CASE p = PathIn(src, p[3]) /\ p[3] \in ms
    <3>1. p[3] \in ns
      BY <2>4
    <3> QED
      BY <3>1, <2>1, <2>2, <2>3, <2>4 DEF Goal
  <2>5. CASE ~(p = PathIn(src, p[3]) /\ p[3] \in ms)
    <3>1. ~(p = PathIn(src, p[3]) /\ p[3] \in ns)
      BY <2>5
    <3>2. to(p) = p
      BY <3>1, <2>3
    <3> QED
      BY <3>2, <2>1, <2>5 DEF Goal
  <2> QED
    BY <2>4, <2>5
<1>5. ASSUME Clear(files, sh, {}), NEW p \in PagesOf(files), NEW q \in PagesOf(files), Goal(sh, p) = Goal(sh, q)
      PROVE  p = q
  <2>1. \A r \in PagesOf(files) : r \in DOMAIN sh => sh[r] = r \/ sh[r] \notin PagesOf(files)
    BY <1>5 DEF Clear
  <2>2. \A r \in DOMAIN sh : r = PathIn(src, r[3]) /\ sh[r] = PathIn(dst, r[3])
    <3>1. \A n : PathIn(src, n)[3] = n
      BY DEF PathIn
    <3> QED
      BY <3>1 DEF Shift
  <2> HIDE DEF sh
  <2>3. CASE p \in DOMAIN sh /\ q \in DOMAIN sh
    <3>1. PathIn(dst, p[3]) = PathIn(dst, q[3])
      BY <2>2, <2>3, <1>5 DEF Goal
    <3>2. p[3] = q[3]
      BY <3>1 DEF PathIn
    <3> QED
      BY <3>2, <2>2, <2>3
  <2>4. CASE ~(p \in DOMAIN sh /\ q \in DOMAIN sh)
    BY <2>1, <2>4, <1>5 DEF Goal
  <2> QED
    BY <2>3, <2>4
<1> HIDE DEF v, sh
<1>6. ASSUME Clear(files, sh, {}), NEW p \in PagesOf(files)
      PROVE  Goal(sh, p) \in DOMAIN v /\ v[Goal(sh, p)] = want[p]
  <2> DEFINE c == CHOOSE r \in DOMAIN want : to(r) = Goal(sh, p)
  <2>1. to(p) = Goal(sh, p) /\ p \in DOMAIN want
    BY <1>2, <1>4
  <2> HIDE DEF to
  <2>2. c \in DOMAIN want /\ to(c) = Goal(sh, p)
    BY <2>1
  <2>3. c = p
    <3> HIDE DEF c
    <3>1. Goal(sh, c) = Goal(sh, p) /\ c \in PagesOf(files)
      BY <2>2, <1>2, <1>4
    <3> QED
      BY <3>1, <1>5, <1>6
  <2>4. Goal(sh, p) \in DOMAIN v
    BY <2>1, <1>1
  <2> QED
    BY <2>3, <2>4, <1>1
<1>7. DOMAIN v = {Goal(sh, p) : p \in PagesOf(files)}
  BY <1>1, <1>2, <1>4
<1>8. Leads(files, v, id, sh, {})
  BY <1>6, <1>7 DEF Leads, Placed
<1> QED
  BY <1>8 DEF v, sh

\* So is it when a request to rename one begins.
LEMMA OntoLeads ==
  ASSUME FilesFit(files), Placed(files, want), NEW loc \in Locations, NEW old \in Names, NEW new \in Names,
         PathIn(loc, old) \in PagesOf(files), NEW id
  PROVE  Leads(files, Renamed(want, LAMBDA p : IF p = PathIn(loc, old) THEN PathIn(loc, new) ELSE p),
               id, Onto(loc, old, new), {})
<1> DEFINE to(p) == IF p = PathIn(loc, old) THEN PathIn(loc, new) ELSE p
           v == Renamed(want, LAMBDA p : IF p = PathIn(loc, old) THEN PathIn(loc, new) ELSE p)
           sh == Onto(loc, old, new)
<1>1. /\ DOMAIN v = {to(p) : p \in DOMAIN want}
      /\ \A q \in DOMAIN v : v[q] = want[CHOOSE p \in DOMAIN want : to(p) = q]
  BY DEF Renamed
<1>2. DOMAIN want = PagesOf(files)
  BY DEF Placed
<1>3. DOMAIN sh = {PathIn(loc, old)} /\ sh[PathIn(loc, old)] = PathIn(loc, new)
  BY DEF Onto
<1> HIDE DEF v, sh
<1>4. \A p : to(p) = Goal(sh, p)
  BY <1>3 DEF Goal
<1>5. ASSUME Clear(files, sh, {}), NEW p \in PagesOf(files), NEW q \in PagesOf(files), to(p) = to(q)
      PROVE  p = q
  <2>1. PathIn(loc, new) = PathIn(loc, old) \/ PathIn(loc, new) \notin PagesOf(files)
    BY <1>3, <1>5 DEF Clear
  <2> QED
    BY <2>1, <1>5
<1>6. ASSUME Clear(files, sh, {}), NEW p \in PagesOf(files)
      PROVE  Goal(sh, p) \in DOMAIN v /\ v[Goal(sh, p)] = want[p]
  <2> DEFINE c == CHOOSE r \in DOMAIN want : to(r) = to(p)
  <2>1. p \in DOMAIN want
    BY <1>2
  <2>3. c = p
    <3>1. c \in DOMAIN want /\ to(c) = to(p)
      <4> HIDE DEF to
      <4> QED
        BY <2>1
    <3> HIDE DEF c
    <3> QED
      BY <3>1, <1>2, <1>5, <1>6
  <2>4. to(p) \in DOMAIN v
    BY <2>1, <1>1
  <2> QED
    BY <2>3, <2>4, <1>1, <1>4
<1>7. DOMAIN v = {Goal(sh, p) : p \in PagesOf(files)}
  BY <1>1, <1>2, <1>4
<1>8. Leads(files, v, id, sh, {})
  BY <1>6, <1>7 DEF Leads, Placed
<1> QED
  BY <1>8 DEF v, sh

\* The paths of a collection that is renamed
InCol(c, new, p) == IF p[1] = c THEN <<new, p[2], p[3]>> ELSE p
NoneIn(fs, new) == DOMAIN fs \subseteq Paths /\ \A p \in DOMAIN fs : p[1] # new
Moved(fs, gs, c, new) ==
  /\ DOMAIN gs = {InCol(c, new, p) : p \in DOMAIN fs}
  /\ \A p \in DOMAIN fs : gs[InCol(c, new, p)] = fs[p]
  /\ \A p, q \in DOMAIN fs : InCol(c, new, p) = InCol(c, new, q) => p = q

\* Rebased moves each path of c to new, and no two to one.
LEMMA RebasedIs ==
  ASSUME NEW fs, NEW c, NEW new, NoneIn(fs, new)
  PROVE  Moved(fs, Rebased(fs, c, new), c, new)
<1> DEFINE to(p) == IF p[1] = c THEN <<new, p[2], p[3]>> ELSE p
           v == Rebased(fs, c, new)
<1>0. \A p : to(p) = InCol(c, new, p)
  BY DEF InCol
<1>1. /\ DOMAIN v = {to(p) : p \in DOMAIN fs}
      /\ \A q \in DOMAIN v : v[q] = fs[CHOOSE p \in DOMAIN fs : to(p) = q]
  BY DEF Rebased, Renamed
<1> HIDE DEF v
<1>2. ASSUME NEW p \in DOMAIN fs, NEW q \in DOMAIN fs, to(p) = to(q) PROVE p = q
  <2>1. p \in Paths /\ q \in Paths /\ p[1] # new /\ q[1] # new
    BY DEF NoneIn
  <2>2. p = <<p[1], p[2], p[3]>> /\ q = <<q[1], q[2], q[3]>>
    BY <2>1, Triples
  <2>3. CASE p[1] = c /\ q[1] = c
    BY <2>2, <2>3, <1>2
  <2>4. CASE p[1] = c /\ q[1] # c
    <3>1. to(p)[1] = new /\ to(q) = q
      BY <2>4
    <3> QED
      BY <3>1, <2>1, <1>2
  <2>5. CASE p[1] # c /\ q[1] = c
    <3>1. to(q)[1] = new /\ to(p) = p
      BY <2>5
    <3> QED
      BY <3>1, <2>1, <1>2
  <2>6. CASE p[1] # c /\ q[1] # c
    BY <2>6, <1>2
  <2> QED
    BY <2>3, <2>4, <2>5, <2>6
<1>3. ASSUME NEW p \in DOMAIN fs PROVE v[to(p)] = fs[p]
  <2> DEFINE d == CHOOSE r \in DOMAIN fs : to(r) = to(p)
  <2>1. d = p
    <3>1. d \in DOMAIN fs /\ to(d) = to(p)
      <4> HIDE DEF to
      <4> QED
        OBVIOUS
    <3> HIDE DEF d
    <3> QED
      BY <3>1, <1>2
  <2>2. to(p) \in DOMAIN v
    BY <1>1
  <2> QED
    BY <2>1, <2>2, <1>1
<1> HIDE DEF to
<1>4. DOMAIN v = {InCol(c, new, p) : p \in DOMAIN fs}
  BY <1>0, <1>1
<1>5. \A p \in DOMAIN fs : v[InCol(c, new, p)] = fs[p]
  BY <1>0, <1>3
<1>6. \A p, q \in DOMAIN fs : InCol(c, new, p) = InCol(c, new, q) => p = q
  BY <1>0, <1>2
<1> QED
  BY <1>4, <1>5, <1>6 DEF v, Moved

\* The path of a file in the collection's new name
LEMMA InColIs ==
  ASSUME NEW c \in Cols, NEW new \in Cols, NEW p \in Paths
  PROVE  /\ InCol(c, new, p) \in Paths /\ InCol(c, new, p)[2] = p[2] /\ InCol(c, new, p)[3] = p[3]
         /\ InCol(c, new, p)[1] = (IF p[1] = c THEN new ELSE p[1])
         /\ IsPage(InCol(c, new, p)) <=> IsPage(p)
<1>1. c # Unlinked /\ new # Unlinked
  BY CollectionsAssumption
<1>2. p = <<p[1], p[2], p[3]>> /\ p[2] \in Folders /\ p[3] \in Names \cup {Keep} /\ (p[3] = Keep => p[2] # Top)
  BY Triples
<1>3. <<new, p[2], p[3]>> \in Paths
  BY <1>1, <1>2 DEF Paths
<1> QED
  BY <1>3 DEF InCol, IsPage

\* A collection that is renamed keeps its files, each in its place,
LEMMA RebasedFits ==
  ASSUME NEW fs, FilesFit(fs), NEW c \in Cols, NEW new \in Cols, \A p \in DOMAIN fs : p[1] # new
  PROVE  /\ FilesFit(Rebased(fs, c, new))
         /\ \A w : Placed(fs, w) => Placed(Rebased(fs, c, new), Rebased(w, c, new))
<1> DEFINE gs == Rebased(fs, c, new)
<1>1. /\ DOMAIN gs = {InCol(c, new, p) : p \in DOMAIN fs}
      /\ \A p \in DOMAIN fs : gs[InCol(c, new, p)] = fs[p]
      /\ \A p, q \in DOMAIN fs : InCol(c, new, p) = InCol(c, new, q) => p = q
  <2>1. NoneIn(fs, new)
    BY DEF FilesFit, NoneIn
  <2>2. Moved(fs, Rebased(fs, c, new), c, new)
    BY <2>1, RebasedIs
  <2> QED
    BY <2>2 DEF Moved
<1> HIDE DEF gs
<1>2. \A p \in DOMAIN fs : /\ p \in Paths /\ InCol(c, new, p) \in Paths /\ InCol(c, new, p)[2] = p[2]
                           /\ IsPage(InCol(c, new, p)) <=> IsPage(p)
  <2>1. \A p \in DOMAIN fs : p \in Paths
    BY DEF FilesFit
  <2> QED
    BY <2>1, InColIs
<1>3. DOMAIN gs \subseteq Paths
  BY <1>1, <1>2
<1>4. PagesOf(gs) = {InCol(c, new, p) : p \in PagesOf(fs)}
  BY <1>1, <1>2 DEF PagesOf
<1>5. \A p \in DOMAIN gs : gs[p] \in Held /\ (gs[p].page = Keep <=> ~IsPage(p))
  BY <1>1, <1>2 DEF FilesFit
<1>6. \A p \in PagesOf(fs) : p \in DOMAIN fs
  BY DEF PagesOf
<1>7. \A p, q \in PagesOf(gs) : gs[p].page = gs[q].page => p = q
  BY <1>1, <1>4, <1>6 DEF FilesFit
<1>8. \A p \in PagesOf(gs) : gs[p].third = p[2]
  BY <1>1, <1>2, <1>4, <1>6 DEF FilesFit
<1>9. FilesFit(gs)
  BY <1>3, <1>5, <1>7, <1>8 DEF FilesFit
<1>10. ASSUME NEW w, Placed(fs, w) PROVE Placed(gs, Rebased(w, c, new))
  <2> DEFINE v == Rebased(w, c, new)
  <2>1. DOMAIN w = PagesOf(fs) /\ \A p \in PagesOf(fs) : w[p] = fs[p].page
    BY <1>10 DEF Placed
  <2>2. DOMAIN w \subseteq Paths /\ \A p \in DOMAIN w : p[1] # new
    BY <2>1, <1>2, <1>6
  <2>2a. Moved(w, Rebased(w, c, new), c, new)
    <3>1. NoneIn(w, new)
      BY <2>2 DEF NoneIn
    <3> QED
      BY <3>1, RebasedIs
  <2>3. DOMAIN v = {InCol(c, new, p) : p \in DOMAIN w}
    BY <2>2a DEF Moved
  <2>4. \A p \in DOMAIN w : v[InCol(c, new, p)] = w[p]
    BY <2>2a DEF Moved
  <2> HIDE DEF v
  <2>5. DOMAIN v = PagesOf(gs)
    BY <2>1, <2>3, <1>4
  <2>6. \A p \in PagesOf(gs) : v[p] = gs[p].page
    BY <2>1, <2>4, <1>1, <1>4, <1>6
  <2> QED
    BY <2>5, <2>6 DEF Placed, v
<1> QED
  BY <1>9, <1>10 DEF gs

\* lists under the new name what it listed under the old,
LEMMA RebasedEntries ==
  ASSUME NEW fs, FilesFit(fs), NEW c \in Cols, NEW new \in Cols, c # new, \A p \in DOMAIN fs : p[1] # new,
         NEW b \in Cols
  PROVE  Entries(Rebased(fs, c, new), b) =
           IF b = new THEN Entries(fs, c) ELSE IF b = c THEN {} ELSE Entries(fs, b)
<1> DEFINE gs == Rebased(fs, c, new)
<1>1. DOMAIN gs = {InCol(c, new, p) : p \in DOMAIN fs}
  <2>1. NoneIn(fs, new)
    BY DEF FilesFit, NoneIn
  <2>2. Moved(fs, Rebased(fs, c, new), c, new)
    BY <2>1, RebasedIs
  <2> QED
    BY <2>2 DEF Moved
<1> HIDE DEF gs
<1>2. \A p \in DOMAIN fs : /\ InCol(c, new, p)[2] = p[2] /\ InCol(c, new, p)[3] = p[3]
                           /\ InCol(c, new, p)[1] = (IF p[1] = c THEN new ELSE p[1])
  <2>1. \A p \in DOMAIN fs : p \in Paths
    BY DEF FilesFit
  <2> QED
    BY <2>1, InColIs
<1>3. Entries(gs, b) = {<<p[2], p[3]>> : p \in {q \in DOMAIN fs : InCol(c, new, q)[1] = b}}
  BY <1>1, <1>2 DEF Entries
<1>4. CASE b = new
  BY <1>2, <1>3, <1>4 DEF Entries, gs
<1>5. CASE b = c
  BY <1>2, <1>3, <1>5 DEF Entries, gs
<1>6. CASE b # new /\ b # c
  BY <1>2, <1>3, <1>6 DEF Entries, gs
<1> QED
  BY <1>4, <1>5, <1>6

\* and keeps every .keep.
LEMMA RebasedKept ==
  ASSUME NEW fs, FilesFit(fs), NEW c \in Cols, NEW new \in Cols, \A p \in DOMAIN fs : p[1] # new, Kept(fs)
  PROVE  Kept(Rebased(fs, c, new))
<1> DEFINE gs == Rebased(fs, c, new)
<1>1. DOMAIN gs = {InCol(c, new, p) : p \in DOMAIN fs}
  <2>1. NoneIn(fs, new)
    BY DEF FilesFit, NoneIn
  <2>2. Moved(fs, Rebased(fs, c, new), c, new)
    BY <2>1, RebasedIs
  <2> QED
    BY <2>2 DEF Moved
<1>2. DOMAIN gs \subseteq Paths /\ DOMAIN fs \subseteq Paths
  BY RebasedFits DEF FilesFit
<1> HIDE DEF gs
<1>3. ASSUME NEW p \in DOMAIN fs, InCol(c, new, p)[2] # Top PROVE KeepOf(InCol(c, new, p)) \in DOMAIN gs
  <2>1. p \in Paths
    BY <1>2
  <2>2. /\ InCol(c, new, p)[2] = p[2]
        /\ InCol(c, new, p)[1] = (IF p[1] = c THEN new ELSE p[1])
    BY <2>1, InColIs
  <2>3. KeepOf(p) \in DOMAIN fs
    BY <2>2, <1>2, <1>3, KeptHere
  <2>4. KeepOf(InCol(c, new, p)) = InCol(c, new, KeepOf(p))
    BY <2>2 DEF KeepOf, InCol
  <2> QED
    BY <1>1, <2>3, <2>4
<1>4. \A q \in DOMAIN gs : q[2] # Top => KeepOf(q) \in DOMAIN gs
  BY <1>1, <1>3
<1> QED
  BY <1>2, <1>4, KeptHere DEF gs

-----------------------------------------------------------------------------
(* Calls                                                                   *)

DropCall(path) == [op |-> "drop", path |-> path]
Chain ==
  {TakeCall(loc, n) : loc \in Locations, n \in Names}
  \cup {PutCall(loc, n, third) : loc \in Locations, n \in Names, third \in Folders}
  \cup {ItemCall(op, loc, n) : op \in {"addItem", "deleteItem"}, loc \in Locations, n \in Names}
  \cup {DropCall(<<c, s, Keep>>) : c \in Cols, s \in Subs}
  \cup {ListCall(c, s, t) : c \in Cols, s \in Subs, t \in Subs}

\* A chain is its first call and the rest,
LEMMA First ==
  ASSUME NEW x, NEW S, NEW r \in Seq(S)
  PROVE  <<x>> \o r # <<>> /\ Head(<<x>> \o r) = x /\ Tail(<<x>> \o r) = r
<1>1. r \in Seq(S \cup {x}) /\ <<x>> \in Seq(S \cup {x})
  OBVIOUS
<1> QED
  BY <1>1

\* and chains can be joined.
LEMMA ChainJoin ==
  /\ \A u, v \in Seq(Chain) : u \o v \in Seq(Chain)
  /\ \A u, v, w \in Seq(Chain) : (u \o v) \o w = u \o (v \o w)
  /\ \A u \in Seq(Chain) : u \o <<>> = u /\ <<>> \o u = u
  /\ \A x \in Chain : <<x>> \in Seq(Chain)
<1>1. \A u, v \in Seq(Chain) : u \o v \in Seq(Chain)
  BY ConcatProperties
<1>2. \A u, v, w \in Seq(Chain) : (u \o v) \o w = u \o (v \o w)
  BY ConcatAssociative
<1>3. \A u \in Seq(Chain) : u \o <<>> = u /\ <<>> \o u = u
  BY ConcatEmptySeq
<1>4. \A x \in Chain : <<x>> \in Seq(Chain)
  OBVIOUS
<1> QED
  BY <1>1, <1>2, <1>3, <1>4

\* What the page services call to take a page and to put one
LEMMA PageCalls ==
  ASSUME NEW loc \in Locations, NEW n \in Names
  PROVE  /\ TakeCalls(loc, n) \in Seq(Chain) /\ PutCalls(loc, n) \in Seq(Chain)
         /\ TakeCall(loc, n) \in Chain /\ ItemCall("addItem", loc, n) \in Chain
         /\ ItemCall("deleteItem", loc, n) \in Chain
         /\ \A third \in Folders : PutCall(loc, n, third) \in Chain
         /\ TakeCalls(loc, n) = IF InCollection(loc) THEN <<ItemCall("deleteItem", loc, n)>> \o <<TakeCall(loc, n)>>
                                                     ELSE <<TakeCall(loc, n)>>
         /\ PutCalls(loc, n) = IF InCollection(loc)
                               THEN <<ItemCall("addItem", loc, n)>> \o <<PutCall(loc, n, loc[2])>>
                               ELSE <<PutCall(loc, n, loc[2])>>
<1>1. TakeCall(loc, n) \in Chain
  BY DEF Chain
<1>2. ItemCall("addItem", loc, n) \in Chain /\ ItemCall("deleteItem", loc, n) \in Chain
  BY DEF Chain
<1>3. \A third \in Folders : PutCall(loc, n, third) \in Chain
  BY DEF Chain
<1>4. loc[2] \in Folders
  BY Places
<1>5. <<TakeCall(loc, n)>> \in Seq(Chain) /\ <<PutCall(loc, n, loc[2])>> \in Seq(Chain)
      /\ <<ItemCall("addItem", loc, n)>> \in Seq(Chain) /\ <<ItemCall("deleteItem", loc, n)>> \in Seq(Chain)
  BY <1>1, <1>2, <1>3, <1>4
<1>6. TakeCalls(loc, n) = IF InCollection(loc) THEN <<ItemCall("deleteItem", loc, n)>> \o <<TakeCall(loc, n)>>
                                               ELSE <<TakeCall(loc, n)>>
  <2>1. TakeCalls(loc, n) = (IF InCollection(loc) THEN <<ItemCall("deleteItem", loc, n)>> ELSE <<>>)
                            \o <<TakeCall(loc, n)>>
    BY DEF TakeCalls, TakeCall, ItemCall
  <2>2. <<>> \o <<TakeCall(loc, n)>> = <<TakeCall(loc, n)>>
    BY <1>5, ChainJoin
  <2> QED
    BY <2>1, <2>2
<1>7. PutCalls(loc, n) = IF InCollection(loc)
                         THEN <<ItemCall("addItem", loc, n)>> \o <<PutCall(loc, n, loc[2])>>
                         ELSE <<PutCall(loc, n, loc[2])>>
  <2>1. PutCalls(loc, n) = (IF InCollection(loc) THEN <<ItemCall("addItem", loc, n)>> ELSE <<>>)
                           \o <<PutCall(loc, n, loc[2])>>
    BY DEF PutCalls, PutCall, ItemCall
  <2>2. <<>> \o <<PutCall(loc, n, loc[2])>> = <<PutCall(loc, n, loc[2])>>
    BY <1>5, ChainJoin
  <2> QED
    BY <2>1, <2>2
<1>8. TakeCalls(loc, n) \in Seq(Chain) /\ PutCalls(loc, n) \in Seq(Chain)
  BY <1>5, <1>6, <1>7, ChainJoin
<1> QED
  BY <1>1, <1>2, <1>3, <1>6, <1>7, <1>8

\* A page of a list, and the others
LEMMA ListFirst ==
  ASSUME NEW N, NEW ns \in Seq(N), IsInjective(ns), ns # <<>>
  PROVE  /\ Head(ns) \in N /\ Tail(ns) \in Seq(N) /\ IsInjective(Tail(ns))
         /\ Head(ns) \notin Range(Tail(ns)) /\ Range(ns) = Range(Tail(ns)) \cup {Head(ns)}
<1> DEFINE t == Tail(ns)
           m == Len(t)
<1>1. /\ Head(ns) \in N /\ t \in Seq(N) /\ Len(ns) = m + 1 /\ m \in Nat
      /\ DOMAIN ns = 1..(m + 1) /\ DOMAIN t = 1..m /\ Head(ns) = ns[1]
      /\ \A i \in 1..m : t[i] = ns[i + 1]
  OBVIOUS
<1> HIDE DEF t, m
<1>2. \A i \in 1..m : i + 1 \in 1..(m + 1) /\ i + 1 # 1
  BY <1>1
<1>3. 1 \in 1..(m + 1) /\ \A i \in 1..(m + 1) : i # 1 => i - 1 \in 1..m /\ (i - 1) + 1 = i
  BY <1>1
<1>4. Range(t) = {t[i] : i \in 1..m} /\ Range(ns) = {ns[i] : i \in 1..(m + 1)}
  BY <1>1 DEF Range
<1>5. IsInjective(t)
  <2> SUFFICES ASSUME NEW i \in 1..m, NEW j \in 1..m, t[i] = t[j] PROVE i = j
    BY <1>1 DEF IsInjective
  <2>1. i + 1 = j + 1
    BY <1>1, <1>2 DEF IsInjective
  <2> QED
    BY <1>1, <2>1
<1>6. Head(ns) \notin Range(t)
  <2> SUFFICES ASSUME NEW i \in 1..m, t[i] = Head(ns) PROVE FALSE
    BY <1>4
  <2> QED
    BY <1>1, <1>2, <1>3 DEF IsInjective
<1>7. Range(ns) = Range(t) \cup {Head(ns)}
  <2>1. ASSUME NEW x \in Range(ns) PROVE x \in Range(t) \cup {Head(ns)}
    <3>1. PICK i \in 1..(m + 1) : x = ns[i]
      BY <1>4
    <3>2. CASE i = 1
      BY <3>1, <3>2, <1>1
    <3>3. CASE i # 1
      <4>1. i - 1 \in 1..m /\ t[i - 1] = ns[(i - 1) + 1] /\ (i - 1) + 1 = i
        BY <3>3, <1>1, <1>3
      <4> QED
        BY <3>1, <4>1, <1>4
    <3> QED
      BY <3>2, <3>3
  <2>2. ASSUME NEW x \in Range(t) \cup {Head(ns)} PROVE x \in Range(ns)
    BY <1>1, <1>2, <1>3, <1>4
  <2> QED
    BY <2>1, <2>2
<1> QED
  BY <1>1, <1>5, <1>6, <1>7 DEF t

\* A sequence of calls for each name, f[n] for n
LEMMA JoinFirst ==
  ASSUME NEW N, NEW f, \A n \in N : f[n] \in Seq(Chain), NEW ns \in Seq(N)
  PROVE  LET all(l) == FlattenSeq([i \in DOMAIN l |-> f[l[i]]]) IN
         /\ all(ns) \in Seq(Chain)
         /\ ns = <<>> => all(ns) = <<>>
         /\ ns # <<>> => all(ns) = f[Head(ns)] \o all(Tail(ns))
<1> DEFINE b(l) == [i \in DOMAIN l |-> f[l[i]]]
<1>1. ASSUME NEW l \in Seq(N) PROVE b(l) \in Seq(Seq(Chain)) /\ Len(b(l)) = Len(l)
  <2>1. Len(l) \in Nat /\ DOMAIN l = 1..Len(l) /\ \A i \in 1..Len(l) : l[i] \in N
    OBVIOUS
  <2> QED
    BY <2>1
<1>2. ns = <<>> => b(ns) = <<>>
  <2>1. ns = <<>> => Len(b(ns)) = 0
    BY <1>1
  <2> QED
    BY <1>1, <2>1
<1>3. ASSUME ns # <<>>
      PROVE b(ns) # <<>> /\ Head(b(ns)) = f[Head(ns)] /\ Tail(b(ns)) = b(Tail(ns))
  <2>1. /\ Tail(ns) \in Seq(N) /\ Len(ns) = Len(Tail(ns)) + 1 /\ Len(Tail(ns)) \in Nat /\ Head(ns) = ns[1]
        /\ \A i \in 1..Len(Tail(ns)) : Tail(ns)[i] = ns[i + 1]
        /\ DOMAIN ns = 1..Len(ns) /\ DOMAIN Tail(ns) = 1..Len(Tail(ns))
    BY <1>3
  <2>2. \A i \in 1..Len(ns) : b(ns)[i] = f[ns[i]]
    BY <2>1
  <2>3. \A i \in 1..Len(Tail(ns)) : b(Tail(ns))[i] = f[Tail(ns)[i]]
    BY <2>1
  <2>4. b(ns) \in Seq(Seq(Chain)) /\ Len(b(ns)) = Len(ns) /\ b(Tail(ns)) \in Seq(Seq(Chain))
        /\ Len(b(Tail(ns))) = Len(Tail(ns))
    BY <1>1, <2>1
  <2> DEFINE u == b(ns)
             v == b(Tail(ns))
  <2>5. u # <<>> /\ Head(u) = u[1] /\ Tail(u) \in Seq(Seq(Chain)) /\ Len(Tail(u)) = Len(Tail(ns))
        /\ \A i \in 1..Len(Tail(ns)) : Tail(u)[i] = u[i + 1]
    <3> HIDE DEF u
    <3> QED
      BY <2>1, <2>4 DEF u
  <2>6. Head(u) = f[Head(ns)]
    <3>1. 1 \in 1..Len(ns)
      BY <2>1
    <3> QED
      BY <3>1, <2>1, <2>2, <2>5
  <2>7. \A i \in 1..Len(Tail(ns)) : Tail(u)[i] = v[i]
    <3>1. \A i \in 1..Len(Tail(ns)) : i + 1 \in 1..Len(ns)
      BY <2>1
    <3> QED
      BY <3>1, <2>1, <2>2, <2>3, <2>5
  <2> HIDE DEF u, v
  <2>8. Tail(u) = v
    <3>1. v \in Seq(Seq(Chain)) /\ Len(v) = Len(Tail(ns))
      BY <2>4 DEF v
    <3> QED
      BY <3>1, <2>5, <2>7, SeqEqual
  <2> QED
    BY <2>5, <2>6, <2>8 DEF u, v
<1> HIDE DEF b
<1>4. FlattenSeq(b(ns)) \in Seq(Chain) /\ (b(ns) = <<>> => FlattenSeq(b(ns)) = <<>>)
      /\ (b(ns) # <<>> => FlattenSeq(b(ns)) = Head(b(ns)) \o FlattenSeq(Tail(b(ns))))
  BY <1>1, FlattenHead
<1>5. /\ FlattenSeq(b(ns)) \in Seq(Chain)
      /\ ns = <<>> => FlattenSeq(b(ns)) = <<>>
      /\ ns # <<>> => FlattenSeq(b(ns)) = f[Head(ns)] \o FlattenSeq(b(Tail(ns)))
  BY <1>2, <1>3, <1>4
<1> QED
  BY <1>5 DEF b

\* Moves is what it takes to move the first page, and the moves of the rest;
LEMMA MovesFirst ==
  ASSUME NEW src \in Locations, NEW dst \in Locations, NEW ns \in NameLists
  PROVE  /\ Moves(src, dst, ns) \in Seq(Chain)
         /\ ns = <<>> => Moves(src, dst, ns) = <<>>
         /\ ns # <<>> =>
              /\ Head(ns) \in Names /\ Tail(ns) \in NameLists /\ Head(ns) \notin Range(Tail(ns))
              /\ Range(ns) = Range(Tail(ns)) \cup {Head(ns)} /\ Range(Tail(ns)) \subseteq Names
              /\ Moves(src, dst, ns) =
                   (TakeCalls(src, Head(ns)) \o PutCalls(dst, Head(ns))) \o Moves(src, dst, Tail(ns))
<1> DEFINE f == [n \in Names |-> TakeCalls(src, n) \o PutCalls(dst, n)]
           all(l) == FlattenSeq([i \in DOMAIN l |-> f[l[i]]])
<1>1. \A n \in Names : f[n] \in Seq(Chain) /\ f[n] = TakeCalls(src, n) \o PutCalls(dst, n)
  BY PageCalls, ChainJoin
<1>2. ASSUME NEW l \in NameLists PROVE Moves(src, dst, l) = all(l)
  <2>1. \A i \in DOMAIN l : l[i] \in Names
    BY DEF NameLists
  <2>2. [i \in DOMAIN l |-> TakeCalls(src, l[i]) \o PutCalls(dst, l[i])] = [i \in DOMAIN l |-> f[l[i]]]
    BY <1>1, <2>1
  <2> QED
    BY <2>2 DEF Moves
<1>3. ns \in Seq(Names) /\ IsInjective(ns)
  BY DEF NameLists
<1>4. ns # <<>> => /\ Head(ns) \in Names /\ Tail(ns) \in NameLists /\ Head(ns) \notin Range(Tail(ns))
                   /\ Range(ns) = Range(Tail(ns)) \cup {Head(ns)} /\ Range(Tail(ns)) \subseteq Names
  <2>1. ns # <<>> => /\ Head(ns) \in Names /\ Tail(ns) \in Seq(Names) /\ IsInjective(Tail(ns))
                     /\ Head(ns) \notin Range(Tail(ns)) /\ Range(ns) = Range(Tail(ns)) \cup {Head(ns)}
    BY <1>3, ListFirst
  <2>2. ns # <<>> => Range(Tail(ns)) \subseteq Names
    BY <2>1 DEF Range
  <2> QED
    BY <2>1, <2>2 DEF NameLists
<1>5. /\ all(ns) \in Seq(Chain)
      /\ ns = <<>> => all(ns) = <<>>
      /\ ns # <<>> => all(ns) = f[Head(ns)] \o all(Tail(ns))
  <2> HIDE DEF f
  <2> QED
    BY <1>1, <1>3, JoinFirst
<1> HIDE DEF all, f
<1> QED
  BY <1>1, <1>2, <1>4, <1>5

\* The calls from one on
LEMMA PutsFirst ==
  ASSUME NEW dst \in Locations, NEW n \in Names, NEW r \in Seq(Chain)
  PROVE  /\ PutCalls(dst, n) \o r =
              IF InCollection(dst) THEN <<ItemCall("addItem", dst, n)>> \o (<<PutCall(dst, n, dst[2])>> \o r)
                                   ELSE <<PutCall(dst, n, dst[2])>> \o r
         /\ PutCalls(dst, n) \o r \in Seq(Chain)
<1>1. dst[2] \in Folders
  BY Places
<1>2. <<ItemCall("addItem", dst, n)>> \in Seq(Chain) /\ <<PutCall(dst, n, dst[2])>> \in Seq(Chain)
  BY <1>1, PageCalls, ChainJoin
<1>3. (<<ItemCall("addItem", dst, n)>> \o <<PutCall(dst, n, dst[2])>>) \o r
      = <<ItemCall("addItem", dst, n)>> \o (<<PutCall(dst, n, dst[2])>> \o r)
  BY <1>2, ChainJoin
<1>4. PutCalls(dst, n) \in Seq(Chain)
  BY PageCalls
<1>5. PutCalls(dst, n) \o r \in Seq(Chain)
  BY <1>4, ChainJoin
<1> QED
  BY <1>3, <1>5, PageCalls

\* its first call is that of the page's take, out of the order or from the files,
LEMMA MovesOn ==
  ASSUME NEW src \in Locations, NEW dst \in Locations, NEW ns \in NameLists, ns # <<>>
  PROVE  LET n == Head(ns)
             rest == Tail(ns)
             on == (<<TakeCall(src, n)>> \o PutCalls(dst, n)) \o Moves(src, dst, rest)
         IN  /\ Moves(src, dst, ns) =
                  IF InCollection(src) THEN <<ItemCall("deleteItem", src, n)>> \o on ELSE on
             /\ on \in Seq(Chain)
<1> DEFINE n == Head(ns)
           rest == Tail(ns)
           r == Moves(src, dst, rest)
           p == PutCalls(dst, n)
           t == <<TakeCall(src, n)>>
           d == <<ItemCall("deleteItem", src, n)>>
<1>1. n \in Names /\ rest \in NameLists /\ Moves(src, dst, ns) = (TakeCalls(src, n) \o p) \o r
  BY MovesFirst
<1>2. r \in Seq(Chain)
  BY <1>1, MovesFirst
<1>3. p \in Seq(Chain) /\ t \in Seq(Chain) /\ d \in Seq(Chain)
      /\ TakeCalls(src, n) = IF InCollection(src) THEN d \o t ELSE t
  BY <1>1, PageCalls, ChainJoin
<1> HIDE DEF p, t, d, r
<1>4. t \o p \in Seq(Chain) /\ (t \o p) \o r \in Seq(Chain)
  BY <1>2, <1>3, ChainJoin
<1>5. ((d \o t) \o p) \o r = d \o ((t \o p) \o r)
  <2>1. (d \o t) \o p = d \o (t \o p)
    BY <1>3, ChainJoin
  <2>2. (d \o (t \o p)) \o r = d \o ((t \o p) \o r)
    BY <1>2, <1>3, <1>4, ChainJoin
  <2> QED
    BY <2>1, <2>2
<1>6. Moves(src, dst, ns) = IF InCollection(src) THEN d \o ((t \o p) \o r) ELSE (t \o p) \o r
  BY <1>1, <1>3, <1>5
<1> QED
  BY <1>4, <1>6 DEF p, t, d, r

\* its next the take.
LEMMA TakeFirst ==
  ASSUME NEW src \in Locations, NEW dst \in Locations, NEW n \in Names, NEW rest \in NameLists
  PROVE  LET on == (<<TakeCall(src, n)>> \o PutCalls(dst, n)) \o Moves(src, dst, rest)
             then == PutCalls(dst, n) \o Moves(src, dst, rest)
         IN  on = <<TakeCall(src, n)>> \o then /\ then \in Seq(Chain) /\ then # <<>>
<1>1. Moves(src, dst, rest) \in Seq(Chain)
  BY MovesFirst
<1>2. PutCalls(dst, n) \in Seq(Chain) /\ <<TakeCall(src, n)>> \in Seq(Chain)
  BY PageCalls, ChainJoin
<1>3. PutCalls(dst, n) \o Moves(src, dst, rest) \in Seq(Chain)
  BY <1>1, <1>2, ChainJoin
<1>4. PutCalls(dst, n) \o Moves(src, dst, rest) # <<>>
  <2> DEFINE r == <<PutCall(dst, n, dst[2])>> \o Moves(src, dst, rest)
  <2>1. r # <<>> /\ r \in Seq(Chain)
    <3>1. <<PutCall(dst, n, dst[2])>> \in Seq(Chain)
      BY PageCalls, Places, ChainJoin
    <3> QED
      BY <1>1, <3>1, First, ChainJoin
  <2> HIDE DEF r
  <2>2. <<ItemCall("addItem", dst, n)>> \o r # <<>>
    BY <2>1, First
  <2> QED
    BY <2>1, <2>2, <1>1, PutsFirst DEF r
<1> QED
  BY <1>1, <1>2, <1>3, <1>4, ChainJoin

\* The same for the pages of a subfolder that is renamed
LEMMA RefilesFirst ==
  ASSUME NEW c \in Cols, NEW s \in Subs, NEW new \in Subs, NEW ns \in FileLists
  PROVE  /\ Refiles(c, s, new, ns) \in Seq(Chain)
         /\ ns = <<>> => Refiles(c, s, new, ns) = <<>>
         /\ ns # <<>> =>
              /\ Head(ns) \in Names \cup {Keep} /\ Tail(ns) \in FileLists /\ Head(ns) \notin Range(Tail(ns))
              /\ Range(ns) = Range(Tail(ns)) \cup {Head(ns)} /\ Range(Tail(ns)) \subseteq Names \cup {Keep}
              /\ Refiles(c, s, new, ns) = Refile(c, s, new, Head(ns)) \o Refiles(c, s, new, Tail(ns))
<1> DEFINE N == Names \cup {Keep}
           f == [n \in N |-> Refile(c, s, new, n)]
           all(l) == FlattenSeq([i \in DOMAIN l |-> f[l[i]]])
<1>0. ASSUME NEW n \in N PROVE Refile(c, s, new, n) \in Seq(Chain)
  <2>1. CASE n = Keep
    <3>1. Refile(c, s, new, n) = <<DropCall(<<c, s, Keep>>)>>
      BY <2>1 DEF Refile, DropCall
    <3>2. DropCall(<<c, s, Keep>>) \in Chain
      BY DEF Chain
    <3> QED
      BY <3>1, <3>2
  <2>2. CASE n # Keep
    <3>1. Refile(c, s, new, n) = <<TakeCall(<<c, s>>, n), PutCall(<<c, new>>, n, new)>>
      BY <2>2 DEF Refile, TakeCall, PutCall, PathIn
    <3>2. <<c, s>> \in Locations /\ <<c, new>> \in Locations /\ n \in Names /\ new \in Folders
      BY <2>2, Places DEF Folders
    <3>3. TakeCall(<<c, s>>, n) \in Chain /\ PutCall(<<c, new>>, n, new) \in Chain
      BY <3>2, PageCalls
    <3> QED
      BY <3>1, <3>3
  <2> QED
    BY <2>1, <2>2
<1>1. \A n \in N : f[n] \in Seq(Chain) /\ f[n] = Refile(c, s, new, n)
  BY <1>0
<1>2. ASSUME NEW l \in FileLists PROVE Refiles(c, s, new, l) = all(l)
  <2>1. \A i \in DOMAIN l : l[i] \in N
    BY DEF FileLists
  <2>2. [i \in DOMAIN l |-> Refile(c, s, new, l[i])] = [i \in DOMAIN l |-> f[l[i]]]
    BY <1>1, <2>1
  <2> QED
    BY <2>2 DEF Refiles
<1>3. ns \in Seq(N) /\ IsInjective(ns)
  BY DEF FileLists
<1>4. ns # <<>> => /\ Head(ns) \in N /\ Tail(ns) \in FileLists /\ Head(ns) \notin Range(Tail(ns))
                   /\ Range(ns) = Range(Tail(ns)) \cup {Head(ns)} /\ Range(Tail(ns)) \subseteq N
  <2> HIDE DEF N
  <2>1. ns # <<>> => /\ Head(ns) \in N /\ Tail(ns) \in Seq(N) /\ IsInjective(Tail(ns))
                     /\ Head(ns) \notin Range(Tail(ns)) /\ Range(ns) = Range(Tail(ns)) \cup {Head(ns)}
    BY <1>3, ListFirst
  <2>2. ns # <<>> => Range(Tail(ns)) \subseteq N
    BY <2>1 DEF Range
  <2> QED
    BY <2>1, <2>2 DEF FileLists, N
<1>5. /\ all(ns) \in Seq(Chain)
      /\ ns = <<>> => all(ns) = <<>>
      /\ ns # <<>> => all(ns) = f[Head(ns)] \o all(Tail(ns))
  <2> HIDE DEF f, N
  <2> QED
    BY <1>1, <1>3, JoinFirst
<1> HIDE DEF all, f
<1> QED
  BY <1>1, <1>2, <1>4, <1>5

-----------------------------------------------------------------------------
(* An order and the files, when one of them changes                        *)

\* A page that an order no longer lists is taken: the orders list what there is.
LEMMA ExactTake ==
  ASSUME NEW fs, NEW ys, FilesFit(fs), NEW path \in Paths, IsPage(path),
         OrdersBut(fs, ys, path[1], Entries(fs, path[1]) \ {<<path[2], path[3]>>}), Kept(fs)
  PROVE  Ordered(Less(fs, {path}), ys) /\ Kept(Less(fs, {path}))
<1> DEFINE gs == Less(fs, {path})
           c == path[1]
<1>1. \A b : Entries(gs, b) = IF b = c THEN Entries(fs, b) \ {<<path[2], path[3]>>} ELSE Entries(fs, b)
  BY EntriesLess
<1>2. Kept(gs)
  BY KeptLess DEF Kept
<1> HIDE DEF gs, c
<1>3. OrdersBut(fs, ys, c, Entries(gs, c))
  BY <1>1 DEF c
<1>4. OrdersBut(gs, ys, c, Entries(gs, c))
  BY <1>1, <1>3, OrdersFiles
<1>5. Ordered(gs, ys)
  BY <1>4, OrdersOf
<1> QED
  BY <1>2, <1>5 DEF gs

\* A page that an order lists already is put: the orders list what there is.
LEMMA ExactPut ==
  ASSUME NEW fs, NEW ys, FilesFit(fs), NEW path \in Paths, NEW f,
         path[2] = Top \/ KeepOf(path) \in DOMAIN fs \/ ~IsPage(path),
         OrdersBut(fs, ys, path[1], Entries(fs, path[1]) \cup {<<path[2], path[3]>>}), Kept(fs)
  PROVE  Ordered(With(fs, path, f), ys) /\ Kept(With(fs, path, f))
<1> DEFINE gs == With(fs, path, f)
           c == path[1]
<1>1. \A b : Entries(gs, b) = IF b = c THEN Entries(fs, b) \cup {<<path[2], path[3]>>} ELSE Entries(fs, b)
  BY EntriesWith
<1>2. Kept(gs)
  BY KeptWith DEF Kept
<1> HIDE DEF gs, c
<1>3. OrdersBut(fs, ys, c, Entries(gs, c))
  BY <1>1 DEF c
<1>4. OrdersBut(gs, ys, c, Entries(gs, c))
  BY <1>1, <1>3, OrdersFiles
<1>5. Ordered(gs, ys)
  BY <1>4, OrdersOf
<1> QED
  BY <1>2, <1>5 DEF gs

\* Orderly, in terms of Tidy
LEMMA OrderlyIs ==
  \A o, L : Orderly(o, L) <=> Tidy(o) /\ Range(o) = L
BY DEF Orderly, Tidy

\* The order of c in ys, of which L is what it lists
Lists1(fs, ys, c, L) == ys \in Ymls /\ c \in Cols /\ ys[c] # Nothing /\ OrdersBut(fs, ys, c, L)

\* The order of a collection that has one
LEMMA OrderIs ==
  ASSUME NEW ys \in Ymls, NEW c \in Cols, ys[c] # Nothing
  PROVE  /\ ys[c].order \in Orders
         /\ \A fs, L : OrdersBut(fs, ys, c, L) => Tidy(ys[c].order) /\ Range(ys[c].order) = L
<1>1. ys[c] \in [key : Cols \cup {Nothing}, order : Orders]
  BY DEF Ymls, Yml
<1>2. ys[c].order \in Orders
  BY <1>1
<1>3. ASSUME NEW fs, NEW L, OrdersBut(fs, ys, c, L) PROVE Tidy(ys[c].order) /\ Range(ys[c].order) = L
  <2>1. Orderly(ys[c].order, L)
    BY <1>3 DEF OrdersBut
  <2> QED
    BY <2>1, OrderlyIs
<1> QED
  BY <1>2, <1>3

\* What an order lists once an item is in,
LEMMA ExactInsert ==
  ASSUME NEW fs, NEW ys, NEW c, NEW L, Lists1(fs, ys, c, L), NEW x \in Items, x \notin L
  PROVE  OrdersBut(fs, Reordered(ys, c, Inserted(ys[c].order, x)), c, L \cup {x})
<1> DEFINE o == ys[c].order
           n == Inserted(o, x)
<1>1. ys \in Ymls /\ c \in Cols /\ ys[c] # Nothing /\ OrdersBut(fs, ys, c, L)
  BY DEF Lists1
<1>2. o \in Orders /\ Tidy(o) /\ Range(o) = L
  BY <1>1, OrderIs
<1> HIDE DEF o
<1>3. n \in Orders /\ Tidy(n) /\ Range(n) = L \cup {x}
  BY <1>2, InsertedFits
<1> HIDE DEF n
<1>4. Orderly(n, L \cup {x})
  BY <1>3, OrderlyIs
<1> QED
  BY <1>1, <1>3, <1>4, OrdersOne DEF n, o

\* is out,
LEMMA ExactDelete ==
  ASSUME NEW fs, NEW ys, NEW c, NEW L, Lists1(fs, ys, c, L), NEW x
  PROVE  OrdersBut(fs, Reordered(ys, c, Deleted(ys[c].order, x)), c, L \ {x})
<1> DEFINE o == ys[c].order
           n == Deleted(o, x)
<1>1. ys \in Ymls /\ c \in Cols /\ ys[c] # Nothing /\ OrdersBut(fs, ys, c, L)
  BY DEF Lists1
<1>2. o \in Orders /\ Tidy(o) /\ Range(o) = L
  BY <1>1, OrderIs
<1> HIDE DEF o
<1>3. n \in Orders /\ Tidy(n) /\ Range(n) = L \ {x}
  BY <1>2, DeletedFits
<1> HIDE DEF n
<1>4. Orderly(n, L \ {x})
  BY <1>3, OrderlyIs
<1> QED
  BY <1>1, <1>3, <1>4, OrdersOne DEF n, o

\* or has another name,
LEMMA ExactUpdate ==
  ASSUME NEW fs, NEW ys, NEW c, NEW L, Lists1(fs, ys, c, L), NEW x \in Items, NEW y \in Items,
         x \in L, y[1] = x[1], y = x \/ y \notin L
  PROVE  OrdersBut(fs, Reordered(ys, c, Updated(ys[c].order, x, y)), c, (L \ {x}) \cup {y})
<1> DEFINE o == ys[c].order
           n == Updated(o, x, y)
<1>1. ys \in Ymls /\ c \in Cols /\ ys[c] # Nothing /\ OrdersBut(fs, ys, c, L)
  BY DEF Lists1
<1>2. o \in Orders /\ Tidy(o) /\ Range(o) = L
  BY <1>1, OrderIs
<1> HIDE DEF o
<1>3. n \in Orders /\ Tidy(n) /\ Range(n) = (L \ {x}) \cup {y}
  BY <1>2, UpdatedFits
<1> HIDE DEF n
<1>4. Orderly(n, (L \ {x}) \cup {y})
  BY <1>3, OrderlyIs
<1> QED
  BY <1>1, <1>3, <1>4, OrdersOne DEF n, o

\* once a folder is out,
LEMMA ExactOut ==
  ASSUME NEW fs, NEW ys, NEW c, NEW L, Lists1(fs, ys, c, L), NEW s \in Subs, Tails = {}
  PROVE  OrdersBut(fs, Reordered(ys, c, WithoutFolder(ys[c].order, s)), c, {x \in L : x[1] # s})
<1> DEFINE o == ys[c].order
           n == WithoutFolder(o, s)
           M == {x \in L : x[1] # s}
<1>1. ys \in Ymls /\ c \in Cols /\ ys[c] # Nothing /\ OrdersBut(fs, ys, c, L)
  BY DEF Lists1
<1>2. o \in Orders /\ Tidy(o) /\ Range(o) = L
  BY <1>1, OrderIs
<1> HIDE DEF o
<1>3. n \in Orders /\ Tidy(n) /\ Range(n) = M
  <2>1. n = OutOf({s}, o)
    BY OnlyItself
  <2>2. OutOf({s}, o) \in Orders /\ Tidy(OutOf({s}, o))
        /\ Range(OutOf({s}, o)) = {x \in Range(o) : x[1] \notin {s}}
    BY <1>2, OutOfFits
  <2> QED
    BY <1>2, <2>1, <2>2
<1> HIDE DEF n, M
<1>4. Orderly(n, M)
  BY <1>3, OrderlyIs
<1> QED
  BY <1>1, <1>3, <1>4, OrdersOne DEF n, o, M

\* or has another name.
LEMMA ExactRename ==
  ASSUME NEW fs, NEW ys, NEW c, NEW L, Lists1(fs, ys, c, L), NEW s \in Subs, NEW new \in Subs, Tails = {},
         \A x \in L : x[1] # new, NEW M, \A y : y \in M <=> \E x \in L : y = InNew(s, new, x)
  PROVE  OrdersBut(fs, Reordered(ys, c, FolderRenamed(ys[c].order, s, new)), c, M)
<1> DEFINE o == ys[c].order
           n == FolderRenamed(o, s, new)
<1>1. ys \in Ymls /\ c \in Cols /\ ys[c] # Nothing /\ OrdersBut(fs, ys, c, L)
  BY DEF Lists1
<1>2. o \in Orders /\ Tidy(o) /\ Range(o) = L
  BY <1>1, OrderIs
<1> HIDE DEF o
<1>3. n \in Orders /\ Tidy(n) /\ Range(n) = M
  <2>1. n \in Orders /\ Range(n) = {InNew(s, new, x) : x \in Range(o)} /\ Tidy(n)
    BY <1>2, FolderRenamedFits
  <2>2. M = {InNew(s, new, x) : x \in L}
    OBVIOUS
  <2> QED
    BY <1>2, <2>1, <2>2
<1> HIDE DEF n
<1>4. Orderly(n, M)
  BY <1>3, OrderlyIs
<1> QED
  BY <1>1, <1>3, <1>4, OrdersOne DEF n, o

\* A file that goes, or comes to a collection that has its collection.yml, leaves every
\* collection with one.
LEMMA CoveredFits ==
  /\ \A fs, ys, gone : Covered(fs, ys) => Covered(Less(fs, gone), ys)
  /\ \A fs, ys, path, f : Covered(fs, ys) /\ (path[1] # Unlinked => ys[path[1]] # Nothing) =>
                            Covered(With(fs, path, f), ys)
BY DEF Covered, Less, With

-----------------------------------------------------------------------------
(* One call                                                                *)

\* A call is done; r are the others.
Goes(r) == /\ todo' = r /\ before' = IF r = <<>> THEN Nothing ELSE before
           /\ want' = want /\ stale' = stale
Still == yml' = yml /\ nav' = nav

\* Every call leaves the rest of the chain.
LEMMA AnyCall ==
  ASSUME Calls
  PROVE  todo # <<>> /\ Goes(Tail(todo))
<1>1. todo # <<>> /\ Advance
  BY DEF Calls, CreateYml, AddItemToOrder, DeleteItemFromOrder, UpdateItemInOrder,
         DeleteSubfolderFromOrder, RenameSubfolderInOrder, UpdateOrder, RenameCollectionInOrder,
         WriteNav, SetNav, TakePage, DropFile, PutPage, CreateKeep, DeleteDir, RenameDir, Doing
<1> QED
  BY <1>1 DEF Advance, Goes

\* The call made is the one that the chain names first.
LEMMA WhichCall ==
  ASSUME Calls
  PROVE  LET op == Head(todo).op IN
         /\ op = "createYml"    => CreateYml
         /\ op = "addItem"      => AddItemToOrder
         /\ op = "deleteItem"   => DeleteItemFromOrder
         /\ op = "updateItem"   => UpdateItemInOrder
         /\ op = "deleteFolder" => DeleteSubfolderFromOrder
         /\ op = "renameFolder" => RenameSubfolderInOrder
         /\ op = "setOrder"     => UpdateOrder
         /\ op = "renameKey"    => RenameCollectionInOrder
         /\ op = "nav"          => WriteNav
         /\ op = "setNav"       => SetNav
         /\ op = "take"         => TakePage
         /\ op = "drop"         => DropFile
         /\ op = "put"          => PutPage
         /\ op = "keep"         => CreateKeep
         /\ op = "deleteDir"    => DeleteDir
         /\ op = "renameDir"    => RenameDir
<1> DEFINE op == Head(todo).op
<1>1. /\ CreateYml => op = "createYml"
      /\ AddItemToOrder => op = "addItem"
      /\ DeleteItemFromOrder => op = "deleteItem"
      /\ UpdateItemInOrder => op = "updateItem"
      /\ DeleteSubfolderFromOrder => op = "deleteFolder"
      /\ RenameSubfolderInOrder => op = "renameFolder"
      /\ UpdateOrder => op = "setOrder"
      /\ RenameCollectionInOrder => op = "renameKey"
      /\ WriteNav => op = "nav"
      /\ SetNav => op = "setNav"
      /\ TakePage => op = "take"
      /\ DropFile => op = "drop"
      /\ PutPage => op = "put"
      /\ CreateKeep => op = "keep"
      /\ DeleteDir => op = "deleteDir"
      /\ RenameDir => op = "renameDir"
  BY DEF CreateYml, AddItemToOrder, DeleteItemFromOrder, UpdateItemInOrder,
         DeleteSubfolderFromOrder, RenameSubfolderInOrder, UpdateOrder, RenameCollectionInOrder,
         WriteNav, SetNav, TakePage, DropFile, PutPage, CreateKeep, DeleteDir, RenameDir, Doing
<1> HIDE DEF op
<1> QED
  BY <1>1, SMT DEF Calls, op

\* The page at path is taken.
LEMMA TakeStep ==
  ASSUME Calls, NEW path, NEW x, x = [op |-> "take", path |-> path], Head(todo) = x
  PROVE  /\ path \in DOMAIN files /\ hand' = files[path] /\ files' = Less(files, {path})
         /\ Still
<1>1. TakePage /\ Head(todo).path = path
  BY WhichCall
<1> QED
  BY <1>1 DEF TakePage, Less, Still

\* What each call changes, when it is the first of the chain
LEMMA DropStep ==
  ASSUME Calls, NEW path, NEW x, x = [op |-> "drop", path |-> path], Head(todo) = x
  PROVE  path \in DOMAIN files /\ hand' = hand /\ files' = Less(files, {path}) /\ Still
<1>1. DropFile /\ Head(todo).path = path
  BY WhichCall
<1> QED
  BY <1>1 DEF DropFile, Less, Still

\* The page in hand, with the title of the call
LEMMA PutStep ==
  ASSUME Calls, NEW path, NEW third, NEW x, x = [op |-> "put", path |-> path, third |-> third],
         Head(todo) = x, hand \in [page : Pages \cup {Nothing}, third : Folders]
  PROVE  /\ path \notin DOMAIN files /\ hand' = NoPage /\ Still
         /\ files' = With(files, path, [page  |-> hand.page,
                                        third |-> IF third = Nothing THEN hand.third ELSE third])
<1>1. PutPage /\ Head(todo).path = path /\ Head(todo).third = third
  BY WhichCall
<1>2. \A t : [hand EXCEPT !.third = t] = [page |-> hand.page, third |-> t]
  OBVIOUS
<1> QED
  BY <1>1, <1>2 DEF PutPage, Still

\* A new .keep
LEMMA KeepStep ==
  ASSUME Calls, NEW path, NEW x, x = [op |-> "keep", path |-> path], Head(todo) = x
  PROVE  path \notin DOMAIN files /\ hand' = hand /\ files' = With(files, path, KeepFile) /\ Still
<1>1. CreateKeep /\ Head(todo).path = path
  BY WhichCall
<1> QED
  BY <1>1 DEF CreateKeep, KeepFile, Still

\* The calls that change only the order of a collection
Orders1(c, o) == Loads(c) /\ yml' = Reordered(yml, c, o) /\ UNCHANGED <<files, nav, hand>>

\* An item comes into the order,
LEMMA AddStep ==
  ASSUME Calls, NEW c, NEW item, Head(todo) = [op |-> "addItem", col |-> c, item |-> item]
  PROVE  Orders1(c, Inserted(yml[c].order, item))
<1>1. AddItemToOrder /\ Head(todo).col = c /\ Head(todo).item = item
  BY WhichCall
<1> QED
  BY <1>1 DEF AddItemToOrder, ChangeOrder, Orders1, Reordered

\* goes,
LEMMA DeleteStep ==
  ASSUME Calls, NEW c, NEW item, Head(todo) = [op |-> "deleteItem", col |-> c, item |-> item]
  PROVE  Orders1(c, Deleted(yml[c].order, item))
<1>1. DeleteItemFromOrder /\ Head(todo).col = c /\ Head(todo).item = item
  BY WhichCall
<1> QED
  BY <1>1 DEF DeleteItemFromOrder, ChangeOrder, Orders1, Reordered

\* or has another name;
LEMMA UpdateStep ==
  ASSUME Calls, NEW c, NEW item, NEW new,
         Head(todo) = [op |-> "updateItem", col |-> c, item |-> item, new |-> new]
  PROVE  Orders1(c, Updated(yml[c].order, item, new))
<1>1. UpdateItemInOrder /\ Head(todo).col = c /\ Head(todo).item = item /\ Head(todo).new = new
  BY WhichCall
<1> QED
  BY <1>1 DEF UpdateItemInOrder, ChangeOrder, Orders1, Reordered

\* a folder goes,
LEMMA UnlistStep ==
  ASSUME Calls, NEW c, NEW s, Head(todo) = [op |-> "deleteFolder", col |-> c, sub |-> s]
  PROVE  Orders1(c, WithoutFolder(yml[c].order, s))
<1>1. DeleteSubfolderFromOrder /\ Head(todo).col = c /\ Head(todo).sub = s
  BY WhichCall
<1> QED
  BY <1>1 DEF DeleteSubfolderFromOrder, ChangeOrder, Orders1, Reordered

\* or has another name.
LEMMA RelistStep ==
  ASSUME Calls, NEW c, NEW s, NEW new,
         Head(todo) = [op |-> "renameFolder", col |-> c, sub |-> s, new |-> new]
  PROVE  Orders1(c, FolderRenamed(yml[c].order, s, new))
<1>1. RenameSubfolderInOrder /\ Head(todo).col = c /\ Head(todo).sub = s /\ Head(todo).new = new
  BY WhichCall
<1> QED
  BY <1>1 DEF RenameSubfolderInOrder, ChangeOrder, Orders1, Reordered

-----------------------------------------------------------------------------
(* One step of the invariant                                               *)

\* How the invariant is shown of a call: what is so at any time, and either the form of what is
\* left of the chain or a sound site
LEMMA Onward ==
  ASSUME IInv, Calls, Steady',
         todo' # <<>> => Underway' /\ Unlost(files', hand'.page, want', before.want),
         todo' = <<>> => Sound(files', yml', nav', want', stale') /\ hand' = NoPage
  PROVE  IInv'
<1>1. todo # <<>> /\ Goes(Tail(todo))
  BY AnyCall
<1>2. InMid
  BY <1>1 DEF IInv, Idle
<1>3. todo' # <<>> => before' = before
  BY <1>1 DEF Goes
<1>4. todo' # <<>> => InMid'
  BY <1>2, <1>3 DEF InMid
<1> QED
  BY <1>4 DEF IInv, Idle

\* A page has one of the identities, and so the one in hand is no page's when none is.
LEMMA PagesHave ==
  ASSUME NEW fs, FilesFit(fs)
  PROVE  /\ \A p \in PagesOf(fs) : fs[p].page \in Pages /\ fs[p].page # Nothing /\ fs[p] \in Held
                                   /\ p \in DOMAIN fs /\ p \in Paths /\ IsPage(p)
         /\ PagesOf(fs) = {p \in DOMAIN fs : IsPage(p)}
<1>1. \A p \in PagesOf(fs) : fs[p] \in Held /\ fs[p].page # Keep /\ p \in DOMAIN fs /\ p \in Paths /\ IsPage(p)
  BY DEF FilesFit, PagesOf
<1>2. Nothing \notin Pages
  BY CollectionsAssumption
<1> QED
  BY <1>1, <1>2 DEF Held, PagesOf

\* With nothing in hand no page is in two places.
LEMMA SteadyEmpty ==
  ASSUME FilesFit(files'), yml' \in Ymls, nav' \subseteq Cols, stale' \in 0..MaxStale, hand' = NoPage
  PROVE  Steady'
<1>1. hand' \in [page : Pages \cup {Nothing}, third : Folders] /\ hand'.page = Nothing
  BY DEF NoPage, Folders
<1>2. \A p \in PagesOf(files') : files'[p].page # Nothing
  BY PagesHave
<1> QED
  BY <1>1, <1>2 DEF Steady, PagePaths, PagesOf

\* No page is lost on the way.
LEMMA NothingLost ==
  ASSUME IInv, ~Idle
  PROVE  Nothing \notin Range(before.want) /\ Unlost(files, hand.page, want, before.want)
<1>1. Placed(before.files, before.want) /\ FilesFit(before.files)
  BY DEF IInv, InMid, Sound
<1>2. \A p \in DOMAIN before.want : before.want[p] # Nothing
  BY <1>1, PagesHave DEF Placed
<1> QED
  BY <1>2 DEF Range, IInv, InMid

\* A page that is taken is in hand,
LEMMA UnlostTake ==
  ASSUME NEW fs, NEW w, NEW was, Nothing \notin Range(was), Unlost(fs, Nothing, w, was),
         NEW path \in PagesOf(fs), NEW id, id = fs[path].page
  PROVE  Unlost(Less(fs, {path}), id, w, was)
<1> DEFINE gs == Less(fs, {path})
<1>1. \A p \in PagesOf(fs) : p = path \/ (p \in PagesOf(gs) /\ gs[p] = fs[p])
  BY DEF Less, PagesOf
<1> HIDE DEF gs
<1>2. {fs[p].page : p \in PagesOf(fs)} \subseteq {gs[p].page : p \in PagesOf(gs)} \cup {id}
  BY <1>1
<1> QED
  BY <1>2 DEF Unlost, gs

\* and one that is put in its place;
LEMMA UnlostPut ==
  ASSUME NEW fs, NEW w, NEW was, NEW id, Unlost(fs, id, w, was),
         NEW path, IsPage(path), path \notin DOMAIN fs, NEW f, f.page = id, NEW none
  PROVE  Unlost(With(fs, path, f), none, w, was)
<1> DEFINE gs == With(fs, path, f)
<1>1. /\ \A p \in PagesOf(fs) : p \in PagesOf(gs) /\ gs[p] = fs[p]
      /\ path \in PagesOf(gs) /\ gs[path] = f
  BY DEF With, PagesOf
<1> HIDE DEF gs
<1>2. {fs[p].page : p \in PagesOf(fs)} \cup {id} \subseteq {gs[p].page : p \in PagesOf(gs)}
  BY <1>1
<1> QED
  BY <1>2 DEF Unlost, gs

\* the other calls move none,
LEMMA UnlostSame ==
  ASSUME NEW fs, NEW gs, NEW w, NEW was, NEW id, Unlost(fs, id, w, was),
         PagesOf(gs) = PagesOf(fs), \A p \in PagesOf(fs) : gs[p] = fs[p]
  PROVE  Unlost(gs, id, w, was)
BY DEF Unlost

\* and when all are placed none is lost.
LEMMA UnlostPlaced ==
  ASSUME NEW fs, NEW w, NEW was, NEW id, Placed(fs, w)
  PROVE  Unlost(fs, id, w, was)
<1>1. Range(w) \subseteq {fs[p].page : p \in PagesOf(fs)}
  BY DEF Placed, Range
<1> QED
  BY <1>1 DEF Unlost

\* A call that changes the order of c to o
LEMMA OrderCall ==
  ASSUME IInv, Calls, Tended(files, yml, nav), NEW c \in Cols, NEW o, Orders1(c, o),
         yml[c] # Nothing => o \in Orders
  PROVE  /\ Steady' /\ Tended(files', yml', nav')
         /\ files' = files /\ nav' = nav /\ hand' = hand /\ stale' = stale
         /\ yml' = Reordered(yml, c, o) /\ yml[c] # Nothing /\ yml'[c] # Nothing
         /\ Unlost(files', hand'.page, want', before.want)
<1>1. yml' = Reordered(yml, c, o) /\ yml[c] # Nothing /\ files' = files /\ nav' = nav /\ hand' = hand
  BY DEF Orders1, Loads
<1>2. Goes(Tail(todo)) /\ todo # <<>>
  BY AnyCall
<1>3. yml \in Ymls /\ DOMAIN files \subseteq Paths /\ nav \subseteq Cols
  BY DEF IInv, Steady, FilesFit
<1>4. o \in Orders
  BY <1>1
<1>5. yml' \in Ymls
  BY <1>1, <1>3, <1>4, ReorderedIs
<1>6. Tended(files, yml', nav)
  BY <1>1, <1>3, <1>4, ReorderedFrame
<1>7. yml'[c] # Nothing
  BY <1>1, <1>3, <1>4, ReorderedFrame
<1>8. Steady'
  BY <1>1, <1>2, <1>5 DEF IInv, Steady, Goes, PagePaths
<1>9. Unlost(files', hand'.page, want', before.want)
  BY <1>1, <1>2, NothingLost DEF Idle, Goes
<1> QED
  BY <1>1, <1>2, <1>6, <1>7, <1>8, <1>9 DEF Goes

\* The order of a collection is an order.
LEMMA OrderIn ==
  ASSUME IInv, NEW c \in Cols, yml[c] # Nothing
  PROVE  yml[c].order \in Orders
BY OrderIs DEF IInv, Steady

-----------------------------------------------------------------------------
(* The moves of pages                                                      *)

\* A move of some page has some call.
LEMMA MovesNone ==
  ASSUME NEW src \in Locations, NEW dst \in Locations, NEW ns \in NameLists, ns # <<>>
  PROVE  Moves(src, dst, ns) # <<>>
<1> DEFINE n == Head(ns)
           on == (<<TakeCall(src, n)>> \o PutCalls(dst, n)) \o Moves(src, dst, Tail(ns))
           then == PutCalls(dst, n) \o Moves(src, dst, Tail(ns))
<1>1. /\ Moves(src, dst, ns) = IF InCollection(src) THEN <<ItemCall("deleteItem", src, n)>> \o on ELSE on
      /\ on \in Seq(Chain)
  BY MovesOn
<1>2. n \in Names /\ Tail(ns) \in NameLists
  BY MovesFirst
<1>3. on = <<TakeCall(src, n)>> \o then /\ then \in Seq(Chain)
  BY <1>2, TakeFirst
<1> HIDE DEF on, then
<1>4. on # <<>>
  BY <1>3, First
<1>5. <<ItemCall("deleteItem", src, n)>> \o on # <<>>
  BY <1>1, First
<1> QED
  BY <1>1, <1>4, <1>5

\* The forms of a move
LEMMA InMovesUnderway ==
  /\ \A src, dst \in Locations, ns \in NameLists : Moving(src, dst, ns)' => Underway'
  /\ \A src, dst \in Locations, n \in Names, rest \in NameLists :
       /\ Taking(src, dst, n, rest)' => Underway'
       /\ Entering(src, dst, n, rest)' => Underway'
       /\ \A third \in Folders \cup {Nothing} : Putting(src, dst, n, third, rest)' => Underway'
<1>1. \A src, dst \in Locations, ns \in NameLists : Moving(src, dst, ns)' => Underway'
  BY DEF Underway
<1>2. \A src, dst \in Locations, n \in Names, rest \in NameLists :
        Taking(src, dst, n, rest)' \/ Entering(src, dst, n, rest)' => Underway'
  BY DEF Underway
<1>3. \A src, dst \in Locations, n \in Names, rest \in NameLists :
        \A third \in Folders \cup {Nothing} : Putting(src, dst, n, third, rest)' => Underway'
  BY DEF Underway
<1> QED
  BY <1>1, <1>2, <1>3

\* After the last page the site is sound.
LEMMA MovingOn ==
  ASSUME IInv, Calls, Steady', NEW src \in Locations, NEW dst \in Locations, NEW ns \in NameLists,
         Moving(src, dst, ns)', Unlost(files', hand'.page, want', before.want)
  PROVE  IInv'
<1>1. todo # <<>> /\ Goes(Tail(todo))
  BY AnyCall
<1>2. want' = want
  BY <1>1 DEF Goes
<1>3. Underway'
  BY InMovesUnderway
<1>4. ASSUME todo' = <<>> PROVE Sound(files', yml', nav', want', stale') /\ hand' = NoPage
  <2>1. ns = <<>>
    BY <1>4, MovesNone DEF Moving
  <2>2. DOMAIN Shift(src, dst, Range(ns)) = {}
    BY <2>1 DEF Shift, Range
  <2>3. Leads(files', want', hand'.page, Shift(src, dst, Range(ns)), {})
    BY DEF Moving, Heading
  <2>4. Placed(files', want')
    BY <2>2, <2>3, LeadsNowhere
  <2>5. hand' = NoPage /\ SoundNow'
    BY DEF Moving
  <2> QED
    BY <2>4, <2>5 DEF Steady, SoundNow, Exact, Sound
<1> QED
  BY <1>2, <1>3, <1>4, Onward

\* Paths of different names differ.
LEMMA NamesApart ==
  /\ \A loc \in Locations, n \in Names :
       /\ PathIn(loc, n) \in Paths /\ IsPage(PathIn(loc, n)) /\ PathIn(loc, n)[3] = n
       /\ PathIn(loc, n)[1] = loc[1] /\ PathIn(loc, n)[2] = loc[2]
       /\ KeepOf(PathIn(loc, n)) = KeepOf(loc) /\ KeepOf(loc) # PathIn(loc, n)
  /\ \A src, dst, m, n : m # n => PathIn(src, m) # PathIn(dst, n)
<1>1. \A loc \in Locations, n \in Names : PathIn(loc, n) \in Paths
  BY Triples
<1>2. \A n \in Names : n # Keep
  BY Places
<1> QED
  BY <1>1, <1>2 DEF PathIn, IsPage, KeepOf

\* The take of a page that is out of its order: the page is in hand.
LEMMA TakingStep ==
  ASSUME IInv, Calls, NEW src \in Locations, NEW dst \in Locations, NEW n \in Names, NEW rest \in NameLists,
         Taking(src, dst, n, rest)
  PROVE  IInv'
<1> DEFINE path == PathIn(src, n)
           then == PutCalls(dst, n) \o Moves(src, dst, rest)
           to == Shift(src, dst, Range(rest) \cup {n})
           more == Shift(src, dst, Range(rest))
<1>1. todo # <<>> /\ Goes(Tail(todo))
  BY AnyCall
<1>2. Head(todo) = TakeCall(src, n) /\ Tail(todo) = then /\ then # <<>> /\ then \in Seq(Chain)
  <2>1. todo = <<TakeCall(src, n)>> \o then /\ then # <<>> /\ then \in Seq(Chain)
    BY TakeFirst DEF Taking
  <2> HIDE DEF then
  <2> QED
    BY <2>1, First
<1>3. path \in DOMAIN files /\ hand' = files[path] /\ files' = Less(files, {path}) /\ Still
  BY <1>2, TakeStep DEF TakeCall
<1>4. FilesFit(files) /\ yml \in Ymls /\ nav \subseteq Cols /\ stale \in 0..MaxStale
      /\ \A p \in PagesOf(files) : files[p].page # hand.page
  BY DEF IInv, Steady, PagePaths, PagesOf
<1>5. path \in Paths /\ IsPage(path) /\ path[1] = src[1] /\ path[2] = src[2] /\ path[3] = n
  BY NamesApart
<1>6. path \in PagesOf(files)
  BY <1>3, <1>5 DEF PagesOf
<1>7. files[path].page \in Pages /\ files[path].page # Nothing /\ files[path] \in Held
  BY <1>4, <1>6, PagesHave
<1> HIDE DEF path
<1>8. /\ FilesFit(files') /\ PagesOf(files') = PagesOf(files) \ {path}
      /\ DOMAIN files' = DOMAIN files \ {path} /\ \A p \in DOMAIN files \ {path} : files'[p] = files[p]
  <2> DEFINE gs == Less(files, {path})
  <2>1. /\ FilesFit(gs) /\ PagesOf(gs) = PagesOf(files) \ {path}
        /\ DOMAIN gs = DOMAIN files \ {path} /\ \A p \in DOMAIN files \ {path} : gs[p] = files[p]
    <3>1. FilesFit(files)
      BY <1>4
    <3> QED
      BY <3>1, LessFits
  <2>2. gs = files'
    BY <1>3
  <2> HIDE DEF gs
  <2> QED
    BY <2>1, <2>2
<1>9. Steady'
  <2>1. hand' \in [page : Pages \cup {Nothing}, third : Folders]
    BY <1>3, <1>7 DEF Held
  <2>2. \A p \in PagesOf(files') : files'[p].page # hand'.page
    <3>1. \A p, q \in PagesOf(files) : files[p].page = files[q].page => p = q
      BY <1>4 DEF FilesFit
    <3>2. PagesOf(files') \subseteq DOMAIN files \ {path}
      BY <1>8 DEF PagesOf
    <3> QED
      BY <3>1, <3>2, <1>3, <1>6, <1>8
  <2> QED
    BY <2>1, <2>2, <1>1, <1>3, <1>4, <1>8 DEF Steady, Still, Goes, PagePaths, PagesOf
<1>10. Entering(src, dst, n, rest)'
  <2>1. todo' = then /\ want' = want /\ stale' = stale
    BY <1>1, <1>2 DEF Goes
  <2>2. hand'.page # Nothing /\ n \notin Range(rest)
    BY <1>3, <1>7 DEF Taking
  <2>3. Leads(files', want', hand'.page, more, {PathIn(dst, n)})
    <3>1. Leads(files, want, hand.page, to, {}) /\ n \notin Range(rest)
      BY DEF Taking, Heading
    <3>2. DOMAIN to = {PathIn(src, m) : m \in Range(rest) \cup {n}} /\ DOMAIN more = {PathIn(src, m) : m \in Range(rest)}
      BY DEF Shift
    <3>3. DOMAIN more = DOMAIN to \ {path}
      <4>1. \A m \in Range(rest) : PathIn(src, m) # path
        BY <3>1, NamesApart DEF path
      <4> QED
        BY <3>2, <4>1 DEF path
    <3>4. \A p \in DOMAIN more : more[p] = to[p] /\ to[p] # path
      <4>1. \A p \in DOMAIN more : p[3] \in Range(rest)
        BY DEF Shift, PathIn
      <4>2. \A p \in DOMAIN more : more[p] = PathIn(dst, p[3]) /\ to[p] = PathIn(dst, p[3])
        BY DEF Shift
      <4>3. \A p \in DOMAIN more : PathIn(dst, p[3]) # path
        BY <3>1, <4>1, NamesApart DEF path
      <4> QED
        BY <4>2, <4>3
    <3>5. PathIn(dst, n) = Goal(to, path)
      <4>1. path \in DOMAIN to
        BY <3>2 DEF path
      <4>2. to[path] = PathIn(dst, path[3])
        BY <4>1 DEF Shift
      <4> QED
        BY <4>1, <4>2, <1>5 DEF Goal
    <3> HIDE DEF to, more
    <3>6. Leads(Less(files, {path}), want, files[path].page, more, {PathIn(dst, n)})
      BY <3>1, <3>3, <3>4, <3>5, <1>6, LeadsTaken
    <3> QED
      BY <3>6, <2>1, <1>3
  <2>4. Tended(files', yml', nav')
    BY <1>3, CoveredFits DEF Taking, Tended, Still
  <2>5. ASSUME Exact' PROVE Ordered(files', yml') /\ Kept(files') /\ HasKeep(files', dst)
    <3>1. Exact
      BY <2>5, <2>1 DEF Exact
    <3>2. /\ OrdersBut(files, yml, path[1], Entries(files, path[1]) \ {<<path[2], path[3]>>})
          /\ Kept(files) /\ HasKeep(files, dst)
      BY <3>1, <1>5 DEF Taking
    <3>3. Ordered(files', yml') /\ Kept(files')
      BY <3>2, <1>3, <1>4, <1>5, ExactTake DEF Still
    <3>4. HasKeep(files', dst)
      <4>1. KeepOf(dst) # path
        BY <1>5 DEF IsPage, KeepOf
      <4> QED
        BY <3>2, <4>1, <1>8 DEF HasKeep
    <3> QED
      BY <3>3, <3>4
  <2>6. Heading(Shift(src, dst, Range(rest)), {PathIn(dst, n)})'
    BY <2>3 DEF Heading
  <2>7. SoundNow' /\ (Exact' => HasKeep(files', dst))
    BY <2>4, <2>5 DEF SoundNow
  <2> QED
    BY <2>1, <2>2, <2>6, <2>7 DEF Entering
<1>11. Unlost(files', hand'.page, want', before.want)
  <2>1. hand.page = Nothing
    BY DEF Taking, NoPage
  <2>2. Nothing \notin Range(before.want) /\ Unlost(files, Nothing, want, before.want)
    BY <1>1, <2>1, NothingLost DEF Idle
  <2>3. Unlost(Less(files, {path}), files[path].page, want, before.want)
    BY <2>2, <1>6, UnlostTake
  <2> QED
    BY <2>3, <1>1, <1>3 DEF Goes
<1>12. todo' # <<>> /\ want' = want
  BY <1>1, <1>2 DEF Goes
<1> QED
  BY <1>9, <1>10, <1>11, <1>12, Onward, InMovesUnderway

\* Entries of orders are items.
LEMMA ItemsIn ==
  /\ \A loc \in Locations, n \in Names : <<loc[2], n>> \in Items
  /\ \A s \in Subs : <<s, Keep>> \in Items
BY Places DEF Items, Folders

\* Before the page there is its entry.
LEMMA MovingStep ==
  ASSUME IInv, Calls, NEW src \in Locations, NEW dst \in Locations, NEW ns \in NameLists,
         Moving(src, dst, ns)
  PROVE  IInv'
<1> DEFINE n == Head(ns)
           rest == Tail(ns)
           on == (<<TakeCall(src, n)>> \o PutCalls(dst, n)) \o Moves(src, dst, rest)
           c == src[1]
           item == <<src[2], n>>
<1>1. todo # <<>> /\ Goes(Tail(todo))
  BY AnyCall
<1>2. ns # <<>>
  BY <1>1, MovesFirst DEF Moving
<1>3. n \in Names /\ rest \in NameLists /\ n \notin Range(rest) /\ Range(ns) = Range(rest) \cup {n}
  BY <1>2, MovesFirst
<1>4. on \in Seq(Chain) /\ on # <<>>
      /\ Moves(src, dst, ns) = IF InCollection(src) THEN <<ItemCall("deleteItem", src, n)>> \o on ELSE on
  <2> DEFINE then == PutCalls(dst, n) \o Moves(src, dst, rest)
  <2>1. on \in Seq(Chain)
        /\ Moves(src, dst, ns) = IF InCollection(src) THEN <<ItemCall("deleteItem", src, n)>> \o on ELSE on
    BY <1>2, MovesOn
  <2>2. on = <<TakeCall(src, n)>> \o then /\ then \in Seq(Chain)
    BY <1>3, TakeFirst
  <2> HIDE DEF on, then
  <2>3. on # <<>>
    BY <2>2, First
  <2> QED
    BY <2>1, <2>3
<1>5. /\ hand = NoPage /\ Heading(Shift(src, dst, Range(rest) \cup {n}), {})
      /\ Tended(files, yml, nav)
      /\ Exact => Ordered(files, yml) /\ Kept(files) /\ HasKeep(files, dst)
  BY <1>3 DEF Moving, SoundNow
<1>6. CASE ~InCollection(src)
  <2>1. todo = on
    BY <1>4, <1>6 DEF Moving
  <2>2. Exact => OrdersBut(files, yml, c, Entries(files, c) \ {item})
    <3>1. c \notin Cols
      BY <1>6, Places
    <3> QED
      BY <3>1, <1>5, OrdersOf
  <2>3. Taking(src, dst, n, rest)
    BY <1>3, <1>5, <2>1, <2>2 DEF Taking
  <2> QED
    BY <1>3, <2>3, TakingStep
<1>7. CASE InCollection(src)
  <2>1. todo = <<ItemCall("deleteItem", src, n)>> \o on
    BY <1>4, <1>7 DEF Moving
  <2> HIDE DEF on
  <2>2. Head(todo) = [op |-> "deleteItem", col |-> c, item |-> item] /\ Tail(todo) = on
    BY <2>1, <1>4, First DEF ItemCall
  <2>3. Orders1(c, Deleted(yml[c].order, item))
    BY <2>2, DeleteStep
  <2>4. c \in Cols
    BY <1>7, Places
  <2>5. yml[c] # Nothing => Deleted(yml[c].order, item) \in Orders
    BY <2>4, OrderIn, DeletedFits
  <2> HIDE DEF c, item
  <2>6. /\ Steady' /\ Tended(files', yml', nav')
        /\ files' = files /\ nav' = nav /\ hand' = hand /\ stale' = stale
        /\ yml' = Reordered(yml, c, Deleted(yml[c].order, item)) /\ yml[c] # Nothing
        /\ Unlost(files', hand'.page, want', before.want)
    BY <1>5, <2>3, <2>4, <2>5, OrderCall
  <2>7. ASSUME Exact PROVE OrdersBut(files, yml', c, Entries(files, c) \ {item})
    <3>1. OrdersBut(files, yml, c, Entries(files, c))
      BY <1>5, <2>7, OrdersOf
    <3>2. Lists1(files, yml, c, Entries(files, c))
      BY <3>1, <2>4, <2>6 DEF Lists1, IInv, Steady
    <3> QED
      BY <3>2, <2>6, ExactDelete
  <2>8. todo' = on /\ want' = want
    BY <1>1, <2>2 DEF Goes
  <2>9. Heading(Shift(src, dst, Range(rest) \cup {n}), {})'
    BY <1>5, <2>6, <2>8 DEF Heading
  <2>10. Exact' => Exact
    BY <2>6 DEF Exact
  <2>11. Taking(src, dst, n, rest)'
    BY <1>3, <1>5, <2>6, <2>7, <2>8, <2>9, <2>10 DEF Taking, on, c, item
  <2>12. Underway'
    BY <1>3, <2>11, InMovesUnderway
  <2> QED
    BY <1>4, <2>6, <2>8, <2>12, Onward
<1> QED
  BY <1>6, <1>7

\* The put of a page that is in its order: on with the next page, or done.
LEMMA PuttingStep ==
  ASSUME IInv, Calls, NEW src \in Locations, NEW dst \in Locations, NEW n \in Names, NEW rest \in NameLists,
         NEW third \in Folders \cup {Nothing}, Putting(src, dst, n, third, rest)
  PROVE  IInv'
<1> DEFINE path == PathIn(dst, n)
           r == Moves(src, dst, rest)
           to == Shift(src, dst, Range(rest))
           f == [page |-> hand.page, third |-> IF third = Nothing THEN hand.third ELSE third]
<1>1. todo # <<>> /\ Goes(Tail(todo))
  BY AnyCall
<1>2. Head(todo) = PutCall(dst, n, third) /\ Tail(todo) = r
  <2>1. todo = <<PutCall(dst, n, third)>> \o r /\ r \in Seq(Chain)
    BY MovesFirst DEF Putting
  <2> HIDE DEF r
  <2> QED
    BY <2>1, First
<1>3. /\ FilesFit(files) /\ yml \in Ymls /\ nav \subseteq Cols /\ stale \in 0..MaxStale
      /\ hand \in [page : Pages \cup {Nothing}, third : Folders]
      /\ \A p \in PagesOf(files) : files[p].page # hand.page
  BY DEF IInv, Steady, PagePaths, PagesOf
<1>4. path \in Paths /\ IsPage(path) /\ path[1] = dst[1] /\ path[2] = dst[2] /\ path[3] = n
      /\ KeepOf(path) = KeepOf(dst)
  BY NamesApart
<1>5. path \notin DOMAIN files /\ hand' = NoPage /\ Still /\ files' = With(files, path, f)
  <2> HIDE DEF path
  <2>1. Head(todo) = [op |-> "put", path |-> path, third |-> third]
    BY <1>2 DEF PutCall, path
  <2> QED
    BY <2>1, <1>3, PutStep
<1>6. f \in Held /\ f.page \in Pages /\ f.page = hand.page /\ f.third = path[2]
  <2>1. hand.page \in Pages /\ hand.third \in Folders
    BY <1>3 DEF Putting
  <2>2. third = Nothing \/ third \in Folders
    OBVIOUS
  <2>3. dst[2] # Nothing
    BY Places, CollectionsAssumption DEF Folders
  <2>4. third = dst[2] \/ (third = Nothing /\ hand.third = dst[2])
    BY DEF Putting
  <2> QED
    BY <1>4, <2>1, <2>2, <2>3, <2>4 DEF Held
<1> HIDE DEF f, path
<1>7. FilesFit(files') /\ PagesOf(files') = PagesOf(files) \cup {path}
  <2>1. \A p \in PagesOf(files) : files[p].page # f.page
    BY <1>3, <1>6
  <2>2. FilesFit(files)
    BY <1>3
  <2>3. FilesFit(With(files, path, f)) /\ PagesOf(With(files, path, f)) = PagesOf(files) \cup {path}
    BY <1>4, <1>5, <1>6, <2>1, <2>2, PutFits
  <2> QED
    BY <1>5, <2>3
<1>8. Steady'
  BY <1>1, <1>3, <1>5, <1>7, SteadyEmpty DEF Still, Goes
<1>9. Moving(src, dst, rest)'
  <2>1. todo' = r /\ want' = want /\ stale' = stale
    BY <1>1, <1>2 DEF Goes
  <2>2. Leads(files', want', hand'.page, to, {})
    <3>1. Leads(files, want, f.page, to, {path})
      BY <1>6 DEF Putting, Heading, path
    <3>2. path \notin DOMAIN to
      <4>1. \A m \in Range(rest) : m # n
        BY DEF Putting
      <4>2. \A m \in Range(rest) : PathIn(src, m) # path
        BY <4>1, NamesApart DEF path
      <4> QED
        BY <4>2 DEF Shift
    <3> HIDE DEF to
    <3>3. Leads(With(files, path, f), want, hand'.page, to, {})
      BY <1>4, <1>5, <3>1, <3>2, LeadsPut
    <3> QED
      BY <3>3, <2>1, <1>5
  <2>3. Heading(Shift(src, dst, Range(rest)), {})'
    BY <2>2 DEF Heading
  <2>4. Tended(files', yml', nav')
    <3>1. path[1] # Unlinked => yml[path[1]] # Nothing
      BY <1>4, Places DEF Putting, Reaches, InCollection
    <3>2. Tended(files, yml, nav)
      BY DEF Putting
    <3>3. Covered(With(files, path, f), yml)
      BY <3>1, <3>2, CoveredFits DEF Tended
    <3> QED
      BY <3>2, <3>3, <1>5 DEF Tended, Still
  <2>5. ASSUME Exact' PROVE Ordered(files', yml') /\ Kept(files') /\ HasKeep(files', dst)
    <3>1. Exact
      BY <2>5, <2>1 DEF Exact
    <3>2. /\ OrdersBut(files, yml, path[1], Entries(files, path[1]) \cup {<<path[2], path[3]>>})
          /\ Kept(files) /\ HasKeep(files, dst)
      BY <3>1, <1>4, <1>5 DEF Putting, path
    <3>3. path[2] = Top \/ KeepOf(path) \in DOMAIN files
      BY <3>2, <1>4 DEF HasKeep
    <3>4. Ordered(With(files, path, f), yml) /\ Kept(With(files, path, f))
      <4>1. FilesFit(files)
        BY <1>3
      <4> QED
        BY <3>2, <3>3, <4>1, <1>4, ExactPut
    <3>5. HasKeep(files', dst)
      BY <3>2, <1>5 DEF HasKeep, With
    <3> QED
      BY <3>4, <3>5, <1>5 DEF Still
  <2>6. SoundNow' /\ (Exact' => HasKeep(files', dst))
    BY <2>4, <2>5 DEF SoundNow
  <2> QED
    BY <2>1, <2>3, <2>6, <1>5 DEF Moving
<1>10. Unlost(files', hand'.page, want', before.want)
  <2>1. Unlost(files, f.page, want, before.want)
    BY <1>1, <1>6, NothingLost DEF Idle
  <2>2. Unlost(With(files, path, f), hand'.page, want, before.want)
    BY <2>1, <1>4, <1>5, UnlostPut
  <2> QED
    BY <2>2, <1>1, <1>5 DEF Goes
<1> QED
  BY <1>8, <1>9, <1>10, MovingOn

\* The page in hand enters the order, or is put where there is none.
LEMMA EnteringStep ==
  ASSUME IInv, Calls, NEW src \in Locations, NEW dst \in Locations, NEW n \in Names, NEW rest \in NameLists,
         Entering(src, dst, n, rest)
  PROVE  IInv'
<1> DEFINE r == Moves(src, dst, rest)
           on == <<PutCall(dst, n, dst[2])>> \o r
           c == dst[1]
           item == <<dst[2], n>>
           path == PathIn(dst, n)
<1>1. todo # <<>> /\ Goes(Tail(todo))
  BY AnyCall
<1>2. dst[2] \in Folders
  BY Places
<1>3. r \in Seq(Chain) /\ on \in Seq(Chain) /\ on # <<>>
      /\ todo = IF InCollection(dst) THEN <<ItemCall("addItem", dst, n)>> \o on ELSE on
  <2>1. r \in Seq(Chain)
    BY MovesFirst
  <2>2. PutCalls(dst, n) \o r = IF InCollection(dst) THEN <<ItemCall("addItem", dst, n)>> \o on ELSE on
    <3> HIDE DEF r
    <3> QED
      BY <2>1, PutsFirst
  <2>3. <<PutCall(dst, n, dst[2])>> \in Seq(Chain)
    BY <1>2, PageCalls, ChainJoin
  <2>4. on \in Seq(Chain) /\ on # <<>>
    <3> HIDE DEF r
    <3> QED
      BY <2>1, <2>3, ChainJoin, First
  <2> QED
    BY <2>1, <2>2, <2>4 DEF Entering
<1>4. /\ hand.page # Nothing /\ n \notin Range(rest)
      /\ Heading(Shift(src, dst, Range(rest)), {PathIn(dst, n)})
      /\ Tended(files, yml, nav)
      /\ Exact => Ordered(files, yml) /\ Kept(files) /\ HasKeep(files, dst)
  BY DEF Entering, SoundNow
<1>5. CASE ~InCollection(dst)
  <2>1. todo = on
    BY <1>3, <1>5
  <2>2. c \notin Cols
    BY <1>5, Places
  <2>3. Exact => OrdersBut(files, yml, c, Entries(files, c) \cup {item})
    BY <2>2, <1>4, OrdersOf
  <2>4. Putting(src, dst, n, dst[2], rest)
    BY <1>4, <2>1, <2>2, <2>3 DEF Putting, Reaches
  <2> QED
    BY <1>2, <2>4, PuttingStep
<1>6. CASE InCollection(dst)
  <2>1. todo = <<ItemCall("addItem", dst, n)>> \o on
    BY <1>3, <1>6
  <2> HIDE DEF on
  <2>2. Head(todo) = [op |-> "addItem", col |-> c, item |-> item] /\ Tail(todo) = on
    BY <2>1, <1>3, First DEF ItemCall
  <2>3. Orders1(c, Inserted(yml[c].order, item))
    BY <2>2, AddStep
  <2>4. c \in Cols /\ item \in Items
    BY <1>6, Places, ItemsIn
  <2>5. yml[c] # Nothing => Inserted(yml[c].order, item) \in Orders
    BY <2>4, OrderIn, InsertedFits
  <2>6. item \in Entries(files, c) => path \in DOMAIN files
    <3>1. DOMAIN files \subseteq Paths
      BY DEF IInv, Steady, FilesFit
    <3> QED
      BY <3>1, EntriesAre DEF PathIn
  <2> HIDE DEF c, item
  <2>7. /\ Steady' /\ Tended(files', yml', nav')
        /\ files' = files /\ nav' = nav /\ hand' = hand /\ stale' = stale
        /\ yml' = Reordered(yml, c, Inserted(yml[c].order, item)) /\ yml[c] # Nothing /\ yml'[c] # Nothing
        /\ Unlost(files', hand'.page, want', before.want)
    BY <1>4, <2>3, <2>4, <2>5, OrderCall
  <2>8. ASSUME Exact, path \notin DOMAIN files
        PROVE  OrdersBut(files, yml', c, Entries(files, c) \cup {item})
    <3>1. OrdersBut(files, yml, c, Entries(files, c))
      BY <1>4, <2>8, OrdersOf
    <3>2. Lists1(files, yml, c, Entries(files, c))
      BY <3>1, <2>4, <2>7 DEF Lists1, IInv, Steady
    <3> QED
      BY <3>2, <2>4, <2>6, <2>7, <2>8, ExactInsert
  <2>9. todo' = on /\ want' = want
    BY <1>1, <2>2 DEF Goes
  <2>10. Heading(Shift(src, dst, Range(rest)), {PathIn(dst, n)})'
    BY <1>4, <2>7, <2>9 DEF Heading
  <2>11. Exact' => Exact
    BY <2>7 DEF Exact
  <2>12. Reaches(yml', dst)
    BY <2>7 DEF Reaches, c
  <2>13. Putting(src, dst, n, dst[2], rest)'
    BY <1>4, <2>7, <2>8, <2>9, <2>10, <2>11, <2>12 DEF Putting, on, c, item
  <2>14. Underway'
    BY <1>2, <2>13, InMovesUnderway
  <2> QED
    BY <1>3, <2>7, <2>9, <2>14, Onward
<1> QED
  BY <1>5, <1>6

-----------------------------------------------------------------------------
(* A new collection, a new subfolder                                       *)

\* A new collection.yml, empty, for a collection that has no file
LEMMA NewCollectionStep ==
  ASSUME IInv, Calls, NEW c \in Cols, NEW ns \in NameLists, NewCollection(c, ns)
  PROVE  IInv'
<1> DEFINE src == <<Unlinked, Top>>
           dst == <<c, Top>>
           r == Moves(src, dst, ns)
           y == [key |-> c, order |-> <<>>]
<1>0. src \in Locations /\ dst \in Locations /\ dst[2] = Top
  BY Places DEF Folders
<1> HIDE DEF src, dst
<1>1. todo # <<>> /\ Goes(Tail(todo))
  BY AnyCall
<1>2. Head(todo) = [op |-> "createYml", col |-> c] /\ Tail(todo) = r
  <2>1. todo = <<[op |-> "createYml", col |-> c]>> \o r /\ r \in Seq(Chain)
    BY <1>0, MovesFirst DEF NewCollection, src, dst
  <2> HIDE DEF r
  <2> QED
    BY <2>1, First
<1>3. yml[c] = Nothing /\ yml' = [yml EXCEPT ![c] = y] /\ files' = files /\ nav' = nav /\ hand' = hand
  <2>1. CreateYml /\ Head(todo).col = c
    BY <1>2, WhichCall
  <2> QED
    BY <2>1 DEF CreateYml
<1>4. FilesFit(files) /\ yml \in Ymls /\ nav \subseteq Cols /\ stale \in 0..MaxStale
  BY DEF IInv, Steady
<1>5. hand = NoPage /\ Heading(Shift(src, dst, Range(ns)), {}) /\ Tended(files, yml, nav)
      /\ (Exact => Ordered(files, yml) /\ Kept(files))
  BY DEF NewCollection, SoundNow, src, dst
<1>6. y \in Yml
  BY DEF Yml, Orders
<1>7. y # Nothing
  BY <1>6, CollectionsAssumption
<1>8. yml' \in Ymls /\ \A b \in Cols : yml'[b] = IF b = c THEN y ELSE yml[b]
  BY <1>3, <1>4, <1>6 DEF Ymls
<1> HIDE DEF y
<1>9. Steady'
  BY <1>1, <1>3, <1>4, <1>5, <1>8, SteadyEmpty DEF Goes
<1>10. Tended(files, yml', nav)
  <2>1. Keyed(yml', Nothing)
    BY <1>5, <1>8 DEF Tended, Keyed, y
  <2>2. Covered(files, yml')
    <3> SUFFICES ASSUME NEW p \in DOMAIN files, p[1] # Unlinked PROVE yml'[p[1]] # Nothing
      BY DEF Covered
    <3>1. p[1] \in Cols /\ yml[p[1]] # Nothing
      BY <1>4, <1>5, Triples DEF FilesFit, Tended, Covered
    <3> QED
      BY <3>1, <1>3, <1>8
  <2>3. Linked(yml', nav, Nothing)
    BY <1>4, <1>5, <1>7, <1>8 DEF Tended, Linked
  <2> QED
    BY <2>1, <2>2, <2>3 DEF Tended
<1>11. ASSUME Ordered(files, yml) PROVE Ordered(files, yml')
  <2>1. Entries(files, c) = {}
    <3>1. \A p \in DOMAIN files : p[1] # c
      BY <1>3, <1>5, Places DEF Tended, Covered
    <3> QED
      BY <3>1 DEF Entries
  <2>2. Orderly(<<>>, {})
    BY DEF Orderly, IsInjective, Range, Grouped
  <2>3. c # Nothing /\ Nothing \notin Cols
    BY CollectionsAssumption
  <2>4. \A b \in Cols : yml[b] # Nothing => Orderly(yml[b].order, Entries(files, b))
    BY <2>3, <1>11 DEF Ordered, OrdersBut
  <2>5. \A b \in Cols : yml'[b] # Nothing => Orderly(yml'[b].order, Entries(files, b))
    <3> SUFFICES ASSUME NEW b \in Cols, yml'[b] # Nothing PROVE Orderly(yml'[b].order, Entries(files, b))
      OBVIOUS
    <3>1. CASE b = c
      <4>1. yml'[b] = y /\ y.order = <<>>
        BY <3>1, <1>8 DEF y
      <4> QED
        BY <3>1, <4>1, <2>1, <2>2
    <3>2. CASE b # c
      BY <3>2, <1>8, <2>4
    <3> QED
      BY <3>1, <3>2
  <2> QED
    BY <2>3, <2>5 DEF Ordered, OrdersBut
<1>12. Moving(src, dst, ns)'
  <2>1. todo' = r /\ want' = want /\ stale' = stale
    BY <1>1, <1>2 DEF Goes
  <2>2. Heading(Shift(src, dst, Range(ns)), {})'
    BY <1>3, <1>5, <2>1 DEF Heading
  <2>3. SoundNow' /\ (Exact' => HasKeep(files', dst))
    BY <1>0, <1>3, <1>5, <1>10, <1>11, <2>1 DEF SoundNow, Exact, HasKeep
  <2> QED
    BY <2>1, <2>2, <2>3, <1>3, <1>5 DEF Moving
<1>13. Unlost(files', hand'.page, want', before.want)
  BY <1>1, <1>3, NothingLost DEF Goes, Idle
<1> QED
  BY <1>0, <1>9, <1>12, <1>13, MovingOn

\* The new subfolder enters the order of its collection.
LEMMA FolderItemStep ==
  ASSUME IInv, Calls, NEW c \in Cols, NEW s \in Subs, NEW ns \in NameLists, FolderItem(c, s, ns)
  PROVE  IInv'
<1> DEFINE src == <<c, Top>>
           dst == <<c, s>>
           r == Moves(src, dst, ns)
           item == <<s, Keep>>
<1>0. src \in Locations /\ dst \in Locations /\ dst[1] = c /\ dst[2] = s
  BY Places DEF Folders
<1>00. KeepOf(dst) = <<c, s, Keep>>
  BY DEF KeepOf
<1> HIDE DEF src, dst
<1>1. todo # <<>> /\ Goes(Tail(todo))
  BY AnyCall
<1>2. Head(todo) = [op |-> "addItem", col |-> c, item |-> item] /\ Tail(todo) = r
  <2>1. todo = <<[op |-> "addItem", col |-> c, item |-> item]>> \o r /\ r \in Seq(Chain)
    BY <1>0, MovesFirst DEF FolderItem, src, dst, ItemCall
  <2> HIDE DEF r
  <2> QED
    BY <2>1, First
<1>3. hand = NoPage /\ Heading(Shift(src, dst, Range(ns)), {}) /\ Tended(files, yml, nav)
      /\ (Exact => OrdersBut(files, yml, c, Entries(files, c) \ {item}) /\ Kept(files) /\ <<c, s, Keep>> \in DOMAIN files)
  BY DEF FolderItem, src, dst
<1>4. Orders1(c, Inserted(yml[c].order, item))
  BY <1>2, AddStep
<1>5. item \in Items
  BY ItemsIn
<1>6. yml[c] # Nothing => Inserted(yml[c].order, item) \in Orders
  BY <1>5, OrderIn, InsertedFits
<1>7. <<c, s, Keep>> \in DOMAIN files => item \in Entries(files, c)
  <2>1. DOMAIN files \subseteq Paths
    BY DEF IInv, Steady, FilesFit
  <2> QED
    BY <2>1, EntriesAre
<1> HIDE DEF item
<1>8. /\ Steady' /\ Tended(files', yml', nav')
      /\ files' = files /\ nav' = nav /\ hand' = hand /\ stale' = stale
      /\ yml' = Reordered(yml, c, Inserted(yml[c].order, item)) /\ yml[c] # Nothing
      /\ Unlost(files', hand'.page, want', before.want)
  BY <1>3, <1>4, <1>6, OrderCall
<1>9. ASSUME Exact PROVE Ordered(files', yml') /\ Kept(files') /\ HasKeep(files', dst)
  <2>1. Lists1(files, yml, c, Entries(files, c) \ {item})
    BY <1>3, <1>8, <1>9 DEF Lists1, IInv, Steady
  <2>2. OrdersBut(files, yml', c, (Entries(files, c) \ {item}) \cup {item})
    BY <1>5, <1>8, <2>1, ExactInsert
  <2>3. (Entries(files, c) \ {item}) \cup {item} = Entries(files, c)
    BY <1>3, <1>7, <1>9
  <2>4. Ordered(files, yml')
    BY <2>2, <2>3, OrdersOf
  <2> QED
    BY <2>4, <1>00, <1>3, <1>8, <1>9 DEF HasKeep
<1>10. Moving(src, dst, ns)'
  <2>1. todo' = r /\ want' = want /\ stale' = stale
    BY <1>1, <1>2 DEF Goes
  <2>2. Heading(Shift(src, dst, Range(ns)), {})'
    BY <1>3, <1>8, <2>1 DEF Heading
  <2>3. SoundNow' /\ (Exact' => HasKeep(files', dst))
    BY <1>8, <1>9, <2>1 DEF SoundNow, Exact
  <2> QED
    BY <2>1, <2>2, <2>3, <1>3, <1>8 DEF Moving
<1> QED
  BY <1>0, <1>8, <1>10, MovingOn

\* The .keep of a new subfolder
LEMMA NewFolderStep ==
  ASSUME IInv, Calls, NEW c \in Cols, NEW s \in Subs, NEW ns \in NameLists, NewFolder(c, s, ns)
  PROVE  IInv'
<1> DEFINE r == Moves(<<c, Top>>, <<c, s>>, ns)
           add == ItemCall("addItem", <<c, s>>, Keep)
           keep == [op |-> "keep", path |-> <<c, s, Keep>>]
           path == <<c, s, Keep>>
           to == Shift(<<c, Top>>, <<c, s>>, Range(ns))
<1>0. r \in Seq(Chain)
  BY Places, MovesFirst DEF Folders
<1>1. todo # <<>> /\ Goes(Tail(todo))
  BY AnyCall
<1>2. Head(todo) = keep /\ Tail(todo) = <<add>> \o r /\ <<add>> \o r # <<>>
  <2>1. todo = <<keep, add>> \o r
    BY DEF NewFolder
  <2> HIDE DEF r, keep, add
  <2>2. r \in Seq(Chain \cup {keep, add})
    BY <1>0
  <2> QED
    BY <2>1, <2>2
<1>3. path \notin DOMAIN files /\ hand' = hand /\ files' = With(files, path, KeepFile) /\ Still
  BY <1>2, KeepStep
<1>4. /\ FilesFit(files) /\ yml \in Ymls /\ nav \subseteq Cols /\ stale \in 0..MaxStale
      /\ hand = NoPage /\ Heading(to, {}) /\ yml[c] # Nothing
      /\ Tended(files, yml, nav) /\ (Exact => Ordered(files, yml) /\ Kept(files))
  BY DEF IInv, Steady, NewFolder, SoundNow
<1>5. path \in Paths /\ ~IsPage(path) /\ path[1] = c /\ path[2] = s /\ path[3] = Keep
  BY Triples DEF IsPage
<1>6. \A b : Entries(files', b) = IF b = c THEN Entries(files, b) \cup {<<s, Keep>>} ELSE Entries(files, b)
  <2> HIDE DEF path
  <2>1. FilesFit(files) /\ files' = With(files, path, KeepFile)
    BY <1>3, <1>4
  <2> QED
    BY <2>1, <1>5, EntriesWith
<1>7. path \in DOMAIN files' /\ \A p \in DOMAIN files : p \in DOMAIN files' /\ files'[p] = files[p]
  BY <1>3 DEF With
<1>8. <<s, Keep>> \notin Entries(files, c)
  <2>1. DOMAIN files \subseteq Paths
    BY <1>4 DEF FilesFit
  <2> QED
    BY <2>1, <1>3, EntriesAre
<1> HIDE DEF path
<1>9. FilesFit(files') /\ PagesOf(files') = PagesOf(files)
  <2>1. FilesFit(files)
    BY <1>4
  <2>2. FilesFit(With(files, path, KeepFile)) /\ PagesOf(With(files, path, KeepFile)) = PagesOf(files)
    BY <2>1, <1>3, <1>5, KeepFits
  <2> QED
    BY <1>3, <2>2
<1>10. Steady'
  BY <1>1, <1>3, <1>4, <1>9, SteadyEmpty DEF Goes, Still
<1>11. \A p \in PagesOf(files) : files'[p] = files[p]
  BY <1>7 DEF PagesOf
<1>12. FolderItem(c, s, ns)'
  <2>1. todo' = <<add>> \o r /\ want' = want /\ stale' = stale
    BY <1>1, <1>2 DEF Goes
  <2>2. Heading(Shift(<<c, Top>>, <<c, s>>, Range(ns)), {})'
    <3>1. Leads(files, want, hand.page, to, {})
      BY <1>4 DEF Heading
    <3> HIDE DEF to
    <3>2. Leads(files', want, hand.page, to, {})
      BY <3>1, <1>9, <1>11, LeadsSame
    <3> QED
      BY <3>2, <2>1, <1>3 DEF Heading, to
  <2>3. Tended(files', yml', nav')
    <3>1. Covered(With(files, path, KeepFile), yml)
      BY <1>4, <1>5, CoveredFits DEF Tended
    <3> QED
      BY <3>1, <1>3, <1>4 DEF Tended, Still
  <2>4. ASSUME Exact PROVE OrdersBut(files', yml', c, Entries(files', c) \ {<<s, Keep>>}) /\ Kept(files')
    <3>1. Entries(files', c) \ {<<s, Keep>>} = Entries(files, c)
      BY <1>6, <1>8
    <3>2. OrdersBut(files, yml, c, Entries(files, c))
      BY <1>4, <2>4, OrdersOf
    <3>3. OrdersBut(files', yml, c, Entries(files, c))
      BY <3>2, <1>6, OrdersFiles
    <3>4. Kept(With(files, path, KeepFile))
      <4>1. FilesFit(files) /\ Kept(files)
        BY <1>4, <2>4
      <4> QED
        BY <4>1, <1>5, KeptWith DEF Kept
    <3> QED
      BY <3>1, <3>3, <3>4, <1>3 DEF Still
  <2>5. Exact' => Exact
    BY <2>1 DEF Exact
  <2> QED
    BY <2>1, <2>2, <2>3, <2>4, <2>5, <1>3, <1>4, <1>7 DEF FolderItem, path
<1>13. Unlost(files', hand'.page, want', before.want)
  <2>1. Unlost(files, hand.page, want, before.want)
    BY <1>1, NothingLost DEF Idle
  <2>2. Unlost(files', hand.page, want, before.want)
    BY <2>1, <1>9, <1>11, UnlostSame
  <2> QED
    BY <2>2, <1>1, <1>3 DEF Goes
<1>14. Underway' /\ todo' # <<>> /\ want' = want
  BY <1>1, <1>2, <1>12 DEF Underway, Goes
<1> QED
  BY <1>10, <1>13, <1>14, Onward

-----------------------------------------------------------------------------
(* The rename and the delete of a page                                     *)

\* The take of the page that is renamed
LEMMA RetakingStep ==
  ASSUME IInv, Calls, NEW loc \in Locations, NEW old \in Names, NEW new \in Names, Retaking(loc, old, new)
  PROVE  IInv'
<1> DEFINE path == PathIn(loc, old)
           goal == PathIn(loc, new)
           third == Title(loc)
           to == Onto(loc, old, new)
           more == Shift(loc, loc, {})
           x == <<loc[2], old>>
           y == <<loc[2], new>>
           put == PutCall(loc, new, third)
<1>1. todo # <<>> /\ Goes(Tail(todo))
  BY AnyCall
<1>2. Head(todo) = [op |-> "take", path |-> path] /\ Tail(todo) = <<put>>
  <2>1. todo = <<[op |-> "take", path |-> path], put>>
    BY DEF Retaking, TakeCall
  <2> HIDE DEF put, path
  <2> QED
    BY <2>1
<1>3. path \in DOMAIN files /\ hand' = files[path] /\ files' = Less(files, {path}) /\ Still
  <2> HIDE DEF path
  <2> QED
    BY <1>2, TakeStep
<1>4. FilesFit(files) /\ yml \in Ymls /\ nav \subseteq Cols /\ stale \in 0..MaxStale
  BY DEF IInv, Steady
<1>5. path \in Paths /\ IsPage(path) /\ path[1] = loc[1] /\ path[2] = loc[2] /\ path[3] = old
      /\ goal \in Paths /\ IsPage(goal) /\ goal[1] = loc[1] /\ goal[2] = loc[2] /\ goal[3] = new
  BY NamesApart
<1>6. path \in PagesOf(files)
  BY <1>3, <1>5 DEF PagesOf
<1>7. files[path].page \in Pages /\ files[path].page # Nothing /\ files[path] \in Held
      /\ files[path].third = loc[2]
  BY <1>4, <1>5, <1>6, PagesHave DEF FilesFit
<1>8. DOMAIN to = {path} /\ to[path] = goal /\ DOMAIN more = {}
  BY DEF Onto, Shift
<1> HIDE DEF path, goal, to, more
<1>9. /\ FilesFit(files') /\ PagesOf(files') = PagesOf(files) \ {path}
      /\ DOMAIN files' = DOMAIN files \ {path} /\ \A p \in DOMAIN files \ {path} : files'[p] = files[p]
  <2> DEFINE gs == Less(files, {path})
  <2>1. /\ FilesFit(gs) /\ PagesOf(gs) = PagesOf(files) \ {path}
        /\ DOMAIN gs = DOMAIN files \ {path} /\ \A p \in DOMAIN files \ {path} : gs[p] = files[p]
    <3>1. FilesFit(files)
      BY <1>4
    <3> QED
      BY <3>1, LessFits
  <2>2. gs = files'
    BY <1>3
  <2> HIDE DEF gs
  <2> QED
    BY <2>1, <2>2
<1>10. Steady'
  <2>1. hand' \in [page : Pages \cup {Nothing}, third : Folders]
    BY <1>3, <1>7 DEF Held
  <2>2. \A p \in PagesOf(files') : files'[p].page # hand'.page
    <3>1. \A p, q \in PagesOf(files) : files[p].page = files[q].page => p = q
      BY <1>4 DEF FilesFit
    <3>2. PagesOf(files') \subseteq DOMAIN files \ {path}
      BY <1>9 DEF PagesOf
    <3> QED
      BY <3>1, <3>2, <1>3, <1>6, <1>9
  <2> QED
    BY <2>1, <2>2, <1>1, <1>3, <1>4, <1>9 DEF Steady, Still, Goes, PagePaths, PagesOf
<1>11. todo' = <<put>> /\ want' = want /\ stale' = stale
  BY <1>1, <1>2 DEF Goes
<1>12. Putting(loc, loc, new, third, <<>>)'
  <2>1. todo' = <<PutCall(loc, new, third)>> \o Moves(loc, loc, <<>>)
    <3>1. <<>> \in NameLists
      BY DEF NameLists, IsInjective
    <3>2. Moves(loc, loc, <<>>) = <<>>
      BY <3>1, MovesFirst
    <3>3. <<put>> \in Seq({put})
      OBVIOUS
    <3>4. <<put>> \o <<>> = <<put>>
      BY <3>3, ConcatEmptySeq
    <3> QED
      BY <3>2, <3>4, <1>11
  <2>2. hand'.page # Nothing /\ Range(<<>>) = {} /\ hand'.third = loc[2]
    BY <1>3, <1>7 DEF Range
  <2>3. Leads(files', want', hand'.page, more, {goal})
    <3>1. Leads(files, want, hand.page, to, {})
      BY DEF Retaking, Heading, to
    <3>2. DOMAIN more = DOMAIN to \ {path} /\ (\A p \in DOMAIN more : more[p] = to[p] /\ to[p] # path)
      BY <1>8
    <3>3. goal = Goal(to, path)
      BY <1>8 DEF Goal
    <3>4. Leads(Less(files, {path}), want, files[path].page, more, {goal})
      BY <3>1, <3>2, <3>3, <1>6, LeadsTaken
    <3> QED
      BY <3>4, <1>3, <1>11
  <2>4. Heading(Shift(loc, loc, Range(<<>>)), {PathIn(loc, new)})'
    BY <2>2, <2>3 DEF Heading, goal, more
  <2>5. third = loc[2] \/ (third = Nothing /\ hand'.third = loc[2])
    BY <2>2 DEF Title
  <2>6. Reaches(yml', loc)
    <3>1. loc[1] \in Cols => loc[1] # Unlinked
      BY Places
    <3> QED
      BY <3>1, <1>3, <1>5 DEF Reaches, Still, Retaking, Tended, Covered
  <2>7. Tended(files', yml', nav')
    BY <1>3, CoveredFits DEF Retaking, Tended, Still
  <2>8. ASSUME Exact
        PROVE  /\ goal \notin DOMAIN files' =>
                    OrdersBut(files', yml', loc[1], Entries(files', loc[1]) \cup {y})
               /\ Kept(files') /\ HasKeep(files', loc)
    <3>1. /\ goal \notin DOMAIN files \/ new = old =>
               OrdersBut(files, yml, loc[1], (Entries(files, loc[1]) \ {x}) \cup {y})
          /\ Kept(files)
      BY <2>8 DEF Retaking, goal
    <3>2. goal \notin DOMAIN files' => goal \notin DOMAIN files \/ new = old
      <4>1. goal \notin DOMAIN files' => goal \notin DOMAIN files \/ goal = path
        BY <1>9
      <4> QED
        BY <4>1, <1>5
    <3>3. \A b : Entries(files', b) = IF b = loc[1] THEN Entries(files, b) \ {x} ELSE Entries(files, b)
      <4>1. FilesFit(files) /\ files' = Less(files, {path}) /\ path[1] = loc[1] /\ <<path[2], path[3]>> = x
        BY <1>3, <1>4, <1>5
      <4> HIDE DEF x
      <4> QED
        BY <4>1, <1>5, EntriesLess
    <3>4. goal \notin DOMAIN files' => OrdersBut(files', yml, loc[1], Entries(files', loc[1]) \cup {y})
      <4> HIDE DEF x, y
      <4>1. goal \notin DOMAIN files' => OrdersBut(files, yml, loc[1], Entries(files', loc[1]) \cup {y})
        BY <3>1, <3>2, <3>3
      <4>2. \A b \in Cols : b # loc[1] => Entries(files', b) = Entries(files, b)
        BY <3>3
      <4> QED
        BY <4>1, <4>2, OrdersFiles
    <3>5. Kept(files')
      <4>1. FilesFit(files) /\ Kept(files) /\ files' = Less(files, {path})
        BY <3>1, <1>3, <1>4
      <4> QED
        BY <4>1, <1>5, KeptLess DEF Kept
    <3>6. HasKeep(files', loc)
      <4>1. KeepOf(path) = KeepOf(loc) /\ KeepOf(loc) # path
        BY NamesApart DEF path
      <4>2. DOMAIN files \subseteq Paths
        BY <1>4 DEF FilesFit
      <4>3. loc[2] # Top => KeepOf(path) \in DOMAIN files
        BY <3>1, <4>2, <1>3, <1>5, KeptHere
      <4> QED
        BY <4>1, <4>3, <1>9 DEF HasKeep
    <3> QED
      BY <3>4, <3>5, <3>6, <1>3 DEF Still
  <2>9. Exact' => Exact
    BY <1>11 DEF Exact
  <2>10. new \notin Range(<<>>)
    BY <2>2
  <2> QED
    BY <2>1, <2>2, <2>4, <2>5, <2>6, <2>7, <2>8, <2>9, <2>10 DEF Putting, goal
<1>13. Unlost(files', hand'.page, want', before.want)
  <2>1. hand.page = Nothing
    BY DEF Retaking, NoPage
  <2>2. Nothing \notin Range(before.want) /\ Unlost(files, Nothing, want, before.want)
    BY <1>1, <2>1, NothingLost DEF Idle
  <2>3. Unlost(Less(files, {path}), files[path].page, want, before.want)
    BY <2>2, <1>6, UnlostTake
  <2> QED
    BY <2>3, <1>1, <1>3 DEF Goes
<1>14. Underway'
  <2>1. third \in Folders \cup {Nothing} /\ <<>> \in NameLists
    BY DEF Title, Folders, NameLists, IsInjective
  <2> QED
    BY <2>1, <1>12, InMovesUnderway
<1>15. <<put>> # <<>>
  <2> HIDE DEF put
  <2> QED
    OBVIOUS
<1> QED
  BY <1>10, <1>11, <1>13, <1>14, <1>15, Onward

\* The new name in the order, in place of the old
LEMMA UpdatingStep ==
  ASSUME IInv, Calls, NEW loc \in Locations, NEW old \in Names, NEW new \in Names, Updating(loc, old, new)
  PROVE  IInv'
<1> DEFINE c == loc[1]
           x == <<loc[2], old>>
           y == <<loc[2], new>>
           take == TakeCall(loc, old)
           put == PutCall(loc, new, Title(loc))
           update == [op |-> "updateItem", col |-> c, item |-> x, new |-> y]
<1>1. todo # <<>> /\ Goes(Tail(todo))
  BY AnyCall
<1>2. Head(todo) = update /\ Tail(todo) = <<take, put>> /\ <<take, put>> # <<>>
  <2>1. todo = <<update, take, put>>
    BY DEF Updating
  <2> HIDE DEF update, take, put
  <2> QED
    BY <2>1
<1>3. hand = NoPage /\ Heading(Onto(loc, old, new), {}) /\ Tended(files, yml, nav)
      /\ (Exact => Ordered(files, yml) /\ Kept(files)) /\ PathIn(loc, old) \in DOMAIN files
      /\ PathIn(loc, old) \in PagesOf(files)
  BY DEF Updating, SoundNow, PagePaths, PagesOf
<1>4. Orders1(c, Updated(yml[c].order, x, y))
  BY <1>2, UpdateStep
<1>5. c \in Cols /\ x \in Items /\ y \in Items /\ y[1] = x[1]
  BY Places, ItemsIn DEF Updating
<1>6. yml[c] # Nothing => Updated(yml[c].order, x, y) \in Orders
  <2> HIDE DEF c, x, y
  <2> QED
    BY <1>5, OrderIn, UpdatedFits
<1>7. x \in Entries(files, c) /\ (new # old => y # x)
      /\ (PathIn(loc, new) \notin DOMAIN files => y \notin Entries(files, c))
  <2>1. DOMAIN files \subseteq Paths
    BY DEF IInv, Steady, FilesFit
  <2> QED
    BY <2>1, <1>3, EntriesAre DEF PathIn
<1>70. new = old => y = x
  OBVIOUS
<1> HIDE DEF c, x, y
<1>8. /\ Steady' /\ Tended(files', yml', nav')
      /\ files' = files /\ nav' = nav /\ hand' = hand /\ stale' = stale
      /\ yml' = Reordered(yml, c, Updated(yml[c].order, x, y)) /\ yml[c] # Nothing
      /\ Unlost(files', hand'.page, want', before.want)
  BY <1>3, <1>4, <1>5, <1>6, OrderCall
<1>9. ASSUME Exact, PathIn(loc, new) \notin DOMAIN files \/ new = old
      PROVE  OrdersBut(files, yml', c, (Entries(files, c) \ {x}) \cup {y})
  <2>1. OrdersBut(files, yml, c, Entries(files, c))
    BY <1>3, <1>9, OrdersOf
  <2>2. Lists1(files, yml, c, Entries(files, c))
    BY <2>1, <1>5, <1>8 DEF Lists1, IInv, Steady
  <2>3. y = x \/ y \notin Entries(files, c)
    BY <1>7, <1>70, <1>9
  <2> QED
    BY <2>2, <2>3, <1>5, <1>7, <1>8, ExactUpdate
<1>10. todo' = <<take, put>> /\ want' = want
  BY <1>1, <1>2 DEF Goes
<1>11. Heading(Onto(loc, old, new), {})'
  BY <1>3, <1>8, <1>10 DEF Heading
<1>12. Exact' => Exact
  BY <1>8 DEF Exact
<1>13. Retaking(loc, old, new)'
  BY <1>3, <1>8, <1>9, <1>10, <1>11, <1>12 DEF Retaking, c, x, y, PagePaths, PagesOf
<1>14. Underway'
  BY <1>13 DEF Underway
<1> QED
  BY <1>2, <1>8, <1>10, <1>14, Onward

\* With the pages gone that are to go, every page is placed.
LEMMA WithoutFits ==
  ASSUME FilesFit(files), NEW gone, Without(gone)
  PROVE  Placed(Less(files, gone), want)
<1>1. /\ FilesFit(Less(files, gone)) /\ PagesOf(Less(files, gone)) = PagesOf(files) \ gone
      /\ \A p \in DOMAIN files \ gone : Less(files, gone)[p] = files[p]
  BY LessFits
<1>2. DOMAIN want = PagesOf(files) \ gone /\ \A p \in DOMAIN want : want[p] = files[p].page
  BY DEF Without, PagePaths, PagesOf
<1>3. \A p \in PagesOf(files) : p \in DOMAIN files
  BY DEF PagesOf
<1> HIDE DEF Without
<1> QED
  BY <1>1, <1>2, <1>3 DEF Placed

\* The page that is deleted goes, the order is without it already.
LEMMA DroppingStep ==
  ASSUME IInv, Calls, NEW loc \in Locations, NEW n \in Names, Dropping(loc, n)
  PROVE  IInv'
<1> DEFINE path == PathIn(loc, n)
<1>1. todo # <<>> /\ Goes(Tail(todo))
  BY AnyCall
<1>2. Head(todo) = [op |-> "drop", path |-> path] /\ Tail(todo) = <<>>
  <2>1. todo = <<[op |-> "drop", path |-> path]>>
    BY DEF Dropping
  <2> HIDE DEF path
  <2> QED
    BY <2>1
<1>3. path \in DOMAIN files /\ hand' = hand /\ files' = Less(files, {path}) /\ Still
  <2> HIDE DEF path
  <2> QED
    BY <1>2, DropStep
<1>4. FilesFit(files) /\ yml \in Ymls /\ nav \subseteq Cols /\ stale \in 0..MaxStale
  BY DEF IInv, Steady
<1>5. path \in Paths /\ IsPage(path) /\ path[1] = loc[1] /\ path[2] = loc[2] /\ path[3] = n
  BY NamesApart
<1>6. /\ hand = NoPage /\ Without({path}) /\ Tended(files, yml, nav)
      /\ Exact => /\ OrdersBut(files, yml, path[1], Entries(files, path[1]) \ {<<path[2], path[3]>>})
                  /\ Kept(files)
  BY <1>5 DEF Dropping
<1> HIDE DEF path
<1>7. FilesFit(files')
  BY <1>3, <1>4, LessFits
<1>8. todo' = <<>> /\ want' = want /\ stale' = stale
  BY <1>1, <1>2 DEF Goes
<1>9. Steady'
  BY <1>3, <1>4, <1>6, <1>7, <1>8, SteadyEmpty DEF Still
<1>10. Placed(files', want')
  BY <1>3, <1>4, <1>6, <1>8, WithoutFits
<1>11. Tended(files', yml', nav')
  BY <1>3, <1>6, CoveredFits DEF Tended, Still
<1>12. Exact => Ordered(files', yml') /\ Kept(files')
  BY <1>3, <1>4, <1>5, <1>6, ExactTake DEF Still
<1>13. Sound(files', yml', nav', want', stale')
  BY <1>8, <1>9, <1>10, <1>11, <1>12 DEF Sound, Steady, Exact
<1> QED
  BY <1>3, <1>6, <1>8, <1>9, <1>13, Onward

\* The page that is deleted goes from the order.
LEMMA DeletingStep ==
  ASSUME IInv, Calls, NEW loc \in Locations, NEW n \in Names, Deleting(loc, n)
  PROVE  IInv'
<1> DEFINE c == loc[1]
           item == <<loc[2], n>>
           drop == [op |-> "drop", path |-> PathIn(loc, n)]
           del == [op |-> "deleteItem", col |-> c, item |-> item]
<1>1. todo # <<>> /\ Goes(Tail(todo))
  BY AnyCall
<1>2. Head(todo) = del /\ Tail(todo) = <<drop>> /\ <<drop>> # <<>>
  <2>1. todo = <<del, drop>>
    BY DEF Deleting, ItemCall
  <2> HIDE DEF drop, del
  <2> QED
    BY <2>1
<1>3. hand = NoPage /\ Without({PathIn(loc, n)}) /\ Tended(files, yml, nav)
      /\ (Exact => Ordered(files, yml) /\ Kept(files))
  BY DEF Deleting, SoundNow
<1>30. InCollection(loc)
  BY DEF Deleting
<1>4. Orders1(c, Deleted(yml[c].order, item))
  BY <1>2, DeleteStep
<1>5. c \in Cols
  BY <1>30, Places
<1>6. yml[c] # Nothing => Deleted(yml[c].order, item) \in Orders
  BY <1>5, OrderIn, DeletedFits
<1> HIDE DEF c, item
<1>7. /\ Steady' /\ Tended(files', yml', nav')
      /\ files' = files /\ nav' = nav /\ hand' = hand /\ stale' = stale
      /\ yml' = Reordered(yml, c, Deleted(yml[c].order, item)) /\ yml[c] # Nothing
      /\ Unlost(files', hand'.page, want', before.want)
  BY <1>3, <1>4, <1>5, <1>6, OrderCall
<1>8. ASSUME Exact PROVE OrdersBut(files, yml', c, Entries(files, c) \ {item})
  <2>1. OrdersBut(files, yml, c, Entries(files, c))
    BY <1>3, <1>8, OrdersOf
  <2>2. Lists1(files, yml, c, Entries(files, c))
    BY <2>1, <1>5, <1>7 DEF Lists1, IInv, Steady
  <2> QED
    BY <2>2, <1>7, ExactDelete
<1>9. todo' = <<drop>> /\ want' = want
  BY <1>1, <1>2 DEF Goes
<1>10. Exact' => Exact
  BY <1>7 DEF Exact
<1>11. Without({PathIn(loc, n)})'
  BY <1>3, <1>7, <1>9 DEF Without, PagePaths
<1>12. Dropping(loc, n)'
  BY <1>3, <1>7, <1>8, <1>9, <1>10, <1>11 DEF Dropping, c, item
<1>13. Underway'
  BY <1>12 DEF Underway
<1> QED
  BY <1>2, <1>7, <1>9, <1>13, Onward

-----------------------------------------------------------------------------
(* The rename and the delete of a collection                               *)

\* The files of a collection move, its collection.yml has the old key for now.
LEMMA RenamingDirStep ==
  ASSUME IInv, Calls, NEW c \in Cols, NEW new \in Cols, RenamingDir(c, new)
  PROVE  IInv'
<1> DEFINE key == KeyCall(c, new)
           link == NavCall(c, {new})
           call == [op |-> "renameDir", col |-> c, new |-> new]
<1>1. todo # <<>> /\ Goes(Tail(todo))
  BY AnyCall
<1>2. Head(todo) = call /\ Tail(todo) = <<key, link>> /\ <<key, link>> # <<>>
  <2>1. todo = <<call, key, link>>
    BY DEF RenamingDir
  <2> HIDE DEF call, key, link
  <2> QED
    BY <2>1
<1>3. /\ Exists(c) /\ ~Exists(new) /\ files' = Rebased(files, c, new)
      /\ yml' = [yml EXCEPT ![new] = yml[c], ![c] = Nothing] /\ nav' = nav /\ hand' = hand
  <2>1. RenameDir /\ Head(todo).col = c /\ Head(todo).new = new
    BY <1>2, WhichCall
  <2> QED
    BY <2>1 DEF RenameDir
<1>4. FilesFit(files) /\ yml \in Ymls /\ nav \subseteq Cols /\ stale \in 0..MaxStale
  BY DEF IInv, Steady
<1>5. /\ hand = NoPage /\ Placed(files, before.want) /\ want = Rebased(before.want, c, new)
      /\ Tended(files, yml, nav) /\ (Exact => Ordered(files, yml) /\ Kept(files))
  BY DEF RenamingDir, SoundNow
<1>6. c # new /\ yml[new] = Nothing /\ (\A p \in DOMAIN files : p[1] # new)
  BY <1>3 DEF Exists
<1>7. yml' \in Ymls /\ \A b \in Cols : yml'[b] = IF b = new THEN yml[c] ELSE IF b = c THEN Nothing ELSE yml[b]
  BY <1>3, <1>4, <1>6 DEF Ymls
<1>8. todo' = <<key, link>> /\ want' = want /\ stale' = stale
  BY <1>1, <1>2 DEF Goes
<1>9. FilesFit(files') /\ Placed(files', want')
  <2>1. FilesFit(files)
    BY <1>4
  <2>2. /\ FilesFit(Rebased(files, c, new))
        /\ \A w : Placed(files, w) => Placed(Rebased(files, c, new), Rebased(w, c, new))
    BY <2>1, <1>6, RebasedFits
  <2> QED
    BY <2>2, <1>3, <1>5, <1>8
<1>10. Steady'
  BY <1>3, <1>4, <1>5, <1>7, <1>8, <1>9, SteadyEmpty
<1>11. yml[c] # Nothing
  BY <1>3, <1>4, <1>5, Places DEF Exists, Tended, Covered, FilesFit
<1>12. yml'[new] # Nothing /\ yml'[new].key = c /\ Keyed(yml', new)
  <2>1. c \in Cols \ {Nothing}
    BY CollectionsAssumption
  <2>2. yml[c].key = c
    BY <2>1, <1>5, <1>11 DEF Tended, Keyed
  <2>3. \A b \in Cols : b # Nothing
    BY CollectionsAssumption
  <2>4. \A b \in Cols : yml[b] # Nothing => yml[b].key = b
    BY <2>3, <1>5 DEF Tended, Keyed
  <2>5. Keyed(yml', new)
    BY <2>4, <1>7 DEF Keyed
  <2> QED
    BY <2>2, <2>5, <1>7, <1>11
<1>13. Covered(files', yml')
  <2>1. NoneIn(files, new)
    BY <1>4, <1>6 DEF NoneIn, FilesFit
  <2>2. Moved(files, files', c, new)
    BY <2>1, <1>3, RebasedIs
  <2> SUFFICES ASSUME NEW p \in DOMAIN files, InCol(c, new, p)[1] # Unlinked
               PROVE  yml'[InCol(c, new, p)[1]] # Nothing
    BY <2>2 DEF Covered, Moved
  <2>3. p \in Paths
    BY <1>4 DEF FilesFit
  <2>4. InCol(c, new, p)[1] = IF p[1] = c THEN new ELSE p[1]
    BY <2>3, InColIs
  <2>5. CASE p[1] = c
    BY <2>4, <2>5, <1>7, <1>11
  <2>6. CASE p[1] # c
    <3>1. p[1] # Unlinked /\ p[1] \in Cols /\ p[1] # new
      BY <2>3, <2>4, <2>6, <1>6, Triples
    <3>2. yml[p[1]] # Nothing
      BY <3>1, <1>5 DEF Tended, Covered
    <3> QED
      BY <3>1, <3>2, <2>4, <2>6, <1>7
  <2> QED
    BY <2>5, <2>6
<1>14. Linked(yml', nav', c)
  <2>1. \A b \in nav : b \in Cols /\ (b # Nothing => yml[b] # Nothing)
    BY <1>4, <1>5 DEF Tended, Linked
  <2>2. \A b \in nav \ {c} : yml'[b] # Nothing
    BY <2>1, <1>7, <1>11, CollectionsAssumption
  <2> QED
    BY <2>2, <1>3 DEF Linked
<1>15. ASSUME Exact PROVE Ordered(files', yml') /\ Kept(files')
  <2>1. FilesFit(files) /\ Kept(files)
    BY <1>4, <1>5, <1>15
  <2>2. Kept(files')
    BY <2>1, <1>3, <1>6, RebasedKept
  <2>3. \A b \in Cols : Entries(files', b) = IF b = new THEN Entries(files, c) ELSE IF b = c THEN {} ELSE Entries(files, b)
    BY <2>1, <1>3, <1>6, RebasedEntries
  <2>4. Nothing \notin Cols
    BY CollectionsAssumption
  <2>5. \A b \in Cols : yml[b] # Nothing => Orderly(yml[b].order, Entries(files, b))
    BY <2>4, <1>5, <1>15 DEF Ordered, OrdersBut
  <2>6. \A b \in Cols : yml'[b] # Nothing => Orderly(yml'[b].order, Entries(files', b))
    BY <2>3, <2>5, <1>7
  <2> QED
    BY <2>2, <2>4, <2>6 DEF Ordered, OrdersBut
<1>16. RenamingKey(c, new)'
  BY <1>3, <1>5, <1>8, <1>9, <1>12, <1>13, <1>14, <1>15 DEF RenamingKey, Exact
<1>17. Underway'
  BY <1>16 DEF Underway
<1>18. Unlost(files', hand'.page, want', before.want)
  BY <1>9, UnlostPlaced
<1> QED
  BY <1>2, <1>8, <1>10, <1>17, <1>18, Onward

\* The key of the collection follows,
LEMMA RenamingKeyStep ==
  ASSUME IInv, Calls, NEW c \in Cols, NEW new \in Cols, RenamingKey(c, new)
  PROVE  IInv'
<1> DEFINE key == KeyCall(c, new)
           link == NavCall(c, {new})
<1>1. todo # <<>> /\ Goes(Tail(todo))
  BY AnyCall
<1>2. Head(todo) = key /\ Tail(todo) = <<link>> /\ <<link>> # <<>>
  <2>1. todo = <<key, link>>
    BY DEF RenamingKey
  <2> HIDE DEF key, link
  <2> QED
    BY <2>1
<1>3. /\ hand = NoPage /\ Placed(files, want) /\ yml[new] # Nothing /\ yml[new].key = c
      /\ Keyed(yml, new) /\ Covered(files, yml) /\ Linked(yml, nav, c)
      /\ (Exact => Ordered(files, yml) /\ Kept(files))
  BY DEF RenamingKey
<1>4. FilesFit(files) /\ yml \in Ymls /\ nav \subseteq Cols /\ stale \in 0..MaxStale
  BY DEF IInv, Steady
<1>5. RenameCollectionInOrder /\ Head(todo).col = c /\ Head(todo).new = new
  BY <1>2, WhichCall DEF KeyCall
<1>6. files' = files /\ nav' = nav /\ hand' = hand
  BY <1>5 DEF RenameCollectionInOrder
<1> DEFINE z == [key |-> new, order |-> yml[new].order]
<1>7. yml' = [yml EXCEPT ![new] = z]
  <2>1. yml[new] \in [key : Cols \cup {Nothing}, order : Orders]
    BY <1>3, <1>4 DEF Ymls, Yml
  <2>2. [yml[new] EXCEPT !.key = new] = z
    BY <2>1
  <2>3. yml' = [yml EXCEPT ![new] = [yml[new] EXCEPT !.key = new]]
    BY <1>3, <1>5 DEF RenameCollectionInOrder
  <2> QED
    BY <2>2, <2>3
<1>8. z \in Yml /\ z # Nothing /\ z.key = new /\ z.order = yml[new].order
  <2>1. yml[new].order \in Orders
    BY <1>3, <1>4, OrderIs
  <2>2. z \in Yml
    BY <2>1 DEF Yml
  <2> QED
    BY <2>2, CollectionsAssumption
<1> HIDE DEF z
<1>9. yml' \in Ymls /\ \A b \in Cols : yml'[b] = IF b = new THEN z ELSE yml[b]
  BY <1>4, <1>7, <1>8 DEF Ymls
<1>10. todo' = <<link>> /\ want' = want /\ stale' = stale
  BY <1>1, <1>2 DEF Goes
<1>11. Steady'
  BY <1>3, <1>4, <1>6, <1>9, <1>10, SteadyEmpty
<1>12. \A b \in Cols : yml'[b] # Nothing <=> yml[b] # Nothing
  BY <1>3, <1>8, <1>9
<1>13. Covered(files', yml')
  <2>1. \A p \in DOMAIN files : p[1] # Unlinked => p[1] \in Cols
    BY <1>4, Triples DEF FilesFit
  <2> QED
    BY <2>1, <1>3, <1>6, <1>12 DEF Covered
<1>14. Linked(yml', nav', c)
  BY <1>3, <1>4, <1>6, <1>12 DEF Linked
<1>15. Keyed(yml', Nothing)
  BY <1>3, <1>8, <1>9 DEF Keyed
<1>16. Exact => Ordered(files', yml') /\ Kept(files')
  <2>1. Nothing \notin Cols
    BY CollectionsAssumption
  <2>2. ASSUME Exact PROVE \A b \in Cols : yml[b] # Nothing => Orderly(yml[b].order, Entries(files, b))
    BY <2>1, <2>2, <1>3 DEF Ordered, OrdersBut
  <2>3. ASSUME Exact PROVE \A b \in Cols : yml'[b] # Nothing => Orderly(yml'[b].order, Entries(files, b))
    <3> SUFFICES ASSUME NEW b \in Cols, yml'[b] # Nothing PROVE Orderly(yml'[b].order, Entries(files, b))
      OBVIOUS
    <3>1. yml[b] # Nothing
      BY <1>12
    <3>2. yml'[b].order = yml[b].order
      BY <1>8, <1>9
    <3> QED
      BY <3>1, <3>2, <2>2, <2>3
  <2> QED
    BY <2>1, <2>3, <1>3, <1>6 DEF Ordered, OrdersBut
<1>17. Linking(c, {new})'
  <2>1. \A d \in {new} : yml'[d] # Nothing
    BY <1>3, <1>12
  <2> QED
    BY <2>1, <1>3, <1>6, <1>10, <1>13, <1>14, <1>15, <1>16 DEF Linking, Exact
<1>18. Underway'
  <2>1. {new} \in SUBSET Cols
    OBVIOUS
  <2> QED
    BY <2>1, <1>17 DEF Underway
<1>19. Unlost(files', hand'.page, want', before.want)
  BY <1>3, <1>6, <1>10, UnlostPlaced
<1> QED
  BY <1>2, <1>10, <1>11, <1>18, <1>19, Onward

\* and the navigation links to the new name.
LEMMA LinkingStep ==
  ASSUME IInv, Calls, NEW c \in Cols, NEW cols \in SUBSET Cols, Linking(c, cols)
  PROVE  IInv'
<1> DEFINE link == NavCall(c, cols)
<1>1. todo # <<>> /\ Goes(Tail(todo))
  BY AnyCall
<1>2. Head(todo) = link /\ Tail(todo) = <<>>
  <2>1. todo = <<link>>
    BY DEF Linking
  <2> HIDE DEF link
  <2> QED
    BY <2>1
<1>3. /\ hand = NoPage /\ Placed(files, want) /\ (\A d \in cols : yml[d] # Nothing)
      /\ Keyed(yml, Nothing) /\ Covered(files, yml) /\ Linked(yml, nav, c)
      /\ (Exact => Ordered(files, yml) /\ Kept(files))
  BY DEF Linking
<1>4. FilesFit(files) /\ yml \in Ymls /\ nav \subseteq Cols /\ stale \in 0..MaxStale
  BY DEF IInv, Steady
<1>5. WriteNav /\ Head(todo).col = c /\ Head(todo).cols = cols
  BY <1>2, WhichCall DEF NavCall
<1>6. /\ files' = files /\ yml' = yml /\ hand' = hand
      /\ nav' = IF c \in nav THEN (nav \ {c}) \cup cols ELSE nav
  BY <1>5 DEF WriteNav
<1>7. todo' = <<>> /\ want' = want /\ stale' = stale
  BY <1>1, <1>2 DEF Goes
<1>8. nav' \subseteq Cols /\ Linked(yml, nav', Nothing)
  <2>1. \A b \in nav' : b \in Cols /\ yml[b] # Nothing
    BY <1>3, <1>4, <1>6 DEF Linked
  <2> QED
    BY <2>1 DEF Linked
<1>9. Steady'
  BY <1>3, <1>4, <1>6, <1>7, <1>8, SteadyEmpty
<1>10. Sound(files', yml', nav', want', stale')
  BY <1>3, <1>4, <1>6, <1>7, <1>8 DEF Sound, Tended, Exact
<1> QED
  BY <1>3, <1>6, <1>7, <1>9, <1>10, Onward

-----------------------------------------------------------------------------
(* The delete of a collection, and of a subfolder                          *)

\* What the delete of a directory changes
LEMMA DirStep ==
  ASSUME Calls, NEW c, NEW s, Head(todo) = [op |-> "deleteDir", col |-> c, sub |-> s]
  PROVE  /\ files' = Less(files, FilesOf(c, s)) /\ nav' = nav /\ hand' = hand
         /\ yml' = IF s = Top THEN [yml EXCEPT ![c] = Nothing] ELSE yml
         /\ s # Top => FilesOf(c, s) # {}
<1>1. DeleteDir /\ Head(todo).col = c /\ Head(todo).sub = s
  BY WhichCall
<1> QED
  BY <1>1 DEF DeleteDir, Less

\* The collection that is deleted goes with its collection.yml, the navigation still links to
\* it.
LEMMA DeletingDirStep ==
  ASSUME IInv, Calls, NEW c \in Cols, DeletingDir(c)
  PROVE  IInv'
<1> DEFINE link == NavCall(c, {})
           call == [op |-> "deleteDir", col |-> c, sub |-> Top]
           gone == FilesOf(c, Top)
<1>1. todo # <<>> /\ Goes(Tail(todo))
  BY AnyCall
<1>2. Head(todo) = call /\ Tail(todo) = <<link>> /\ <<link>> # <<>>
  <2>1. todo = <<call, link>>
    BY DEF DeletingDir
  <2> HIDE DEF call, link
  <2> QED
    BY <2>1
<1>3. files' = Less(files, gone) /\ nav' = nav /\ hand' = hand /\ yml' = [yml EXCEPT ![c] = Nothing]
  BY <1>2, DirStep
<1>4. FilesFit(files) /\ yml \in Ymls /\ nav \subseteq Cols /\ stale \in 0..MaxStale
  BY DEF IInv, Steady
<1>5. /\ hand = NoPage /\ Without({p \in PagePaths : p[1] = c}) /\ Tended(files, yml, nav)
      /\ (Exact => Ordered(files, yml) /\ Kept(files))
  BY DEF DeletingDir, SoundNow
<1>6. gone = {p \in DOMAIN files : p[1] = c}
  BY DEF FilesOf
<1> HIDE DEF gone
<1>7. todo' = <<link>> /\ want' = want /\ stale' = stale
  BY <1>1, <1>2 DEF Goes
<1>8. FilesFit(files')
  BY <1>3, <1>4, LessFits
<1>9. DOMAIN files' = DOMAIN files \ gone /\ \A p \in DOMAIN files' : files'[p] = files[p] /\ p[1] # c
  BY <1>3, <1>6 DEF Less
<1>10. Placed(files', want')
  <2>1. Without(gone)
    <3>1. PagePaths \ gone = PagePaths \ {p \in PagePaths : p[1] = c}
      BY <1>6 DEF PagePaths
    <3> QED
      BY <3>1, <1>5 DEF Without
  <2> QED
    BY <2>1, <1>3, <1>4, <1>7, WithoutFits
<1>11. yml' \in Ymls /\ \A b \in Cols : yml'[b] = IF b = c THEN Nothing ELSE yml[b]
  BY <1>3, <1>4 DEF Ymls
<1>12. Steady'
  BY <1>3, <1>4, <1>5, <1>7, <1>8, <1>11, SteadyEmpty
<1>13. Keyed(yml', Nothing)
  BY <1>5, <1>11 DEF Tended, Keyed
<1>14. Covered(files', yml')
  <2>1. \A p \in DOMAIN files : p[1] # Unlinked => p[1] \in Cols
    BY <1>4, Triples DEF FilesFit
  <2> QED
    BY <2>1, <1>5, <1>9, <1>11 DEF Tended, Covered
<1>15. Linked(yml', nav', c)
  <2>1. \A b \in nav : b \in Cols /\ b # Nothing
    BY <1>4, CollectionsAssumption
  <2> QED
    BY <2>1, <1>3, <1>5, <1>11 DEF Tended, Linked
<1>16. ASSUME Exact PROVE Ordered(files', yml') /\ Kept(files')
  <2>1. Nothing \notin Cols
    BY CollectionsAssumption
  <2>2. \A b \in Cols : yml[b] # Nothing => Orderly(yml[b].order, Entries(files, b))
    BY <2>1, <1>5, <1>16 DEF Ordered, OrdersBut
  <2>3. \A b \in Cols : b # c => Entries(files', b) = Entries(files, b)
    <3> SUFFICES ASSUME NEW b \in Cols, b # c PROVE Entries(files', b) = Entries(files, b)
      OBVIOUS
    <3>1. {q \in DOMAIN files' : q[1] = b} = {q \in DOMAIN files : q[1] = b}
      BY <1>6, <1>9
    <3> QED
      BY <3>1 DEF Entries
  <2>4. \A b \in Cols : yml'[b] # Nothing => Orderly(yml'[b].order, Entries(files', b))
    BY <2>2, <2>3, <1>11
  <2>5. Kept(files')
    <3>1. \A p \in DOMAIN files : p[2] # Top => KeepOf(p) \in DOMAIN files
      BY <1>4, <1>5, <1>16, KeptHere DEF FilesFit
    <3>2. \A p \in DOMAIN files' : p[2] # Top => KeepOf(p) \in DOMAIN files'
      BY <3>1, <1>6, <1>9 DEF KeepOf
    <3> QED
      BY <3>2, <1>8, KeptHere DEF FilesFit
  <2> QED
    BY <2>1, <2>4, <2>5 DEF Ordered, OrdersBut
<1>17. Linking(c, {})'
  BY <1>3, <1>5, <1>7, <1>10, <1>13, <1>14, <1>15, <1>16 DEF Linking, Exact
<1>18. Underway'
  BY <1>17 DEF Underway
<1>19. Unlost(files', hand'.page, want', before.want)
  BY <1>10, UnlostPlaced
<1> QED
  BY <1>2, <1>7, <1>12, <1>18, <1>19, Onward

\* The files of a subfolder go, the order still has them.
LEMMA DeletingFolderStep ==
  ASSUME IInv, Calls, NEW c \in Cols, NEW s \in Subs, DeletingFolder(c, s)
  PROVE  IInv'
<1> DEFINE unlist == [op |-> "deleteFolder", col |-> c, sub |-> s]
           call == [op |-> "deleteDir", col |-> c, sub |-> s]
           gone == FilesOf(c, s)
           L == Range(yml[c].order)
<1>1. todo # <<>> /\ Goes(Tail(todo))
  BY AnyCall
<1>2. Head(todo) = call /\ Tail(todo) = <<unlist>> /\ <<unlist>> # <<>>
  <2>1. todo = <<call, unlist>>
    BY DEF DeletingFolder
  <2> HIDE DEF call, unlist
  <2> QED
    BY <2>1
<1>3. files' = Less(files, gone) /\ nav' = nav /\ hand' = hand /\ yml' = yml /\ gone # {}
  <2>1. s # Top
    BY Places
  <2> QED
    BY <1>2, <2>1, DirStep
<1>4. FilesFit(files) /\ yml \in Ymls /\ nav \subseteq Cols /\ stale \in 0..MaxStale
  BY DEF IInv, Steady
<1>5. /\ hand = NoPage /\ Without(Under(PagePaths, <<c, s>>)) /\ Tended(files, yml, nav)
      /\ (Exact => Ordered(files, yml) /\ Kept(files))
  BY DEF DeletingFolder, SoundNow
<1>6. gone = {p \in DOMAIN files : p[1] = c /\ p[2] = s}
  BY Places DEF FilesOf
<1> HIDE DEF gone
<1>7. todo' = <<unlist>> /\ want' = want /\ stale' = stale
  BY <1>1, <1>2 DEF Goes
<1>8. FilesFit(files')
  BY <1>3, <1>4, LessFits
<1>9. DOMAIN files' = DOMAIN files \ gone
  BY <1>3 DEF Less
<1>10. Placed(files', want')
  <2>1. Without(gone)
    <3>1. PagePaths \ gone = PagePaths \ Under(PagePaths, <<c, s>>)
      BY <1>6 DEF PagePaths, Under
    <3> QED
      BY <3>1, <1>5 DEF Without
  <2> QED
    BY <2>1, <1>3, <1>4, <1>7, WithoutFits
<1>11. yml[c] # Nothing
  <2>1. PICK p \in DOMAIN files : p[1] = c
    BY <1>3, <1>6
  <2> QED
    BY <2>1, <1>5, Places DEF Tended, Covered
<1>12. Steady'
  BY <1>3, <1>4, <1>5, <1>7, <1>8, SteadyEmpty
<1>13. Tended(files', yml', nav')
  BY <1>3, <1>5, CoveredFits DEF Tended
<1>14. ASSUME Exact
       PROVE  /\ OrdersBut(files', yml', c, L) /\ {x \in L : x[1] # s} = Entries(files', c) /\ Kept(files')
  <2>1. OrdersBut(files, yml, c, Entries(files, c))
    BY <1>5, <1>14, OrdersOf
  <2>2. L = Entries(files, c)
    BY <2>1, <1>4, <1>11, OrderIs
  <2> HIDE DEF L
  <2>3. \A b \in Cols : b # c => Entries(files', b) = Entries(files, b)
    <3> SUFFICES ASSUME NEW b \in Cols, b # c PROVE Entries(files', b) = Entries(files, b)
      OBVIOUS
    <3>1. {q \in DOMAIN files' : q[1] = b} = {q \in DOMAIN files : q[1] = b}
      BY <1>6, <1>9
    <3> QED
      BY <3>1 DEF Entries
  <2>4. OrdersBut(files', yml', c, L)
    BY <2>1, <2>2, <2>3, <1>3, OrdersFiles
  <2>5. {x \in L : x[1] # s} = Entries(files', c)
    <3>1. DOMAIN files \subseteq Paths /\ DOMAIN files' \subseteq Paths
      BY <1>4, <1>8 DEF FilesFit
    <3>2. ASSUME NEW x \in L, x[1] # s PROVE x \in Entries(files', c)
      <4>1. x = <<x[1], x[2]>> /\ <<c, x[1], x[2]>> \in DOMAIN files
        BY <2>2, <3>1, EntriesAre
      <4>2. <<c, x[1], x[2]>> \in DOMAIN files'
        BY <3>2, <4>1, <1>6, <1>9
      <4> QED
        BY <4>1, <4>2, <3>1, EntriesAre
    <3>3. ASSUME NEW x \in Entries(files', c) PROVE x \in L /\ x[1] # s
      <4>1. x = <<x[1], x[2]>> /\ <<c, x[1], x[2]>> \in DOMAIN files'
        BY <3>1, EntriesAre
      <4>2. <<c, x[1], x[2]>> \in DOMAIN files /\ <<c, x[1], x[2]>> \notin gone
        BY <4>1, <1>9
      <4>3. x[1] # s
        BY <4>2, <1>6
      <4> QED
        BY <2>2, <3>1, <4>1, <4>2, <4>3, EntriesAre
    <3> QED
      BY <3>2, <3>3
  <2>6. Kept(files')
    <3>1. \A p \in DOMAIN files : p[2] # Top => KeepOf(p) \in DOMAIN files
      BY <1>4, <1>5, <1>14, KeptHere DEF FilesFit
    <3>2. \A p \in DOMAIN files' : p[2] # Top => KeepOf(p) \in DOMAIN files'
      BY <3>1, <1>6, <1>9 DEF KeepOf
    <3> QED
      BY <3>2, <1>8, KeptHere DEF FilesFit
  <2> QED
    BY <2>4, <2>5, <2>6
<1>15. Unlisting(c, s)'
  BY <1>3, <1>5, <1>7, <1>10, <1>11, <1>13, <1>14 DEF Unlisting, Exact
<1>16. Underway'
  BY <1>15 DEF Underway
<1>17. Unlost(files', hand'.page, want', before.want)
  BY <1>10, UnlostPlaced
<1> QED
  BY <1>2, <1>7, <1>12, <1>16, <1>17, Onward

\* The order follows: only the deleted folder's entries were too many.
LEMMA UnlistingStep ==
  ASSUME IInv, Calls, NEW c \in Cols, NEW s \in Subs, Unlisting(c, s)
  PROVE  IInv'
<1> DEFINE call == [op |-> "deleteFolder", col |-> c, sub |-> s]
           L == Range(yml[c].order)
<1>1. todo # <<>> /\ Goes(Tail(todo))
  BY AnyCall
<1>2. Head(todo) = call /\ Tail(todo) = <<>>
  <2>1. todo = <<call>>
    BY DEF Unlisting
  <2> HIDE DEF call
  <2> QED
    BY <2>1
<1>3. /\ hand = NoPage /\ Placed(files, want) /\ Tended(files, yml, nav)
      /\ Exact => /\ OrdersBut(files, yml, c, L) /\ {x \in L : x[1] # s} = Entries(files, c)
                  /\ Kept(files)
  BY DEF Unlisting
<1>4. Orders1(c, WithoutFolder(yml[c].order, s))
  BY <1>2, UnlistStep
<1>5. yml[c] # Nothing => WithoutFolder(yml[c].order, s) \in Orders
  BY OrderIn, OutOfFits DEF WithoutFolder
<1> HIDE DEF L
<1>6. /\ Steady' /\ Tended(files', yml', nav')
      /\ files' = files /\ nav' = nav /\ hand' = hand /\ stale' = stale
      /\ yml' = Reordered(yml, c, WithoutFolder(yml[c].order, s)) /\ yml[c] # Nothing
  BY <1>3, <1>4, <1>5, OrderCall
<1>7. ASSUME Exact PROVE Ordered(files', yml') /\ Kept(files')
  <2>1. Lists1(files, yml, c, L)
    BY <1>3, <1>6, <1>7 DEF Lists1, IInv, Steady
  <2>2. Tails = {}
    BY <1>7 DEF Exact, Exactly
  <2>3. OrdersBut(files, yml', c, {x \in L : x[1] # s})
    BY <2>1, <2>2, <1>6, ExactOut
  <2>4. Ordered(files, yml')
    BY <2>3, <1>3, <1>7, OrdersOf
  <2> QED
    BY <2>4, <1>3, <1>6, <1>7
<1>8. todo' = <<>> /\ want' = want
  BY <1>1, <1>2 DEF Goes
<1>9. Sound(files', yml', nav', want', stale')
  BY <1>3, <1>6, <1>7, <1>8 DEF Sound, Steady, Exact
<1> QED
  BY <1>3, <1>6, <1>8, <1>9, Onward

-----------------------------------------------------------------------------
(* The rename of a subfolder                                               *)

\* What is left of a chain that renames a subfolder
LEMMA RefilesOn ==
  ASSUME NEW c \in Cols, NEW s \in Subs, NEW new \in Subs, NEW names \in FileLists
  PROVE  LET last == <<ListCall(c, s, new)>>
             all == Refiles(c, s, new, names) \o last
             rest == Tail(names)
             n == Head(names)
             put == <<PutCall(<<c, new>>, n, new)>>
             on == Refiles(c, s, new, rest) \o last
             mid == put \o Refiles(c, s, new, rest) \o last
         IN  /\ all \in Seq(Chain) /\ all # <<>>
             /\ names = <<>> => all = last
             /\ names # <<>> /\ n = Keep => /\ all = <<DropCall(<<c, s, Keep>>)>> \o on
                                            /\ on \in Seq(Chain)
             /\ names # <<>> /\ n # Keep => /\ all = <<TakeCall(<<c, s>>, n)>> \o mid
                                            /\ mid = put \o on
                                            /\ mid \in Seq(Chain) /\ mid # <<>> /\ on \in Seq(Chain)
<1> DEFINE last == <<ListCall(c, s, new)>>
           front == Refiles(c, s, new, names)
           rest == Tail(names)
           n == Head(names)
           put == <<PutCall(<<c, new>>, n, new)>>
           take == <<TakeCall(<<c, s>>, n)>>
           drop == <<DropCall(<<c, s, Keep>>)>>
           back == Refiles(c, s, new, rest)
<1>1. front \in Seq(Chain) /\ (names = <<>> => front = <<>>)
      /\ (names # <<>> => /\ n \in Names \cup {Keep} /\ rest \in FileLists
                          /\ front = Refile(c, s, new, n) \o back)
  BY RefilesFirst
<1>2. last \in Seq(Chain)
  <2>1. ListCall(c, s, new) \in Chain
    BY DEF Chain
  <2> QED
    BY <2>1, ChainJoin
<1>3. last # <<>> /\ \A u \in Seq(Chain) : u \o last # <<>>
  <2>1. Len(last) = 1
    OBVIOUS
  <2>2. \A u \in Seq(Chain) : u \o last # <<>>
    <3> HIDE DEF last
    <3>1. \A u \in Seq(Chain) : Len(u \o last) = Len(u) + 1 /\ Len(u) \in Nat
      BY <1>2, <2>1, ConcatProperties
    <3> QED
      BY <3>1
  <2> QED
    BY <2>1, <2>2
<1>4. names # <<>> => back \in Seq(Chain)
  BY <1>1, RefilesFirst
<1>5. drop \in Seq(Chain)
  <2>1. DropCall(<<c, s, Keep>>) \in Chain
    BY DEF Chain
  <2> QED
    BY <2>1, ChainJoin
<1>6. names # <<>> /\ n # Keep => take \in Seq(Chain) /\ put \in Seq(Chain)
  <2>1. <<c, s>> \in Locations /\ <<c, new>> \in Locations /\ new \in Folders
    BY Places DEF Folders
  <2> QED
    BY <1>1, <2>1, PageCalls, ChainJoin
<1>7. n = Keep => Refile(c, s, new, n) = drop
  BY DEF Refile, DropCall
<1>8. n # Keep => Refile(c, s, new, n) = take \o put
  <2>1. n # Keep => Refile(c, s, new, n) = <<TakeCall(<<c, s>>, n), PutCall(<<c, new>>, n, new)>>
    BY DEF Refile, TakeCall, PutCall, PathIn
  <2>2. \A u, v : <<u>> \o <<v>> = <<u, v>>
    <3> SUFFICES ASSUME NEW u, NEW v PROVE <<u>> \o <<v>> = <<u, v>>
      OBVIOUS
    <3>1. <<u>> \in Seq({u, v}) /\ <<v>> \in Seq({u, v}) /\ <<u, v>> \in Seq({u, v})
      OBVIOUS
    <3>2. <<u>> \o <<v>> \in Seq({u, v})
      BY <3>1, ConcatProperties
    <3>3. Len(<<u>> \o <<v>>) = 2 /\ (<<u>> \o <<v>>)[1] = u /\ (<<u>> \o <<v>>)[2] = v
      BY <3>1
    <3>4. Len(<<u, v>>) = 2 /\ \A i \in 1..2 : i = 1 \/ i = 2
      OBVIOUS
    <3>5. \A i \in 1..2 : (<<u>> \o <<v>>)[i] = <<u, v>>[i]
      BY <3>3, <3>4
    <3> QED
      BY <3>1, <3>2, <3>3, <3>4, <3>5, SeqEqual
  <2> QED
    BY <2>1, <2>2
<1> HIDE DEF last, front, rest, n, put, take, drop, back
<1>9. front \o last \in Seq(Chain) /\ front \o last # <<>> /\ (names = <<>> => front \o last = last)
  BY <1>1, <1>2, <1>3, ChainJoin
<1>10. names # <<>> => back \o last \in Seq(Chain)
  BY <1>2, <1>4, ChainJoin
<1>11. names # <<>> /\ n = Keep => front \o last = drop \o (back \o last)
  <2> SUFFICES ASSUME names # <<>>, n = Keep PROVE front \o last = drop \o (back \o last)
    OBVIOUS
  <2>1. front = drop \o back
    BY <1>1, <1>7
  <2>2. drop \in Seq(Chain) /\ back \in Seq(Chain)
    BY <1>4, <1>5
  <2> QED
    BY <2>1, <2>2, <1>2, ChainJoin
<1>12. ASSUME names # <<>>, n # Keep
       PROVE  /\ front \o last = take \o ((put \o back) \o last)
              /\ (put \o back) \o last = put \o (back \o last)
              /\ (put \o back) \o last \in Seq(Chain) /\ (put \o back) \o last # <<>>
  <2>1. front = (take \o put) \o back
    BY <1>1, <1>8, <1>12
  <2>2. put \in Seq(Chain) /\ take \in Seq(Chain) /\ back \in Seq(Chain) /\ put \o back \in Seq(Chain)
    BY <1>4, <1>6, <1>12, ChainJoin
  <2>3. front = take \o (put \o back)
    BY <2>1, <2>2, ChainJoin
  <2>4. front \o last = take \o ((put \o back) \o last)
    BY <2>2, <2>3, <1>2, ChainJoin
  <2>5. (put \o back) \o last \in Seq(Chain) /\ (put \o back) \o last # <<>>
        /\ (put \o back) \o last = put \o (back \o last)
    BY <2>2, <1>2, <1>3, ChainJoin
  <2> QED
    BY <2>4, <2>5
<1> QED
  BY <1>9, <1>10, <1>11, <1>12 DEF last, front, rest, n, put, take, drop, back

\* The names of the files of a folder
LEMMA NamesAre ==
  ASSUME NEW fs, DOMAIN fs \subseteq Paths, NEW c, NEW s, NEW n
  PROVE  n \in NamesOf(fs, c, s) <=> <<c, s, n>> \in DOMAIN fs
<1>1. \A p \in DOMAIN fs : p = <<p[1], p[2], p[3]>>
  BY Triples
<1> QED
  BY <1>1 DEF NamesOf, Under

\* The new folder gets its .keep, the order still has the old name.
LEMMA NewNameStep ==
  ASSUME IInv, Calls, NEW c \in Cols, NEW s \in Subs, NEW new \in Subs, NEW names \in FileLists,
         NewName(c, s, new, names)
  PROVE  IInv'
<1> DEFINE path == <<c, new, Keep>>
           r == Refiles(c, s, new, names) \o <<ListCall(c, s, new)>>
           keep == [op |-> "keep", path |-> path]
           to == Shift(<<c, s>>, <<c, new>>, Range(names) \ {Keep})
           L == Range(yml[c].order)
<1>1. todo # <<>> /\ Goes(Tail(todo))
  BY AnyCall
<1>2. r \in Seq(Chain) /\ r # <<>>
  BY RefilesOn
<1>3. Head(todo) = keep /\ Tail(todo) = r
  <2>1. todo = (<<keep>> \o Refiles(c, s, new, names)) \o <<ListCall(c, s, new)>>
    BY DEF NewName
  <2>2. todo = <<keep>> \o r
    <3> DEFINE S == Chain \cup {keep}
               u == Refiles(c, s, new, names)
               v == <<ListCall(c, s, new)>>
    <3>1. u \in Seq(S)
      <4>1. u \in Seq(Chain)
        BY RefilesFirst
      <4> HIDE DEF u, keep
      <4> QED
        BY <4>1
    <3>2. <<keep>> \in Seq(S)
      <4> HIDE DEF keep
      <4> QED
        OBVIOUS
    <3>3. v \in Seq(S)
      <4>1. ListCall(c, s, new) \in Chain
        BY DEF Chain
      <4> HIDE DEF keep
      <4> QED
        BY <4>1
    <3> HIDE DEF u, v, S, keep
    <3>4. (<<keep>> \o u) \o v = <<keep>> \o (u \o v)
      BY <3>1, <3>2, <3>3, ConcatAssociative
    <3> QED
      BY <2>1, <3>4 DEF u, v
  <2> HIDE DEF r, keep
  <2> QED
    BY <1>2, <2>2, First
<1>4. path \notin DOMAIN files /\ hand' = hand /\ files' = With(files, path, KeepFile) /\ Still
  BY <1>3, KeepStep
<1>5. /\ FilesFit(files) /\ yml \in Ymls /\ nav \subseteq Cols /\ stale \in 0..MaxStale
      /\ DOMAIN files \subseteq Paths
  BY DEF IInv, Steady, FilesFit
<1>6. /\ hand = NoPage /\ Heading(to, {}) /\ yml[c] # Nothing /\ names # <<>>
      /\ Tended(files, yml, nav) /\ (Exact => Ordered(files, yml) /\ Kept(files))
      /\ NamesOf(files, c, s) = Range(names)
  BY DEF NewName, SoundNow
<1>7. path \in Paths /\ ~IsPage(path) /\ path[1] = c /\ path[2] = new /\ path[3] = Keep
  BY Triples DEF IsPage
<1>8. path \in DOMAIN files' /\ DOMAIN files' = DOMAIN files \cup {path}
      /\ \A p \in DOMAIN files : files'[p] = files[p]
  BY <1>4 DEF With
<1>9. \A b : Entries(files', b) = IF b = c THEN Entries(files, b) \cup {<<new, Keep>>} ELSE Entries(files, b)
  <2> HIDE DEF path
  <2>1. FilesFit(files) /\ files' = With(files, path, KeepFile)
    BY <1>4, <1>5
  <2> QED
    BY <2>1, <1>7, EntriesWith
<1> HIDE DEF path
<1>10. FilesFit(files') /\ PagesOf(files') = PagesOf(files)
  <2>1. FilesFit(files)
    BY <1>5
  <2>2. FilesFit(With(files, path, KeepFile)) /\ PagesOf(With(files, path, KeepFile)) = PagesOf(files)
    BY <2>1, <1>4, <1>7, KeepFits
  <2> QED
    BY <1>4, <2>2
<1>11. \A p \in PagesOf(files) : files'[p] = files[p]
  BY <1>8 DEF PagesOf
<1>12. todo' = r /\ want' = want /\ stale' = stale
  BY <1>1, <1>3 DEF Goes
<1>13. Steady'
  BY <1>4, <1>5, <1>6, <1>10, <1>12, SteadyEmpty DEF Still
<1>14. Heading(to, {})'
  <2>1. Leads(files, want, hand.page, to, {})
    BY <1>6 DEF Heading
  <2> HIDE DEF to
  <2>2. Leads(files', want, hand.page, to, {})
    BY <2>1, <1>10, <1>11, LeadsSame
  <2>3. Leads(files', want', hand'.page, to, {})
    BY <2>2, <1>4, <1>12
  <2> QED
    BY <2>3 DEF Heading, to
<1>15. Tended(files', yml', nav')
  <2>1. Covered(With(files, path, KeepFile), yml)
    BY <1>6, <1>7, CoveredFits DEF Tended
  <2> QED
    BY <2>1, <1>4, <1>6 DEF Tended, Still
<1>16. ASSUME Exact
       PROVE  /\ s # new /\ OrdersBut(files', yml, c, L)
              /\ \A x \in L : x[1] # new
              /\ {InNew(s, new, x) : x \in L} = {InNew(s, new, x) : x \in Entries(files', c)} \cup {}
              /\ NamesOf(files', c, s) = Range(names)
              /\ KeptBut(files', c, s) /\ <<c, new, Keep>> \in DOMAIN files'
  <2>1. OrdersBut(files, yml, c, Entries(files, c))
    BY <1>6, <1>16, OrdersOf
  <2>2. L = Entries(files, c)
    BY <2>1, <1>5, <1>6, OrderIs
  <2> HIDE DEF L
  <2>3. Kept(files) /\ \A p \in DOMAIN files : p[2] # Top => KeepOf(p) \in DOMAIN files
    BY <1>5, <1>6, <1>16, KeptHere
  <2>4. <<c, s, Keep>> \in DOMAIN files
    <3>1. \E n : n \in NamesOf(files, c, s)
      <4>1. Head(names) \in Range(names)
        BY <1>6, RefilesFirst
      <4> QED
        BY <4>1, <1>6
    <3>2. PICK n : <<c, s, n>> \in DOMAIN files
      BY <3>1, <1>5, NamesAre
    <3>3. s # Top /\ KeepOf(<<c, s, n>>) = <<c, s, Keep>> /\ <<c, s, n>>[2] = s
      BY Places DEF KeepOf
    <3> QED
      BY <2>3, <3>2, <3>3
  <2>5. s # new
    BY <2>4, <1>4 DEF path
  <2>6. \A x \in L : x[1] # new
    <3> SUFFICES ASSUME NEW x \in L, x[1] = new PROVE FALSE
      OBVIOUS
    <3>1. <<c, new, x[2]>> \in DOMAIN files
      BY <2>2, <1>5, EntriesAre
    <3>2. new # Top /\ KeepOf(<<c, new, x[2]>>) = path /\ <<c, new, x[2]>>[2] = new
      BY Places DEF KeepOf, path
    <3> QED
      BY <2>3, <3>1, <3>2, <1>4
  <2>7. OrdersBut(files', yml, c, L)
    BY <2>1, <2>2, <1>9, OrdersFiles
  <2>8. {InNew(s, new, x) : x \in L} = {InNew(s, new, x) : x \in Entries(files', c)} \cup {}
    <3>1. <<s, Keep>> \in L
      BY <2>2, <2>4, <1>5, EntriesAre
    <3>2. <<new, Keep>> \in {InNew(s, new, x) : x \in L}
      <4>1. InNew(s, new, <<s, Keep>>) = <<new, Keep>>
        BY DEF InNew
      <4> QED
        BY <3>1, <4>1
    <3>3. Entries(files', c) = L \cup {<<new, Keep>>}
      BY <2>2, <1>9
    <3>4. {InNew(s, new, x) : x \in L \cup {<<new, Keep>>}} = {InNew(s, new, x) : x \in L} \cup {<<new, Keep>>}
      <4>1. InNew(s, new, <<new, Keep>>) = <<new, Keep>>
        BY DEF InNew
      <4> QED
        BY <4>1
    <3> QED
      BY <3>2, <3>3, <3>4
  <2>9. NamesOf(files', c, s) = Range(names)
    <3>1. DOMAIN files' \subseteq Paths
      BY <1>10 DEF FilesFit
    <3>2. \A n : <<c, s, n>> # path
      BY <2>5 DEF path
    <3>3. \A n : n \in NamesOf(files', c, s) <=> n \in NamesOf(files, c, s)
      BY <3>1, <3>2, <1>5, <1>8, NamesAre
    <3> QED
      BY <3>3, <1>6 DEF NamesOf
  <2>10. KeptBut(files', c, s)
    <3>1. KeptBut(files, c, s)
      BY <2>3, <1>5, KeptHere
    <3>2. FilesFit(files)
      BY <1>5
    <3>3. KeptBut(With(files, path, KeepFile), c, s)
      BY <3>1, <3>2, <1>7, KeptWith
    <3> QED
      BY <3>3, <1>4
  <2> QED
    BY <2>5, <2>6, <2>7, <2>8, <2>9, <2>10, <1>8 DEF path
<1>17. Listed(c, s, new, Range(names), {})'
  <2>1. yml' = yml /\ (Exact' <=> Exact)
    BY <1>4, <1>12 DEF Still, Exact
  <2> QED
    BY <2>1, <1>6, <1>15, <1>16 DEF Listed
<1>18. Refiling(c, s, new, names)'
  BY <1>4, <1>6, <1>12, <1>14, <1>17 DEF Refiling
<1>19. Underway'
  BY <1>18 DEF Underway
<1>20. Unlost(files', hand'.page, want', before.want)
  <2>1. Unlost(files, hand.page, want, before.want)
    BY <1>1, NothingLost DEF Idle
  <2>2. Unlost(files', hand.page, want, before.want)
    BY <2>1, <1>10, <1>11, UnlostSame
  <2> QED
    BY <2>2, <1>4, <1>12
<1> QED
  BY <1>2, <1>12, <1>13, <1>19, <1>20, Onward

\* The page in hand is put into the new folder.
LEMMA ReputtingStep ==
  ASSUME IInv, Calls, NEW c \in Cols, NEW s \in Subs, NEW new \in Subs, NEW n \in Names, NEW rest \in FileLists,
         Reputting(c, s, new, n, rest)
  PROVE  IInv'
<1> DEFINE path == <<c, new, n>>
           r == Refiles(c, s, new, rest) \o <<ListCall(c, s, new)>>
           put == [op |-> "put", path |-> path, third |-> new]
           to == Shift(<<c, s>>, <<c, new>>, Range(rest) \ {Keep})
           f == [page |-> hand.page, third |-> IF new = Nothing THEN hand.third ELSE new]
           L == Range(yml[c].order)
<1>1. todo # <<>> /\ Goes(Tail(todo))
  BY AnyCall
<1>2. r \in Seq(Chain) /\ r # <<>>
  BY RefilesOn
<1>3. Head(todo) = put /\ Tail(todo) = r
  <2>1. todo = (<<put>> \o Refiles(c, s, new, rest)) \o <<ListCall(c, s, new)>>
    BY DEF Reputting, PutCall, PathIn
  <2>2. todo = <<put>> \o r
    <3> DEFINE u == Refiles(c, s, new, rest)
               v == <<ListCall(c, s, new)>>
    <3>1. u \in Seq(Chain)
      BY RefilesFirst
    <3>2. <<put>> \in Seq(Chain)
      <4>1. put = PutCall(<<c, new>>, n, new)
        BY DEF PutCall, PathIn
      <4>2. <<c, new>> \in Locations /\ new \in Folders
        BY Places DEF Folders
      <4>3. put \in Chain
        BY <4>1, <4>2, PageCalls
      <4> QED
        BY <4>3, ChainJoin
    <3>3. v \in Seq(Chain)
      <4>1. ListCall(c, s, new) \in Chain
        BY DEF Chain
      <4> QED
        BY <4>1, ChainJoin
    <3> HIDE DEF u, v, put
    <3>4. (<<put>> \o u) \o v = <<put>> \o (u \o v)
      BY <3>1, <3>2, <3>3, ChainJoin
    <3> QED
      BY <2>1, <3>4 DEF u, v
  <2> HIDE DEF r, put
  <2> QED
    BY <1>2, <2>2, First
<1>4. /\ FilesFit(files) /\ yml \in Ymls /\ nav \subseteq Cols /\ stale \in 0..MaxStale
      /\ DOMAIN files \subseteq Paths /\ hand \in [page : Pages \cup {Nothing}, third : Folders]
      /\ \A p \in PagesOf(files) : files[p].page # hand.page
  BY DEF IInv, Steady, FilesFit, PagePaths, PagesOf
<1>5. path \notin DOMAIN files /\ hand' = NoPage /\ Still /\ files' = With(files, path, f)
  <2> HIDE DEF path
  <2> QED
    BY <1>3, <1>4, PutStep
<1>6. hand.page # Nothing /\ n \notin Range(rest) /\ Heading(to, {path}) /\ Listed(c, s, new, Range(rest), {<<new, n>>})
  BY DEF Reputting
<1>7. path \in Paths /\ IsPage(path) /\ path[1] = c /\ path[2] = new /\ path[3] = n
      /\ KeepOf(path) = <<c, new, Keep>>
  BY Triples, Places DEF IsPage, KeepOf
<1>8. f \in Held /\ f.page \in Pages /\ f.page = hand.page /\ f.third = path[2]
  <2>1. hand.page \in Pages /\ new # Nothing /\ new \in Folders
    BY <1>4, <1>6, CollectionsAssumption DEF Folders
  <2> QED
    BY <2>1, <1>7 DEF Held
<1>9. path \in DOMAIN files' /\ DOMAIN files' = DOMAIN files \cup {path}
      /\ \A p \in DOMAIN files : files'[p] = files[p]
  BY <1>5 DEF With
<1>10. \A b : Entries(files', b) = IF b = c THEN Entries(files, b) \cup {<<new, n>>} ELSE Entries(files, b)
  <2> HIDE DEF path, f
  <2>1. FilesFit(files) /\ files' = With(files, path, f)
    BY <1>4, <1>5
  <2> QED
    BY <2>1, <1>7, EntriesWith
<1> HIDE DEF f, path
<1>11. FilesFit(files') /\ PagesOf(files') = PagesOf(files) \cup {path}
  <2>1. \A p \in PagesOf(files) : files[p].page # f.page
    BY <1>4, <1>8
  <2>2. FilesFit(files)
    BY <1>4
  <2>3. FilesFit(With(files, path, f)) /\ PagesOf(With(files, path, f)) = PagesOf(files) \cup {path}
    BY <1>5, <1>7, <1>8, <2>1, <2>2, PutFits
  <2> QED
    BY <1>5, <2>3
<1>12. todo' = r /\ want' = want /\ stale' = stale
  BY <1>1, <1>3 DEF Goes
<1>13. Steady'
  BY <1>4, <1>5, <1>11, <1>12, SteadyEmpty DEF Still
<1>14. Heading(to, {})'
  <2>1. Leads(files, want, f.page, to, {path})
    BY <1>6, <1>8 DEF Heading
  <2>2. path \notin DOMAIN to
    <3>1. \A p \in DOMAIN to : p[3] \in Range(rest)
      BY DEF Shift, PathIn
    <3> QED
      BY <3>1, <1>6, <1>7
  <2> HIDE DEF to
  <2>3. Leads(With(files, path, f), want, hand'.page, to, {})
    BY <2>1, <2>2, <1>5, <1>7, LeadsPut
  <2>4. Leads(files', want', hand'.page, to, {})
    BY <2>3, <1>5, <1>12
  <2> QED
    BY <2>4 DEF Heading, to
<1>15. Tended(files', yml', nav') /\ yml[c] # Nothing
  <2>1. Tended(files, yml, nav) /\ yml[c] # Nothing
    BY <1>6 DEF Listed
  <2>2. Covered(With(files, path, f), yml)
    BY <2>1, <1>7, CoveredFits DEF Tended
  <2> QED
    BY <2>1, <2>2, <1>5 DEF Tended, Still
<1>16. ASSUME Exact
       PROVE  /\ s # new /\ OrdersBut(files', yml, c, L)
              /\ \A x \in L : x[1] # new
              /\ {InNew(s, new, x) : x \in L} = {InNew(s, new, x) : x \in Entries(files', c)} \cup {}
              /\ NamesOf(files', c, s) = Range(rest)
              /\ KeptBut(files', c, s) /\ <<c, new, Keep>> \in DOMAIN files'
  <2>1. /\ s # new /\ OrdersBut(files, yml, c, L) /\ \A x \in L : x[1] # new
        /\ {InNew(s, new, x) : x \in L} = {InNew(s, new, x) : x \in Entries(files, c)} \cup {<<new, n>>}
        /\ NamesOf(files, c, s) = Range(rest)
        /\ KeptBut(files, c, s) /\ <<c, new, Keep>> \in DOMAIN files
    BY <1>6, <1>16 DEF Listed
  <2> HIDE DEF L
  <2>2. OrdersBut(files', yml, c, L)
    BY <2>1, <1>10, OrdersFiles
  <2>3. {InNew(s, new, x) : x \in L} = {InNew(s, new, x) : x \in Entries(files', c)} \cup {}
    <3>1. Entries(files', c) = Entries(files, c) \cup {<<new, n>>}
      BY <1>10
    <3>2. {InNew(s, new, x) : x \in Entries(files, c) \cup {<<new, n>>}}
          = {InNew(s, new, x) : x \in Entries(files, c)} \cup {<<new, n>>}
      <4>1. InNew(s, new, <<new, n>>) = <<new, n>>
        BY DEF InNew
      <4> QED
        BY <4>1
    <3> QED
      BY <2>1, <3>1, <3>2
  <2>4. NamesOf(files', c, s) = Range(rest)
    <3>1. DOMAIN files' \subseteq Paths
      BY <1>11 DEF FilesFit
    <3>2. \A m : <<c, s, m>> # path
      BY <2>1 DEF path
    <3>3. \A m : m \in NamesOf(files', c, s) <=> m \in NamesOf(files, c, s)
      BY <3>1, <3>2, <1>4, <1>9, NamesAre
    <3> QED
      BY <3>3, <2>1 DEF NamesOf
  <2>5. KeptBut(files', c, s)
    <3>1. FilesFit(files) /\ KeptBut(files, c, s) /\ KeepOf(path) \in DOMAIN files
      BY <2>1, <1>4, <1>7
    <3>2. KeptBut(With(files, path, f), c, s)
      BY <3>1, <1>7, KeptWith
    <3> QED
      BY <3>2, <1>5
  <2> QED
    BY <2>1, <2>2, <2>3, <2>4, <2>5, <1>9
<1>17. Listed(c, s, new, Range(rest), {})'
  <2>1. yml' = yml /\ (Exact' <=> Exact)
    BY <1>5, <1>12 DEF Still, Exact
  <2> QED
    BY <2>1, <1>15, <1>16 DEF Listed
<1>18. Refiling(c, s, new, rest)'
  BY <1>5, <1>12, <1>14, <1>17 DEF Refiling
<1>19. Underway'
  BY <1>18 DEF Underway
<1>20. Unlost(files', hand'.page, want', before.want)
  <2>1. Unlost(files, f.page, want, before.want)
    BY <1>1, <1>8, NothingLost DEF Idle
  <2>2. Unlost(With(files, path, f), hand'.page, want, before.want)
    BY <2>1, <1>5, <1>7, UnlostPut
  <2> QED
    BY <2>2, <1>5, <1>12
<1> QED
  BY <1>2, <1>12, <1>13, <1>19, <1>20, Onward

\* The file .keep of the old folder is dropped.
LEMMA RefilingKeep ==
  ASSUME IInv, Calls, NEW c \in Cols, NEW s \in Subs, NEW new \in Subs, NEW names \in FileLists,
         Refiling(c, s, new, names), names # <<>>, Head(names) = Keep
  PROVE  IInv'
<1> DEFINE path == <<c, s, Keep>>
           rest == Tail(names)
           r == Refiles(c, s, new, rest) \o <<ListCall(c, s, new)>>
           to == Shift(<<c, s>>, <<c, new>>, Range(names) \ {Keep})
           L == Range(yml[c].order)
<1>1. todo # <<>> /\ Goes(Tail(todo))
  BY AnyCall
<1>2. Head(todo) = [op |-> "drop", path |-> path] /\ Tail(todo) = r
  <2>1. todo = <<DropCall(path)>> \o r /\ r \in Seq(Chain)
    BY RefilesOn DEF Refiling
  <2> HIDE DEF r, path
  <2> QED
    BY <2>1, First DEF DropCall
<1>3. path \in DOMAIN files /\ hand' = hand /\ files' = Less(files, {path}) /\ Still
  BY <1>2, DropStep
<1>4. rest \in FileLists /\ Keep \notin Range(rest) /\ Range(names) = Range(rest) \cup {Keep} /\ r # <<>>
  <2>1. rest \in FileLists /\ Keep \notin Range(rest) /\ Range(names) = Range(rest) \cup {Keep}
    BY RefilesFirst
  <2> QED
    BY <2>1, RefilesOn
<1>5. /\ FilesFit(files) /\ yml \in Ymls /\ nav \subseteq Cols /\ stale \in 0..MaxStale
      /\ DOMAIN files \subseteq Paths
  BY DEF IInv, Steady, FilesFit
<1>6. hand = NoPage /\ Heading(to, {}) /\ Listed(c, s, new, Range(names), {})
  BY DEF Refiling
<1>7. path \in Paths /\ ~IsPage(path) /\ path[1] = c /\ path[2] = s /\ path[3] = Keep
  BY Triples DEF IsPage
<1>8. \A b : Entries(files', b) = IF b = c THEN Entries(files, b) \ {<<s, Keep>>} ELSE Entries(files, b)
  <2> HIDE DEF path
  <2>1. FilesFit(files) /\ files' = Less(files, {path}) /\ <<path[2], path[3]>> = <<s, Keep>>
    BY <1>3, <1>5, <1>7
  <2>2. \A b : Entries(Less(files, {path}), b) =
                 IF b = path[1] THEN Entries(files, b) \ {<<path[2], path[3]>>} ELSE Entries(files, b)
    BY <2>1, <1>7, EntriesLess
  <2> QED
    BY <2>1, <2>2, <1>7
<1> HIDE DEF path
<1>9. /\ FilesFit(files') /\ PagesOf(files') = PagesOf(files)
      /\ DOMAIN files' = DOMAIN files \ {path} /\ \A p \in DOMAIN files \ {path} : files'[p] = files[p]
  <2> DEFINE gs == Less(files, {path})
  <2>1. /\ FilesFit(gs) /\ PagesOf(gs) = PagesOf(files) \ {path}
        /\ DOMAIN gs = DOMAIN files \ {path} /\ \A p \in DOMAIN files \ {path} : gs[p] = files[p]
    <3>1. FilesFit(files)
      BY <1>5
    <3> QED
      BY <3>1, LessFits
  <2>2. gs = files'
    BY <1>3
  <2>3. path \notin PagesOf(files)
    BY <1>7 DEF PagesOf
  <2> HIDE DEF gs
  <2> QED
    BY <2>1, <2>2, <2>3
<1>10. \A p \in PagesOf(files) : files'[p] = files[p]
  <2>1. \A p \in PagesOf(files) : p \in DOMAIN files \ {path}
    BY <1>7 DEF PagesOf
  <2> QED
    BY <2>1, <1>9
<1>11. todo' = r /\ want' = want /\ stale' = stale
  BY <1>1, <1>2 DEF Goes
<1>12. Steady'
  BY <1>3, <1>5, <1>6, <1>9, <1>11, SteadyEmpty DEF Still
<1>13. Range(names) \ {Keep} = Range(rest) \ {Keep}
  BY <1>4
<1>14. Heading(to, {})'
  <2>1. Leads(files, want, hand.page, to, {})
    BY <1>6 DEF Heading
  <2> HIDE DEF to
  <2>2. Leads(files', want, hand.page, to, {})
    BY <2>1, <1>9, <1>10, LeadsSame
  <2>3. Leads(files', want', hand'.page, to, {})
    BY <2>2, <1>3, <1>11
  <2> QED
    BY <2>3 DEF Heading, to
<1>15. Tended(files', yml', nav') /\ yml[c] # Nothing
  BY <1>3, <1>6, CoveredFits DEF Listed, Tended, Still
<1>16. ASSUME Exact
       PROVE  /\ s # new /\ OrdersBut(files', yml, c, L)
              /\ \A x \in L : x[1] # new
              /\ {InNew(s, new, x) : x \in L} = {InNew(s, new, x) : x \in Entries(files', c)} \cup {}
              /\ NamesOf(files', c, s) = Range(rest)
              /\ KeptBut(files', c, s) /\ <<c, new, Keep>> \in DOMAIN files'
  <2>1. /\ s # new /\ OrdersBut(files, yml, c, L) /\ \A x \in L : x[1] # new
        /\ {InNew(s, new, x) : x \in L} = {InNew(s, new, x) : x \in Entries(files, c)} \cup {}
        /\ NamesOf(files, c, s) = Range(names)
        /\ KeptBut(files, c, s) /\ <<c, new, Keep>> \in DOMAIN files
    BY <1>6, <1>16 DEF Listed
  <2> HIDE DEF L
  <2>2. OrdersBut(files', yml, c, L)
    BY <2>1, <1>8, OrdersFiles
  <2>3. {InNew(s, new, x) : x \in L} = {InNew(s, new, x) : x \in Entries(files', c)} \cup {}
    <3>1. Entries(files', c) = Entries(files, c) \ {<<s, Keep>>}
      BY <1>8
    <3>2. <<new, Keep>> \in Entries(files, c)
      BY <2>1, <1>5, EntriesAre
    <3>3. {InNew(s, new, x) : x \in Entries(files, c) \ {<<s, Keep>>}} = {InNew(s, new, x) : x \in Entries(files, c)}
      <4>1. InNew(s, new, <<s, Keep>>) = <<new, Keep>> /\ InNew(s, new, <<new, Keep>>) = <<new, Keep>>
            /\ <<new, Keep>> # <<s, Keep>>
        BY <2>1 DEF InNew
      <4> QED
        BY <3>2, <4>1
    <3> QED
      BY <2>1, <3>1, <3>3
  <2>4. NamesOf(files', c, s) = Range(rest)
    <3>1. DOMAIN files' \subseteq Paths
      BY <1>9 DEF FilesFit
    <3>2. \A m : <<c, s, m>> = path <=> m = Keep
      BY DEF path
    <3>3. \A m : m \in NamesOf(files', c, s) <=> m \in NamesOf(files, c, s) /\ m # Keep
      BY <3>1, <3>2, <1>5, <1>9, NamesAre
    <3>4. \A m : m \in Range(rest) <=> m \in NamesOf(files, c, s) /\ m # Keep
      BY <2>1, <1>4
    <3>5. \A m : m \in NamesOf(files', c, s) <=> m \in Range(rest)
      BY <3>3, <3>4
    <3> QED
      BY <3>5 DEF NamesOf
  <2>5. KeptBut(files', c, s)
    <3> SUFFICES ASSUME NEW p \in DOMAIN files', p[2] # Top, <<p[1], p[2]>> # <<c, s>>
                 PROVE  KeepOf(p) \in DOMAIN files'
      BY DEF KeptBut
    <3>1. p \in DOMAIN files
      BY <1>9
    <3>2. KeepOf(p) \in DOMAIN files
      BY <2>1, <3>1 DEF KeptBut
    <3>3. KeepOf(p) # path
      BY DEF KeepOf, path
    <3> QED
      BY <3>2, <3>3, <1>9
  <2>6. <<c, new, Keep>> \in DOMAIN files'
    BY <2>1, <1>9 DEF path
  <2> QED
    BY <2>1, <2>2, <2>3, <2>4, <2>5, <2>6
<1>17. Listed(c, s, new, Range(rest), {})'
  <2>1. yml' = yml /\ (Exact' <=> Exact)
    BY <1>3, <1>11 DEF Still, Exact
  <2> QED
    BY <2>1, <1>15, <1>16 DEF Listed
<1>18. Refiling(c, s, new, rest)'
  BY <1>3, <1>6, <1>11, <1>13, <1>14, <1>17 DEF Refiling
<1>19. Underway'
  BY <1>4, <1>18 DEF Underway
<1>20. Unlost(files', hand'.page, want', before.want)
  <2>1. Unlost(files, hand.page, want, before.want)
    BY <1>1, NothingLost DEF Idle
  <2>2. Unlost(files', hand.page, want, before.want)
    BY <2>1, <1>9, <1>10, UnlostSame
  <2> QED
    BY <2>2, <1>3, <1>11
<1> QED
  BY <1>4, <1>11, <1>12, <1>19, <1>20, Onward

\* A page of the old folder is taken.
LEMMA RefilingPage ==
  ASSUME IInv, Calls, NEW c \in Cols, NEW s \in Subs, NEW new \in Subs, NEW names \in FileLists,
         Refiling(c, s, new, names), names # <<>>, Head(names) # Keep
  PROVE  IInv'
<1> DEFINE n == Head(names)
           path == <<c, s, n>>
           goal == <<c, new, n>>
           rest == Tail(names)
           mid == <<PutCall(<<c, new>>, n, new)>> \o Refiles(c, s, new, rest) \o <<ListCall(c, s, new)>>
           to == Shift(<<c, s>>, <<c, new>>, Range(names) \ {Keep})
           more == Shift(<<c, s>>, <<c, new>>, Range(rest) \ {Keep})
           L == Range(yml[c].order)
<1>1. todo # <<>> /\ Goes(Tail(todo))
  BY AnyCall
<1>2. Head(todo) = [op |-> "take", path |-> path] /\ Tail(todo) = mid /\ mid # <<>>
  <2>1. todo = <<TakeCall(<<c, s>>, n)>> \o mid /\ mid \in Seq(Chain) /\ mid # <<>>
    BY RefilesOn DEF Refiling
  <2>2. TakeCall(<<c, s>>, n) = [op |-> "take", path |-> path]
    BY DEF TakeCall, PathIn
  <2> HIDE DEF mid, path
  <2> QED
    BY <2>1, <2>2, First
<1>3. path \in DOMAIN files /\ hand' = files[path] /\ files' = Less(files, {path}) /\ Still
  <2> HIDE DEF path
  <2> QED
    BY <1>2, TakeStep
<1>4. rest \in FileLists /\ n \in Names /\ n \notin Range(rest) /\ Range(names) = Range(rest) \cup {n}
  BY RefilesFirst
<1> HIDE DEF n, rest
<1>5. /\ FilesFit(files) /\ yml \in Ymls /\ nav \subseteq Cols /\ stale \in 0..MaxStale
      /\ DOMAIN files \subseteq Paths
  BY DEF IInv, Steady, FilesFit
<1>6. hand = NoPage /\ Heading(to, {}) /\ Listed(c, s, new, Range(names), {})
  BY DEF Refiling
<1>7. path \in Paths /\ IsPage(path) /\ path[1] = c /\ path[2] = s /\ path[3] = n
  BY <1>4, Triples, Places DEF IsPage
<1>8. \A b : Entries(files', b) = IF b = c THEN Entries(files, b) \ {<<s, n>>} ELSE Entries(files, b)
  <2> HIDE DEF path
  <2>1. FilesFit(files) /\ files' = Less(files, {path})
    BY <1>3, <1>5
  <2> QED
    BY <2>1, <1>7, EntriesLess
<1>9. \A m : <<c, s, m>> = path <=> m = n
  OBVIOUS
<1>10. <<c, new, Keep>> # path
  BY <1>4, Places
<1> HIDE DEF path
<1>11. path \in PagesOf(files)
  BY <1>3, <1>7 DEF PagesOf
<1>12. files[path].page \in Pages /\ files[path].page # Nothing /\ files[path] \in Held
  BY <1>5, <1>11, PagesHave
<1>13. /\ FilesFit(files') /\ PagesOf(files') = PagesOf(files) \ {path}
       /\ DOMAIN files' = DOMAIN files \ {path} /\ \A p \in DOMAIN files \ {path} : files'[p] = files[p]
  <2> DEFINE gs == Less(files, {path})
  <2>1. /\ FilesFit(gs) /\ PagesOf(gs) = PagesOf(files) \ {path}
        /\ DOMAIN gs = DOMAIN files \ {path} /\ \A p \in DOMAIN files \ {path} : gs[p] = files[p]
    <3>1. FilesFit(files)
      BY <1>5
    <3> QED
      BY <3>1, LessFits
  <2>2. gs = files'
    BY <1>3
  <2> HIDE DEF gs
  <2> QED
    BY <2>1, <2>2
<1>14. todo' = mid /\ want' = want /\ stale' = stale
  BY <1>1, <1>2 DEF Goes
<1>15. Steady'
  <2>1. hand' \in [page : Pages \cup {Nothing}, third : Folders]
    BY <1>3, <1>12 DEF Held
  <2>2. \A p \in PagesOf(files') : files'[p].page # hand'.page
    <3>1. \A p, q \in PagesOf(files) : files[p].page = files[q].page => p = q
      BY <1>5 DEF FilesFit
    <3>2. PagesOf(files') \subseteq DOMAIN files \ {path}
      BY <1>13 DEF PagesOf
    <3> QED
      BY <3>1, <3>2, <1>3, <1>11, <1>13
  <2> QED
    BY <2>1, <2>2, <1>3, <1>5, <1>13, <1>14 DEF Steady, Still, PagePaths, PagesOf
<1>16. Heading(more, {goal})'
  <2>1. Leads(files, want, hand.page, to, {})
    BY <1>6 DEF Heading
  <2>2. DOMAIN to = {<<c, s, m>> : m \in Range(names) \ {Keep}} /\ DOMAIN more = {<<c, s, m>> : m \in Range(rest) \ {Keep}}
    BY DEF Shift, PathIn
  <2>3. DOMAIN more = DOMAIN to \ {path}
    <3>1. Range(rest) \ {Keep} = (Range(names) \ {Keep}) \ {n}
      BY <1>4
    <3> HIDE DEF to, more
    <3> QED
      BY <2>2, <3>1, <1>9
  <2>4. \A p \in DOMAIN more : more[p] = to[p] /\ to[p] # path
    <3>1. \A p \in DOMAIN more : p[3] \in Range(rest) /\ p[3] # n
      BY <1>4 DEF Shift, PathIn
    <3>2. \A p \in DOMAIN more : more[p] = <<c, new, p[3]>>
      BY DEF Shift, PathIn
    <3>3. \A p \in DOMAIN to : to[p] = <<c, new, p[3]>>
      BY DEF Shift, PathIn
    <3> HIDE DEF to, more
    <3>4. \A p \in DOMAIN more : p \in DOMAIN to
      BY <2>3
    <3>5. \A m : m # n => <<c, new, m>> # path
      BY DEF path
    <3> QED
      BY <3>1, <3>2, <3>3, <3>4, <3>5
  <2>5. goal = Goal(to, path)
    <3>1. path \in DOMAIN to
      <4>1. n \in Range(names) \ {Keep}
        BY <1>4, Places
      <4> HIDE DEF to
      <4> QED
        BY <2>2, <4>1 DEF path
    <3>2. to[path] = <<c, new, path[3]>>
      BY <3>1 DEF Shift, PathIn
    <3> HIDE DEF to
    <3> QED
      BY <3>1, <3>2, <1>7 DEF Goal
  <2> HIDE DEF to, more, goal
  <2>6. Leads(Less(files, {path}), want, files[path].page, more, {goal})
    BY <2>1, <2>3, <2>4, <2>5, <1>11, LeadsTaken
  <2>7. Leads(files', want', hand'.page, more, {goal})
    BY <2>6, <1>3, <1>14
  <2> QED
    BY <2>7 DEF Heading, more, goal
<1>17. Tended(files', yml', nav') /\ yml[c] # Nothing
  BY <1>3, <1>6, CoveredFits DEF Listed, Tended, Still
<1>18. ASSUME Exact
       PROVE  /\ s # new /\ OrdersBut(files', yml, c, L)
              /\ \A x \in L : x[1] # new
              /\ {InNew(s, new, x) : x \in L} = {InNew(s, new, x) : x \in Entries(files', c)} \cup {<<new, n>>}
              /\ NamesOf(files', c, s) = Range(rest)
              /\ KeptBut(files', c, s) /\ <<c, new, Keep>> \in DOMAIN files'
  <2>1. /\ s # new /\ OrdersBut(files, yml, c, L) /\ \A x \in L : x[1] # new
        /\ {InNew(s, new, x) : x \in L} = {InNew(s, new, x) : x \in Entries(files, c)} \cup {}
        /\ NamesOf(files, c, s) = Range(names)
        /\ KeptBut(files, c, s) /\ <<c, new, Keep>> \in DOMAIN files
    BY <1>6, <1>18 DEF Listed
  <2> HIDE DEF L
  <2>2. OrdersBut(files', yml, c, L)
    BY <2>1, <1>8, OrdersFiles
  <2>3. {InNew(s, new, x) : x \in L} = {InNew(s, new, x) : x \in Entries(files', c)} \cup {<<new, n>>}
    <3>1. Entries(files', c) = Entries(files, c) \ {<<s, n>>}
      BY <1>8
    <3>2. <<s, n>> \in Entries(files, c)
      BY <1>3, <1>5, EntriesAre DEF path
    <3>3. {InNew(s, new, x) : x \in Entries(files, c) \ {<<s, n>>}} \cup {<<new, n>>}
          = {InNew(s, new, x) : x \in Entries(files, c)}
      <4>1. InNew(s, new, <<s, n>>) = <<new, n>>
        BY DEF InNew
      <4> QED
        BY <3>2, <4>1
    <3> QED
      BY <2>1, <3>1, <3>3
  <2>4. NamesOf(files', c, s) = Range(rest)
    <3>1. DOMAIN files' \subseteq Paths
      BY <1>13 DEF FilesFit
    <3>2. \A m : m \in NamesOf(files', c, s) <=> m \in NamesOf(files, c, s) /\ m # n
      BY <3>1, <1>5, <1>9, <1>13, NamesAre
    <3>3. \A m : m \in Range(rest) <=> m \in NamesOf(files, c, s) /\ m # n
      BY <2>1, <1>4
    <3>4. \A m : m \in NamesOf(files', c, s) <=> m \in Range(rest)
      BY <3>2, <3>3
    <3> QED
      BY <3>4 DEF NamesOf
  <2>5. KeptBut(files', c, s)
    <3>1. FilesFit(files) /\ KeptBut(files, c, s)
      BY <2>1, <1>5
    <3>2. KeptBut(Less(files, {path}), c, s)
      BY <3>1, <1>7, KeptLess
    <3> QED
      BY <3>2, <1>3
  <2>6. <<c, new, Keep>> \in DOMAIN files'
    BY <2>1, <1>10, <1>13
  <2> QED
    BY <2>1, <2>2, <2>3, <2>4, <2>5, <2>6
<1>19. Listed(c, s, new, Range(rest), {<<new, n>>})'
  <2>1. yml' = yml /\ (Exact' <=> Exact)
    BY <1>3, <1>14 DEF Still, Exact
  <2> QED
    BY <2>1, <1>17, <1>18 DEF Listed
<1>20. Reputting(c, s, new, n, rest)'
  <2>1. hand'.page # Nothing
    BY <1>3, <1>12
  <2> QED
    BY <2>1, <1>4, <1>14, <1>16, <1>19 DEF Reputting
<1>21. Underway'
  BY <1>4, <1>20 DEF Underway
<1>22. Unlost(files', hand'.page, want', before.want)
  <2>1. hand.page = Nothing
    BY <1>6 DEF NoPage
  <2>2. Nothing \notin Range(before.want) /\ Unlost(files, Nothing, want, before.want)
    BY <1>1, <2>1, NothingLost DEF Idle
  <2>3. Unlost(Less(files, {path}), files[path].page, want, before.want)
    BY <2>2, <1>11, UnlostTake
  <2> QED
    BY <2>3, <1>3, <1>14
<1> QED
  BY <1>2, <1>14, <1>15, <1>21, <1>22, Onward

\* No file is left in the old folder: the order follows.
LEMMA RefilingList ==
  ASSUME IInv, Calls, NEW c \in Cols, NEW s \in Subs, NEW new \in Subs, NEW names \in FileLists,
         Refiling(c, s, new, names), names = <<>>
  PROVE  IInv'
<1> DEFINE L == Range(yml[c].order)
           call == ListCall(c, s, new)
<1>1. todo # <<>> /\ Goes(Tail(todo))
  BY AnyCall
<1>2. Head(todo) = [op |-> "renameFolder", col |-> c, sub |-> s, new |-> new] /\ Tail(todo) = <<>>
  <2>1. todo = <<call>>
    BY RefilesOn DEF Refiling
  <2>2. call = [op |-> "renameFolder", col |-> c, sub |-> s, new |-> new]
    BY DEF ListCall
  <2> HIDE DEF call
  <2>3. Head(todo) = call /\ Tail(todo) = <<>>
    BY <2>1
  <2> QED
    BY <2>2, <2>3
<1>3. Range(names) = {} /\ DOMAIN files \subseteq Paths
  BY DEF Range, IInv, Steady, FilesFit
<1>4. /\ hand = NoPage /\ Heading(Shift(<<c, s>>, <<c, new>>, {}), {})
      /\ Listed(c, s, new, {}, {})
  <2>1. Range(names) \ {Keep} = {}
    BY <1>3
  <2> QED
    BY <2>1, <1>3 DEF Refiling
<1>5. Orders1(c, FolderRenamed(yml[c].order, s, new))
  BY <1>2, RelistStep
<1>6. yml[c] # Nothing => FolderRenamed(yml[c].order, s, new) \in Orders
  BY OrderIn, FolderRenamedFits
<1>7. Tended(files, yml, nav)
  BY <1>4 DEF Listed
<1>8. /\ Steady' /\ Tended(files', yml', nav')
      /\ files' = files /\ nav' = nav /\ hand' = hand /\ stale' = stale
      /\ yml' = Reordered(yml, c, FolderRenamed(yml[c].order, s, new)) /\ yml[c] # Nothing
  BY <1>5, <1>6, <1>7, OrderCall
<1>9. ASSUME Exact PROVE Ordered(files', yml') /\ Kept(files')
  <2>1. /\ OrdersBut(files, yml, c, L) /\ \A x \in L : x[1] # new
        /\ {InNew(s, new, x) : x \in L} = {InNew(s, new, x) : x \in Entries(files, c)} \cup {}
        /\ NamesOf(files, c, s) = {} /\ KeptBut(files, c, s)
    BY <1>4, <1>9 DEF Listed
  <2> HIDE DEF L
  <2>2. Lists1(files, yml, c, L)
    BY <2>1, <1>8 DEF Lists1, IInv, Steady
  <2>3. Tails = {}
    BY <1>9 DEF Exact, Exactly
  <2>4. OrdersBut(files, yml', c, {InNew(s, new, x) : x \in L})
    <3>1. \A x \in L : x[1] # new
      BY <2>1
    <3> DEFINE M == {InNew(s, new, x) : x \in L}
    <3>2. \A y : y \in M <=> \E x \in L : y = InNew(s, new, x)
      OBVIOUS
    <3> HIDE DEF M
    <3>3. OrdersBut(files, Reordered(yml, c, FolderRenamed(yml[c].order, s, new)), c, M)
      BY <2>2, <2>3, <3>1, <3>2, ExactRename
    <3> QED
      BY <3>3, <1>8 DEF M
  <2>5. \A n : <<c, s, n>> \notin DOMAIN files
    BY <2>1, <1>3, NamesAre
  <2>6. \A x \in Entries(files, c) : x[1] # s
    <3> SUFFICES ASSUME NEW x \in Entries(files, c), x[1] = s PROVE FALSE
      OBVIOUS
    <3> QED
      BY <2>5, <1>3, EntriesAre
  <2>7. {InNew(s, new, x) : x \in Entries(files, c)} = Entries(files, c)
    BY <2>6 DEF InNew
  <2>8. Ordered(files, yml')
    <3>1. {InNew(s, new, x) : x \in L} = Entries(files, c)
      BY <2>1, <2>7
    <3>2. OrdersBut(files, yml', c, Entries(files, c))
      BY <2>4, <3>1
    <3> QED
      BY <3>2, OrdersOf
  <2>9. Kept(files)
    <3>1. \A p \in DOMAIN files : <<p[1], p[2]>> # <<c, s>>
      <4> SUFFICES ASSUME NEW p \in DOMAIN files, p[1] = c, p[2] = s PROVE FALSE
        OBVIOUS
      <4>1. p = <<p[1], p[2], p[3]>>
        BY <1>3, Triples
      <4> QED
        BY <4>1, <2>5
    <3>2. \A p \in DOMAIN files : p[2] # Top => KeepOf(p) \in DOMAIN files
      BY <2>1, <3>1 DEF KeptBut
    <3> QED
      BY <3>2, <1>3, KeptHere
  <2> QED
    BY <2>8, <2>9, <1>8
<1>10. todo' = <<>> /\ want' = want
  BY <1>1, <1>2 DEF Goes
<1>11. Placed(files, want)
  <2> DEFINE to == Shift(<<c, s>>, <<c, new>>, {})
  <2>1. DOMAIN to = {}
    BY DEF Shift
  <2>2. Leads(files, want, hand.page, to, {})
    BY <1>4 DEF Heading
  <2> HIDE DEF to
  <2> QED
    BY <2>1, <2>2, LeadsNowhere
<1>12. Sound(files', yml', nav', want', stale')
  BY <1>8, <1>9, <1>10, <1>11 DEF Sound, Steady, Exact
<1> QED
  BY <1>4, <1>8, <1>10, <1>12, Onward

\* The next file of the old folder, or at last the order
LEMMA RefilingStep ==
  ASSUME IInv, Calls, NEW c \in Cols, NEW s \in Subs, NEW new \in Subs, NEW names \in FileLists,
         Refiling(c, s, new, names)
  PROVE  IInv'
BY RefilingKeep, RefilingPage, RefilingList

-----------------------------------------------------------------------------
(* The save of an order or of the navigation; every call                   *)

\* The order an editor saved replaces what there was.
LEMMA SavingStep ==
  ASSUME IInv, Calls, NEW c \in Cols, NEW order, Saving(c, order)
  PROVE  IInv'
<1> DEFINE call == [op |-> "setOrder", col |-> c, order |-> order]
           z == [key |-> c, order |-> order]
<1>1. todo # <<>> /\ Goes(Tail(todo))
  BY AnyCall
<1>2. Head(todo) = call /\ Tail(todo) = <<>>
  <2>1. todo = <<call>>
    BY DEF Saving
  <2> HIDE DEF call
  <2> QED
    BY <2>1
<1>3. /\ hand = NoPage /\ Placed(files, want) /\ Tended(files, yml, nav) /\ order \in Orders
      /\ Exact => Ordered(files, yml) /\ Kept(files) /\ Orderly(order, Entries(files, c))
  BY DEF Saving, SoundNow
<1>4. FilesFit(files) /\ yml \in Ymls /\ nav \subseteq Cols /\ stale \in 0..MaxStale
  BY DEF IInv, Steady
<1>5. UpdateOrder /\ Head(todo).col = c /\ Head(todo).order = order
  BY <1>2, WhichCall
<1>6. yml[c] # Nothing /\ yml' = [yml EXCEPT ![c] = z] /\ files' = files /\ nav' = nav /\ hand' = hand
  BY <1>5 DEF UpdateOrder
<1>7. z \in Yml /\ z # Nothing /\ z.key = c /\ z.order = order
  <2>1. z \in Yml
    BY <1>3 DEF Yml
  <2> QED
    BY <2>1, CollectionsAssumption
<1> HIDE DEF z
<1>8. yml' \in Ymls /\ \A b \in Cols : yml'[b] = IF b = c THEN z ELSE yml[b]
  BY <1>4, <1>6, <1>7 DEF Ymls
<1>9. todo' = <<>> /\ want' = want /\ stale' = stale
  BY <1>1, <1>2 DEF Goes
<1>10. Steady'
  BY <1>3, <1>4, <1>6, <1>8, <1>9, SteadyEmpty
<1>11. \A b \in Cols : yml'[b] # Nothing <=> yml[b] # Nothing
  BY <1>6, <1>7, <1>8
<1>12. Tended(files', yml', nav')
  <2>1. Keyed(yml', Nothing)
    BY <1>3, <1>7, <1>8 DEF Tended, Keyed
  <2>2. \A p \in DOMAIN files : p[1] # Unlinked => p[1] \in Cols
    BY <1>4, Triples DEF FilesFit
  <2>3. Covered(files', yml')
    BY <2>2, <1>3, <1>6, <1>11 DEF Tended, Covered
  <2>4. Linked(yml', nav', Nothing)
    BY <1>3, <1>4, <1>6, <1>11 DEF Tended, Linked
  <2> QED
    BY <2>1, <2>3, <2>4 DEF Tended
<1>13. ASSUME Exact PROVE Ordered(files', yml') /\ Kept(files')
  <2>1. Nothing \notin Cols
    BY CollectionsAssumption
  <2>2. \A b \in Cols : yml[b] # Nothing => Orderly(yml[b].order, Entries(files, b))
    BY <2>1, <1>3, <1>13 DEF Ordered, OrdersBut
  <2>3. \A b \in Cols : yml'[b] # Nothing => Orderly(yml'[b].order, Entries(files, b))
    <3> SUFFICES ASSUME NEW b \in Cols, yml'[b] # Nothing PROVE Orderly(yml'[b].order, Entries(files, b))
      OBVIOUS
    <3>1. CASE b = c
      BY <3>1, <1>3, <1>7, <1>8, <1>13
    <3>2. CASE b # c
      BY <3>2, <2>2, <1>8
    <3> QED
      BY <3>1, <3>2
  <2> QED
    BY <2>1, <2>3, <1>3, <1>6, <1>13 DEF Ordered, OrdersBut
<1>14. Sound(files', yml', nav', want', stale')
  BY <1>3, <1>6, <1>9, <1>10, <1>12, <1>13 DEF Sound, Steady, Exact
<1> QED
  BY <1>3, <1>6, <1>9, <1>10, <1>14, Onward

\* So does the navigation.
LEMMA SavingNavStep ==
  ASSUME IInv, Calls, NEW cols \in SUBSET Cols, SavingNav(cols)
  PROVE  IInv'
<1> DEFINE call == [op |-> "setNav", cols |-> cols]
<1>1. todo # <<>> /\ Goes(Tail(todo))
  BY AnyCall
<1>2. Head(todo) = call /\ Tail(todo) = <<>>
  <2>1. todo = <<call>>
    BY DEF SavingNav
  <2> HIDE DEF call
  <2> QED
    BY <2>1
<1>3. /\ hand = NoPage /\ Placed(files, want) /\ Tended(files, yml, nav) /\ (\A c \in cols : yml[c] # Nothing)
      /\ (Exact => Ordered(files, yml) /\ Kept(files))
  BY DEF SavingNav, SoundNow
<1>4. FilesFit(files) /\ yml \in Ymls /\ stale \in 0..MaxStale
  BY DEF IInv, Steady
<1>5. SetNav /\ Head(todo).cols = cols
  BY <1>2, WhichCall
<1>6. files' = files /\ yml' = yml /\ hand' = hand /\ nav' = cols
  BY <1>5 DEF SetNav
<1>7. todo' = <<>> /\ want' = want /\ stale' = stale
  BY <1>1, <1>2 DEF Goes
<1>8. Steady'
  BY <1>3, <1>4, <1>6, <1>7, SteadyEmpty
<1>9. Tended(files', yml', nav')
  BY <1>3, <1>6 DEF Tended, Linked
<1>10. Sound(files', yml', nav', want', stale')
  BY <1>3, <1>6, <1>7, <1>8, <1>9 DEF Sound, Steady, Exact
<1> QED
  BY <1>3, <1>6, <1>7, <1>8, <1>10, Onward

\* Every call keeps the invariant.
LEMMA CallStep ==
  ASSUME IInv, Calls
  PROVE  IInv'
<1>1. Underway
  BY AnyCall DEF IInv, Idle, InMid
<1>2. CASE \E src, dst \in Locations, ns \in NameLists : Moving(src, dst, ns)
  BY <1>2, MovingStep
<1>3. CASE \E src, dst \in Locations, n \in Names, rest \in NameLists :
             \/ Taking(src, dst, n, rest) \/ Entering(src, dst, n, rest)
             \/ \E third \in Folders \cup {Nothing} : Putting(src, dst, n, third, rest)
  BY <1>3, TakingStep, EnteringStep, PuttingStep
<1>4. CASE \E c \in Cols, ns \in NameLists : NewCollection(c, ns)
  BY <1>4, NewCollectionStep
<1>5. CASE \E c \in Cols, s \in Subs, ns \in NameLists : NewFolder(c, s, ns) \/ FolderItem(c, s, ns)
  BY <1>5, NewFolderStep, FolderItemStep
<1>6. CASE \E loc \in Locations, m, n \in Names : Updating(loc, m, n) \/ Retaking(loc, m, n)
  BY <1>6, UpdatingStep, RetakingStep
<1>7. CASE \E loc \in Locations, n \in Names : Deleting(loc, n) \/ Dropping(loc, n)
  BY <1>7, DeletingStep, DroppingStep
<1>8. CASE \E c, d \in Cols : RenamingDir(c, d) \/ RenamingKey(c, d)
  BY <1>8, RenamingDirStep, RenamingKeyStep
<1>9. CASE \E c \in Cols, cols \in SUBSET Cols : Linking(c, cols)
  BY <1>9, LinkingStep
<1>10. CASE \E c \in Cols : DeletingDir(c) \/ (Doing("setOrder") /\ Saving(c, Head(todo).order))
  BY <1>10, DeletingDirStep, SavingStep
<1>11. CASE \E c \in Cols, s \in Subs : DeletingFolder(c, s) \/ Unlisting(c, s)
  BY <1>11, DeletingFolderStep, UnlistingStep
<1>12. CASE \E c \in Cols, s, t \in Subs, names \in FileLists :
              NewName(c, s, t, names) \/ Refiling(c, s, t, names)
  BY <1>12, NewNameStep, RefilingStep
<1>13. CASE \E c \in Cols, s, t \in Subs, n \in Names, rest \in FileLists : Reputting(c, s, t, n, rest)
  BY <1>13, ReputtingStep
<1>14. CASE \E cols \in SUBSET Cols : SavingNav(cols)
  BY <1>14, SavingNavStep
<1> QED
  BY <1>1, <1>2, <1>3, <1>4, <1>5, <1>6, <1>7, <1>8, <1>9, <1>10, <1>11, <1>12, <1>13, <1>14 DEF Underway

-----------------------------------------------------------------------------
(* The requests                                                            *)

\* Between requests the site is sound.
LEMMA Calm ==
  ASSUME IInv, Idle
  PROVE  /\ Sound(files, yml, nav, want, stale) /\ hand = NoPage /\ SoundNow /\ Placed(files, want)
         /\ FilesFit(files) /\ DOMAIN files \subseteq Paths /\ yml \in Ymls /\ nav \subseteq Cols
         /\ Tended(files, yml, nav) /\ (Exact => Ordered(files, yml) /\ Kept(files))
         /\ PagePaths = PagesOf(files)
BY DEF IInv, Sound, SoundNow, Exact, FilesFit, PagePaths, PagesOf

\* A save that counts as out of date
LEMMA Ages ==
  ASSUME stale \in 0..MaxStale, NEW o, Aging(o), stale' <= MaxStale
  PROVE  stale' \in 0..MaxStale /\ (Exact' => Exact /\ ~o)
<1>1. stale \in Nat /\ MaxStale \in Nat
  BY CollectionsAssumption
<1>2. CASE ~o
  <2>1. stale' = stale
    BY <1>2 DEF Aging
  <2> QED
    BY <1>1, <1>2, <2>1 DEF Exact, Exactly
<1>3. CASE o
  <2>1. stale' = stale + 1
    BY <1>3 DEF Aging
  <2> QED
    BY <1>1, <2>1 DEF Exact, Exactly
<1> QED
  BY <1>2, <1>3

\* A request begins: the calls are there, the site is as it was.
LEMMA BeginFrame ==
  ASSUME IInv, NEW calls, NEW wanted, Begin(calls, wanted), NEW o, Aging(o)
  PROVE  /\ Idle /\ todo' = calls /\ want' = wanted /\ before'.want = want
         /\ files' = files /\ yml' = yml /\ nav' = nav
         /\ stale' \in 0..MaxStale /\ (Exact' => Exact /\ ~o)
<1>1. Idle /\ todo' = calls /\ want' = wanted /\ before'.want = want
      /\ files' = files /\ yml' = yml /\ nav' = nav /\ stale' <= MaxStale
  BY DEF Begin, site
<1>2. stale \in 0..MaxStale
  BY DEF IInv, Steady
<1> QED
  BY <1>1, <1>2, Ages

\* It keeps the invariant when its chain is of one of the forms.
LEMMA BeginStep ==
  ASSUME IInv, NEW calls, NEW wanted, Begin(calls, wanted), calls # <<>>, NEW o, Aging(o), Underway',
         hand' = hand \/ (hand' \in [page : Pages, third : Folders] /\ hand'.page \notin Range(want))
  PROVE  IInv'
<1>1. /\ Idle /\ todo' = calls /\ want' = wanted /\ before'.want = want
      /\ files' = files /\ yml' = yml /\ nav' = nav /\ stale' \in 0..MaxStale
  BY BeginFrame
<1>2. Sound(files, yml, nav, want, stale) /\ Placed(files, want) /\ FilesFit(files)
  BY <1>1, Calm
<1>3. before' = [files |-> files, yml |-> yml, nav |-> nav, want |-> want, stale |-> stale]
  BY DEF Begin
<1>4. Sound(before'.files, before'.yml, before'.nav, before'.want, before'.stale)
  BY <1>2, <1>3
<1>5. Unlost(files', hand'.page, want', before'.want)
  <2>1. Range(want) \subseteq {files[p].page : p \in PagesOf(files)}
    BY <1>2 DEF Placed, Range
  <2> QED
    BY <2>1, <1>1 DEF Unlost
<1>6. Steady'
  <2>1. CASE hand' = hand
    BY <2>1, <1>1 DEF IInv, Steady, PagePaths
  <2>2. CASE hand' \in [page : Pages, third : Folders] /\ hand'.page \notin Range(want)
    <3>1. \A p \in PagesOf(files) : files[p].page \in Range(want)
      BY <1>2 DEF Placed, Range
    <3>2. hand' \in [page : Pages \cup {Nothing}, third : Folders]
      BY <2>2
    <3> QED
      BY <2>2, <3>1, <3>2, <1>1 DEF IInv, Steady, PagePaths, PagesOf
  <2> QED
    BY <2>1, <2>2
<1>7. InMid'
  BY <1>4, <1>5 DEF InMid
<1> QED
  BY <1>1, <1>6, <1>7 DEF IInv, Idle

\* A folder that is not out of date has its .keep.
LEMMA NotOutdated ==
  ASSUME IInv, Idle, NEW loc \in Locations, Exact, ~Outdated(loc)
  PROVE  HasKeep(files, loc)
<1> SUFFICES ASSUME loc[2] # Top PROVE KeepOf(loc) \in DOMAIN files
  BY DEF HasKeep
<1>1. PICK p \in DOMAIN files : p[1] = loc[1] /\ p[2] = loc[2]
  BY DEF Outdated, Under
<1>2. KeepOf(p) \in DOMAIN files
  BY <1>1, Calm, KeptHere
<1> QED
  BY <1>1, <1>2 DEF KeepOf

\* The empty list of names
LEMMA NoNames ==
  /\ <<>> \in NameLists /\ Range(<<>>) = {}
  /\ \A loc \in Locations : Moves(loc, loc, <<>>) = <<>>
<1>1. <<>> \in NameLists /\ Range(<<>>) = {}
  BY DEF NameLists, IsInjective, Range
<1> QED
  BY <1>1, MovesFirst

\* Each request begins with a chain of one of the forms, and does not undo the invariant.
LEMMA CreatePageStep ==
  ASSUME IInv, NEW loc \in Locations, NEW n \in Names, CreatePage(loc, n)
  PROVE  IInv'
<1> DEFINE path == PathIn(loc, n)
           calls == PutCalls(loc, n)
           to == Shift(loc, loc, {})
<1>1. PICK page \in Pages \ Range(want) :
        /\ Begin(calls, With(want, path, page)) /\ hand' = [page |-> page, third |-> Top]
  BY DEF CreatePage
<1>2. Aging(Outdated(loc))
  BY DEF CreatePage
<1> DEFINE wanted == With(want, path, page)
<1>3. /\ Idle /\ todo' = calls /\ want' = wanted /\ files' = files /\ yml' = yml /\ nav' = nav
      /\ Exact' => Exact /\ ~Outdated(loc)
  BY <1>1, <1>2, BeginFrame
<1>4. FilesFit(files) /\ Placed(files, want) /\ Tended(files, yml, nav)
      /\ (Exact => Ordered(files, yml) /\ Kept(files))
  BY <1>3, Calm
<1>5. hand' \in [page : Pages, third : Folders] /\ hand'.page \notin Range(want) /\ hand'.page = page
  BY <1>1 DEF Folders
<1>6. hand'.page # Nothing
  BY <1>5, CollectionsAssumption
<1>7. calls \in Seq(Chain) /\ calls \o <<>> = calls /\ calls # <<>>
  <2>1. calls \in Seq(Chain)
    BY PageCalls
  <2>2. calls \o <<>> = calls
    <3> HIDE DEF calls
    <3> QED
      BY <2>1, ChainJoin
  <2>3. PutCalls(loc, n) \o Moves(loc, loc, <<>>) # <<>>
    BY NoNames, TakeFirst
  <2> QED
    BY <2>1, <2>2, <2>3, NoNames
<1>8. Leads(files, wanted, page, to, {path})
  <2>1. DOMAIN to = {}
    BY DEF Shift
  <2>2. DOMAIN wanted = DOMAIN want \cup {path} /\ wanted[path] = page
        /\ \A p \in DOMAIN want : p # path => wanted[p] = want[p]
    BY DEF With
  <2> HIDE DEF to, wanted, path
  <2>3. \A p \in PagesOf(files) : Goal(to, p) = p
    BY <2>1 DEF Goal
  <2> SUFFICES ASSUME Clear(files, to, {path})
               PROVE  /\ \A p \in PagesOf(files) : Goal(to, p) \in DOMAIN wanted /\ wanted[Goal(to, p)] = files[p].page
                      /\ \A q \in {path} : q \in DOMAIN wanted /\ wanted[q] = page
                      /\ DOMAIN wanted \subseteq {Goal(to, p) : p \in PagesOf(files)} \cup {path}
    BY DEF Leads
  <2>4. path \notin PagesOf(files)
    BY DEF Clear
  <2>5. DOMAIN want = PagesOf(files) /\ \A p \in PagesOf(files) : want[p] = files[p].page
    BY <1>4 DEF Placed
  <2>6. {Goal(to, p) : p \in PagesOf(files)} = PagesOf(files)
    BY <2>3
  <2> QED
    BY <2>2, <2>3, <2>4, <2>5, <2>6
<1>9. Entering(loc, loc, n, <<>>)'
  <2>1. todo' = PutCalls(loc, n) \o Moves(loc, loc, <<>>)
    BY <1>3, <1>7, NoNames
  <2>2. Heading(Shift(loc, loc, Range(<<>>)), {PathIn(loc, n)})'
    <3>1. Leads(files', want', hand'.page, to, {path})
      <4> HIDE DEF to, path, wanted
      <4> QED
        BY <1>3, <1>5, <1>8
    <3> QED
      BY <3>1, NoNames DEF Heading
  <2>3. SoundNow'
    BY <1>3, <1>4 DEF SoundNow
  <2>4. Exact' => HasKeep(files', loc)
    BY <1>3, NotOutdated
  <2>5. n \notin Range(<<>>)
    BY NoNames
  <2> QED
    BY <2>1, <2>2, <2>3, <2>4, <2>5, <1>6 DEF Entering
<1>10. Underway'
  BY <1>9, NoNames, InMovesUnderway
<1> HIDE DEF calls, wanted
<1> QED
  BY <1>1, <1>2, <1>5, <1>7, <1>10, BeginStep DEF wanted

\* What is wanted when pages are to go
LEMMA WantWithoutFits ==
  ASSUME Placed(files, want), NEW gone, want' = WantWithout(gone), files' = files
  PROVE  \A H : PagesOf(files) \cap H = PagesOf(files) \cap gone => Without(H)'
<1>1. DOMAIN want' = PagesOf(files) \ gone /\ \A p \in DOMAIN want' : want'[p] = files[p].page
  BY DEF Placed, WantWithout
<1>2. PagePaths' = PagesOf(files)
  BY DEF PagePaths, PagesOf
<1> QED
  BY <1>1, <1>2 DEF Without

\* A page is to be deleted.
LEMMA DeletePageStep ==
  ASSUME IInv, NEW loc \in Locations, NEW n \in Names, DeletePage(loc, n)
  PROVE  IInv'
<1> DEFINE path == PathIn(loc, n)
           drop == [op |-> "drop", path |-> path]
           del == ItemCall("deleteItem", loc, n)
           calls == Front(TakeCalls(loc, n)) \o <<drop>>
           wanted == WantWithout({path})
<1>1. Begin(calls, wanted) /\ Aging(FALSE) /\ hand' = hand
  BY DEF DeletePage
<1>2. calls = IF InCollection(loc) THEN <<del, drop>> ELSE <<drop>>
  <2> DEFINE S == Chain \cup {drop, del}
             take == TakeCall(loc, n)
  <2>1. TakeCalls(loc, n) = IF InCollection(loc) THEN <<del>> \o <<take>> ELSE <<take>>
    BY PageCalls
  <2> HIDE DEF del, drop, take
  <2>2. Front(<<del>> \o <<take>>) = <<del>> /\ Front(<<take>>) = <<>>
    <3>1. Front(<<take>>) = <<>>
      BY DEF Front
    <3> DEFINE u == <<del>> \o <<take>>
               V == {del, take}
    <3>2. u \in Seq(V) /\ Len(u) = 2 /\ u[1] = del
      OBVIOUS
    <3> HIDE DEF u, V
    <3>3. SubSeq(u, 1, 1) \in Seq(V) /\ Len(SubSeq(u, 1, 1)) = 1 /\ SubSeq(u, 1, 1)[1] = u[1]
      BY <3>2
    <3>4. Front(u) = SubSeq(u, 1, 1)
      BY <3>2 DEF Front
    <3>5. <<del>> \in Seq(V)
      BY DEF V
    <3>6. \A i \in 1..1 : i = 1
      OBVIOUS
    <3>7. \A i \in 1..Len(SubSeq(u, 1, 1)) : SubSeq(u, 1, 1)[i] = <<del>>[i]
      BY <3>2, <3>3, <3>6
    <3>8. SubSeq(u, 1, 1) = <<del>>
      BY <3>3, <3>5, <3>7, SeqEqual
    <3> QED
      BY <3>1, <3>4, <3>8 DEF u
  <2>3. <<>> \o <<drop>> = <<drop>>
    <3>1. <<drop>> \in Seq({drop})
      OBVIOUS
    <3> QED
      BY <3>1, ConcatEmptySeq
  <2>4. <<del>> \o <<drop>> = <<del, drop>>
    <3> DEFINE u == <<del>> \o <<drop>>
               V == {del, drop}
    <3>1. u \in Seq(V) /\ Len(u) = 2 /\ u[1] = del /\ u[2] = drop
      OBVIOUS
    <3>2. <<del, drop>> \in Seq(V) /\ Len(<<del, drop>>) = 2
      OBVIOUS
    <3>3. \A i \in 1..2 : i = 1 \/ i = 2
      OBVIOUS
    <3> HIDE DEF u, V
    <3>4. \A i \in 1..2 : u[i] = <<del, drop>>[i]
      BY <3>1, <3>3
    <3>5. u = <<del, drop>>
      BY <3>1, <3>2, <3>4, SeqEqual
    <3> QED
      BY <3>5 DEF u
  <2> QED
    BY <2>1, <2>2, <2>3, <2>4
<1>3. /\ Idle /\ todo' = calls /\ want' = wanted /\ files' = files /\ yml' = yml /\ nav' = nav
      /\ Exact' => Exact
  BY <1>1, BeginFrame
<1>4. /\ FilesFit(files) /\ Placed(files, want) /\ Tended(files, yml, nav) /\ hand = NoPage
      /\ Exact => Ordered(files, yml) /\ Kept(files)
  BY <1>3, Calm
<1>5. Without({path})'
  BY <1>3, <1>4, WantWithoutFits
<1>6. SoundNow'
  BY <1>3, <1>4 DEF SoundNow
<1>7. Underway'
  <2>1. CASE InCollection(loc)
    <3>1. Deleting(loc, n)'
      BY <2>1, <1>1, <1>2, <1>3, <1>4, <1>5, <1>6 DEF Deleting
    <3> QED
      BY <3>1 DEF Underway
  <2>2. CASE ~InCollection(loc)
    <3>1. loc[1] \notin Cols
      BY <2>2, Places
    <3>2. ASSUME Exact' PROVE OrdersBut(files', yml', loc[1], Entries(files', loc[1]) \ {<<loc[2], n>>}) /\ Kept(files')
      BY <3>1, <3>2, <1>3, <1>4, OrdersOf
    <3>3. Dropping(loc, n)'
      BY <2>2, <3>2, <1>1, <1>2, <1>3, <1>4, <1>5 DEF Dropping
    <3> QED
      BY <3>3 DEF Underway
  <2> QED
    BY <2>1, <2>2
<1>8. calls # <<>>
  <2> HIDE DEF calls, del, drop
  <2> QED
    BY <1>2
<1> HIDE DEF calls, wanted
<1> QED
  BY <1>1, <1>7, <1>8, BeginStep

\* A page is to be renamed.
LEMMA RenamePageStep ==
  ASSUME IInv, NEW loc \in Locations, NEW old \in Names, NEW new \in Names, RenamePage(loc, old, new)
  PROVE  IInv'
<1> DEFINE update == [op |-> "updateItem", col |-> loc[1], item |-> <<loc[2], old>>, new |-> <<loc[2], new>>]
           take == TakeCall(loc, old)
           put == PutCall(loc, new, Title(loc))
           calls == (IF InCollection(loc) THEN <<update>> ELSE <<>>) \o <<take, put>>
           wanted == Renamed(want, LAMBDA p : IF p = PathIn(loc, old) THEN PathIn(loc, new) ELSE p)
<1>1. Begin(calls, wanted) /\ Aging(FALSE) /\ hand' = hand /\ PathIn(loc, old) \in PagePaths
  BY DEF RenamePage, TakeCall, PutCall, Title
<1>2. calls = IF InCollection(loc) THEN <<update, take, put>> ELSE <<take, put>>
  <2> DEFINE V == {update, take, put}
             w == <<take, put>>
  <2>1. <<update>> \in Seq(V) /\ w \in Seq(V) /\ <<update, take, put>> \in Seq(V)
        /\ Len(w) = 2 /\ w[1] = take /\ w[2] = put
    <3> HIDE DEF update, take, put
    <3> QED
      OBVIOUS
  <2> HIDE DEF update, take, put, V, w
  <2>2. <<>> \o w = w
    BY <2>1, ConcatEmptySeq
  <2>3. <<update>> \o w = <<update, take, put>>
    <3> DEFINE u == <<update>> \o w
    <3> DEFINE x == <<update>>
    <3>0. x \in Seq(V) /\ Len(x) = 1 /\ x[1] = update
      BY <2>1
    <3> HIDE DEF x
    <3>a. x \o w \in Seq(V) /\ Len(x \o w) = Len(x) + Len(w)
          /\ \A i \in 1..(Len(x) + Len(w)) : (x \o w)[i] = IF i <= Len(x) THEN x[i] ELSE w[i - Len(x)]
      BY <2>1, <3>0, ConcatProperties
    <3>b. (x \o w)[1] = x[1] /\ (x \o w)[2] = w[1] /\ (x \o w)[3] = w[2]
      BY <2>1, <3>0, <3>a
    <3>1. u \in Seq(V) /\ Len(u) = 3 /\ u[1] = update /\ u[2] = take /\ u[3] = put
      BY <2>1, <3>0, <3>a, <3>b DEF x
    <3>2. \A i \in 1..3 : i = 1 \/ i = 2 \/ i = 3
      OBVIOUS
    <3>3. Len(<<update, take, put>>) = 3
      OBVIOUS
    <3> HIDE DEF u
    <3>4. \A i \in 1..3 : u[i] = <<update, take, put>>[i]
      BY <3>1, <3>2
    <3>5. u = <<update, take, put>>
      BY <2>1, <3>1, <3>3, <3>4, SeqEqual
    <3> QED
      BY <3>5 DEF u
  <2> QED
    BY <2>2, <2>3 DEF w
<1>3. /\ Idle /\ todo' = calls /\ want' = wanted /\ files' = files /\ yml' = yml /\ nav' = nav
      /\ Exact' => Exact
  <2> HIDE DEF calls, wanted
  <2> QED
    BY <1>1, BeginFrame
<1>4. /\ FilesFit(files) /\ Placed(files, want) /\ Tended(files, yml, nav) /\ hand = NoPage
      /\ Exact => Ordered(files, yml) /\ Kept(files)
      /\ PagePaths = PagesOf(files) /\ PagePaths' = PagePaths
  BY <1>3, Calm DEF PagePaths
<1>5. Heading(Onto(loc, old, new), {})'
  <2>1. Leads(files, wanted, hand'.page, Onto(loc, old, new), {})
    BY <1>1, <1>4, OntoLeads
  <2> HIDE DEF wanted
  <2> QED
    BY <2>1, <1>3 DEF Heading
<1>6. SoundNow'
  BY <1>3, <1>4 DEF SoundNow
<1>7. Underway'
  <2>1. CASE InCollection(loc)
    <3>1. todo' = <<update, take, put>>
      BY <2>1, <1>2, <1>3
    <3>2. Updating(loc, old, new)'
      BY <2>1, <3>1, <1>1, <1>4, <1>5, <1>6 DEF Updating
    <3> QED
      BY <3>2 DEF Underway
  <2>2. CASE ~InCollection(loc)
    <3>1. todo' = <<take, put>>
      BY <2>2, <1>2, <1>3
    <3>2. loc[1] \notin Cols
      BY <2>2, Places
    <3>3. ASSUME Exact'
          PROVE  OrdersBut(files', yml', loc[1], (Entries(files', loc[1]) \ {<<loc[2], old>>}) \cup {<<loc[2], new>>})
                 /\ Kept(files')
      BY <3>2, <3>3, <1>3, <1>4, OrdersOf
    <3>4. Retaking(loc, old, new)'
      BY <3>1, <3>3, <1>1, <1>3, <1>4, <1>5 DEF Retaking
    <3> QED
      BY <3>4 DEF Underway
  <2> QED
    BY <2>1, <2>2
<1>8. calls # <<>>
  <2> HIDE DEF calls, update, take, put
  <2> QED
    BY <1>2
<1> HIDE DEF calls, wanted
<1> QED
  BY <1>1, <1>7, <1>8, BeginStep

\* The names of a request
LEMMA ListsAre ==
  \A names \in Lists : names \in NameLists /\ Range(names) \in SUBSET Names
<1> SUFFICES ASSUME NEW names \in Lists PROVE names \in NameLists /\ Range(names) \in SUBSET Names
  OBVIOUS
<1>1. names \in UNION {[1..m -> Names] : m \in 0..MaxItems} /\ IsInjective(names)
  BY DEF Lists, BoundedSeq, SeqOf
<1>2. PICK m \in 0..MaxItems : names \in [1..m -> Names]
  BY <1>1
<1>3. names \in Seq(Names)
  BY <1>2
<1>4. \A i \in DOMAIN names : names[i] \in Names
  BY <1>2
<1> QED
  BY <1>1, <1>3, <1>4 DEF NameLists, Range

\* A chain that starts with a call is not empty.
LEMMA SomeCall ==
  ASSUME NEW S, NEW u \in Seq(S), NEW r \in Seq(S), u # <<>>
  PROVE  u \o r # <<>>
<1>1. Len(u) \in Nat /\ Len(r) \in Nat /\ Len(u) # 0
  BY EmptySeq
<1>2. Len(u \o r) = Len(u) + Len(r)
  BY ConcatProperties
<1>3. Len(u \o r) # 0
  BY <1>1, <1>2
<1> QED
  BY <1>3

\* Where a request to move pages wants them
LEMMA MovedHeading ==
  ASSUME IInv, Idle, files' = files, NEW src \in Locations, NEW dst \in Locations,
         NEW names \in Lists, want' = WantMoved(src, dst, Range(names))
  PROVE  Heading(Shift(src, dst, Range(names)), {})'
<1>1. FilesFit(files) /\ Placed(files, want)
  BY Calm
<1>2. Range(names) \in SUBSET Names
  BY ListsAre
<1>3. Leads(files, WantMoved(src, dst, Range(names)), hand'.page, Shift(src, dst, Range(names)), {})
  BY <1>1, <1>2, MovedLeads
<1>4. Leads(files', want', hand'.page, Shift(src, dst, Range(names)), {})
  BY <1>3
<1> QED
  BY <1>4 DEF Heading

\* Pages are to be moved.
LEMMA MovePagesStep ==
  ASSUME IInv, NEW src \in Locations, NEW dst \in Locations, NEW names \in Lists,
         MovePages(src, dst, names)
  PROVE  IInv'
<1> DEFINE calls == Moves(src, dst, names)
           wanted == WantMoved(src, dst, Range(names))
<1>1. Begin(calls, wanted) /\ Aging(Outdated(dst)) /\ hand' = hand /\ names # <<>>
  BY DEF MovePages
<1>2. /\ Idle /\ todo' = calls /\ want' = wanted /\ files' = files /\ yml' = yml /\ nav' = nav
      /\ Exact' => Exact /\ ~Outdated(dst)
  <2> HIDE DEF calls, wanted
  <2> QED
    BY <1>1, BeginFrame
<1>3. names \in NameLists
  BY ListsAre
<1>4. calls # <<>>
  BY <1>1, <1>3, MovesNone
<1>5. Tended(files, yml, nav) /\ (Exact => Ordered(files, yml) /\ Kept(files)) /\ hand = NoPage
  BY <1>2, Calm
<1>6. SoundNow'
  BY <1>2, <1>5 DEF SoundNow
<1>7. Exact' => HasKeep(files', dst)
  BY <1>2, NotOutdated
<1>8. Heading(Shift(src, dst, Range(names)), {})'
  BY <1>2, MovedHeading
<1>9. Moving(src, dst, names)'
  BY <1>1, <1>2, <1>5, <1>6, <1>7, <1>8 DEF Moving
<1>10. Underway'
  BY <1>3, <1>9, InMovesUnderway
<1> HIDE DEF calls, wanted
<1> QED
  BY <1>1, <1>4, <1>10, BeginStep

\* A collection is to be made, of pages that are in none.
LEMMA CreateCollectionStep ==
  ASSUME IInv, NEW c \in Cols, NEW names \in Lists, CreateCollection(c, names)
  PROVE  IInv'
<1> DEFINE src == <<Unlinked, Top>>
           dst == <<c, Top>>
           create == [op |-> "createYml", col |-> c]
           calls == <<create>> \o Moves(src, dst, names)
           wanted == WantMoved(src, dst, Range(names))
<1>1. Begin(calls, wanted) /\ Aging(FALSE) /\ hand' = hand
  BY DEF CreateCollection
<1>2. /\ Idle /\ todo' = calls /\ want' = wanted /\ files' = files /\ yml' = yml /\ nav' = nav
      /\ Exact' => Exact
  <2> HIDE DEF calls, wanted
  <2> QED
    BY <1>1, BeginFrame
<1>3. names \in NameLists
  BY ListsAre
<1>4. src \in Locations /\ dst \in Locations
  BY Places DEF Folders
<1>5. calls # <<>>
  <2>1. Moves(src, dst, names) \in Seq(Chain)
    BY <1>3, <1>4, MovesFirst
  <2> HIDE DEF create, src, dst
  <2> QED
    BY <2>1, First
<1>6. Tended(files, yml, nav) /\ (Exact => Ordered(files, yml) /\ Kept(files)) /\ hand = NoPage
  BY <1>2, Calm
<1>7. SoundNow'
  BY <1>2, <1>6 DEF SoundNow
<1>8. Heading(Shift(src, dst, Range(names)), {})'
  <2>1. files' = files /\ Idle /\ want' = wanted
    BY <1>2
  <2> QED
    BY <2>1, <1>4, MovedHeading
<1>9. NewCollection(c, names)'
  BY <1>1, <1>2, <1>6, <1>7, <1>8 DEF NewCollection
<1>10. Underway'
  BY <1>3, <1>9 DEF Underway
<1> HIDE DEF calls, wanted
<1> QED
  BY <1>1, <1>5, <1>10, BeginStep

\* A subfolder is to be made, of pages of its collection.
LEMMA CreateSubcollectionStep ==
  ASSUME IInv, NEW c \in Cols, NEW s \in Subs, NEW names \in Lists, CreateSubcollection(c, s, names)
  PROVE  IInv'
<1> DEFINE src == <<c, Top>>
           dst == <<c, s>>
           keep == [op |-> "keep", path |-> <<c, s, Keep>>]
           add == [op |-> "addItem", col |-> c, item |-> <<s, Keep>>]
           calls == <<keep, add>> \o Moves(src, dst, names)
           wanted == WantMoved(src, dst, Range(names))
<1>1. Begin(calls, wanted) /\ Aging(FALSE) /\ hand' = hand /\ c \in Collections
  BY DEF CreateSubcollection
<1>2. /\ Idle /\ todo' = calls /\ want' = wanted /\ files' = files /\ yml' = yml /\ nav' = nav
      /\ Exact' => Exact
  <2> HIDE DEF calls, wanted
  <2> QED
    BY <1>1, BeginFrame
<1>3. names \in NameLists
  BY ListsAre
<1>4. src \in Locations /\ dst \in Locations
  BY Places DEF Folders
<1>5. calls # <<>>
  <2> DEFINE r == Moves(src, dst, names)
             S == Chain \cup {keep, add}
  <2>1. r \in Seq(Chain)
    BY <1>3, <1>4, MovesFirst
  <2> HIDE DEF keep, add, r
  <2>2. r \in Seq(S) /\ <<keep, add>> \in Seq(S) /\ <<keep, add>> # <<>>
    BY <2>1
  <2> QED
    BY <2>2, SomeCall
<1>6. Tended(files, yml, nav) /\ (Exact => Ordered(files, yml) /\ Kept(files)) /\ hand = NoPage
  BY <1>2, Calm
<1>7. SoundNow' /\ yml'[c] # Nothing
  BY <1>1, <1>2, <1>6 DEF SoundNow, Collections
<1>8. Heading(Shift(src, dst, Range(names)), {})'
  <2>1. files' = files /\ Idle /\ want' = wanted
    BY <1>2
  <2> QED
    BY <2>1, <1>4, MovedHeading
<1>9. add = ItemCall("addItem", <<c, s>>, Keep)
  BY DEF ItemCall
<1>10. NewFolder(c, s, names)'
  BY <1>1, <1>2, <1>6, <1>7, <1>8, <1>9 DEF NewFolder
<1>11. Underway'
  BY <1>3, <1>10 DEF Underway
<1> HIDE DEF calls, wanted
<1> QED
  BY <1>1, <1>5, <1>11, BeginStep

\* A collection is to be renamed,
LEMMA RenameCollectionStep ==
  ASSUME IInv, NEW c \in Cols, NEW new \in Cols, RenameCollection(c, new)
  PROVE  IInv'
<1> DEFINE calls == <<[op |-> "renameDir", col |-> c, new |-> new], KeyCall(c, new), NavCall(c, {new})>>
           wanted == Rebased(want, c, new)
<1>1. Begin(calls, wanted) /\ Aging(FALSE) /\ hand' = hand
  BY DEF RenameCollection, KeyCall, NavCall
<1>2. /\ Idle /\ todo' = calls /\ want' = wanted /\ files' = files /\ yml' = yml /\ nav' = nav
      /\ Exact' => Exact /\ before'.want = want
  <2> HIDE DEF calls, wanted
  <2> QED
    BY <1>1, BeginFrame
<1>3. before'.want = want
  <2> HIDE DEF calls, wanted
  <2> QED
    BY <1>1, BeginFrame
<1>4. /\ Tended(files, yml, nav) /\ (Exact => Ordered(files, yml) /\ Kept(files)) /\ hand = NoPage
      /\ Placed(files, want)
  BY <1>2, Calm
<1>5. SoundNow'
  BY <1>2, <1>4 DEF SoundNow
<1>6. RenamingDir(c, new)'
  <2>1. \E w \in {before'.want} : Placed(files', w) /\ want' = Rebased(w, c, new)
    BY <1>2, <1>3, <1>4
  <2> QED
    BY <2>1, <1>1, <1>2, <1>4, <1>5 DEF RenamingDir, KeyCall, NavCall
<1>7. Underway'
  BY <1>6 DEF Underway
<1>8. calls # <<>>
  <2> HIDE DEF wanted
  <2> QED
    OBVIOUS
<1> HIDE DEF calls, wanted
<1> QED
  BY <1>1, <1>7, <1>8, BeginStep

\* or deleted.
LEMMA DeleteCollectionStep ==
  ASSUME IInv, NEW c \in Cols, DeleteCollection(c)
  PROVE  IInv'
<1> DEFINE gone == {p \in DOMAIN want : p[1] = c}
           calls == <<[op |-> "deleteDir", col |-> c, sub |-> Top], NavCall(c, {})>>
           wanted == WantWithout(gone)
<1>1. Begin(calls, wanted) /\ Aging(FALSE) /\ hand' = hand
  BY DEF DeleteCollection, NavCall
<1>2. /\ Idle /\ todo' = calls /\ want' = wanted /\ files' = files /\ yml' = yml /\ nav' = nav
      /\ Exact' => Exact
  <2> HIDE DEF calls, wanted
  <2> QED
    BY <1>1, BeginFrame
<1>3. /\ Tended(files, yml, nav) /\ (Exact => Ordered(files, yml) /\ Kept(files)) /\ hand = NoPage
      /\ Placed(files, want) /\ PagePaths = PagesOf(files)
  BY <1>2, Calm
<1>4. SoundNow'
  BY <1>2, <1>3 DEF SoundNow
<1>5. PagePaths' = PagePaths
  BY <1>2 DEF PagePaths
<1>6. Without({p \in PagePaths : p[1] = c})'
  <2> DEFINE H == {p \in PagePaths : p[1] = c}
  <2>1. gone = H
    BY <1>3 DEF Placed
  <2>2. want' = WantWithout(gone)
    BY <1>2
  <2>4. H' = H
    BY <1>5
  <2>5. DOMAIN want' = PagesOf(files) \ gone /\ \A p \in DOMAIN want' : want'[p] = files[p].page
    BY <2>2, <1>3 DEF Placed, WantWithout
  <2>6. DOMAIN want' = PagePaths' \ H' /\ \A p \in DOMAIN want' : want'[p] = files'[p].page
    <3> HIDE DEF gone, H
    <3> QED
      BY <2>1, <2>4, <2>5, <1>2, <1>3, <1>5
  <2> QED
    BY <2>6 DEF Without
<1>7. DeletingDir(c)'
  BY <1>1, <1>2, <1>3, <1>4, <1>6 DEF DeletingDir, NavCall
<1>8. Underway'
  BY <1>7 DEF Underway
<1>9. calls # <<>>
  OBVIOUS
<1> HIDE DEF calls, wanted
<1> QED
  BY <1>1, <1>8, <1>9, BeginStep

\* A subfolder is to be deleted.
LEMMA DeleteSubcollectionStep ==
  ASSUME IInv, NEW c \in Cols, NEW s \in Subs, DeleteSubcollection(c, s)
  PROVE  IInv'
<1> DEFINE gone == Under(DOMAIN want, <<c, s>>)
           calls == <<[op |-> "deleteDir", col |-> c, sub |-> s], [op |-> "deleteFolder", col |-> c, sub |-> s]>>
           wanted == WantWithout(gone)
<1>1. Begin(calls, wanted) /\ Aging(FALSE) /\ hand' = hand
  BY DEF DeleteSubcollection
<1>2. /\ Idle /\ todo' = calls /\ want' = wanted /\ files' = files /\ yml' = yml /\ nav' = nav
      /\ Exact' => Exact
  <2> HIDE DEF calls, wanted
  <2> QED
    BY <1>1, BeginFrame
<1>3. /\ Tended(files, yml, nav) /\ (Exact => Ordered(files, yml) /\ Kept(files)) /\ hand = NoPage
      /\ Placed(files, want) /\ PagePaths = PagesOf(files)
  BY <1>2, Calm
<1>4. SoundNow'
  BY <1>2, <1>3 DEF SoundNow
<1>5. PagePaths' = PagePaths
  BY <1>2 DEF PagePaths
<1>6. Without(Under(PagePaths, <<c, s>>))'
  <2> DEFINE H == Under(PagePaths, <<c, s>>)
  <2>1. gone = H
    BY <1>3 DEF Placed
  <2>2. want' = WantWithout(gone)
    BY <1>2
  <2>4. H' = H
    BY <1>5 DEF Under
  <2>5. DOMAIN want' = PagesOf(files) \ gone /\ \A p \in DOMAIN want' : want'[p] = files[p].page
    BY <2>2, <1>3 DEF Placed, WantWithout
  <2>6. DOMAIN want' = PagePaths' \ H' /\ \A p \in DOMAIN want' : want'[p] = files'[p].page
    <3> HIDE DEF gone, H
    <3> QED
      BY <2>1, <2>4, <2>5, <1>2, <1>3, <1>5
  <2> QED
    BY <2>6 DEF Without
<1>7. DeletingFolder(c, s)'
  BY <1>1, <1>2, <1>3, <1>4, <1>6 DEF DeletingFolder
<1>8. Underway'
  BY <1>7 DEF Underway
<1>9. calls # <<>>
  OBVIOUS
<1> HIDE DEF calls, wanted
<1> QED
  BY <1>1, <1>8, <1>9, BeginStep

\* The navigation is to be saved.
LEMMA UpdateNavigationStep ==
  ASSUME IInv, NEW cols \in SUBSET Cols, UpdateNavigation(cols)
  PROVE  IInv'
<1> DEFINE calls == <<[op |-> "setNav", cols |-> cols]>>
<1>1. Begin(calls, want) /\ Aging(FALSE) /\ hand' = hand /\ cols \subseteq Collections
  BY DEF UpdateNavigation
<1>2. /\ Idle /\ todo' = calls /\ want' = want /\ files' = files /\ yml' = yml /\ nav' = nav
      /\ Exact' => Exact
  <2> HIDE DEF calls
  <2> QED
    BY <1>1, BeginFrame
<1>3. /\ Tended(files, yml, nav) /\ (Exact => Ordered(files, yml) /\ Kept(files)) /\ hand = NoPage
      /\ Placed(files, want)
  BY <1>2, Calm
<1>4. SoundNow'
  BY <1>2, <1>3 DEF SoundNow
<1>5. SavingNav(cols)'
  BY <1>1, <1>2, <1>3, <1>4 DEF SavingNav, Collections
<1>6. Underway'
  BY <1>5 DEF Underway
<1>7. calls # <<>>
  OBVIOUS
<1> HIDE DEF calls
<1> QED
  BY <1>1, <1>6, <1>7, BeginStep

\* An order that lists the files of a collection has .keep for each folder, and for no page at the top.
LEMMA KeepersOf ==
  ASSUME NEW fs, FilesFit(fs), Kept(fs), NEW c, NEW o, Range(o) = Entries(fs, c)
  PROVE  Keepers(o)
<1>1. DOMAIN fs \subseteq Paths
  BY DEF FilesFit
<1>2. \A x : x \in Entries(fs, c) <=> x = <<x[1], x[2]>> /\ <<c, x[1], x[2]>> \in DOMAIN fs
  BY <1>1, EntriesAre
<1>3. \A p \in DOMAIN fs : p[2] # Top => KeepOf(p) \in DOMAIN fs
  BY <1>1, KeptHere
<1> SUFFICES ASSUME NEW x \in Entries(fs, c)
             PROVE  /\ x[1] # Top => <<x[1], Keep>> \in Entries(fs, c)
                    /\ x[1] = Top => x[2] # Keep
  BY DEF Keepers
<1> DEFINE p == <<c, x[1], x[2]>>
<1>4. p \in DOMAIN fs /\ p[1] = c /\ p[2] = x[1] /\ p[3] = x[2] /\ KeepOf(p) = <<c, x[1], Keep>>
  BY <1>2 DEF KeepOf
<1> HIDE DEF p
<1>5. ASSUME x[1] # Top PROVE <<x[1], Keep>> \in Entries(fs, c)
  <2> DEFINE y == <<x[1], Keep>>
  <2>1. y = <<y[1], y[2]>> /\ <<c, y[1], y[2]>> \in DOMAIN fs
    BY <1>3, <1>4, <1>5
  <2> HIDE DEF y
  <2>2. y \in Entries(fs, c)
    BY <2>1, <1>2
  <2> QED
    BY <2>2 DEF y
<1>6. p[3] = Keep => p[2] # Top
  BY <1>1, <1>4, Triples
<1> QED
  BY <1>4, <1>5, <1>6

\* An order is to be saved: it counts as out of date unless it shows what there is.
LEMMA SavingBegins ==
  ASSUME IInv, NEW c \in Cols, NEW order \in Orders, SaveOrder(c, order),
         /\ Exact /\ Shown(order) = Shown(yml[c].order) => Orderly(order, Entries(files, c))
  PROVE  IInv'
<1> DEFINE call == [op |-> "setOrder", col |-> c, order |-> order]
           calls == <<call>>
<1>1. Begin(calls, want) /\ Aging(Shown(order) # Shown(yml[c].order)) /\ hand' = hand
  BY DEF SaveOrder
<1>2. /\ Idle /\ todo' = calls /\ want' = want /\ files' = files /\ yml' = yml /\ nav' = nav
      /\ Exact' => Exact /\ Shown(order) = Shown(yml[c].order)
  <2> HIDE DEF calls
  <2> QED
    BY <1>1, BeginFrame
<1>3. /\ Tended(files, yml, nav) /\ (Exact => Ordered(files, yml) /\ Kept(files)) /\ hand = NoPage
      /\ Placed(files, want)
  BY <1>2, Calm
<1>4. SoundNow'
  BY <1>2, <1>3 DEF SoundNow
<1>5. Saving(c, order)'
  BY <1>1, <1>2, <1>3, <1>4 DEF Saving
<1>6. todo' # <<>> /\ Head(todo') = call
  <2> HIDE DEF call
  <2> QED
    BY <1>2
<1>7. (Doing("setOrder") /\ Saving(c, Head(todo).order))'
  BY <1>5, <1>6 DEF Doing
<1>8. Underway'
  BY <1>7 DEF Underway
<1>9. calls # <<>>
  OBVIOUS
<1> HIDE DEF calls
<1> QED
  BY <1>1, <1>8, <1>9, BeginStep

\* The order of a collection between requests
LEMMA OrderNow ==
  ASSUME IInv, Idle, NEW c \in Cols, yml[c] # Nothing
  PROVE  /\ yml[c].order \in Orders
         /\ Exact => Orderly(yml[c].order, Entries(files, c)) /\ Keepers(yml[c].order)
<1>1. yml[c].order \in Orders
  BY OrderIn
<1>2. FilesFit(files) /\ (Exact => Ordered(files, yml) /\ Kept(files))
  BY Calm
<1>3. ASSUME Exact PROVE Orderly(yml[c].order, Entries(files, c)) /\ Keepers(yml[c].order)
  <2>1. OrdersBut(files, yml, c, Entries(files, c))
    BY <1>2, <1>3, OrdersOf
  <2>2. Orderly(yml[c].order, Entries(files, c))
    BY <2>1 DEF OrdersBut
  <2>3. Range(yml[c].order) = Entries(files, c)
    BY <2>2 DEF Orderly
  <2> QED
    BY <2>2, <2>3, <1>2, <1>3, KeepersOf
<1> QED
  BY <1>1, <1>3

\* The order of a collection is to be saved,
LEMMA ReorderCollectionStep ==
  ASSUME IInv, NEW c \in Cols, ReorderCollection(c)
  PROVE  IInv'
<1> DEFINE o == yml[c].order
<1>1. PICK list \in SetToAllKPermutations(Range(YmlToObj(o))) : SaveOrder(c, ObjToYml(list))
  BY DEF ReorderCollection
<1>2. yml[c] # Nothing
  BY DEF ReorderCollection, Loads
<1>3. Idle
  BY <1>1 DEF SaveOrder, Begin
<1>4. o \in Orders /\ (Exact => Orderly(o, Entries(files, c)) /\ Keepers(o))
  BY <1>2, <1>3, OrderNow
<1>5. ObjToYml(list) \in Orders
  BY <1>4, ReorderedFits
<1>6. Exact /\ Shown(ObjToYml(list)) = Shown(o) => Orderly(ObjToYml(list), Entries(files, c))
  BY <1>4, ListSaved
<1> QED
  BY <1>1, <1>5, <1>6, SavingBegins

\* or that of a subfolder.
LEMMA ReorderSubcollectionStep ==
  ASSUME IInv, NEW c \in Cols, NEW s \in Subs, ReorderSubcollection(c, s)
  PROVE  IInv'
<1> DEFINE o == yml[c].order
<1>1. PICK names \in Lists : SaveOrder(c, FolderPut(o, s, names))
  BY DEF ReorderSubcollection, FolderPut
<1>2. yml[c] # Nothing
  BY DEF ReorderSubcollection, Loads
<1>3. Idle
  BY <1>1 DEF SaveOrder, Begin
<1>4. o \in Orders /\ (Exact => Orderly(o, Entries(files, c)) /\ Keepers(o))
  BY <1>2, <1>3, OrderNow
<1>5. names \in NameLists /\ names \in Seq(Names)
  BY ListsAre DEF NameLists
<1>6. FolderPut(o, s, names) \in Orders
  BY <1>4, <1>5, FolderPutFits
<1>7. Exact /\ Shown(FolderPut(o, s, names)) = Shown(o) => Orderly(FolderPut(o, s, names), Entries(files, c))
  BY <1>4, <1>5, FolderSaved
<1> QED
  BY <1>1, <1>6, <1>7, SavingBegins

\* The files of a subfolder, in a list
LEMMA FolderFiles ==
  ASSUME IInv, Idle, NEW c, NEW s, NEW names \in SetToSeqs(NamesOf(files, c, s))
  PROVE  /\ names \in FileLists /\ Range(names) = NamesOf(files, c, s)
         /\ NamesOf(files, c, s) \subseteq Names \cup {Keep}
<1> DEFINE S == NamesOf(files, c, s)
<1>1. DOMAIN files \subseteq Paths
  BY Calm
<1>2. S \subseteq Names \cup {Keep}
  <2>1. \A p \in DOMAIN files : p[3] \in Names \cup {Keep}
    BY <1>1, Triples
  <2> QED
    BY <2>1 DEF NamesOf, Under
<1>3. IsFiniteSet(S)
  <2>1. IsFiniteSet(Names \cup {Keep})
    BY CollectionsAssumption, FS_AddElement
  <2> QED
    BY <1>2, <2>1, FS_Subset
<1> HIDE DEF S
<1>4. names \in Seq(S) /\ IsInjective(names) /\ Range(names) = S
  BY <1>3, ListsOfSet DEF S
<1>5. names \in Seq(Names \cup {Keep})
  BY <1>2, <1>4
<1> QED
  BY <1>2, <1>4, <1>5 DEF FileLists, S

\* A subfolder is to be renamed, with the files it has now.
LEMMA RenameSubcollectionStep ==
  ASSUME IInv, NEW c \in Cols, NEW s \in Subs, NEW new \in Subs, RenameSubcollection(c, s, new)
  PROVE  IInv'
<1> DEFINE S == NamesOf(files, c, s)
           keep == [op |-> "keep", path |-> <<c, new, Keep>>]
           chain(names) == <<keep>> \o Refiles(c, s, new, names) \o <<ListCall(c, s, new)>>
           wanted == WantMoved(<<c, s>>, <<c, new>>, Names)
<1>1. PICK names \in SetToSeqs(S) : Begin(chain(names), wanted)
  BY DEF RenameSubcollection, NamesOf, Refiles, ListCall
<1> DEFINE calls == chain(names)
<1>2. Aging(FALSE) /\ hand' = hand /\ Under(DOMAIN files, <<c, s>>) # {}
  BY DEF RenameSubcollection
<1>3. /\ Idle /\ todo' = calls /\ want' = wanted /\ files' = files /\ yml' = yml /\ nav' = nav
      /\ Exact' => Exact
  <2>1. Begin(calls, wanted)
    BY <1>1
  <2> HIDE DEF calls, wanted
  <2> QED
    BY <2>1, <1>2, BeginFrame
<1>4. /\ Tended(files, yml, nav) /\ (Exact => Ordered(files, yml) /\ Kept(files)) /\ hand = NoPage
      /\ Placed(files, want) /\ FilesFit(files) /\ DOMAIN files \subseteq Paths
  BY <1>3, Calm
<1>5. names \in FileLists /\ Range(names) = S /\ S \subseteq Names \cup {Keep}
  <2>1. names \in SetToSeqs(S)
    BY <1>1
  <2> QED
    BY <1>3, <2>1, FolderFiles
<1>9. S # {} /\ yml[c] # Nothing
  <2>1. PICK p \in DOMAIN files : p[1] = c /\ p[2] = s
    BY <1>2 DEF Under
  <2>2. p[3] \in S
    BY <2>1 DEF NamesOf, Under
  <2>3. p[1] # Unlinked
    BY <2>1, Places
  <2> QED
    BY <2>1, <2>2, <2>3, <1>4 DEF Tended, Covered
<1>10. names # <<>>
  <2> HIDE DEF S
  <2>1. Range(<<>>) = {}
    BY NoNames
  <2> QED
    BY <2>1, <1>5, <1>9
<1>11. calls # <<>>
  <2> DEFINE V == Chain \cup {keep}
             r == Refiles(c, s, new, names)
             last == <<ListCall(c, s, new)>>
  <2>1. r \in Seq(Chain)
    BY <1>5, RefilesFirst
  <2>2. ListCall(c, s, new) \in Chain
    BY DEF Chain
  <2>3. r \in Seq(V) /\ <<keep>> \in Seq(V) /\ <<keep>> # <<>> /\ last \in Seq(V)
    <3> HIDE DEF keep, r
    <3> QED
      BY <2>1, <2>2
  <2> HIDE DEF keep, V, r, last
  <2>4. <<keep>> \o r \in Seq(V) /\ <<keep>> \o r # <<>>
    BY <2>3, SomeCall, ConcatProperties
  <2>5. (<<keep>> \o r) \o last # <<>>
    <3> DEFINE u == <<keep>> \o r
    <3> HIDE DEF u
    <3>1. u \in Seq(V) /\ u # <<>>
      BY <2>4 DEF u
    <3>2. u \o last # <<>>
      BY <2>3, <3>1, SomeCall
    <3> QED
      BY <3>2 DEF u
  <2> QED
    BY <2>5 DEF r, last
<1>12. SoundNow' /\ NamesOf(files', c, s) = Range(names)
  BY <1>3, <1>4, <1>5 DEF SoundNow
<1>13. Heading(Shift(<<c, s>>, <<c, new>>, Range(names) \ {Keep}), {})'
  <2> DEFINE ms == Range(names) \ {Keep}
  <2>1. ms \in SUBSET Names
    BY <1>5
  <2>2. \A p \in PagesOf(files) : p = PathIn(<<c, s>>, p[3]) => (p[3] \in Names <=> p[3] \in ms)
    <3> SUFFICES ASSUME NEW p \in PagesOf(files), p = PathIn(<<c, s>>, p[3])
                 PROVE  p[3] \in Names <=> p[3] \in ms
      OBVIOUS
    <3>1. p \in DOMAIN files /\ p[3] # Keep /\ p[1] = c /\ p[2] = s
      BY DEF PagesOf, IsPage, PathIn
    <3>2. p[3] \in S
      BY <3>1 DEF NamesOf, Under
    <3> HIDE DEF S
    <3> QED
      BY <3>1, <3>2, <2>1, <1>5
  <2>3. <<c, s>> \in Locations /\ <<c, new>> \in Locations
    BY Places DEF Folders
  <2> HIDE DEF ms
  <2>4. Leads(files, WantMoved(<<c, s>>, <<c, new>>, Names), hand'.page, Shift(<<c, s>>, <<c, new>>, ms), {})
    BY <2>1, <2>2, <2>3, <1>4, MovedLeads
  <2>5. Leads(files', want', hand'.page, Shift(<<c, s>>, <<c, new>>, ms), {})
    BY <2>4, <1>3
  <2> QED
    BY <2>5 DEF Heading, ms
<1>14. NewName(c, s, new, names)'
  BY <1>2, <1>3, <1>4, <1>9, <1>10, <1>12, <1>13 DEF NewName
<1>15. Underway'
  BY <1>5, <1>14 DEF Underway
<1>16. Begin(calls, wanted)
  BY <1>1
<1> HIDE DEF calls, wanted
<1> QED
  BY <1>2, <1>11, <1>15, <1>16, BeginStep

\* Every request keeps the invariant.
LEMMA RequestStep ==
  ASSUME IInv, Requests
  PROVE  IInv'
<1>1. CASE \E loc \in Locations, n \in Names : CreatePage(loc, n) \/ DeletePage(loc, n)
  BY <1>1, CreatePageStep, DeletePageStep
<1>2. CASE \E loc \in Locations, m, n \in Names : RenamePage(loc, m, n)
  BY <1>2, RenamePageStep
<1>3. CASE \E src, dst \in Locations, names \in Lists : MovePages(src, dst, names)
  BY <1>3, MovePagesStep
<1>4. CASE \E c \in Cols, names \in Lists : CreateCollection(c, names)
  BY <1>4, CreateCollectionStep
<1>5. CASE \E c, d \in Cols : RenameCollection(c, d)
  BY <1>5, RenameCollectionStep
<1>6. CASE \E c \in Cols : DeleteCollection(c) \/ ReorderCollection(c)
  BY <1>6, DeleteCollectionStep, ReorderCollectionStep
<1>7. CASE \E c \in Cols, s \in Subs, names \in Lists : CreateSubcollection(c, s, names)
  BY <1>7, CreateSubcollectionStep
<1>8. CASE \E c \in Cols, s, t \in Subs : RenameSubcollection(c, s, t)
  BY <1>8, RenameSubcollectionStep
<1>9. CASE \E c \in Cols, s \in Subs : DeleteSubcollection(c, s) \/ ReorderSubcollection(c, s)
  BY <1>9, DeleteSubcollectionStep, ReorderSubcollectionStep
<1>10. CASE \E cols \in SUBSET Cols : UpdateNavigation(cols)
  BY <1>10, UpdateNavigationStep
<1> QED
  BY <1>1, <1>2, <1>3, <1>4, <1>5, <1>6, <1>7, <1>8, <1>9, <1>10 DEF Requests

\* Whatever was under way, the wrapper goes back to a sound site.
LEMMA RollbackStep ==
  ASSUME IInv, Rollback
  PROVE  IInv'
<1>1. /\ ~Idle /\ files' = before.files /\ yml' = before.yml /\ nav' = before.nav /\ want' = before.want
      /\ stale' = before.stale /\ todo' = <<>> /\ hand' = NoPage
  BY DEF Rollback
<1>2. Sound(files', yml', nav', want', stale')
  BY <1>1 DEF IInv, InMid
<1>3. FilesFit(files') /\ yml' \in Ymls /\ nav' \subseteq Cols /\ stale' \in 0..MaxStale
  BY <1>2 DEF Sound
<1>4. Steady'
  BY <1>1, <1>3, SteadyEmpty
<1> QED
  BY <1>1, <1>2, <1>4 DEF IInv, Idle

\* A site starts sound.
LEMMA InitFits ==
  ASSUME Init
  PROVE  IInv
<1>1. PICK ns \in SUBSET Names, id \in [Names -> Pages] :
        /\ \A m, n \in ns : id[m] = id[n] => m = n
        /\ files = [p \in {PathIn(<<Unlinked, Top>>, n) : n \in ns} |-> [page |-> id[p[3]], third |-> Top]]
        /\ want = [p \in DOMAIN files |-> id[p[3]]]
  BY DEF Init
<1>2. yml = [c \in Cols |-> Nothing] /\ nav = {} /\ todo = <<>> /\ hand = NoPage /\ stale = 0
  BY DEF Init
<1>3. \A p \in DOMAIN files : /\ p = <<Unlinked, Top, p[3]>> /\ p[1] = Unlinked /\ p[2] = Top /\ p[3] \in ns
                              /\ files[p] = [page |-> id[p[3]], third |-> Top]
  BY <1>1 DEF PathIn
<1>4. \A p \in DOMAIN files : p[3] \in Names /\ id[p[3]] \in Pages /\ id[p[3]] # Keep /\ id[p[3]] # Nothing
                              /\ p[3] # Keep
  BY <1>3, CollectionsAssumption
<1>5. PagesOf(files) = DOMAIN files
  BY <1>4 DEF PagesOf, IsPage
<1>6. FilesFit(files)
  <2>1. DOMAIN files \subseteq Paths
    BY <1>3, <1>4 DEF Paths, Folders
  <2>2. \A p \in DOMAIN files : files[p] \in Held /\ (files[p].page = Keep <=> ~IsPage(p))
    BY <1>3, <1>4 DEF Held, Folders, IsPage
  <2>3. ASSUME NEW p \in PagesOf(files), NEW q \in PagesOf(files), files[p].page = files[q].page
        PROVE  p = q
    <3>1. id[p[3]] = id[q[3]] /\ p[3] \in ns /\ q[3] \in ns
      BY <2>3, <1>3, <1>5
    <3>2. p[3] = q[3]
      BY <3>1, <1>1
    <3>3. p = <<Unlinked, Top, p[3]>> /\ q = <<Unlinked, Top, q[3]>>
      BY <1>3, <1>5
    <3> QED
      BY <3>2, <3>3
  <2>4. \A p \in PagesOf(files) : files[p].third = p[2]
    BY <1>3, <1>5
  <2> QED
    BY <2>1, <2>2, <2>3, <2>4 DEF FilesFit
<1>7. yml \in Ymls /\ nav \subseteq Cols /\ stale \in 0..MaxStale
  BY <1>2, CollectionsAssumption DEF Ymls
<1>8. Placed(files, want)
  BY <1>1, <1>3, <1>5 DEF Placed
<1>9. Tended(files, yml, nav)
  BY <1>2, <1>3 DEF Tended, Keyed, Covered, Linked
<1>10. Ordered(files, yml) /\ Kept(files)
  BY <1>2, <1>3 DEF Ordered, OrdersBut, Kept, KeptBut
<1>11. Sound(files, yml, nav, want, stale)
  BY <1>6, <1>7, <1>8, <1>9, <1>10 DEF Sound
<1>12. Steady
  <2>1. hand \in [page : Pages \cup {Nothing}, third : Folders] /\ hand.page = Nothing
    BY <1>2 DEF NoPage, Folders
  <2>2. \A p \in PagePaths : files[p].page # hand.page
    <3>1. PagePaths = PagesOf(files)
      BY DEF PagePaths, PagesOf
    <3> QED
      BY <2>1, <3>1, <1>6, PagesHave
  <2> QED
    BY <1>6, <1>7, <2>1, <2>2 DEF Steady
<1> QED
  BY <1>2, <1>11, <1>12 DEF IInv, Idle

\* A step that changes nothing keeps the invariant.
LEMMA StutterFits ==
  ASSUME IInv, UNCHANGED vars
  PROVE  IInv'
<1>1. /\ files' = files /\ yml' = yml /\ nav' = nav /\ todo' = todo /\ hand' = hand
      /\ before' = before /\ want' = want /\ stale' = stale
  BY DEF vars, site
<1>2. Steady'
  BY <1>1 DEF IInv, Steady, PagePaths
<1>3. CASE Idle
  BY <1>1, <1>2, <1>3 DEF IInv, Idle
<1>4. CASE ~Idle
  <2>1. Underway'
    <3>1. PagePaths' = PagePaths /\ (SoundNow <=> SoundNow') /\ (Exact <=> Exact')
      BY <1>1 DEF PagePaths, SoundNow, Exact
    <3>2. /\ \A to, new : Heading(to, new) => Heading(to, new)'
          /\ \A gone : Without(gone) => Without(gone)'
      BY <1>1, <3>1 DEF Heading, Without
    <3>3. \A c, s, new, names, more : Listed(c, s, new, names, more) => Listed(c, s, new, names, more)'
      BY <1>1, <3>1 DEF Listed
    <3>4. \A src, dst, ns, n, rest, third :
            /\ Moving(src, dst, ns) => Moving(src, dst, ns)'
            /\ Taking(src, dst, n, rest) => Taking(src, dst, n, rest)'
            /\ Entering(src, dst, n, rest) => Entering(src, dst, n, rest)'
            /\ Putting(src, dst, n, third, rest) => Putting(src, dst, n, third, rest)'
      BY <1>1, <3>1, <3>2 DEF Moving, Taking, Entering, Putting
    <3>5. \A c, s, ns :
            /\ NewCollection(c, ns) => NewCollection(c, ns)'
            /\ NewFolder(c, s, ns) => NewFolder(c, s, ns)'
            /\ FolderItem(c, s, ns) => FolderItem(c, s, ns)'
      <4>1. \A c, ns : NewCollection(c, ns) => NewCollection(c, ns)'
        BY <1>1, <3>1, <3>2 DEF NewCollection
      <4>2. \A c, s, ns : NewFolder(c, s, ns) => NewFolder(c, s, ns)'
        BY <1>1, <3>1, <3>2 DEF NewFolder
      <4>3. \A c, s, ns : FolderItem(c, s, ns) => FolderItem(c, s, ns)'
        BY <1>1, <3>1, <3>2 DEF FolderItem
      <4> QED
        BY <4>1, <4>2, <4>3
    <3>6. \A loc, m, n :
            /\ Updating(loc, m, n) => Updating(loc, m, n)'
            /\ Retaking(loc, m, n) => Retaking(loc, m, n)'
            /\ Deleting(loc, n) => Deleting(loc, n)'
            /\ Dropping(loc, n) => Dropping(loc, n)'
      BY <1>1, <3>1, <3>2 DEF Updating, Retaking, Deleting, Dropping
    <3>7. \A c, d, s, cols :
            /\ RenamingDir(c, d) => RenamingDir(c, d)'
            /\ RenamingKey(c, d) => RenamingKey(c, d)'
            /\ Linking(c, cols) => Linking(c, cols)'
            /\ DeletingFolder(c, s) => DeletingFolder(c, s)'
            /\ Unlisting(c, s) => Unlisting(c, s)'
            /\ SavingNav(cols) => SavingNav(cols)'
      BY <1>1, <3>1, <3>2 DEF RenamingDir, RenamingKey, Linking, DeletingFolder, Unlisting, SavingNav, Under
    <3>8. \A c : /\ DeletingDir(c) => DeletingDir(c)'
                 /\ Doing("setOrder") /\ Saving(c, Head(todo).order) =>
                      (Doing("setOrder") /\ Saving(c, Head(todo).order))'
      BY <1>1, <3>1, <3>2 DEF DeletingDir, Saving, Doing
    <3>9. \A c, s, t, n, names :
            /\ NewName(c, s, t, names) => NewName(c, s, t, names)'
            /\ Refiling(c, s, t, names) => Refiling(c, s, t, names)'
            /\ Reputting(c, s, t, n, names) => Reputting(c, s, t, n, names)'
      BY <1>1, <3>1, <3>2, <3>3 DEF NewName, Refiling, Reputting
    <3>10. Underway
      BY <1>4 DEF IInv, InMid
    <3>11. CASE \E src, dst \in Locations, ns \in NameLists : Moving(src, dst, ns)
      BY <3>4, <3>11 DEF Underway
    <3>12. CASE \E src, dst \in Locations, n \in Names, rest \in NameLists :
                   \/ Taking(src, dst, n, rest) \/ Entering(src, dst, n, rest)
                   \/ \E third \in Folders \cup {Nothing} : Putting(src, dst, n, third, rest)
      BY <3>4, <3>12 DEF Underway
    <3>13. CASE \E c \in Cols, ns \in NameLists : NewCollection(c, ns)
      BY <3>5, <3>13 DEF Underway
    <3>14. CASE \E c \in Cols, s \in Subs, ns \in NameLists : NewFolder(c, s, ns) \/ FolderItem(c, s, ns)
      BY <3>5, <3>14 DEF Underway
    <3>15. CASE \E loc \in Locations, m, n \in Names : Updating(loc, m, n) \/ Retaking(loc, m, n)
      BY <3>6, <3>15 DEF Underway
    <3>16. CASE \E loc \in Locations, n \in Names : Deleting(loc, n) \/ Dropping(loc, n)
      BY <3>6, <3>16 DEF Underway
    <3>17. CASE \E c, d \in Cols : RenamingDir(c, d) \/ RenamingKey(c, d)
      BY <3>7, <3>17 DEF Underway
    <3>18. CASE \E c \in Cols, cols \in SUBSET Cols : Linking(c, cols)
      BY <3>7, <3>18 DEF Underway
    <3>19. CASE \E c \in Cols : DeletingDir(c) \/ (Doing("setOrder") /\ Saving(c, Head(todo).order))
      BY <3>8, <3>19 DEF Underway
    <3>20. CASE \E c \in Cols, s \in Subs : DeletingFolder(c, s) \/ Unlisting(c, s)
      BY <3>7, <3>20 DEF Underway
    <3>21. CASE \E c \in Cols, s, t \in Subs, names \in FileLists :
                   NewName(c, s, t, names) \/ Refiling(c, s, t, names)
      <4>1. PICK c \in Cols, s \in Subs, t \in Subs, names \in FileLists :
              NewName(c, s, t, names) \/ Refiling(c, s, t, names)
        BY <3>21
      <4>2. NewName(c, s, t, names)' \/ Refiling(c, s, t, names)'
        BY <3>9, <4>1
      <4> QED
        BY <4>2 DEF Underway
    <3>22. CASE \E c \in Cols, s, t \in Subs, n \in Names, rest \in FileLists : Reputting(c, s, t, n, rest)
      BY <3>9, <3>22 DEF Underway
    <3>23. CASE \E cols \in SUBSET Cols : SavingNav(cols)
      BY <3>7, <3>23 DEF Underway
    <3> QED
      BY <3>10, <3>11, <3>12, <3>13, <3>14, <3>15, <3>16, <3>17, <3>18, <3>19, <3>20, <3>21, <3>22, <3>23 DEF Underway
  <2> QED
    BY <1>1, <1>2, <1>4, <2>1 DEF IInv, Idle, InMid
<1> QED
  BY <1>3, <1>4

\* A site is sound between requests, and in the middle of one what is left of it says what is
\* missing, whatever calls fail.
THEOREM CollectionsInvariance == Spec => []IInv
<1>1. Init => IInv
  BY InitFits
<1>2. IInv /\ [Next]_vars => IInv'
  BY RequestStep, CallStep, RollbackStep, StutterFits DEF Next
<1> QED
  BY <1>1, <1>2, PTL DEF Spec

\* Type correctness: pages and .keep are where files can be, every collection.yml has a key and
\* an order, the navigation links to collections.
THEOREM CollectionsTypes == Spec => []TypeOK
<1>1. IInv => TypeOK
  <2> SUFFICES ASSUME IInv PROVE TypeOK
    OBVIOUS
  <2>1. FilesFit(files) /\ yml \in Ymls /\ nav \subseteq Cols /\ stale \in 0..MaxStale
    BY DEF IInv, Steady
  <2>2. DOMAIN files \subseteq (Cols \cup {Unlinked}) \X (Subs \cup {Top}) \X (Names \cup {Keep})
    BY <2>1 DEF FilesFit, Paths, Folders
  <2>3. \A p \in DOMAIN files : files[p].page \in Pages \cup {Keep} /\ files[p].third \in Subs \cup {Top}
                                /\ (files[p].page = Keep <=> ~IsPage(p))
    BY <2>1 DEF FilesFit, Held, Folders
  <2> QED
    BY <2>1, <2>2, <2>3 DEF TypeOK, Ymls
<1> QED
  BY <1>1, CollectionsInvariance, PTL

\* Whatever requests were made, and whichever failed, unless an order was saved that was out
\* of date: every collection lists each of its pages and subfolders once, nothing it does not
\* have, and the entries of a subfolder next to each other. It takes that no folder's name ends
\* with another's, without which (Tails <- OneTail) an order can end with a folder less.
THEOREM OrdersListPages == ASSUME Tails = {} PROVE Spec => []OrderListsPages
<1>1. IInv => OrderListsPages
  <2> SUFFICES ASSUME IInv, Idle, stale = 0, NEW c \in Collections
               PROVE  LET order == yml[c].order IN
                      /\ IsInjective(order)
                      /\ Range(order) = {<<p[2], p[3]>> : p \in {q \in DOMAIN files : q[1] = c}}
                      /\ \A i, k \in DOMAIN order : order[i][1] = order[k][1] /\ order[i][1] # Top =>
                           \A j \in i..k : order[j][1] = order[i][1]
    BY DEF OrderListsPages
  <2>1. c \in Cols /\ yml[c] # Nothing
    BY DEF Collections
  <2>2. Exact
    BY DEF Exact, Exactly
  <2>3. Orderly(yml[c].order, Entries(files, c))
    BY <2>1, <2>2, OrderNow
  <2> QED
    BY <2>3 DEF Orderly, Entries, Grouped
<1> QED
  BY <1>1, CollectionsInvariance, PTL

\* Every page is where the requests that succeeded put it, and while one is under way a page
\* that it is not to delete is in one place, or in hand: none is lost or there twice.
THEOREM PagesAreWhereAsked == Spec => []PagesWhereAsked
<1>1. ASSUME IInv, Idle
      PROVE  PagePaths = DOMAIN want /\ \A p \in PagePaths : files[p].page = want[p]
  BY <1>1, Calm DEF Placed
<1>2. ASSUME IInv, ~Idle, NEW id \in Range(want) \cap Range(before.want)
      PROVE  LET at == {p \in PagePaths : files[p].page = id} IN
             IF hand.page = id THEN at = {} ELSE Cardinality(at) = 1
  <2> DEFINE at == {p \in PagePaths : files[p].page = id}
  <2>1. FilesFit(files) /\ \A p \in PagePaths : files[p].page # hand.page
    BY <1>2 DEF IInv, Steady
  <2>2. Unlost(files, hand.page, want, before.want)
    BY <1>2 DEF IInv, InMid
  <2>3. PagePaths = PagesOf(files)
    BY DEF PagePaths, PagesOf
  <2>4. CASE hand.page = id
    <3>1. at = {}
      BY <2>1, <2>4
    <3> QED
      BY <3>1, <2>4
  <2>5. CASE hand.page # id
    <3>1. PICK p \in PagesOf(files) : files[p].page = id
      BY <2>2, <2>5 DEF Unlost
    <3>2. \A q \in PagesOf(files) : files[q].page = id => q = p
      BY <2>1, <3>1 DEF FilesFit
    <3>3. at = {p}
      BY <2>3, <3>1, <3>2
    <3>4. Cardinality({p}) = 1
      BY FS_Singleton
    <3> QED
      BY <2>5, <3>3, <3>4
  <2> QED
    BY <2>4, <2>5
<1>3. IInv => PagesWhereAsked
  BY <1>1, <1>2 DEF PagesWhereAsked
<1> QED
  BY <1>3, CollectionsInvariance, PTL

\* What is shown of a page leads to it: its third_nav_title is its subfolder, its collection has
\* a collection.yml under its own name, and the navigation links to no collection without one.
THEOREM NavAndTitlesFindPages == Spec => []NavFindsPages
<1>1. IInv => NavFindsPages
  <2> SUFFICES ASSUME IInv, Idle
               PROVE  /\ \A p \in PagePaths : files[p].third = p[2]
                      /\ \A p \in DOMAIN files : p[1] # Unlinked => Loads(p[1])
                      /\ nav \subseteq {c \in Cols : Loads(c)}
    BY DEF NavFindsPages
  <2>1. /\ FilesFit(files) /\ DOMAIN files \subseteq Paths /\ PagePaths = PagesOf(files)
        /\ Tended(files, yml, nav) /\ nav \subseteq Cols
    BY Calm
  <2>2. \A p \in PagePaths : files[p].third = p[2]
    BY <2>1 DEF FilesFit
  <2>3. \A c \in Cols : c # Nothing
    BY CollectionsAssumption
  <2>4. \A c \in Cols : yml[c] # Nothing => Loads(c)
    BY <2>1, <2>3 DEF Tended, Keyed, Loads
  <2>5. \A p \in DOMAIN files : p[1] # Unlinked => p[1] \in Cols /\ yml[p[1]] # Nothing
    BY <2>1, Triples DEF Tended, Covered
  <2>6. \A c \in nav : yml[c] # Nothing
    BY <2>1, <2>3 DEF Tended, Linked
  <2> QED
    BY <2>1, <2>2, <2>4, <2>5, <2>6
<1> QED
  BY <1>1, CollectionsInvariance, PTL
-----------------------------------------------------------------------------
(* What a request does to the pages                                        *)

\* The pages that were there are at the places to leads to.
Carried(was, w, to) ==
  /\ DOMAIN w = {to[p] : p \in DOMAIN was}
  /\ \A q \in DOMAIN w : \E p \in DOMAIN was : to[p] = q /\ w[q] = was[p]

ToFolder(was, src, dst, ns) ==
  [p \in DOMAIN was |-> IF p[1] = src[1] /\ p[2] = src[2] /\ p[3] \in ns THEN PathIn(dst, p[3]) ELSE p]
ToName(was, loc, old, new) ==
  [p \in DOMAIN was |-> IF p = PathIn(loc, old) THEN PathIn(loc, new) ELSE p]
ToCollection(was, c, new) ==
  [p \in DOMAIN was |-> IF p[1] = c THEN <<new, p[2], p[3]>> ELSE p]

\* What a request asks for that is to leave each page somewhere
Rearranged(was, w) ==
  \/ w = was
  \/ \E loc \in Locations, n \in Names, page \in Pages \ Range(was) : w = With(was, PathIn(loc, n), page)
  \/ \E src, dst \in Locations, ns \in SUBSET Names : Carried(was, w, ToFolder(was, src, dst, ns))
  \/ \E loc \in Locations, m, n \in Names : Carried(was, w, ToName(was, loc, m, n))
  \/ \E c, d \in Cols : Carried(was, w, ToCollection(was, c, d))

\* and one that deletes
Gone(was, w, gone) == DOMAIN w = DOMAIN was \ gone /\ \A p \in DOMAIN w : w[p] = was[p]
Erased(was, w) ==
  \/ \E loc \in Locations, n \in Names : Gone(was, w, {PathIn(loc, n)})
  \/ \E c \in Cols : Gone(was, w, {p \in DOMAIN was : p[1] = c})
  \/ \E c \in Cols, s \in Subs : Gone(was, w, {p \in DOMAIN was : p[1] = c /\ p[2] = s})

\* Calls that leave each page of the files somewhere
Spares(call) ==
  /\ call.op # "deleteDir"
  /\ call.op = "drop" => ~IsPage(call.path)
  /\ call.op = "put" => IsPage(call.path)
  /\ call.op = "renameDir" => call.col \in Cols /\ call.new \in Cols
Sparing(calls) == \E S : calls \in Seq(S) /\ \A x \in S : Spares(x)

\* While a request is under way that is not a delete, no page there was is lost.
Whole ==
  ~Idle => \/ Erased(before.want, want)
           \/ /\ Rearranged(before.want, want)
              /\ Unlost(files, hand.page, before.want, before.want)
              /\ Sparing(todo)

-----------------------------------------------------------------------------
(* The calls spare the pages, but for those of a delete                    *)

\* The calls of the chains that move pages are sparing,
LEMMA ChainSpares == \A x \in Chain : Spares(x)
<1> SUFFICES ASSUME NEW x \in Chain PROVE Spares(x)
  OBVIOUS
<1>1. CASE \E loc \in Locations, n \in Names : x = TakeCall(loc, n)
  BY <1>1 DEF TakeCall, Spares
<1>2. CASE \E loc \in Locations, n \in Names, third \in Folders : x = PutCall(loc, n, third)
  BY <1>2, NamesApart DEF PutCall, Spares
<1>3. CASE \E op \in {"addItem", "deleteItem"}, loc \in Locations, n \in Names : x = ItemCall(op, loc, n)
  BY <1>3 DEF ItemCall, Spares
<1>4. CASE \E c \in Cols, s \in Subs : x = DropCall(<<c, s, Keep>>)
  BY <1>4 DEF DropCall, Spares, IsPage
<1>5. CASE \E c \in Cols, s \in Subs, t \in Subs : x = ListCall(c, s, t)
  BY <1>5 DEF ListCall, Spares
<1> QED
  BY <1>1, <1>2, <1>3, <1>4, <1>5 DEF Chain

\* and so are chains of them, with others of the kind in front and behind.
LEMMA ChainSparing ==
  /\ \A u \in Seq(Chain) : Sparing(u)
  /\ \A x, u : Spares(x) /\ Sparing(u) => Sparing(<<x>> \o u)
  /\ \A u, v : Sparing(u) /\ Sparing(v) => Sparing(u \o v)
  /\ \A x : Spares(x) => Sparing(<<x>>)
  /\ \A x, y : Spares(x) /\ Spares(y) => Sparing(<<x, y>>)
  /\ \A x, y, z : Spares(x) /\ Spares(y) /\ Spares(z) => Sparing(<<x, y, z>>)
<1>1. \A u \in Seq(Chain) : Sparing(u)
  BY ChainSpares DEF Sparing
<1>2. ASSUME NEW u, NEW v, Sparing(u), Sparing(v) PROVE Sparing(u \o v)
  <2>1. PICK S : u \in Seq(S) /\ \A x \in S : Spares(x)
    BY <1>2 DEF Sparing
  <2>2. PICK T : v \in Seq(T) /\ \A x \in T : Spares(x)
    BY <1>2 DEF Sparing
  <2>3. u \in Seq(S \cup T) /\ v \in Seq(S \cup T)
    BY <2>1, <2>2
  <2>4. u \o v \in Seq(S \cup T)
    BY <2>3, ConcatProperties
  <2> QED
    BY <2>1, <2>2, <2>4 DEF Sparing
<1>3. ASSUME NEW x, Spares(x) PROVE Sparing(<<x>>)
  <2> DEFINE S == {x}
             u == <<x>>
  <2>1. u \in Seq(S) /\ \A y \in S : Spares(y)
    BY <1>3
  <2> HIDE DEF S, u
  <2>2. Sparing(u)
    BY <2>1 DEF Sparing
  <2> QED
    BY <2>2 DEF u
<1>4. ASSUME NEW x, NEW y, Spares(x), Spares(y) PROVE Sparing(<<x, y>>)
  <2> DEFINE S == {x, y}
             u == <<x, y>>
  <2>1. u \in Seq(S) /\ \A d \in S : Spares(d)
    BY <1>4
  <2> HIDE DEF S, u
  <2>2. Sparing(u)
    BY <2>1 DEF Sparing
  <2> QED
    BY <2>2 DEF u
<1>5. ASSUME NEW x, NEW y, NEW z, Spares(x), Spares(y), Spares(z) PROVE Sparing(<<x, y, z>>)
  <2> DEFINE S == {x, y, z}
             u == <<x, y, z>>
  <2>1. u \in Seq(S) /\ \A d \in S : Spares(d)
    BY <1>5
  <2> HIDE DEF S, u
  <2>2. Sparing(u)
    BY <2>1 DEF Sparing
  <2> QED
    BY <2>2 DEF u
<1> QED
  BY <1>1, <1>2, <1>3, <1>4, <1>5

\* A chain that is sparing goes on so.
LEMMA SparingOn ==
  ASSUME NEW calls, Sparing(calls), calls # <<>>
  PROVE  Spares(Head(calls)) /\ Sparing(Tail(calls))
<1>1. PICK S : calls \in Seq(S) /\ \A x \in S : Spares(x)
  BY DEF Sparing
<1>2. Head(calls) \in S /\ Tail(calls) \in Seq(S)
  BY <1>1
<1> QED
  BY <1>1, <1>2 DEF Sparing

\* A page is taken only with empty hands.
LEMMA TakesEmptyHanded ==
  ASSUME IInv, Calls, Head(todo).op = "take"
  PROVE  hand = NoPage
<1>1. Underway
  BY AnyCall DEF IInv, Idle, InMid
<1>2. ASSUME NEW src \in Locations, NEW dst \in Locations, NEW n \in Names, NEW rest \in NameLists,
             Entering(src, dst, n, rest)
      PROVE  FALSE
  <2> DEFINE r == Moves(src, dst, rest)
             u == <<PutCall(dst, n, dst[2])>> \o r
  <2>1. todo = PutCalls(dst, n) \o r
    BY <1>2 DEF Entering
  <2>2. r \in Seq(Chain)
    BY MovesFirst
  <2>3. u \in Seq(Chain) /\ Head(u) = PutCall(dst, n, dst[2])
    <3>1. <<PutCall(dst, n, dst[2])>> \in Seq(Chain)
      BY PageCalls, Places, ChainJoin
    <3> HIDE DEF r
    <3> QED
      BY <2>2, <3>1, First, ChainJoin
  <2>4. todo = IF InCollection(dst) THEN <<ItemCall("addItem", dst, n)>> \o u ELSE u
    BY <2>1, <2>2, PutsFirst
  <2> HIDE DEF u
  <2>5. Head(todo) = ItemCall("addItem", dst, n) \/ Head(todo) = PutCall(dst, n, dst[2])
    BY <2>3, <2>4, First
  <2> QED
    BY <2>5 DEF ItemCall, PutCall
<1>3. ASSUME NEW src \in Locations, NEW dst \in Locations, NEW n \in Names, NEW rest \in NameLists,
             NEW third, Putting(src, dst, n, third, rest)
      PROVE  FALSE
  <2>1. Moves(src, dst, rest) \in Seq(Chain)
    BY MovesFirst
  <2>2. Head(todo) = PutCall(dst, n, third)
    BY <1>3, <2>1, First DEF Putting
  <2> QED
    BY <2>2 DEF PutCall
<1>4. ASSUME NEW c \in Cols, NEW s \in Subs, NEW t \in Subs, NEW n \in Names, NEW rest \in FileLists,
             Reputting(c, s, t, n, rest)
      PROVE  FALSE
  <2> DEFINE r == Refiles(c, s, t, rest)
             last == <<ListCall(c, s, t)>>
             put == PutCall(<<c, t>>, n, t)
  <2>1. r \in Seq(Chain) /\ last \in Seq(Chain) /\ put \in Chain
    BY RefilesFirst, PageCalls, Places DEF Chain, Folders
  <2>2. todo = (<<put>> \o r) \o last
    BY <1>4 DEF Reputting
  <2> HIDE DEF r, last, put
  <2>3. todo = <<put>> \o (r \o last) /\ r \o last \in Seq(Chain)
    BY <2>1, <2>2, ChainJoin
  <2>4. Head(todo) = put
    BY <2>3, First
  <2> QED
    BY <2>4 DEF put, PutCall
<1>5. CASE \E src, dst \in Locations, ns \in NameLists : Moving(src, dst, ns)
  BY <1>5 DEF Moving
<1>6. CASE \E src, dst \in Locations, n \in Names, rest \in NameLists :
             \/ Taking(src, dst, n, rest) \/ Entering(src, dst, n, rest)
             \/ \E third \in Folders \cup {Nothing} : Putting(src, dst, n, third, rest)
  BY <1>2, <1>3, <1>6 DEF Taking
<1>7. CASE \E c \in Cols, ns \in NameLists : NewCollection(c, ns)
  BY <1>7 DEF NewCollection
<1>8. CASE \E c \in Cols, s \in Subs, ns \in NameLists : NewFolder(c, s, ns) \/ FolderItem(c, s, ns)
  BY <1>8 DEF NewFolder, FolderItem
<1>9. CASE \E loc \in Locations, m, n \in Names : Updating(loc, m, n) \/ Retaking(loc, m, n)
  BY <1>9 DEF Updating, Retaking
<1>10. CASE \E loc \in Locations, n \in Names : Deleting(loc, n) \/ Dropping(loc, n)
  BY <1>10 DEF Deleting, Dropping
<1>11. CASE \E c, d \in Cols : RenamingDir(c, d) \/ RenamingKey(c, d)
  BY <1>11 DEF RenamingDir, RenamingKey
<1>12. CASE \E c \in Cols, cols \in SUBSET Cols : Linking(c, cols)
  BY <1>12 DEF Linking
<1>13. CASE \E c \in Cols : DeletingDir(c) \/ (Doing("setOrder") /\ Saving(c, Head(todo).order))
  BY <1>13 DEF DeletingDir, Saving
<1>14. CASE \E c \in Cols, s \in Subs : DeletingFolder(c, s) \/ Unlisting(c, s)
  BY <1>14 DEF DeletingFolder, Unlisting
<1>15. CASE \E c \in Cols, s, t \in Subs, names \in FileLists :
              NewName(c, s, t, names) \/ Refiling(c, s, t, names)
  BY <1>15 DEF NewName, Refiling
<1>16. CASE \E c \in Cols, s, t \in Subs, n \in Names, rest \in FileLists : Reputting(c, s, t, n, rest)
  BY <1>4, <1>16
<1>17. CASE \E cols \in SUBSET Cols : SavingNav(cols)
  BY <1>17 DEF SavingNav
<1> QED
  BY <1>1, <1>5, <1>6, <1>7, <1>8, <1>9, <1>10, <1>11, <1>12, <1>13, <1>14, <1>15, <1>16, <1>17 DEF Underway

-----------------------------------------------------------------------------
(* No page is lost                                                         *)

\* A file that is no page can go.
LEMMA UnlostDrop ==
  ASSUME NEW fs, NEW w, NEW was, NEW id, Unlost(fs, id, w, was), NEW path, ~IsPage(path)
  PROVE  Unlost(Less(fs, {path}), id, w, was)
<1> DEFINE gs == Less(fs, {path})
<1>1. PagesOf(gs) = PagesOf(fs) /\ \A p \in PagesOf(fs) : gs[p] = fs[p]
  BY DEF Less, PagesOf
<1> HIDE DEF gs
<1>2. Unlost(gs, id, w, was)
  BY <1>1, UnlostSame
<1> QED
  BY <1>2 DEF gs

\* A file can come where there is none.
LEMMA UnlostKeep ==
  ASSUME NEW fs, NEW w, NEW was, NEW id, Unlost(fs, id, w, was), NEW path, path \notin DOMAIN fs, NEW f
  PROVE  Unlost(With(fs, path, f), id, w, was)
<1> DEFINE gs == With(fs, path, f)
<1>1. \A p \in PagesOf(fs) : p \in PagesOf(gs) /\ gs[p] = fs[p]
  BY DEF With, PagesOf
<1> HIDE DEF gs
<1>2. {fs[p].page : p \in PagesOf(fs)} \subseteq {gs[p].page : p \in PagesOf(gs)}
  BY <1>1
<1> QED
  BY <1>2 DEF Unlost, gs

\* A collection can have another name, if none has it.
LEMMA UnlostRename ==
  ASSUME NEW fs, FilesFit(fs), NEW w, NEW was, NEW id, Unlost(fs, id, w, was),
         NEW c \in Cols, NEW d \in Cols, \A p \in DOMAIN fs : p[1] # d
  PROVE  Unlost(Rebased(fs, c, d), id, w, was)
<1> DEFINE gs == Rebased(fs, c, d)
<1>1. DOMAIN fs \subseteq Paths
  BY DEF FilesFit
<1>2. Moved(fs, gs, c, d)
  BY <1>1, RebasedIs DEF NoneIn
<1> HIDE DEF gs
<1>3. ASSUME NEW p \in PagesOf(fs)
      PROVE  InCol(c, d, p) \in PagesOf(gs) /\ gs[InCol(c, d, p)] = fs[p]
  <2>1. p \in DOMAIN fs /\ IsPage(p)
    BY DEF PagesOf
  <2>2. IsPage(InCol(c, d, p))
    BY <1>1, <2>1, InColIs
  <2> QED
    BY <1>2, <2>1, <2>2 DEF Moved, PagesOf
<1>4. {fs[p].page : p \in PagesOf(fs)} \subseteq {gs[p].page : p \in PagesOf(gs)}
  BY <1>3
<1> QED
  BY <1>4 DEF Unlost, gs

\* A call that spares the pages loses none.
LEMMA SparingCall ==
  ASSUME IInv, Calls, Spares(Head(todo)), NEW w, NEW was, Nothing \notin Range(was),
         Unlost(files, hand.page, w, was)
  PROVE  Unlost(files', hand'.page, w, was)
<1> DEFINE do == Head(todo)
<1>1. FilesFit(files) /\ hand \in [page : Pages \cup {Nothing}, third : Folders]
  BY DEF IInv, Steady
<1>2. ASSUME files' = files, hand' = hand
      PROVE  Unlost(files', hand'.page, w, was)
  BY <1>2
<1>3. CASE TakePage
  <2> DEFINE path == do.path
  <2>1. path \in DOMAIN files /\ hand' = files[path] /\ files' = Less(files, {path}) /\ do.op = "take"
    BY <1>3 DEF TakePage, Less, Doing
  <2>2. hand = NoPage
    BY <2>1, TakesEmptyHanded
  <2>3. Unlost(files, Nothing, w, was)
    BY <2>2 DEF NoPage
  <2> HIDE DEF path
  <2>4. CASE IsPage(path)
    <3>1. path \in PagesOf(files)
      BY <2>1, <2>4 DEF PagesOf
    <3>2. Unlost(Less(files, {path}), files[path].page, w, was)
      BY <2>3, <3>1, UnlostTake
    <3> QED
      BY <2>1, <3>2
  <2>5. CASE ~IsPage(path)
    <3>1. Unlost(Less(files, {path}), Nothing, w, was)
      BY <2>3, <2>5, UnlostDrop
    <3> QED
      BY <2>1, <3>1 DEF Unlost
  <2> QED
    BY <2>4, <2>5
<1>4. CASE DropFile
  <2> DEFINE path == do.path
  <2>1. hand' = hand /\ files' = Less(files, {path}) /\ do.op = "drop"
    BY <1>4 DEF DropFile, Less, Doing
  <2>2. ~IsPage(path)
    BY <2>1 DEF Spares
  <2> HIDE DEF path
  <2> QED
    BY <2>1, <2>2, UnlostDrop
<1>5. CASE PutPage
  <2> DEFINE path == do.path
             f == [hand EXCEPT !.third = IF do.third = Nothing THEN hand.third ELSE do.third]
  <2>1. path \notin DOMAIN files /\ files' = With(files, path, f) /\ IsPage(path)
    BY <1>5 DEF PutPage, Doing, Spares
  <2>2. f.page = hand.page
    BY <1>1
  <2> HIDE DEF path, f
  <2> QED
    BY <2>1, <2>2, UnlostPut
<1>6. CASE CreateKeep
  <2> DEFINE path == do.path
             f == [page |-> Keep, third |-> Top]
  <2>1. hand' = hand /\ path \notin DOMAIN files /\ files' = With(files, path, f)
    BY <1>6 DEF CreateKeep
  <2> HIDE DEF path, f
  <2> QED
    BY <2>1, UnlostKeep
<1>7. CASE DeleteDir
  BY <1>7 DEF DeleteDir, Doing, Spares
<1>8. CASE RenameDir
  <2> DEFINE c == do.col
             d == do.new
  <2>1. hand' = hand /\ files' = Rebased(files, c, d) /\ ~Exists(d) /\ c \in Cols /\ d \in Cols
    BY <1>8 DEF RenameDir, Doing, Spares
  <2>2. \A p \in DOMAIN files : p[1] # d
    BY <2>1 DEF Exists
  <2> HIDE DEF c, d
  <2> QED
    BY <1>1, <2>1, <2>2, UnlostRename
<1> QED
  BY <1>2, <1>3, <1>4, <1>5, <1>6, <1>7, <1>8
     DEF Calls, CreateYml, AddItemToOrder, DeleteItemFromOrder, UpdateItemInOrder,
         DeleteSubfolderFromOrder, RenameSubfolderInOrder, UpdateOrder, RenameCollectionInOrder,
         WriteNav, SetNav, ChangeOrder

-----------------------------------------------------------------------------
(* What a request asks for                                                 *)

\* Where the requests want the pages
LEMMA MovedCarried ==
  ASSUME NEW src, NEW dst, NEW ns
  PROVE  Carried(want, WantMoved(src, dst, ns), ToFolder(want, src, dst, ns))
<1> DEFINE to(p) == IF p[1] = src[1] /\ p[2] = src[2] /\ p[3] \in ns THEN PathIn(dst, p[3]) ELSE p
           w == WantMoved(src, dst, ns)
           f == ToFolder(want, src, dst, ns)
<1>1. w = [q \in {to(p) : p \in DOMAIN want} |-> want[CHOOSE p \in DOMAIN want : to(p) = q]]
  BY DEF WantMoved, Renamed
<1>2. \A p \in DOMAIN want : f[p] = to(p)
  BY DEF ToFolder
<1> HIDE DEF to, w, f
<1>3. ASSUME NEW q \in DOMAIN w PROVE \E p \in DOMAIN want : f[p] = q /\ w[q] = want[p]
  <2> DEFINE p == CHOOSE p \in DOMAIN want : to(p) = q
  <2>1. p \in DOMAIN want /\ to(p) = q
    BY <1>1
  <2>2. w[q] = want[p]
    BY <1>1
  <2> HIDE DEF p
  <2> QED
    BY <2>1, <2>2, <1>2
<1>4. DOMAIN w = {f[p] : p \in DOMAIN want}
  BY <1>1, <1>2
<1> QED
  BY <1>3, <1>4 DEF Carried, w, f

\* when one of them is to have another name,
LEMMA NamedCarried ==
  ASSUME NEW loc, NEW old, NEW new
  PROVE  Carried(want, Renamed(want, LAMBDA p : IF p = PathIn(loc, old) THEN PathIn(loc, new) ELSE p),
                 ToName(want, loc, old, new))
<1> DEFINE to(p) == IF p = PathIn(loc, old) THEN PathIn(loc, new) ELSE p
           w == Renamed(want, to)
           f == ToName(want, loc, old, new)
<1>1. w = [q \in {to(p) : p \in DOMAIN want} |-> want[CHOOSE p \in DOMAIN want : to(p) = q]]
  BY DEF Renamed
<1>2. \A p \in DOMAIN want : f[p] = to(p)
  BY DEF ToName
<1>5. w = Renamed(want, LAMBDA p : IF p = PathIn(loc, old) THEN PathIn(loc, new) ELSE p)
  BY DEF Renamed
<1> HIDE DEF to, w, f
<1>3. ASSUME NEW q \in DOMAIN w PROVE \E p \in DOMAIN want : f[p] = q /\ w[q] = want[p]
  <2> DEFINE p == CHOOSE p \in DOMAIN want : to(p) = q
  <2>1. p \in DOMAIN want /\ to(p) = q
    BY <1>1
  <2>2. w[q] = want[p]
    BY <1>1
  <2> HIDE DEF p
  <2> QED
    BY <2>1, <2>2, <1>2
<1>4. DOMAIN w = {f[p] : p \in DOMAIN want}
  BY <1>1, <1>2
<1> QED
  BY <1>3, <1>4, <1>5 DEF Carried, f

\* or a collection.
LEMMA RebasedCarried ==
  ASSUME NEW c, NEW d
  PROVE  Carried(want, Rebased(want, c, d), ToCollection(want, c, d))
<1> DEFINE to(p) == IF p[1] = c THEN <<d, p[2], p[3]>> ELSE p
           w == Rebased(want, c, d)
           f == ToCollection(want, c, d)
<1>1. w = [q \in {to(p) : p \in DOMAIN want} |-> want[CHOOSE p \in DOMAIN want : to(p) = q]]
  BY DEF Rebased, Renamed
<1>2. \A p \in DOMAIN want : f[p] = to(p)
  BY DEF ToCollection
<1> HIDE DEF to, w, f
<1>3. ASSUME NEW q \in DOMAIN w PROVE \E p \in DOMAIN want : f[p] = q /\ w[q] = want[p]
  <2> DEFINE p == CHOOSE p \in DOMAIN want : to(p) = q
  <2>1. p \in DOMAIN want /\ to(p) = q
    BY <1>1
  <2>2. w[q] = want[p]
    BY <1>1
  <2> HIDE DEF p
  <2> QED
    BY <2>1, <2>2, <1>2
<1>4. DOMAIN w = {f[p] : p \in DOMAIN want}
  BY <1>1, <1>2
<1> QED
  BY <1>3, <1>4 DEF Carried, w, f

\* A request that spares the pages begins.
LEMMA WholeBegins ==
  ASSUME IInv, NEW calls, NEW wanted, Begin(calls, wanted), Rearranged(want, wanted), Sparing(calls)
  PROVE  Whole'
<1>1. Idle /\ todo' = calls /\ want' = wanted /\ before'.want = want /\ files' = files
  BY DEF Begin, site
<1>2. Placed(files, want)
  BY <1>1, Calm
<1>3. Unlost(files', hand'.page, before'.want, before'.want)
  BY <1>1, <1>2, UnlostPlaced
<1> QED
  BY <1>1, <1>3 DEF Whole

\* One that deletes begins.
LEMMA ErasedBegins ==
  ASSUME IInv, NEW calls, NEW wanted, Begin(calls, wanted), Erased(want, wanted)
  PROVE  Whole'
<1>1. want' = wanted /\ before'.want = want
  BY DEF Begin
<1> QED
  BY <1>1 DEF Whole

\* The deletes
LEMMA DeletesBegin ==
  ASSUME IInv, \/ \E loc \in Locations, n \in Names : DeletePage(loc, n)
               \/ \E c \in Cols : DeleteCollection(c)
               \/ \E c \in Cols, s \in Subs : DeleteSubcollection(c, s)
  PROVE  Whole'
<1>1. \A gone : Gone(want, WantWithout(gone), gone)
  BY DEF Gone, WantWithout
<1>2. ASSUME NEW loc \in Locations, NEW n \in Names, DeletePage(loc, n) PROVE Whole'
  <2>1. Erased(want, WantWithout({PathIn(loc, n)}))
    BY <1>1 DEF Erased
  <2> QED
    BY <1>2, <2>1, ErasedBegins DEF DeletePage
<1>3. ASSUME NEW c \in Cols, DeleteCollection(c) PROVE Whole'
  <2>1. Erased(want, WantWithout({p \in DOMAIN want : p[1] = c}))
    BY <1>1 DEF Erased
  <2> QED
    BY <1>3, <2>1, ErasedBegins DEF DeleteCollection
<1>4. ASSUME NEW c \in Cols, NEW s \in Subs, DeleteSubcollection(c, s) PROVE Whole'
  <2>1. Under(DOMAIN want, <<c, s>>) = {p \in DOMAIN want : p[1] = c /\ p[2] = s}
    BY DEF Under
  <2>2. Erased(want, WantWithout(Under(DOMAIN want, <<c, s>>)))
    BY <1>1, <2>1 DEF Erased
  <2> QED
    BY <1>4, <2>2, ErasedBegins DEF DeleteSubcollection
<1> QED
  BY <1>2, <1>3, <1>4

\* A page is made or renamed.
LEMMA PageBegins ==
  ASSUME IInv, \/ \E loc \in Locations, n \in Names : CreatePage(loc, n)
               \/ \E loc \in Locations, m, n \in Names : RenamePage(loc, m, n)
  PROVE  Whole'
<1>1. ASSUME NEW loc \in Locations, NEW n \in Names, CreatePage(loc, n) PROVE Whole'
  <2>1. PICK page \in Pages \ Range(want) : Begin(PutCalls(loc, n), With(want, PathIn(loc, n), page))
    BY <1>1 DEF CreatePage
  <2>2. Rearranged(want, With(want, PathIn(loc, n), page))
    BY DEF Rearranged
  <2>3. Sparing(PutCalls(loc, n))
    BY PageCalls, ChainSparing
  <2> QED
    BY <2>1, <2>2, <2>3, WholeBegins
<1>2. ASSUME NEW loc \in Locations, NEW m \in Names, NEW n \in Names, RenamePage(loc, m, n) PROVE Whole'
  <2> DEFINE entry == [op |-> "updateItem", col |-> loc[1], item |-> <<loc[2], m>>, new |-> <<loc[2], n>>]
             third == IF InCollection(loc) /\ loc[2] = Top THEN Top ELSE Nothing
             take == [op |-> "take", path |-> PathIn(loc, m)]
             put == [op |-> "put", path |-> PathIn(loc, n), third |-> third]
             u == IF InCollection(loc) THEN <<entry>> ELSE <<>>
             v == <<take, put>>
             wanted == Renamed(want, LAMBDA p : IF p = PathIn(loc, m) THEN PathIn(loc, n) ELSE p)
  <2>1. Begin(u \o v, wanted)
    BY <1>2 DEF RenamePage
  <2>2. Carried(want, wanted, ToName(want, loc, m, n))
    BY NamedCarried
  <2>3. Spares(entry) /\ Spares(take) /\ Spares(put)
    BY NamesApart DEF Spares
  <2>4. Sparing(u)
    <3>1. <<>> \in Seq(Chain)
      OBVIOUS
    <3> HIDE DEF entry
    <3> QED
      BY <2>3, <3>1, ChainSparing
  <2>5. Sparing(v)
    <3> HIDE DEF take, put
    <3> QED
      BY <2>3, ChainSparing
  <2> HIDE DEF u, v, wanted
  <2>6. Rearranged(want, wanted)
    BY <2>2 DEF Rearranged
  <2>7. Sparing(u \o v)
    BY <2>4, <2>5, ChainSparing
  <2> QED
    BY <2>1, <2>6, <2>7, WholeBegins
<1> QED
  BY <1>1, <1>2

\* Pages are moved, to a folder there is or to a new one.
LEMMA MovesBegin ==
  ASSUME IInv, \/ \E src, dst \in Locations, names \in Lists : MovePages(src, dst, names)
               \/ \E c \in Cols, names \in Lists : CreateCollection(c, names)
               \/ \E c \in Cols, s \in Subs, names \in Lists : CreateSubcollection(c, s, names)
  PROVE  Whole'
<1>1. ASSUME NEW src \in Locations, NEW dst \in Locations, NEW names \in Lists
      PROVE  /\ Rearranged(want, WantMoved(src, dst, Range(names)))
             /\ Sparing(Moves(src, dst, names))
  <2>1. names \in NameLists /\ Range(names) \in SUBSET Names
    BY ListsAre
  <2>2. Carried(want, WantMoved(src, dst, Range(names)), ToFolder(want, src, dst, Range(names)))
    BY MovedCarried
  <2>3. Moves(src, dst, names) \in Seq(Chain)
    BY <2>1, MovesFirst
  <2> QED
    BY <2>1, <2>2, <2>3, ChainSparing DEF Rearranged
<1>2. ASSUME NEW src \in Locations, NEW dst \in Locations, NEW names \in Lists, MovePages(src, dst, names)
      PROVE  Whole'
  BY <1>1, <1>2, WholeBegins DEF MovePages
<1>3. ASSUME NEW c \in Cols, NEW names \in Lists, CreateCollection(c, names) PROVE Whole'
  <2> DEFINE src == <<Unlinked, Top>>
             dst == <<c, Top>>
             make == [op |-> "createYml", col |-> c]
             calls == <<make>> \o Moves(src, dst, names)
  <2>1. Begin(calls, WantMoved(src, dst, Range(names)))
    BY <1>3 DEF CreateCollection
  <2>2. src \in Locations /\ dst \in Locations
    BY Places DEF Folders
  <2>3. Spares(make)
    BY DEF Spares
  <2> HIDE DEF src, dst, make
  <2>4. Rearranged(want, WantMoved(src, dst, Range(names))) /\ Sparing(calls)
    BY <1>1, <2>2, <2>3, ChainSparing
  <2> HIDE DEF calls
  <2> QED
    BY <2>1, <2>4, WholeBegins
<1>4. ASSUME NEW c \in Cols, NEW s \in Subs, NEW names \in Lists, CreateSubcollection(c, s, names)
      PROVE  Whole'
  <2> DEFINE src == <<c, Top>>
             dst == <<c, s>>
             keep == [op |-> "keep", path |-> <<c, s, Keep>>]
             add == [op |-> "addItem", col |-> c, item |-> <<s, Keep>>]
             calls == <<keep, add>> \o Moves(src, dst, names)
  <2>1. Begin(calls, WantMoved(src, dst, Range(names)))
    BY <1>4 DEF CreateSubcollection
  <2>2. src \in Locations /\ dst \in Locations
    BY Places DEF Folders
  <2>3. Spares(keep) /\ Spares(add)
    BY DEF Spares
  <2> HIDE DEF src, dst, keep, add
  <2>4. Rearranged(want, WantMoved(src, dst, Range(names))) /\ Sparing(calls)
    BY <1>1, <2>2, <2>3, ChainSparing
  <2> HIDE DEF calls
  <2> QED
    BY <2>1, <2>4, WholeBegins
<1> QED
  BY <1>2, <1>3, <1>4

\* A collection or a subfolder is renamed.
LEMMA RenamesBegin ==
  ASSUME IInv, \/ \E c, d \in Cols : RenameCollection(c, d)
               \/ \E c \in Cols, s, t \in Subs : RenameSubcollection(c, s, t)
  PROVE  Whole'
<1>1. ASSUME NEW c \in Cols, NEW d \in Cols, RenameCollection(c, d) PROVE Whole'
  <2> DEFINE dir == [op |-> "renameDir", col |-> c, new |-> d]
             key == [op |-> "renameKey", col |-> c, new |-> d]
             link == [op |-> "nav", col |-> c, cols |-> {d}]
             calls == <<dir, key, link>>
             wanted == Rebased(want, c, d)
  <2>1. Begin(calls, wanted)
    BY <1>1 DEF RenameCollection
  <2>2. Spares(dir) /\ Spares(key) /\ Spares(link)
    BY DEF Spares
  <2> HIDE DEF dir, key, link
  <2>3. Sparing(calls)
    BY <2>2, ChainSparing
  <2> HIDE DEF calls
  <2>4. Rearranged(want, wanted)
    BY RebasedCarried DEF Rearranged
  <2> HIDE DEF wanted
  <2> QED
    BY <2>1, <2>3, <2>4, WholeBegins
<1>2. ASSUME NEW c \in Cols, NEW s \in Subs, NEW t \in Subs, RenameSubcollection(c, s, t) PROVE Whole'
  <2> DEFINE keep == [op |-> "keep", path |-> <<c, t, Keep>>]
             wanted == WantMoved(<<c, s>>, <<c, t>>, Names)
             last == [op |-> "renameFolder", col |-> c, sub |-> s, new |-> t]
             calls(ns) == <<keep>> \o Refiles(c, s, t, ns) \o <<last>>
  <2>1. PICK names \in SetToSeqs(NamesOf(files, c, s)) : Begin(calls(names), wanted)
    BY <1>2 DEF RenameSubcollection, NamesOf, Refiles
  <2>2. Idle
    BY <2>1 DEF Begin
  <2>3. Refiles(c, s, t, names) \in Seq(Chain)
    BY <2>2, FolderFiles, RefilesFirst
  <2>4. Spares(keep) /\ Spares(last)
    BY DEF Spares
  <2> HIDE DEF keep, last
  <2>5. Sparing(calls(names))
    BY <2>3, <2>4, ChainSparing
  <2>6. Rearranged(want, wanted)
    <3>1. <<c, s>> \in Locations /\ <<c, t>> \in Locations
      BY Places DEF Folders
    <3>2. Carried(want, wanted, ToFolder(want, <<c, s>>, <<c, t>>, Names))
      BY MovedCarried
    <3> QED
      BY <3>1, <3>2 DEF Rearranged
  <2> HIDE DEF calls, wanted
  <2> QED
    BY <2>1, <2>5, <2>6, WholeBegins
<1> QED
  BY <1>1, <1>2

\* An order or the navigation is saved.
LEMMA SavesBegin ==
  ASSUME IInv, \/ \E c \in Cols : ReorderCollection(c)
               \/ \E c \in Cols, s \in Subs : ReorderSubcollection(c, s)
               \/ \E cols \in SUBSET Cols : UpdateNavigation(cols)
  PROVE  Whole'
<1>1. ASSUME NEW c, NEW order, SaveOrder(c, order) PROVE Whole'
  <2> DEFINE set == [op |-> "setOrder", col |-> c, order |-> order]
  <2>1. Begin(<<set>>, want)
    BY <1>1 DEF SaveOrder
  <2>2. Spares(set)
    BY DEF Spares
  <2> HIDE DEF set
  <2>3. Sparing(<<set>>) /\ Rearranged(want, want)
    BY <2>2, ChainSparing DEF Rearranged
  <2> QED
    BY <2>1, <2>3, WholeBegins
<1>2. ASSUME NEW cols, UpdateNavigation(cols) PROVE Whole'
  <2> DEFINE set == [op |-> "setNav", cols |-> cols]
  <2>1. Begin(<<set>>, want)
    BY <1>2 DEF UpdateNavigation
  <2>2. Spares(set)
    BY DEF Spares
  <2> HIDE DEF set
  <2>3. Sparing(<<set>>) /\ Rearranged(want, want)
    BY <2>2, ChainSparing DEF Rearranged
  <2> QED
    BY <2>1, <2>3, WholeBegins
<1>3. ASSUME NEW c, ReorderCollection(c) PROVE Whole'
  BY <1>1, <1>3 DEF ReorderCollection
<1>4. ASSUME NEW c, NEW s, ReorderSubcollection(c, s) PROVE Whole'
  BY <1>1, <1>4 DEF ReorderSubcollection
<1> QED
  BY <1>2, <1>3, <1>4

\* No page is lost by a request that is no delete: each step keeps this.
LEMMA WholeStep ==
  ASSUME IInv, Whole, [Next]_vars
  PROVE  Whole'
<1>1. CASE Requests
  BY <1>1, DeletesBegin, PageBegins, MovesBegin, RenamesBegin, SavesBegin DEF Requests
<1>2. CASE Calls
  <2>1. todo # <<>> /\ Goes(Tail(todo))
    BY <1>2, AnyCall
  <2>2. CASE todo' = <<>>
    BY <2>2 DEF Whole, Idle
  <2>3. CASE todo' # <<>>
    <3>1. before' = before /\ want' = want /\ todo' = Tail(todo) /\ ~Idle
      BY <2>1, <2>3 DEF Goes, Idle
    <3>2. CASE Erased(before.want, want)
      BY <3>1, <3>2 DEF Whole
    <3>3. CASE /\ Rearranged(before.want, want)
               /\ Unlost(files, hand.page, before.want, before.want)
               /\ Sparing(todo)
      <4>1. Spares(Head(todo)) /\ Sparing(Tail(todo))
        BY <2>1, <3>3, SparingOn
      <4>2. Nothing \notin Range(before.want)
        BY <3>1, NothingLost
      <4>3. Unlost(files', hand'.page, before.want, before.want)
        BY <1>2, <3>3, <4>1, <4>2, SparingCall
      <4> QED
        BY <3>1, <3>3, <4>1, <4>3 DEF Whole
    <3> QED
      BY <3>1, <3>2, <3>3 DEF Whole
  <2> QED
    BY <2>2, <2>3
<1>3. CASE Rollback
  BY <1>3 DEF Rollback, Whole, Idle
<1>4. CASE UNCHANGED vars
  BY <1>4 DEF vars, site, Whole, Idle
<1> QED
  BY <1>1, <1>2, <1>3, <1>4 DEF Next

-----------------------------------------------------------------------------
(* The pages that the editors find                                         *)

View(w) == [p \in DOMAIN w |-> w[p]]

\* The pages of a site are those that are wanted, each with an identity of its own.
LEMMA Views ==
  ASSUME NEW fs, NEW w, FilesFit(fs), Placed(fs, w)
  PROVE  /\ PagesAt(fs) = View(w)
         /\ \A p \in DOMAIN w : w[p] \in Pages
         /\ \A p, q \in DOMAIN w : w[p] = w[q] => p = q
<1>1. PagesAt(fs) = [p \in PagesOf(fs) |-> fs[p].page]
  BY DEF PagesAt, PagesOf
<1>2. DOMAIN w = PagesOf(fs) /\ \A p \in PagesOf(fs) : w[p] = fs[p].page
  BY DEF Placed
<1>3. \A p \in PagesOf(fs) : fs[p].page \in Pages
  BY PagesHave
<1>4. \A p, q \in PagesOf(fs) : fs[p].page = fs[q].page => p = q
  BY DEF FilesFit
<1> QED
  BY <1>1, <1>2, <1>3, <1>4 DEF View

\* Before and after the last call of a request
LEMMA LastCall ==
  ASSUME IInv, IInv', Calls, todo' = <<>>
  PROVE  /\ Asked = View(before.want) /\ Asked' = View(want)
         /\ \A p \in DOMAIN before.want : before.want[p] \in Pages
         /\ \A p \in DOMAIN want : want[p] \in Pages
         /\ \A p, q \in DOMAIN before.want : before.want[p] = before.want[q] => p = q
<1>1. todo # <<>> /\ Goes(Tail(todo))
  BY AnyCall
<1>2. FilesFit(before.files) /\ Placed(before.files, before.want) /\ Asked = PagesAt(before.files)
  BY <1>1 DEF IInv, InMid, Sound, Idle, Asked
<1>3. FilesFit(files') /\ Placed(files', want') /\ Asked' = PagesAt(files') /\ want' = want
  BY <1>1 DEF IInv, Sound, Idle, Asked, Goes
<1>4. PagesAt(files') = View(want) /\ \A p \in DOMAIN want : want[p] \in Pages
  BY <1>3, Views
<1> QED
  BY <1>2, <1>3, <1>4, Views

\* and nothing was lost if it was no delete.
LEMMA NoneLost ==
  ASSUME IInv, IInv', Calls, todo' = <<>>,
         Unlost(files, hand.page, before.want, before.want), Sparing(todo)
  PROVE  \A p \in DOMAIN before.want : \E q \in DOMAIN want : want[q] = before.want[p]
<1>1. todo # <<>> /\ Goes(Tail(todo)) /\ ~Idle
  BY AnyCall DEF Idle
<1>2. Nothing \notin Range(before.want)
  BY <1>1, NothingLost
<1>3. Unlost(files', hand'.page, before.want, before.want)
  BY <1>1, <1>2, SparingOn, SparingCall
<1>4. hand' = NoPage /\ Placed(files', want') /\ want' = want
  BY <1>1 DEF IInv, Sound, Idle, Goes
<1> SUFFICES ASSUME NEW p \in DOMAIN before.want
             PROVE  \E q \in DOMAIN want : want[q] = before.want[p]
  OBVIOUS
<1>5. before.want[p] \in Range(before.want)
  BY DEF Range
<1>6. PICK q \in PagesOf(files') : files'[q].page = before.want[p]
  BY <1>2, <1>3, <1>4, <1>5 DEF Unlost, NoPage
<1> QED
  BY <1>4, <1>6 DEF Placed

Reached(was, w, to) ==
  /\ View(w) \in [{to[p] : p \in DOMAIN was} -> Pages]
  /\ \A p \in DOMAIN was : View(w)[to[p]] = was[p]

\* Pages that are carried, none of them lost, are each where they were to go.
LEMMA CarriedAll ==
  ASSUME NEW was, NEW w, NEW to, Carried(was, w, to),
         \A p, q \in DOMAIN was : was[p] = was[q] => p = q,
         \A p \in DOMAIN w : w[p] \in Pages,
         \A p \in DOMAIN was : \E q \in DOMAIN w : w[q] = was[p]
  PROVE  Reached(was, w, to)
<1>1. DOMAIN w = {to[p] : p \in DOMAIN was}
      /\ \A q \in DOMAIN w : \E p \in DOMAIN was : to[p] = q /\ w[q] = was[p]
  BY DEF Carried
<1>2. View(w) \in [{to[p] : p \in DOMAIN was} -> Pages]
  BY <1>1 DEF View
<1>3. ASSUME NEW p \in DOMAIN was PROVE View(w)[to[p]] = was[p]
  <2>1. PICK q \in DOMAIN w : w[q] = was[p]
    OBVIOUS
  <2>2. PICK r \in DOMAIN was : to[r] = q /\ w[q] = was[r]
    BY <1>1
  <2>3. r = p
    BY <2>1, <2>2
  <2> QED
    BY <2>1, <2>2, <2>3 DEF View
<1> QED
  BY <1>2, <1>3 DEF Reached

\* The last call of a delete is the delete of the pages,
LEMMA EraseMapped ==
  ASSUME IInv, IInv', Calls, todo' = <<>>, Erased(before.want, want)
  PROVE  Store!Next
<1> DEFINE was == before.want
<1>1. Asked = View(was) /\ Asked' = View(want)
  BY LastCall
<1>2. ASSUME NEW gone, NEW H, Gone(was, want, gone), DOMAIN was \ gone = DOMAIN was \ H
      PROVE  Store!Remove(H)
  <2>1. DOMAIN want = DOMAIN was \ H /\ \A p \in DOMAIN want : want[p] = was[p]
    BY <1>2 DEF Gone
  <2>2. DOMAIN Asked = DOMAIN was /\ \A p \in DOMAIN was : Asked[p] = was[p]
    BY <1>1 DEF View
  <2> HIDE DEF was
  <2>3. View(want) = [p \in DOMAIN was \ H |-> was[p]]
    BY <2>1 DEF View
  <2> QED
    BY <1>1, <2>2, <2>3 DEF Store!Remove
<1>3. DOMAIN Asked = DOMAIN was
  BY <1>1 DEF View
<1> HIDE DEF was
<1>4. CASE \E loc \in Locations, n \in Names : Gone(was, want, {PathIn(loc, n)})
  <2>1. PICK loc \in Locations, n \in Names : Gone(was, want, {PathIn(loc, n)})
    BY <1>4
  <2>2. Store!Remove({Store!PathIn(loc, n)})
    BY <1>2, <2>1 DEF PathIn, Store!PathIn
  <2> QED
    BY <2>2 DEF Store!Next, Store!DeletePage, Store!Locations, Locations
<1>5. CASE \E c \in Cols : Gone(was, want, {p \in DOMAIN was : p[1] = c})
  <2>1. PICK c \in Cols : Gone(was, want, {p \in DOMAIN was : p[1] = c})
    BY <1>5
  <2>2. Store!Remove({p \in DOMAIN Asked : p[1] = c})
    BY <1>2, <1>3, <2>1
  <2> QED
    BY <2>2 DEF Store!Next, Store!DeleteCollection
<1>6. CASE \E c \in Cols, s \in Subs : Gone(was, want, {p \in DOMAIN was : p[1] = c /\ p[2] = s})
  <2>1. PICK c \in Cols, s \in Subs : Gone(was, want, {p \in DOMAIN was : p[1] = c /\ p[2] = s})
    BY <1>6
  <2>2. {p \in DOMAIN Asked : Store!IsIn(p, <<c, s>>)} = {p \in DOMAIN was : p[1] = c /\ p[2] = s}
    BY <1>3 DEF Store!IsIn
  <2>3. Store!Remove({p \in DOMAIN Asked : Store!IsIn(p, <<c, s>>)})
    BY <1>2, <2>1, <2>2
  <2> QED
    BY <2>3 DEF Store!Next, Store!DeleteSubcollection
<1> QED
  BY <1>4, <1>5, <1>6 DEF Erased, was

\* and the last call of another request what was asked for.
LEMMA RearrangeMapped ==
  ASSUME IInv, IInv', Calls, todo' = <<>>, Rearranged(before.want, want),
         Unlost(files, hand.page, before.want, before.want), Sparing(todo)
  PROVE  Store!Next \/ UNCHANGED Asked
<1> DEFINE was == before.want
<1>1. /\ Asked = View(was) /\ Asked' = View(want)
      /\ \A p \in DOMAIN want : want[p] \in Pages
      /\ \A p, q \in DOMAIN was : was[p] = was[q] => p = q
      /\ \A p \in DOMAIN was : \E q \in DOMAIN want : want[q] = was[p]
  BY LastCall, NoneLost
<1>2. DOMAIN Asked = DOMAIN was /\ \A p \in DOMAIN was : Asked[p] = was[p]
  BY <1>1 DEF View
<1>0. Rearranged(was, want)
  OBVIOUS
<1> HIDE DEF was
<1>3. ASSUME NEW to, Carried(was, want, to) PROVE Store!Relocate(to)
  <2>1. Reached(was, want, to)
    BY <1>1, <1>3, CarriedAll
  <2> QED
    BY <1>1, <1>2, <2>1 DEF Reached, Store!Relocate
<1>4. CASE want = was
  BY <1>1, <1>4
<1>5. CASE \E loc \in Locations, n \in Names, page \in Pages \ Range(was) : want = With(was, PathIn(loc, n), page)
  <2>1. PICK loc \in Locations, n \in Names, page \in Pages \ Range(was) : want = With(was, PathIn(loc, n), page)
    BY <1>5
  <2> DEFINE path == PathIn(loc, n)
  <2>2. \A p \in DOMAIN was : was[p] # page
    BY DEF Range
  <2>3. /\ DOMAIN want = DOMAIN was \cup {path} /\ want[path] = page
        /\ \A p \in DOMAIN was : p # path => want[p] = was[p]
    BY <2>1 DEF With
  <2> HIDE DEF path
  <2>4. path \notin DOMAIN was
    BY <1>1, <2>2, <2>3
  <2>5. View(want) = [p \in DOMAIN was \cup {path} |-> IF p = path THEN page ELSE was[p]]
    BY <2>3 DEF View
  <2>6. Store!CreatePage(path)
    BY <1>1, <1>2, <2>2, <2>4, <2>5 DEF Store!CreatePage
  <2>7. Store!CreatePage(Store!PathIn(loc, n))
    BY <2>6 DEF path, PathIn, Store!PathIn
  <2> QED
    BY <2>7 DEF Store!Next, Store!Locations, Locations
<1>6. CASE \E src, dst \in Locations, ns \in SUBSET Names : Carried(was, want, ToFolder(was, src, dst, ns))
  <2>1. PICK src \in Locations, dst \in Locations, ns \in SUBSET Names :
          Carried(was, want, ToFolder(was, src, dst, ns))
    BY <1>6
  <2>2. ToFolder(was, src, dst, ns)
        = [p \in DOMAIN Asked |-> IF Store!IsIn(p, src) /\ p[3] \in ns THEN Store!PathIn(dst, p[3]) ELSE p]
    BY <1>2 DEF ToFolder, Store!IsIn, Store!PathIn, PathIn
  <2>3. Store!MovePages(src, dst, ns)
    BY <1>3, <2>1, <2>2 DEF Store!MovePages
  <2> QED
    BY <2>3 DEF Store!Next, Store!Locations, Locations
<1>7. CASE \E loc \in Locations, m, n \in Names : Carried(was, want, ToName(was, loc, m, n))
  <2>1. PICK loc \in Locations, m \in Names, n \in Names : Carried(was, want, ToName(was, loc, m, n))
    BY <1>7
  <2>2. ToName(was, loc, m, n)
        = [p \in DOMAIN Asked |-> IF p = Store!PathIn(loc, m) THEN Store!PathIn(loc, n) ELSE p]
    BY <1>2 DEF ToName, Store!PathIn, PathIn
  <2>3. Store!RenamePage(loc, m, n)
    BY <1>3, <2>1, <2>2 DEF Store!RenamePage
  <2> QED
    BY <2>3 DEF Store!Next, Store!Locations, Locations
<1>8. CASE \E c, d \in Cols : Carried(was, want, ToCollection(was, c, d))
  <2>1. PICK c \in Cols, d \in Cols : Carried(was, want, ToCollection(was, c, d))
    BY <1>8
  <2>2. ToCollection(was, c, d) = [p \in DOMAIN Asked |-> IF p[1] = c THEN <<d, p[2], p[3]>> ELSE p]
    BY <1>2 DEF ToCollection
  <2>3. Store!RenameCollection(c, d)
    BY <1>3, <2>1, <2>2 DEF Store!RenameCollection
  <2> QED
    BY <2>3 DEF Store!Next
<1> QED
  BY <1>0, <1>4, <1>5, <1>6, <1>7, <1>8 DEF Rearranged

\* To an editor, a step of a request does nothing, but for the last one.
LEMMA StepMapped ==
  ASSUME IInv, IInv', Whole, [Next]_vars
  PROVE  [Store!Next]_Asked
<1>1. CASE Requests
  <2> DEFINE Begun == Idle /\ files' = files /\ before'.files = files
  <2>1. \A calls, wanted : Begin(calls, wanted) => Begun
    BY DEF Begin, site
  <2> HIDE DEF Begun
  <2>2. \A loc, n : CreatePage(loc, n) \/ DeletePage(loc, n) => Begun
    BY <2>1 DEF CreatePage, DeletePage
  <2>3. \A loc, m, n : RenamePage(loc, m, n) => Begun
    BY <2>1 DEF RenamePage
  <2>4. \A src, dst, names : MovePages(src, dst, names) => Begun
    BY <2>1 DEF MovePages
  <2>5. \A c, s, names : CreateCollection(c, names) \/ CreateSubcollection(c, s, names) => Begun
    BY <2>1 DEF CreateCollection, CreateSubcollection
  <2>6. \A c, d : RenameCollection(c, d) \/ DeleteCollection(c) => Begun
    BY <2>1 DEF RenameCollection, DeleteCollection
  <2>7. \A c, s, t : RenameSubcollection(c, s, t) \/ DeleteSubcollection(c, s) => Begun
    BY <2>1 DEF RenameSubcollection, DeleteSubcollection
  <2>8. \A c, s : ReorderCollection(c) \/ ReorderSubcollection(c, s) => Begun
    <3>1. \A c, order : SaveOrder(c, order) => Begun
      BY <2>1 DEF SaveOrder
    <3> QED
      BY <3>1 DEF ReorderCollection, ReorderSubcollection
  <2>9. \A cols : UpdateNavigation(cols) => Begun
    BY <2>1 DEF UpdateNavigation
  <2>10. Begun
    BY <1>1, <2>2, <2>3, <2>4, <2>5, <2>6, <2>7, <2>8, <2>9 DEF Requests
  <2> QED
    BY <2>10 DEF Begun, Asked
<1>2. CASE Calls
  <2>1. todo # <<>> /\ Goes(Tail(todo)) /\ ~Idle
    BY <1>2, AnyCall DEF Idle
  <2>2. CASE todo' # <<>>
    BY <2>1, <2>2 DEF Goes, Asked, Idle
  <2>3. CASE todo' = <<>>
    BY <1>2, <2>1, <2>3, EraseMapped, RearrangeMapped DEF Whole
  <2> QED
    BY <2>2, <2>3
<1>3. CASE Rollback
  BY <1>3 DEF Rollback, Asked, Idle
<1>4. CASE UNCHANGED vars
  BY <1>4 DEF vars, site, Asked, Idle
<1> QED
  BY <1>1, <1>2, <1>3, <1>4 DEF Next

\* A site starts as the store does.
LEMMA StoreInit ==
  ASSUME Init
  PROVE  Store!Init
<1>1. PICK ns \in SUBSET Names, id \in [Names -> Pages] :
        /\ \A m, n \in ns : id[m] = id[n] => m = n
        /\ files = [p \in {PathIn(<<Unlinked, Top>>, n) : n \in ns} |-> [page |-> id[p[3]], third |-> Top]]
  BY DEF Init
<1> DEFINE P == {Store!PathIn(<<Unlinked, Top>>, n) : n \in ns}
<1>2. P = {PathIn(<<Unlinked, Top>>, n) : n \in ns}
  BY DEF PathIn, Store!PathIn
<1>3. \A p \in P : p = <<Unlinked, Top, p[3]>> /\ p[3] \in ns
  BY DEF Store!PathIn
<1> HIDE DEF P
<1>4. \A p \in P : IsPage(p)
  BY <1>3, CollectionsAssumption DEF IsPage
<1>5. Asked = [p \in P |-> id[p[3]]]
  <2>1. DOMAIN files = P /\ \A p \in P : files[p].page = id[p[3]]
    BY <1>1, <1>2
  <2>2. Asked = PagesAt(files)
    BY DEF Init, Idle, Asked
  <2> QED
    BY <2>1, <2>2, <1>4 DEF PagesAt
<1>6. Asked \in [P -> Pages]
  BY <1>3, <1>5
<1>7. ASSUME NEW p \in DOMAIN Asked, NEW q \in DOMAIN Asked, Asked[p] = Asked[q] PROVE p = q
  BY <1>1, <1>3, <1>5, <1>7
<1> QED
  BY <1>6, <1>7 DEF P, Store!Init

\* To the editors a request is one step: whatever fails on the way, its calls do to the pages
\* what was asked or nothing; no page is lost but by a delete, and none takes another's place.
THEOREM RequestsAreSteps == Spec => ImplementsStore
<1>1. Init => IInv /\ Whole /\ Store!Init
  BY InitFits, StoreInit DEF Init, Whole, Idle
<1>2. IInv /\ [Next]_vars => IInv'
  BY RequestStep, CallStep, RollbackStep, StutterFits DEF Next
<1>3. IInv /\ Whole /\ [Next]_vars => Whole'
  BY WholeStep
<1>4. IInv /\ IInv' /\ Whole /\ [Next]_vars => [Store!Next]_Asked
  BY StepMapped
<1> QED
  BY <1>1, <1>2, <1>3, <1>4, PTL DEF Spec, ImplementsStore, Store!Spec
=============================================================================
