---------------------------- MODULE SiteLifeProofs ----------------------------
(***************************************************************************)
(* The creation of sites, their privacy and their launch, for any number   *)
(* of submissions, sites, repositories, launches, polls and failures.      *)
(*                                                                         *)
(* The row of a site has one submission that works on it (names of sites   *)
(* are unique), and so has a repository (GitHub refuses a second one of    *)
(* the name) until its row in the table repos says whose it is (HoldsInv). *)
(* So what a submission has done stays done (DoneInv), and is all there    *)
(* when the site becomes ready.  A change of privacy is of a site whose    *)
(* creation has a deployment by then: what it has set so far stays         *)
(* (ChangeInv).                                                            *)
(*                                                                         *)
(* The two specifications share no variable; the second part is about the  *)
(* launches.                                                               *)
(***************************************************************************)
EXTENDS SiteCreation, SiteLaunch, SequenceTheorems, TLAPS

\* The steps at which the password protection, the urls, ... are done.
Protected == {"owner", "ready", "ready to clone"}
Linked == {"permissions"} \cup Protected
Deployed == {"urls"} \cup Linked
HasApps == {"deployment"} \cup Deployed
Entered == {"apps"} \cup HasApps
Branched == {"row"} \cup Entered
Pushed == {"lite"} \cup Branched
Holding == {"publish"} \cup Pushed       \* a repository
Working == {"repo", "mark"} \cup Holding \* on a site
Finished == {"made", "clone"}

At(i, steps) == Step(i) \in steps
Row(i) == [name |-> RepoOf(i), site |-> SiteOf(i)]

\* A submission works on a site of its own and on a repository of its own, and a row of
\* repos is the only one of its site and of its name.
SiteHeld ==
  /\ \A i \in Submissions : At(i, Working) =>
       sites[SiteOf(i)] # NoRow /\ sites[SiteOf(i)].job = "RUNNING"
  /\ \A i, j \in Submissions : At(i, Working) /\ At(j, Working) /\ SiteOf(i) = SiteOf(j) => i = j
RepoHeld ==
  /\ \A i \in Submissions : At(i, Holding) => github[RepoOf(i)] # NoRow
  /\ \A i, j \in Submissions : At(i, Holding) /\ At(j, Holding) /\ RepoOf(i) = RepoOf(j) => i = j
RowsInv ==
  /\ \A row \in repos : sites[row.site] # NoRow /\ github[row.name] # NoRow
  /\ \A row, other \in repos : row.name = other.name \/ row.site = other.site => row = other
  /\ \A i \in Submissions : At(i, {"repo"} \cup (Holding \ Entered)) =>
       \A row \in repos : row.site # SiteOf(i)
  /\ \A i \in Submissions : At(i, Holding \ Entered) => \A row \in repos : row.name # RepoOf(i)
  /\ \A i \in Submissions : At(i, Entered \cup Finished) => Row(i) \in repos
HoldsInv == SiteHeld /\ RepoHeld /\ RowsInv

\* Who makes a site that is shown as being made.
RunningInv ==
  \A n \in SiteNames : sites[n] # NoRow /\ sites[n].job = "RUNNING" =>
    n \in abandoned \/ \E i \in Submissions : At(i, Working) /\ SiteOf(i) = n

\* What has been done of a creation.
RepoDone(r) ==
  /\ github[r].branches = {"staging", "master", "staging-lite"}
  /\ r \in disk["staging"] \cap disk["staging-lite"]
Done(i) ==
  /\ At(i, Pushed) => {"staging", "master"} \subseteq github[RepoOf(i)].branches /\ RepoOf(i) \in disk["staging"]
  /\ At(i, Branched) => RepoDone(RepoOf(i))
  /\ At(i, HasApps) => apps[RepoOf(i)].main = {"staging", "master"}
  /\ At(i, Deployed) => deployments[SiteOf(i)] # NoRow
  /\ At(i, Linked) => github[RepoOf(i)].urls = {"staging", "master"}
  /\ At(i, Protected) => github[RepoOf(i)].protected
DoneInv == \A i \in Submissions : Done(i)

\* A ready site is complete, and who is told of a success has one.
Complete(row) ==
  /\ RepoDone(row.name)
  /\ github[row.name].urls = {"staging", "master"} /\ github[row.name].protected
  /\ deployments[row.site] # NoRow /\ apps[row.name].main = {"staging", "master"}
ReadyInv ==
  /\ \A row \in repos : sites[row.site].job = "READY" => Complete(row)
  /\ \A i \in Submissions : At(i, Finished) => sites[SiteOf(i)].job = "READY" /\ sites[SiteOf(i)] # NoRow
  /\ \A i \in Submissions : told[i] # "nothing" => Step(i) = "over"
  /\ \A i \in Submissions : told[i] = "success" =>
       sites[SiteOf(i)] # NoRow /\ sites[SiteOf(i)].job = "READY" /\ Row(i) \in repos

\* Before a site has a deployment its privacy is not changed.
UnchangedInv ==
  /\ \A r \in Repos : (change[r] # None \/ agreed[r] # Unknown) =>
       \E row \in repos : row.name = r /\ deployments[row.site] # NoRow
  /\ \A n \in SiteNames : sites[n] # NoRow /\ deployments[n] = NoRow => ~sites[n].private
  /\ \A n \in SiteNames : sites[n] = NoRow => deployments[n] = NoRow
  /\ \A i \in Submissions : At(i, Working \ ({"mark"} \cup Deployed)) => deployments[SiteOf(i)] = NoRow
  /\ \A i \in Submissions : At(i, Holding \ Entered) => ~github[RepoOf(i)].private

\* What a change of privacy has set so far stays set.
Enable(c) == c.password # NoPassword
Changed(r, row) ==
  LET c == change[r]
      d == deployments[row.site]
      site == sites[row.site]
  IN c # None =>
    /\ c.site = row.site /\ (c.private \/ Enable(c))
    /\ c.at # "done" => c.private = site.private
    /\ c.at # "main" => apps[r].mainPassword = c.password
    /\ c.at \notin {"main", "lite"} /\ d.lite => apps[r].litePassword = c.password
    /\ c.at \in {"lite", "keep"} /\ ~Enable(c) => d.password = NoPassword
    /\ c.at \in {"github", "flag", "done"} => d.password = c.password
    /\ c.at \in {"github", "flag"} => c.private # Enable(c)
    /\ c.at = "flag" => github[r].private = Enable(c)
    /\ c.at = "done" => site.private = Enable(c)
\* Privacy on GitHub and in the table, and the password that can be shown.
RepoAgrees(r, row) ==
  change[r].at # "flag" => github[r].private = sites[row.site].private \/ <<r, "repository">> \in halfway
Shows(r, row) ==
  LET c == change[r] IN
  c.at \in {"none", "main", "done"} \/ (c.at \in {"lite", "keep"} /\ Enable(c)) =>
    <<r, "password">> \in halfway \/ CanShow(row.site)
Agreed(r, row) ==
  change[r] = None /\ agreed[r] # Unknown =>
    /\ apps[r].mainPassword = agreed[r] /\ deployments[row.site].password = agreed[r]
    /\ deployments[row.site].lite => apps[r].litePassword = agreed[r]
    /\ sites[row.site].private = (agreed[r] # NoPassword)
ChangeInv ==
  \A row \in repos :
    Changed(row.name, row) /\ RepoAgrees(row.name, row) /\ Shows(row.name, row) /\ Agreed(row.name, row)

IInv == TypeOK /\ HoldsInv /\ RunningInv /\ DoneInv /\ ReadyInv /\ UnchangedInv /\ ChangeInv

-----------------------------------------------------------------------------
(* Types                                                                   *)

Creations == [at : Steps, form : Forms] \cup {[at |-> "idle"]}

\* Submission i has come to a step, and the others stay where they are.
Moves(i, at) ==
  /\ creation'[i].at = at /\ creation'[i].form = creation[i].form
  /\ \A j \in Submissions : j # i => creation'[j] = creation[j]

\* What begins a sequence of calls is some of them.
LEMMA PrefixElements ==
  ASSUME NEW S, NEW seq \in Seq(S), NEW begun \in Prefixes(seq)
  PROVE  Elements(begun) \subseteq Elements(seq)
<1>1. PICK n \in 0..Len(seq) : begun = SubSeq(seq, 1, n)
  BY DEF Prefixes
<1>2. Len(begun) = n /\ \A k \in 1..n : begun[k] = seq[k]
  BY <1>1, SubSeqProperties, ElementOfSeq
<1> QED
  BY <1>2 DEF Elements

\* A creation under way has its form.
LEMMA FormFacts ==
  ASSUME TypeOK, NEW i \in Submissions, Step(i) # "idle"
  PROVE  /\ creation[i] \in [at : Steps, form : Forms]
         /\ SiteOf(i) \in SiteNames /\ RepoOf(i) \in Repos /\ Step(i) \in Steps
<1>1. creation[i] \in Creations /\ creation[i].at # "idle"
  BY DEF TypeOK, Creations, Step
<1> QED
  BY <1>1 DEF Creations, SiteOf, RepoOf, Forms, Step

\* Going on keeps the form.
LEMMA GoMoves ==
  ASSUME TypeOK, NEW i \in Submissions, Step(i) # "idle", NEW at \in Steps, Go(i, at)
  PROVE  Moves(i, at) /\ creation' \in [Submissions -> Creations]
<1>1. creation[i] \in [at : Steps, form : Forms] /\ creation \in [Submissions -> Creations]
  BY FormFacts DEF TypeOK, Creations
<1>2. creation' = [creation EXCEPT ![i] = [creation[i] EXCEPT !.at = at]]
  BY DEF Go
<1>3. [creation[i] EXCEPT !.at = at] \in [at : Steps, form : Forms]
  BY <1>1
<1> QED
  BY <1>1, <1>2, <1>3 DEF Moves, Creations

\* So does an error.
LEMMA ErrorMoves ==
  ASSUME TypeOK, NEW i \in Submissions, Step(i) # "idle", Error(i)
  PROVE  /\ Moves(i, IF Step(i) = "site" THEN "failed" ELSE "mark")
         /\ creation' \in [Submissions -> Creations]
<1>1. (IF Step(i) = "site" THEN "failed" ELSE "mark") \in Steps
  BY DEF Steps
<1> QED
  BY <1>1, GoMoves DEF Error

\* The bounds are numbers.
LEMMA Counters ==
  ASSUME TypeOK
  PROVE  /\ Fault => faults' \in 0..MaxFaults
         /\ Request => requests' \in 0..MaxRequests
<1> QED
  BY SitePrivacyAssumption DEF TypeOK, Fault, Request

\* What the steps of a creation leave alone has its type.
TypeElsewhere ==
  /\ netlify \subseteq Repos /\ toNetlify \subseteq Repos
  /\ change \in [Repos -> Changes \cup {None}]
  /\ agreed \in [Repos -> Secrets \cup {Unknown}]
  /\ halfway \subseteq Repos \X {"password", "repository"}
  /\ owners \subseteq SiteNames

\* A repository that is there gets branches, urls or its protection.
LEMMA RepoType ==
  ASSUME TypeOK, NEW r \in Repos, github[r] # NoRow
  PROVE  /\ \A done \in SUBSET {"staging", "master", "staging-lite"} :
              [github EXCEPT ![r].branches = @ \cup done] \in [Repos -> GitHubRepos \cup {NoRow}]
         /\ \A done \in SUBSET {"staging", "master"} :
              [github EXCEPT ![r].urls = @ \cup done] \in [Repos -> GitHubRepos \cup {NoRow}]
         /\ \A p \in BOOLEAN :
              /\ [github EXCEPT ![r].protected = p] \in [Repos -> GitHubRepos \cup {NoRow}]
              /\ [github EXCEPT ![r].private = p] \in [Repos -> GitHubRepos \cup {NoRow}]
<1>1. github[r] \in GitHubRepos /\ github \in [Repos -> GitHubRepos \cup {NoRow}]
  BY DEF TypeOK
<1>2. ASSUME NEW done \in SUBSET {"staging", "master", "staging-lite"}
      PROVE  [github[r] EXCEPT !.branches = @ \cup done] \in GitHubRepos
  BY <1>1 DEF GitHubRepos
<1>3. ASSUME NEW done \in SUBSET {"staging", "master"}
      PROVE  [github[r] EXCEPT !.urls = @ \cup done] \in GitHubRepos
  BY <1>1 DEF GitHubRepos
<1>4. ASSUME NEW p \in BOOLEAN
      PROVE  [github[r] EXCEPT !.protected = p] \in GitHubRepos /\ [github[r] EXCEPT !.private = p] \in GitHubRepos
  BY <1>1 DEF GitHubRepos
<1> QED
  BY <1>1, <1>2, <1>3, <1>4

\* Several calls in a row: some of them, and the next step or that of an error.
LEMMA RowMoves ==
  ASSUME TypeOK, NEW i \in Submissions, Step(i) \notin {"idle", "site"}, NEW next \in Steps,
         NEW seq \in Seq({"staging", "master", "protection", "teams"}), NEW done, InARow(i, seq, done, next)
  PROVE  /\ creation' \in [Submissions -> Creations] /\ faults' \in 0..MaxFaults
         /\ Moves(i, next) \/ Moves(i, "mark")
         /\ Moves(i, next) /\ next # "mark" => done = Elements(seq)
<1>1. CASE done = Elements(seq) /\ Go(i, next) /\ UNCHANGED faults
  BY <1>1, GoMoves DEF TypeOK
<1>2. CASE Fails(i)
  <2>1. Moves(i, "mark") /\ creation' \in [Submissions -> Creations] /\ faults' \in 0..MaxFaults
    BY <1>2, ErrorMoves, Counters DEF Fails
  <2> QED
    BY <2>1 DEF Moves
<1> QED
  BY <1>1, <1>2 DEF InARow

-----------------------------------------------------------------------------
(* The steps of a creation that do not change the tables                   *)

\* Submissions keep what they ask for.
LEMMA MovesFacts ==
  ASSUME NEW i \in Submissions, NEW at, Moves(i, at)
  PROVE  /\ Step(i)' = at
         /\ \A j \in Submissions : j # i => Step(j)' = Step(j)
         /\ \A j \in Submissions : SiteOf(j)' = SiteOf(j) /\ RepoOf(j)' = RepoOf(j) /\ Row(j)' = Row(j)
<1> QED
  BY DEF Moves, Step, SiteOf, RepoOf, Row

\* What holds of a step holds of the next one.
Unentered == {"repo"} \cup (Holding \ Entered)
Undeployed == Working \ ({"mark"} \cup Deployed)
Follows(from, to) ==
  /\ to \in Working => from \in Working
  /\ to \in Holding => from \in Holding
  /\ to \in Unentered => from \in Unentered
  /\ to \in Holding \ Entered => from \in Holding \ Entered
  /\ to \in Entered \cup Finished => from \in Entered \cup Finished
  /\ to \in Finished => from \in Finished
  /\ to \in Undeployed => from \in Undeployed

\* More is there than before.
Growing(i) ==
  /\ \A r \in Repos : github[r] # NoRow =>
       /\ github'[r] # NoRow /\ github'[r].private = github[r].private
       /\ github[r].branches \subseteq github'[r].branches /\ github[r].urls \subseteq github'[r].urls
       /\ github[r].protected => github'[r].protected
  /\ disk["staging"] \subseteq disk'["staging"] /\ disk["staging-lite"] \subseteq disk'["staging-lite"]
  /\ \A r \in Repos : /\ apps'[r].mainPassword = apps[r].mainPassword
                      /\ apps'[r].litePassword = apps[r].litePassword
                      /\ r # RepoOf(i) \/ Step(i) # "apps" => apps'[r].main = apps[r].main
Grows(i, at) ==
  /\ Moves(i, at) /\ Follows(Step(i), at) /\ Growing(i)
  /\ Step(i) \notin {"idle", "over"}
  /\ Step(i) \in Working => at \in Working \/ SiteOf(i) \in abandoned'
  /\ abandoned \subseteq abandoned'
  /\ UNCHANGED <<sites, repos, deployments, change, agreed, halfway, told>>

\* Such a step keeps all but what the submission has done itself.
LEMMA GrowsStep ==
  ASSUME IInv, TypeOK', NEW i \in Submissions, NEW at, Grows(i, at)
  PROVE  /\ HoldsInv' /\ RunningInv' /\ ReadyInv' /\ UnchangedInv' /\ ChangeInv'
         /\ Done(i)' => DoneInv'
<1>0. TypeOK /\ (\A row \in repos : row.name \in Repos /\ row.site \in SiteNames)
  BY DEF IInv, TypeOK
<1>1. /\ Step(i)' = at /\ Follows(Step(i), at)
      /\ \A j \in Submissions : j # i => Step(j)' = Step(j)
      /\ \A j \in Submissions : SiteOf(j)' = SiteOf(j) /\ RepoOf(j)' = RepoOf(j) /\ Row(j)' = Row(j)
  BY MovesFacts DEF Grows
<1>2. \A j \in Submissions :
        /\ At(j, Working)' => At(j, Working)
        /\ At(j, Holding)' => At(j, Holding)
        /\ At(j, Unentered)' => At(j, Unentered)
        /\ At(j, Holding \ Entered)' => At(j, Holding \ Entered)
        /\ At(j, Entered \cup Finished)' => At(j, Entered \cup Finished)
        /\ At(j, Finished)' => At(j, Finished)
        /\ At(j, Undeployed)' => At(j, Undeployed)
  BY <1>1 DEF Follows, At
<1>3. /\ \A j \in Submissions : At(j, Holding) => RepoOf(j) \in Repos /\ github[RepoOf(j)] # NoRow
      /\ \A row \in repos : sites[row.site] # NoRow /\ github[row.name] # NoRow
  <2>1. \A j \in Submissions : At(j, Holding) => Step(j) # "idle"
    BY DEF At, Holding, Pushed, Branched, Entered, HasApps, Deployed, Linked, Protected
  <2> QED
    BY <1>0, <2>1, FormFacts DEF IInv, HoldsInv, RepoHeld, RowsInv
<1>4. Growing(i) /\ UNCHANGED <<sites, repos, deployments, change, agreed, halfway, told>>
  BY DEF Grows
<1>5. HoldsInv'
  <2>1. SiteHeld'
    BY <1>1, <1>2, <1>4 DEF IInv, HoldsInv, SiteHeld
  <2>2. RepoHeld'
    BY <1>1, <1>2, <1>3, <1>4 DEF IInv, HoldsInv, RepoHeld, Growing
  <2>3. RowsInv'
    <3>1. \A row \in repos' : sites'[row.site] # NoRow /\ github'[row.name] # NoRow
      BY <1>0, <1>3, <1>4 DEF Growing
    <3>2. \A j \in Submissions : At(j, Entered \cup Finished)' => Row(j)' \in repos'
      BY <1>1, <1>2, <1>4 DEF IInv, HoldsInv, RowsInv
    <3>3. /\ \A j \in Submissions : At(j, {"repo"} \cup (Holding \ Entered))' =>
               \A row \in repos' : row.site # SiteOf(j)'
          /\ \A j \in Submissions : At(j, Holding \ Entered)' => \A row \in repos' : row.name # RepoOf(j)'
      <4> USE DEF Unentered
      <4> QED
        BY <1>1, <1>2, <1>4 DEF IInv, HoldsInv, RowsInv
    <3> QED
      BY <1>4, <3>1, <3>2, <3>3 DEF IInv, HoldsInv, RowsInv
  <2> QED
    BY <2>1, <2>2, <2>3 DEF HoldsInv
<1>6. RunningInv'
  <2> SUFFICES ASSUME NEW n \in SiteNames, sites[n] # NoRow, sites[n].job = "RUNNING", n \notin abandoned'
               PROVE  \E j \in Submissions : At(j, Working)' /\ SiteOf(j)' = n
    BY <1>4 DEF RunningInv
  <2>1. PICK j \in Submissions : At(j, Working) /\ SiteOf(j) = n
    BY DEF IInv, RunningInv, Grows
  <2>2. At(j, Working)'
    BY <1>1, <2>1 DEF At, Grows
  <2> QED
    BY <1>1, <2>1, <2>2
<1>7. \A j \in Submissions : j # i => Done(j)'
  <2> SUFFICES ASSUME NEW j \in Submissions, j # i
               PROVE  Done(j)'
    OBVIOUS
  <2>0. Pushed \subseteq Holding /\ Branched \subseteq Holding /\ HasApps \subseteq Holding
        /\ Linked \subseteq Holding /\ Protected \subseteq Holding
    BY DEF Holding, Pushed, Branched, Entered, HasApps, Deployed, Linked
  <2>1. CASE At(j, Holding)
    <3>1. RepoOf(j) \in Repos /\ github[RepoOf(j)] # NoRow /\ github'[RepoOf(j)] \in GitHubRepos
      BY <1>3, <1>4, <2>1 DEF TypeOK, Growing
    <3>2. RepoOf(j) # RepoOf(i) \/ Step(i) # "apps"
      <4>1. Step(i) = "apps" => At(i, Holding)
        BY DEF At, Holding, Pushed, Branched, Entered
      <4> QED
        BY <2>1, <4>1 DEF IInv, HoldsInv, RepoHeld
    <3>3. RepoDone(RepoOf(j)) => RepoDone(RepoOf(j))'
      BY <1>1, <1>4, <3>1 DEF RepoDone, Growing, GitHubRepos
    <3>4. github[RepoOf(j)].urls = {"staging", "master"} => github'[RepoOf(j)].urls = {"staging", "master"}
      BY <1>4, <3>1 DEF Growing, GitHubRepos
    <3>5. /\ github[RepoOf(j)].branches \subseteq github'[RepoOf(j)].branches
          /\ github[RepoOf(j)].protected => github'[RepoOf(j)].protected
          /\ apps'[RepoOf(j)].main = apps[RepoOf(j)].main /\ disk["staging"] \subseteq disk'["staging"]
      BY <1>4, <3>1, <3>2 DEF Growing
    <3>6. Done(j) /\ Step(j)' = Step(j) /\ RepoOf(j)' = RepoOf(j) /\ SiteOf(j)' = SiteOf(j)
      BY <1>1 DEF IInv, DoneInv
    <3> QED
      BY <1>4, <3>3, <3>4, <3>5, <3>6 DEF Done, At
  <2>2. CASE ~At(j, Holding)
    <3>1. Deployed \subseteq Holding
      BY DEF Holding, Pushed, Branched, Entered, HasApps
    <3> QED
      BY <1>1, <2>0, <2>2, <3>1 DEF Done, At
  <2> QED
    BY <2>1, <2>2
<1>8. ReadyInv'
  <2>1. ASSUME NEW row \in repos, sites[row.site].job = "READY"
        PROVE  Complete(row)'
    <3>1. Complete(row) /\ row.name \in Repos /\ github[row.name] # NoRow
          /\ github'[row.name] \in GitHubRepos
      BY <1>0, <1>3, <1>4, <2>1 DEF IInv, ReadyInv, TypeOK, Growing
    <3>2. row.name # RepoOf(i) \/ Step(i) # "apps"
      <4> SUFFICES ASSUME row.name = RepoOf(i), Step(i) = "apps"
                   PROVE  FALSE
        OBVIOUS
      <4>1. At(i, Entered) /\ At(i, Working)
        BY DEF At, Working, Holding, Pushed, Branched, Entered
      <4>2. Row(i) \in repos /\ sites[SiteOf(i)].job = "RUNNING"
        BY <4>1 DEF IInv, HoldsInv, RowsInv, SiteHeld, At
      <4>3. Row(i) = row /\ Row(i).site = SiteOf(i)
        BY <4>2 DEF IInv, HoldsInv, RowsInv, Row
      <4> QED
        BY <2>1, <4>2, <4>3
    <3>3. RepoDone(row.name)'
      BY <1>4, <3>1 DEF RepoDone, Complete, Growing, GitHubRepos
    <3> QED
      BY <1>4, <3>1, <3>2, <3>3 DEF Complete, Growing, GitHubRepos
  <2>2. \A j \in Submissions : told[j] # "nothing" => Step(j)' = "over"
    BY <1>1 DEF IInv, ReadyInv, Grows
  <2> QED
    BY <1>1, <1>2, <1>4, <2>1, <2>2 DEF IInv, ReadyInv
<1>9. UnchangedInv'
  <2>1. \A j \in Submissions : At(j, Holding \ Entered)' => ~github'[RepoOf(j)'].private
    <3> SUFFICES ASSUME NEW j \in Submissions, At(j, Holding \ Entered)'
                 PROVE  ~github'[RepoOf(j)].private
      BY <1>1
    <3>1. At(j, Holding \ Entered)
      BY <1>2
    <3>2. RepoOf(j) \in Repos /\ github[RepoOf(j)] # NoRow
      BY <1>3, <3>1 DEF At
    <3>3. ~github[RepoOf(j)].private
      BY <3>1 DEF IInv, UnchangedInv
    <3> QED
      BY <1>4, <3>2, <3>3 DEF Growing
  <2>2. \A j \in Submissions : At(j, Working \ ({"mark"} \cup Deployed))' => deployments'[SiteOf(j)'] = NoRow
    <3> USE DEF Undeployed
    <3> QED
      BY <1>1, <1>2, <1>4 DEF IInv, UnchangedInv
  <2> QED
    BY <1>4, <2>1, <2>2 DEF IInv, UnchangedInv
<1>10. ChangeInv'
  <2> SUFFICES ASSUME NEW row \in repos
               PROVE  /\ Changed(row.name, row)' /\ RepoAgrees(row.name, row)'
                      /\ Shows(row.name, row)' /\ Agreed(row.name, row)'
    BY <1>4 DEF ChangeInv
  <2>1. /\ github'[row.name].private = github[row.name].private
        /\ apps'[row.name].mainPassword = apps[row.name].mainPassword
        /\ apps'[row.name].litePassword = apps[row.name].litePassword
    BY <1>0, <1>3, <1>4 DEF Growing
  <2>2. /\ Changed(row.name, row) /\ RepoAgrees(row.name, row)
        /\ Shows(row.name, row) /\ Agreed(row.name, row)
    BY DEF IInv, ChangeInv
  <2> QED
    BY <1>4, <2>1, <2>2 DEF Changed, RepoAgrees, Shows, Agreed, CanShow, Enable
<1> QED
  BY <1>5, <1>6, <1>7, <1>8, <1>9, <1>10 DEF DoneInv

-----------------------------------------------------------------------------
(* Which steps follow which                                                *)

\* All that follows from the steps being what they are is said here.
LEMMA FollowsFacts ==
  /\ \A from \in {"repo", "publish", "lite", "row", "apps", "deployment", "urls", "permissions", "owner",
                  "ready", "ready to clone"} : Follows(from, "mark")
  /\ \A from \in Steps : Follows(from, "failed") /\ Follows(from, "over")
  /\ Follows("publish", "lite") /\ Follows("lite", "row") /\ Follows("apps", "deployment")
  /\ Follows("urls", "permissions") /\ Follows("permissions", "owner") /\ Follows("permissions", "ready")
  /\ Follows("owner", "ready to clone") /\ Follows("clone", "made")
<1> QED
  BY DEF Follows, Unentered, Undeployed, Working, Holding, Pushed, Branched, Entered, HasApps,
         Deployed, Linked, Protected, Finished, Steps

\* A step that is taken only by a submission that holds its repository.
LEMMA HoldingFacts ==
  ASSUME IInv, NEW i \in Submissions, At(i, Holding)
  PROVE  /\ Step(i) \notin {"idle", "site"} /\ RepoOf(i) \in Repos /\ SiteOf(i) \in SiteNames
         /\ github[RepoOf(i)] # NoRow /\ github[RepoOf(i)] \in GitHubRepos
<1>1. Step(i) \notin {"idle", "site"}
  BY DEF At, Holding, Pushed, Branched, Entered, HasApps, Deployed, Linked, Protected
<1>2. github[RepoOf(i)] # NoRow
  BY DEF IInv, HoldsInv, RepoHeld
<1> QED
  BY <1>1, <1>2, FormFacts DEF IInv, TypeOK

\* A step that ends the work or takes it no further.
LEMMA StopStep ==
  ASSUME IInv, NEW i \in Submissions, NEW at, Moves(i, at), Follows(Step(i), at), at \notin Pushed,
         creation' \in [Submissions -> Creations], faults' \in 0..MaxFaults,
         Step(i) \notin {"idle", "over"}, Step(i) \in Working => at \in Working \/ SiteOf(i) \in abandoned',
         abandoned \subseteq abandoned', abandoned' \subseteq SiteNames,
         UNCHANGED <<places, told, elsewhere>>
  PROVE  IInv'
<1> USE DEF places, rows, elsewhere
<1>1. TypeOK'
  BY DEF IInv, TypeOK, Creations
<1>2. Grows(i, at)
  BY DEF Grows, Growing
<1>3. Done(i)'
  <2>1. Step(i)' = at
    BY MovesFacts
  <2> QED
    BY <2>1 DEF Done, At, Pushed, Branched, Entered, HasApps, Deployed, Linked
<1> QED
  BY <1>1, <1>2, <1>3, GrowsStep DEF IInv

\* A call fails with nothing done.
LEMMA ErrorStep ==
  ASSUME IInv, NEW i \in Submissions, Error(i), faults' \in 0..MaxFaults,
         Step(i) \in {"site", "repo", "publish", "lite", "row", "apps", "deployment", "urls", "permissions",
                      "owner", "ready", "ready to clone"},
         UNCHANGED <<places, told, elsewhere, abandoned>>
  PROVE  IInv'
<1> DEFINE at == IF Step(i) = "site" THEN "failed" ELSE "mark"
<1>1. Moves(i, at) /\ creation' \in [Submissions -> Creations]
  BY ErrorMoves DEF IInv
<1>2. Follows(Step(i), at)
  BY FollowsFacts DEF Steps
<1>3. at \notin Pushed /\ (Step(i) \in Working => at \in Working)
  BY DEF Pushed, Branched, Entered, HasApps, Deployed, Linked, Protected, Working, Holding
<1>4. abandoned \subseteq SiteNames
  BY DEF IInv, TypeOK
<1> HIDE DEF at
<1> QED
  BY <1>1, <1>2, <1>3, <1>4, StopStep

\* A call that fails with nothing done keeps the invariant.
LEMMA StepFailsStep ==
  ASSUME IInv, NEW i \in Submissions, StepFails(i)
  PROVE  IInv'
<1>1. faults' \in 0..MaxFaults
  BY Counters DEF IInv, StepFails, Fails
<1> QED
  BY <1>1, ErrorStep DEF StepFails, Fails

\* So does the death of the process.
LEMMA DieStep ==
  ASSUME IInv, NEW i \in Submissions, Die(i)
  PROVE  IInv'
<1>0. TypeOK /\ Step(i) \notin {"idle", "over"} /\ Go(i, "over") /\ "over" \in Steps
  BY DEF IInv, Die, Steps
<1>1. Moves(i, "over") /\ creation' \in [Submissions -> Creations] /\ faults' \in 0..MaxFaults
  BY <1>0, GoMoves, Counters DEF Die
<1>2. SiteOf(i) \in SiteNames /\ Step(i) \in Steps
  BY <1>0, FormFacts
<1>3. /\ abandoned \subseteq abandoned' /\ abandoned' \subseteq SiteNames
      /\ Step(i) \in Working => SiteOf(i) \in abandoned'
  BY <1>2 DEF IInv, TypeOK, Die, Working, Holding, Pushed, Branched, Entered, HasApps, Deployed, Linked, Protected
<1>4. "over" \notin Pushed /\ Follows(Step(i), "over")
  BY <1>2, FollowsFacts DEF Pushed, Branched, Entered, HasApps, Deployed, Linked, Protected
<1> QED
  BY <1>0, <1>1, <1>3, <1>4, StopStep DEF Die

\* Cloning to the EFS volume: if it fails the site stays ready.
LEMMA CloneStep ==
  ASSUME IInv, NEW i \in Submissions, CloneToEfs(i)
  PROVE  IInv'
<1>0. TypeOK /\ Step(i) = "clone" /\ "made" \in Steps /\ "failed" \in Steps /\ "clone" \in Steps
  BY DEF IInv, CloneToEfs, Steps
<1>1. PICK at \in {"made", "failed"} : Go(i, at) /\ faults' \in 0..MaxFaults
  BY <1>0, Counters DEF CloneToEfs, TypeOK
<1>2. Moves(i, at) /\ creation' \in [Submissions -> Creations]
  BY <1>0, <1>1, GoMoves
<1>3. at \notin Pushed /\ Follows(Step(i), at) /\ Step(i) \notin Working
  BY <1>0, FollowsFacts DEF Pushed, Branched, Entered, HasApps, Deployed, Linked, Protected, Holding, Working
<1>4. abandoned \subseteq SiteNames
  BY <1>0 DEF TypeOK
<1> QED
  BY <1>0, <1>1, <1>2, <1>3, <1>4, StopStep DEF CloneToEfs

\* The repository gets its two branches.
LEMMA PublishStep ==
  ASSUME IInv, NEW i \in Submissions, GenerateRepoAndPublish(i)
  PROVE  IInv'
<1> DEFINE r == RepoOf(i)
<1>0. TypeOK /\ Step(i) = "publish" /\ At(i, Holding) /\ "lite" \in Steps
  BY DEF IInv, GenerateRepoAndPublish, At, Holding, Steps
<1>1. r \in Repos /\ github[r] # NoRow /\ github[r] \in GitHubRepos
  BY <1>0, HoldingFacts
<1>2. PICK done \in SUBSET Elements(Pushes) :
        InARow(i, Pushes, done, "lite") /\ github' = [github EXCEPT ![r].branches = @ \cup done]
  BY DEF GenerateRepoAndPublish
<1>3. Pushes \in Seq({"staging", "master", "protection", "teams"}) /\ Elements(Pushes) = {"staging", "master"}
  BY DEF Pushes, Elements
<1>4. /\ creation' \in [Submissions -> Creations] /\ faults' \in 0..MaxFaults
      /\ Moves(i, "lite") \/ Moves(i, "mark")
      /\ Moves(i, "lite") => done = {"staging", "master"}
  BY <1>0, <1>2, <1>3, RowMoves
<1>5. disk' = [disk EXCEPT !["staging"] = @ \cup {r}]
      /\ UNCHANGED <<rows, apps, owners, told, elsewhere, abandoned>>
  BY DEF GenerateRepoAndPublish
<1> USE DEF rows, elsewhere
<1>6. TypeOK'
  <2>1. github' \in [Repos -> GitHubRepos \cup {NoRow}]
    BY <1>0, <1>1, <1>2, <1>3, RepoType
  <2>2. disk' \in [{"staging", "staging-lite"} -> SUBSET Repos]
    BY <1>0, <1>1, <1>5 DEF TypeOK
  <2> QED
    BY <1>0, <1>4, <1>5, <2>1, <2>2 DEF TypeOK, Creations
<1>7. github'[r].branches = github[r].branches \cup done /\ r \in disk'["staging"] /\ Growing(i)
  <2>1. r \in disk'["staging"] /\ disk["staging"] \subseteq disk'["staging"]
        /\ disk["staging-lite"] \subseteq disk'["staging-lite"]
    BY <1>0, <1>5 DEF TypeOK
  <2>2. github'[r] = [github[r] EXCEPT !.branches = @ \cup done]
        /\ \A q \in Repos : q # r => github'[q] = github[q]
    BY <1>0, <1>1, <1>2 DEF TypeOK
  <2>3. github'[r].branches = github[r].branches \cup done /\ github'[r].urls = github[r].urls
        /\ github'[r].protected = github[r].protected /\ github'[r].private = github[r].private
    BY <1>1, <2>2 DEF GitHubRepos
  <2>4. github'[r] # NoRow
    BY <1>1, <1>3, <2>2, SitePrivacyAssumption DEF GitHubRepos
  <2> HIDE DEF r
  <2> QED
    BY <1>0, <1>5, <2>1, <2>2, <2>3, <2>4 DEF Growing
<1>8. \A at \in {"lite", "mark"} : Moves(i, at) => Grows(i, at)
  <2>1. Follows(Step(i), "lite") /\ Follows(Step(i), "mark")
    BY <1>0, FollowsFacts
  <2>2. "lite" \in Working /\ "mark" \in Working
    BY DEF Working, Holding, Pushed
  <2> QED
    BY <1>0, <1>5, <1>7, <2>1, <2>2 DEF Grows
<1>9. Done(i)'
  <2>1. CASE Moves(i, "lite")
    <3>1. Step(i)' = "lite" /\ RepoOf(i)' = r
      BY <2>1, MovesFacts
    <3>2. {"staging", "master"} \subseteq github'[r].branches
      BY <1>4, <1>7, <2>1
    <3> HIDE DEF r
    <3> QED
      BY <1>7, <3>1, <3>2 DEF Done, At, Branched, Entered, HasApps, Deployed, Linked, Protected
  <2>2. CASE Moves(i, "mark")
    <3>1. Step(i)' = "mark"
      BY <2>2, MovesFacts
    <3> QED
      BY <3>1 DEF Done, At, Pushed, Branched, Entered, HasApps, Deployed, Linked, Protected
  <2> QED
    BY <1>4, <2>1, <2>2
<1> QED
  BY <1>4, <1>6, <1>8, <1>9, GrowsStep DEF IInv

\* The staging-lite folder and its branch.
LEMMA LiteStep ==
  ASSUME IInv, NEW i \in Submissions, SetUpStagingLite(i)
  PROVE  IInv'
<1> DEFINE r == RepoOf(i)
<1>0. TypeOK /\ Step(i) = "lite" /\ At(i, Holding) /\ At(i, Pushed) /\ "row" \in Steps
  BY DEF IInv, SetUpStagingLite, At, Holding, Pushed, Steps
<1>1. r \in Repos /\ github[r] # NoRow /\ github[r] \in GitHubRepos
  BY <1>0, HoldingFacts
<1>2. /\ disk' = [disk EXCEPT !["staging-lite"] = @ \cup {r}]
      /\ UNCHANGED <<rows, apps, owners, told, elsewhere, abandoned>>
  BY DEF SetUpStagingLite
<1>3. /\ r \in disk'["staging-lite"] /\ disk["staging"] = disk'["staging"]
      /\ disk["staging-lite"] \subseteq disk'["staging-lite"]
      /\ disk' \in [{"staging", "staging-lite"} -> SUBSET Repos]
  BY <1>0, <1>1, <1>2 DEF TypeOK
<1> USE DEF rows, elsewhere
<1>4. Follows(Step(i), "row") /\ Follows(Step(i), "mark")
  BY <1>0, FollowsFacts
<1>5. "row" \in Working /\ "mark" \in Working
  BY DEF Working, Holding, Pushed, Branched
<1>6. CASE github' = [github EXCEPT ![r].branches = @ \cup {"staging-lite"}] /\ Go(i, "row") /\ UNCHANGED faults
  <2>1. Moves(i, "row") /\ creation' \in [Submissions -> Creations]
    BY <1>0, <1>6, GoMoves
  <2>2. github' \in [Repos -> GitHubRepos \cup {NoRow}]
    <3>1. {"staging-lite"} \in SUBSET {"staging", "master", "staging-lite"}
      OBVIOUS
    <3> QED
      BY <1>0, <1>1, <1>6, <3>1, RepoType
  <2>3. TypeOK'
    BY <1>0, <1>2, <1>3, <1>6, <2>1, <2>2 DEF TypeOK, Creations
  <2>4. github'[r] = [github[r] EXCEPT !.branches = @ \cup {"staging-lite"}]
        /\ \A q \in Repos : q # r => github'[q] = github[q]
    BY <1>0, <1>1, <1>6 DEF TypeOK
  <2>5. github'[r].branches = github[r].branches \cup {"staging-lite"} /\ github'[r].urls = github[r].urls
        /\ github'[r].protected = github[r].protected /\ github'[r].private = github[r].private
    BY <1>1, <2>4 DEF GitHubRepos
  <2>6. github'[r] # NoRow
    BY <1>1, <2>4, SitePrivacyAssumption DEF GitHubRepos
  <2>7. Grows(i, "row")
    <3> HIDE DEF r
    <3>1. Growing(i)
      BY <1>2, <1>3, <2>4, <2>5, <2>6 DEF Growing
    <3> QED
      BY <1>0, <1>2, <1>4, <1>5, <2>1, <3>1 DEF Grows
  <2>8. Done(i)'
    <3>1. Step(i)' = "row" /\ RepoOf(i)' = r
      BY <2>1, MovesFacts
    <3>2. {"staging", "master"} \subseteq github[r].branches /\ r \in disk["staging"]
      BY <1>0 DEF IInv, DoneInv, Done
    <3>3. github'[r].branches = {"staging", "master", "staging-lite"}
      BY <1>1, <2>5, <3>2 DEF GitHubRepos
    <3> HIDE DEF r
    <3> QED
      BY <1>3, <3>1, <3>2, <3>3 DEF Done, RepoDone, At, Entered, HasApps, Deployed, Linked, Protected
  <2> QED
    BY <2>3, <2>7, <2>8, GrowsStep DEF IInv
<1>7. CASE Fails(i) /\ UNCHANGED github
  <2>1. Moves(i, "mark") /\ creation' \in [Submissions -> Creations] /\ faults' \in 0..MaxFaults
    BY <1>0, <1>7, ErrorMoves, Counters DEF Fails
  <2>2. TypeOK'
    BY <1>0, <1>2, <1>3, <1>7, <2>1 DEF TypeOK, Creations
  <2>3. Grows(i, "mark")
    BY <1>0, <1>2, <1>3, <1>4, <1>5, <1>7, <2>1 DEF Grows, Growing
  <2>4. Done(i)'
    <3>1. Step(i)' = "mark"
      BY <2>1, MovesFacts
    <3> QED
      BY <3>1 DEF Done, At, Pushed, Branched, Entered, HasApps, Deployed, Linked, Protected
  <2> QED
    BY <2>2, <2>3, <2>4, GrowsStep DEF IInv
<1> QED
  BY <1>6, <1>7 DEF SetUpStagingLite

\* The two apps: one may be made in part.
LEMMA AppsStep ==
  ASSUME IInv, NEW i \in Submissions, CreateAmplifyApps(i)
  PROVE  IInv'
<1> DEFINE r == RepoOf(i)
<1>0. TypeOK /\ Step(i) = "apps" /\ At(i, Holding) /\ At(i, Branched) /\ At(i, Pushed)
      /\ "deployment" \in Steps
  BY DEF IInv, CreateAmplifyApps, At, Holding, Pushed, Branched, Entered, Steps
<1>1. r \in Repos
  BY <1>0, HoldingFacts
<1>2. PICK main \in AppOutcomes(<<"master", "staging">>), lite \in AppOutcomes(<<"staging-lite">>) :
        /\ apps' = [apps EXCEPT ![r].main = main, ![r].lite = lite]
        /\ \/ main = {"master", "staging"} /\ lite = {"staging-lite"} /\ Go(i, "deployment") /\ UNCHANGED faults
           \/ Fails(i)
  BY DEF CreateAmplifyApps
<1>3. main \subseteq {"staging", "master"} /\ lite \subseteq {"staging-lite"}
  <2>1. <<"master", "staging">> \in Seq({"staging", "master"}) /\ Elements(<<"master", "staging">>) = {"staging", "master"}
    BY DEF Elements
  <2>2. <<"staging-lite">> \in Seq({"staging-lite"}) /\ Elements(<<"staging-lite">>) = {"staging-lite"}
    BY DEF Elements
  <2>3. main \subseteq {"staging", "master"}
    <3>1. PICK made \in Prefixes(<<"master", "staging">>) : main = Elements(made)
      BY DEF AppOutcomes
    <3> QED
      BY <2>1, <3>1, PrefixElements
  <2>4. lite \subseteq {"staging-lite"}
    <3>1. PICK made \in Prefixes(<<"staging-lite">>) : lite = Elements(made)
      BY DEF AppOutcomes
    <3> QED
      BY <2>2, <3>1, PrefixElements
  <2> QED
    BY <2>3, <2>4
<1>4. UNCHANGED <<rows, github, owners, disk, told, elsewhere, abandoned>>
  BY DEF CreateAmplifyApps
<1>5. /\ apps'[r] = [apps[r] EXCEPT !.main = main, !.lite = lite] /\ apps[r] \in AmplifyApps
      /\ \A q \in Repos : q # r => apps'[q] = apps[q]
      /\ DOMAIN apps' = Repos
  BY <1>0, <1>1, <1>2 DEF TypeOK
<1>6. /\ apps'[r].main = main /\ apps'[r].mainPassword = apps[r].mainPassword
      /\ apps'[r].litePassword = apps[r].litePassword /\ apps'[r] \in AmplifyApps
  BY <1>3, <1>5 DEF AmplifyApps
<1>7. apps' \in [Repos -> AmplifyApps]
  <2>1. apps' = [q \in Repos |-> apps'[q]]
    BY <1>0, <1>2 DEF TypeOK
  <2> QED
    BY <1>0, <1>5, <1>6, <2>1 DEF TypeOK
<1> USE DEF rows, elsewhere
<1>8. Growing(i)
  <2> HIDE DEF r
  <2>1. RepoOf(i) = r
    BY DEF r
  <2> QED
    BY <1>0, <1>4, <1>5, <1>6, <2>1 DEF Growing
<1>9. Follows(Step(i), "deployment") /\ Follows(Step(i), "mark")
  BY <1>0, FollowsFacts
<1>10. "deployment" \in Working /\ "mark" \in Working
  BY DEF Working, Holding, Pushed, Branched, Entered, HasApps
<1>11. CASE main = {"master", "staging"} /\ Go(i, "deployment") /\ UNCHANGED faults
  <2>1. Moves(i, "deployment") /\ creation' \in [Submissions -> Creations]
    BY <1>0, <1>11, GoMoves
  <2>2. TypeOK'
    BY <1>0, <1>4, <1>7, <1>11, <2>1 DEF TypeOK, Creations
  <2>3. Grows(i, "deployment")
    BY <1>0, <1>4, <1>8, <1>9, <1>10, <2>1 DEF Grows
  <2>4. Done(i)'
    <3>1. Step(i)' = "deployment" /\ RepoOf(i)' = r
      BY <2>1, MovesFacts
    <3>2. RepoDone(r) /\ {"staging", "master"} \subseteq github[r].branches /\ r \in disk["staging"]
      BY <1>0 DEF IInv, DoneInv, Done
    <3> HIDE DEF r
    <3>3. RepoDone(r) => RepoDone(RepoOf(i))'
      BY <1>4, <3>1 DEF RepoDone
    <3> QED
      BY <1>4, <1>6, <1>11, <3>1, <3>2, <3>3 DEF Done, At, Deployed, Linked, Protected
  <2> QED
    BY <2>2, <2>3, <2>4, GrowsStep DEF IInv
<1>12. CASE Fails(i)
  <2>1. Moves(i, "mark") /\ creation' \in [Submissions -> Creations] /\ faults' \in 0..MaxFaults
    BY <1>0, <1>12, ErrorMoves, Counters DEF Fails
  <2>2. TypeOK'
    BY <1>0, <1>4, <1>7, <2>1 DEF TypeOK, Creations
  <2>3. Grows(i, "mark")
    BY <1>0, <1>4, <1>8, <1>9, <1>10, <2>1 DEF Grows
  <2>4. Done(i)'
    <3>1. Step(i)' = "mark"
      BY <2>1, MovesFacts
    <3> QED
      BY <3>1 DEF Done, At, Pushed, Branched, Entered, HasApps, Deployed, Linked, Protected
  <2> QED
    BY <2>2, <2>3, <2>4, GrowsStep DEF IInv
<1> QED
  BY <1>2, <1>11, <1>12

\* The urls of the apps, on both branches.
LEMMA UrlsStep ==
  ASSUME IInv, NEW i \in Submissions, ModifyDeploymentUrls(i)
  PROVE  IInv'
<1> DEFINE r == RepoOf(i)
<1>0. TypeOK /\ Step(i) = "urls" /\ At(i, Holding) /\ At(i, Deployed) /\ At(i, HasApps) /\ At(i, Branched)
      /\ At(i, Pushed) /\ "permissions" \in Steps
  BY DEF IInv, ModifyDeploymentUrls, At, Holding, Pushed, Branched, Entered, HasApps, Deployed, Steps
<1>1. r \in Repos /\ github[r] # NoRow /\ github[r] \in GitHubRepos
  BY <1>0, HoldingFacts
<1>2. PICK done \in SUBSET {"staging", "master"} :
        InARow(i, <<"staging", "master">>, done, "permissions") /\ github' = [github EXCEPT ![r].urls = @ \cup done]
  BY DEF ModifyDeploymentUrls
<1>3. <<"staging", "master">> \in Seq({"staging", "master", "protection", "teams"})
      /\ Elements(<<"staging", "master">>) = {"staging", "master"}
  BY DEF Elements
<1>4. /\ creation' \in [Submissions -> Creations] /\ faults' \in 0..MaxFaults
      /\ Moves(i, "permissions") \/ Moves(i, "mark")
      /\ Moves(i, "permissions") => done = {"staging", "master"}
  BY <1>0, <1>2, <1>3, RowMoves
<1>5. UNCHANGED <<rows, apps, owners, disk, told, elsewhere, abandoned>>
  BY DEF ModifyDeploymentUrls
<1> USE DEF rows, elsewhere
<1>6. TypeOK'
  <2>1. github' \in [Repos -> GitHubRepos \cup {NoRow}]
    BY <1>0, <1>1, <1>2, RepoType
  <2> QED
    BY <1>0, <1>4, <1>5, <2>1 DEF TypeOK, Creations
<1>7. /\ github'[r].urls = github[r].urls \cup done /\ github'[r].branches = github[r].branches
      /\ Growing(i)
  <2>1. github'[r] = [github[r] EXCEPT !.urls = @ \cup done]
        /\ \A q \in Repos : q # r => github'[q] = github[q]
    BY <1>0, <1>1, <1>2 DEF TypeOK
  <2>2. github'[r].branches = github[r].branches /\ github'[r].urls = github[r].urls \cup done
        /\ github'[r].protected = github[r].protected /\ github'[r].private = github[r].private
    BY <1>1, <2>1 DEF GitHubRepos
  <2>3. github'[r] # NoRow
    BY <1>1, <2>1, SitePrivacyAssumption DEF GitHubRepos
  <2> HIDE DEF r
  <2> QED
    BY <1>5, <2>1, <2>2, <2>3 DEF Growing
<1>8. \A at \in {"permissions", "mark"} : Moves(i, at) => Grows(i, at)
  <2>1. Follows(Step(i), "permissions") /\ Follows(Step(i), "mark")
    BY <1>0, FollowsFacts
  <2>2. "permissions" \in Working /\ "mark" \in Working
    BY DEF Working, Holding, Pushed, Branched, Entered, HasApps, Deployed, Linked
  <2> QED
    BY <1>0, <1>5, <1>7, <2>1, <2>2 DEF Grows
<1>9. Done(i)'
  <2>1. CASE Moves(i, "permissions")
    <3>1. Step(i)' = "permissions" /\ RepoOf(i)' = r /\ SiteOf(i)' = SiteOf(i)
      BY <2>1, MovesFacts
    <3>2. /\ RepoDone(r) /\ {"staging", "master"} \subseteq github[r].branches /\ r \in disk["staging"]
          /\ apps[r].main = {"staging", "master"} /\ deployments[SiteOf(i)] # NoRow
      BY <1>0 DEF IInv, DoneInv, Done
    <3>3. github'[r].urls = {"staging", "master"}
      BY <1>1, <1>4, <1>7, <2>1 DEF GitHubRepos
    <3> HIDE DEF r
    <3>4. RepoDone(RepoOf(i))'
      BY <1>5, <1>7, <3>1, <3>2 DEF RepoDone
    <3> QED
      BY <1>5, <1>7, <3>1, <3>2, <3>3, <3>4 DEF Done, At, Protected
  <2>2. CASE Moves(i, "mark")
    <3>1. Step(i)' = "mark"
      BY <2>2, MovesFacts
    <3> QED
      BY <3>1 DEF Done, At, Pushed, Branched, Entered, HasApps, Deployed, Linked, Protected
  <2> QED
    BY <1>4, <2>1, <2>2
<1> QED
  BY <1>4, <1>6, <1>8, <1>9, GrowsStep DEF IInv

\* Branch protection and teams.
LEMMA PermissionsStep ==
  ASSUME IInv, NEW i \in Submissions, SetPermissions(i)
  PROVE  IInv'
<1> DEFINE r == RepoOf(i)
<1>0. TypeOK /\ Step(i) = "permissions" /\ At(i, Holding) /\ At(i, Linked) /\ At(i, Deployed) /\ At(i, HasApps)
      /\ At(i, Branched) /\ At(i, Pushed) /\ "owner" \in Steps /\ "ready" \in Steps
  BY DEF IInv, SetPermissions, At, Holding, Pushed, Branched, Entered, HasApps, Deployed, Linked, Steps
<1>1. r \in Repos /\ github[r] # NoRow /\ github[r] \in GitHubRepos
  BY <1>0, HoldingFacts
<1>2. PICK done \in SUBSET {"protection", "teams"}, next \in {"owner", "ready"} :
        /\ InARow(i, <<"protection", "teams">>, done, next)
        /\ github' = [github EXCEPT ![r].protected = @ \/ "protection" \in done]
  BY DEF SetPermissions
<1>3. <<"protection", "teams">> \in Seq({"staging", "master", "protection", "teams"})
      /\ Elements(<<"protection", "teams">>) = {"protection", "teams"}
  BY DEF Elements
<1>4. /\ creation' \in [Submissions -> Creations] /\ faults' \in 0..MaxFaults
      /\ Moves(i, next) \/ Moves(i, "mark")
      /\ Moves(i, next) => done = {"protection", "teams"}
  BY <1>0, <1>2, <1>3, RowMoves
<1>5. UNCHANGED <<rows, apps, owners, disk, told, elsewhere, abandoned>>
  BY DEF SetPermissions
<1> USE DEF rows, elsewhere
<1> DEFINE p == (github[r].protected \/ "protection" \in done)
<1>6. p \in BOOLEAN /\ github' = [github EXCEPT ![r].protected = p]
  BY <1>1, <1>2 DEF GitHubRepos
<1>7. (github[r].protected => p) /\ ("protection" \in done => p)
  OBVIOUS
<1> HIDE DEF p
<1>8. TypeOK'
  <2>1. github' \in [Repos -> GitHubRepos \cup {NoRow}]
    BY <1>0, <1>1, <1>6, RepoType
  <2> QED
    BY <1>0, <1>4, <1>5, <2>1 DEF TypeOK, Creations
<1>9. /\ github'[r].protected = p /\ github'[r].branches = github[r].branches
      /\ github'[r].urls = github[r].urls /\ Growing(i)
  <2>1. github'[r] = [github[r] EXCEPT !.protected = p]
        /\ \A q \in Repos : q # r => github'[q] = github[q]
    BY <1>0, <1>1, <1>6 DEF TypeOK
  <2>2. github'[r].branches = github[r].branches /\ github'[r].urls = github[r].urls
        /\ github'[r].protected = p /\ github'[r].private = github[r].private
    BY <1>1, <2>1 DEF GitHubRepos
  <2>3. github'[r] # NoRow
    BY <1>1, <1>6, <2>1, SitePrivacyAssumption DEF GitHubRepos
  <2> HIDE DEF r
  <2> QED
    BY <1>5, <1>7, <2>1, <2>2, <2>3 DEF Growing
<1>10. \A at \in {"owner", "ready", "mark"} : Moves(i, at) => Grows(i, at)
  <2>1. Follows(Step(i), "owner") /\ Follows(Step(i), "ready") /\ Follows(Step(i), "mark")
    BY <1>0, FollowsFacts
  <2>2. "owner" \in Working /\ "ready" \in Working /\ "mark" \in Working
    BY DEF Working, Holding, Pushed, Branched, Entered, HasApps, Deployed, Linked, Protected
  <2> QED
    BY <1>0, <1>5, <1>9, <2>1, <2>2 DEF Grows
<1>11. Done(i)'
  <2>1. CASE Moves(i, next)
    <3>1. Step(i)' = next /\ RepoOf(i)' = r /\ SiteOf(i)' = SiteOf(i)
      BY <2>1, MovesFacts
    <3>2. /\ RepoDone(r) /\ {"staging", "master"} \subseteq github[r].branches /\ r \in disk["staging"]
          /\ apps[r].main = {"staging", "master"} /\ deployments[SiteOf(i)] # NoRow
          /\ github[r].urls = {"staging", "master"}
      BY <1>0 DEF IInv, DoneInv, Done
    <3>3. github'[r].protected
      BY <1>4, <1>7, <1>9, <2>1
    <3> HIDE DEF r
    <3>4. RepoDone(RepoOf(i))'
      BY <1>5, <1>9, <3>1, <3>2 DEF RepoDone
    <3> QED
      BY <1>5, <1>9, <3>1, <3>2, <3>3, <3>4 DEF Done
  <2>2. CASE Moves(i, "mark")
    <3>1. Step(i)' = "mark"
      BY <2>2, MovesFacts
    <3> QED
      BY <3>1 DEF Done, At, Pushed, Branched, Entered, HasApps, Deployed, Linked, Protected
  <2> QED
    BY <1>4, <2>1, <2>2
<1> QED
  BY <1>4, <1>8, <1>10, <1>11, GrowsStep DEF IInv

\* The first collaborator.
LEMMA OwnerStep ==
  ASSUME IInv, NEW i \in Submissions, CreateOwner(i)
  PROVE  IInv'
<1>0. TypeOK /\ Step(i) = "owner" /\ At(i, Holding) /\ "ready to clone" \in Steps
  BY DEF IInv, CreateOwner, At, Holding, Pushed, Branched, Entered, HasApps, Deployed, Linked, Protected, Steps
<1>1. SiteOf(i) \in SiteNames
  BY <1>0, HoldingFacts
<1>2. Moves(i, "ready to clone") /\ creation' \in [Submissions -> Creations]
  BY <1>0, GoMoves DEF CreateOwner
<1>3. /\ owners' \in {owners, owners \cup {SiteOf(i)}}
      /\ UNCHANGED <<rows, github, apps, disk, told, elsewhere, faults, abandoned>>
  BY DEF CreateOwner
<1> USE DEF rows, elsewhere
<1>4. TypeOK'
  BY <1>0, <1>1, <1>2, <1>3 DEF TypeOK, Creations
<1>5. Grows(i, "ready to clone")
  <2>1. Follows(Step(i), "ready to clone") /\ "ready to clone" \in Working
    BY <1>0, FollowsFacts DEF Working, Holding, Pushed, Branched, Entered, HasApps, Deployed, Linked, Protected
  <2> QED
    BY <1>0, <1>2, <1>3, <2>1 DEF Grows, Growing
<1>6. Done(i)'
  <2>1. Step(i)' = "ready to clone" /\ RepoOf(i)' = RepoOf(i) /\ SiteOf(i)' = SiteOf(i)
    BY <1>2, MovesFacts
  <2>2. Done(i) /\ At(i, Protected) /\ At(i, Linked) /\ At(i, Deployed) /\ At(i, HasApps) /\ At(i, Branched)
        /\ At(i, Pushed)
    BY <1>0 DEF IInv, DoneInv, At, Pushed, Branched, Entered, HasApps, Deployed, Linked, Protected
  <2>3. RepoDone(RepoOf(i)) => RepoDone(RepoOf(i))'
    BY <1>3, <2>1 DEF RepoDone
  <2> QED
    BY <1>3, <2>1, <2>2, <2>3 DEF Done
<1> QED
  BY <1>4, <1>5, <1>6, GrowsStep DEF IInv

-----------------------------------------------------------------------------
(* The steps of a creation that change the tables                          *)

\* The other submissions stay where they are.
LEMMA OthersStay ==
  ASSUME NEW i \in Submissions, \A j \in Submissions : j # i => creation'[j] = creation[j]
  PROVE  \A j \in Submissions : j # i =>
           /\ Step(j)' = Step(j) /\ SiteOf(j)' = SiteOf(j) /\ RepoOf(j)' = RepoOf(j) /\ Row(j)' = Row(j)
           /\ \A steps : At(j, steps)' <=> At(j, steps)
<1> QED
  BY DEF Step, SiteOf, RepoOf, Row, At

\* The steps by which sets of steps they are in.
LEMMA StepSets ==
  /\ {"site", "made", "clone", "failed", "over", "idle"} \cap Working = {}
  /\ Holding \subseteq Working /\ Pushed \subseteq Holding /\ Branched \subseteq Pushed /\ Entered \subseteq Branched
  /\ HasApps \subseteq Entered /\ Deployed \subseteq HasApps /\ Linked \subseteq Deployed /\ Protected \subseteq Linked
  /\ Unentered \subseteq Working /\ Undeployed \subseteq Working
  /\ {"repo", "publish", "lite", "row"} = Unentered /\ {"publish", "lite", "row"} = Holding \ Entered
  /\ "repo" \in Undeployed /\ "publish" \in Undeployed /\ "row" \in Undeployed /\ "apps" \in Undeployed
  /\ "deployment" \in Undeployed /\ "urls" \notin Undeployed /\ "mark" \notin Undeployed
  /\ "apps" \in Entered /\ "apps" \notin HasApps /\ "deployment" \in HasApps /\ "deployment" \notin Deployed
  /\ "urls" \in Deployed /\ "urls" \notin Linked /\ "row" \in Branched /\ "publish" \in Holding /\ "publish" \notin Pushed
  /\ "ready" \in Protected /\ "ready to clone" \in Protected
  /\ "repo" \notin Holding /\ "mark" \notin Holding /\ "mark" \in Working /\ "repo" \in Working
  /\ Finished \cap Working = {} /\ "made" \in Finished /\ "clone" \in Finished
<1> QED
  BY DEF Unentered, Undeployed, Working, Holding, Pushed, Branched, Entered, HasApps, Deployed, Linked,
         Protected, Finished

\* A submission that works on a site has its form.
LEMMA WorkingFacts ==
  ASSUME IInv, NEW i \in Submissions, At(i, Working)
  PROVE  /\ Step(i) \notin {"idle", "over"} /\ SiteOf(i) \in SiteNames /\ RepoOf(i) \in Repos
         /\ sites[SiteOf(i)] # NoRow /\ sites[SiteOf(i)] \in SiteRows /\ sites[SiteOf(i)].job = "RUNNING"
         /\ told[i] = "nothing"
<1>1. Step(i) \notin {"idle", "over"}
  BY StepSets DEF At
<1>2. sites[SiteOf(i)] # NoRow /\ sites[SiteOf(i)].job = "RUNNING"
  BY DEF IInv, HoldsInv, SiteHeld
<1> QED
  BY <1>1, <1>2, FormFacts DEF IInv, TypeOK, ReadyInv

\* A form is submitted.
LEMMA FormStep ==
  ASSUME IInv, NEW i \in Submissions, NEW form \in Forms, FormsgCreateSite(i, form)
  PROVE  IInv'
<1>0. TypeOK /\ Step(i) = "idle"
  BY DEF IInv, FormsgCreateSite
<1>1. /\ creation' = [creation EXCEPT ![i] = [at |-> "site", form |-> form]] /\ Request
      /\ UNCHANGED <<told, places, netlify, toNetlify, change, agreed, halfway, faults, abandoned>>
  BY DEF FormsgCreateSite
<1>2. /\ creation' \in [Submissions -> Creations] /\ Step(i)' = "site"
      /\ \A j \in Submissions : j # i => creation'[j] = creation[j]
  BY <1>0, <1>1 DEF TypeOK, Creations, Steps, Step
<1>3. \A j \in Submissions : j # i =>
        /\ Step(j)' = Step(j) /\ SiteOf(j)' = SiteOf(j) /\ RepoOf(j)' = RepoOf(j) /\ Row(j)' = Row(j)
        /\ \A steps : At(j, steps)' <=> At(j, steps)
  BY <1>2, OthersStay
<1>4. /\ ~At(i, Working)' /\ ~At(i, Holding)' /\ ~At(i, Finished)' /\ ~At(i, Unentered)'
      /\ ~At(i, Holding \ Entered)' /\ ~At(i, Entered \cup Finished)' /\ ~At(i, Undeployed)' /\ ~At(i, Pushed)'
      /\ ~At(i, Branched)' /\ ~At(i, HasApps)' /\ ~At(i, Deployed)' /\ ~At(i, Linked)' /\ ~At(i, Protected)'
  BY <1>2, StepSets DEF At, Finished
<1>5. ~At(i, Working)
  BY <1>0, StepSets DEF At
<1> USE DEF places, rows
<1>6. TypeOK'
  BY <1>0, <1>1, <1>2, Counters DEF TypeOK, Creations
<1>7. HoldsInv'
  <2>1. SiteHeld' /\ RepoHeld'
    BY <1>1, <1>3, <1>4 DEF IInv, HoldsInv, SiteHeld, RepoHeld
  <2>2. RowsInv'
    BY <1>1, <1>3, <1>4 DEF IInv, HoldsInv, RowsInv, Unentered
  <2> QED
    BY <2>1, <2>2 DEF HoldsInv
<1>8. RunningInv'
  BY <1>1, <1>3, <1>5 DEF IInv, RunningInv
<1>9. DoneInv'
  <2>1. Done(i)'
    BY <1>4 DEF Done
  <2>2. \A j \in Submissions : j # i => (Done(j)' <=> Done(j))
    BY <1>1, <1>3 DEF Done, RepoDone
  <2> QED
    BY <2>1, <2>2 DEF IInv, DoneInv
<1>10. ReadyInv'
  <2>1. \A row \in repos : Complete(row)' <=> Complete(row)
    BY <1>1 DEF Complete, RepoDone
  <2>2. told[i] = "nothing"
    BY <1>0 DEF IInv, ReadyInv, TypeOK
  <2> QED
    BY <1>1, <1>3, <1>4, <2>1, <2>2 DEF IInv, ReadyInv
<1>11. UnchangedInv'
  BY <1>1, <1>3, <1>4 DEF IInv, UnchangedInv, Undeployed
<1>12. ChangeInv'
  BY <1>1 DEF IInv, ChangeInv, Changed, RepoAgrees, Shows, Agreed, CanShow, Enable
<1> QED
  BY <1>6, <1>7, <1>8, <1>9, <1>10, <1>11, <1>12 DEF IInv

\* The row of the site, or an error if the name is taken.
LEMMA CreateSiteStep ==
  ASSUME IInv, NEW i \in Submissions, CreateSite(i)
  PROVE  IInv'
<1> DEFINE n == SiteOf(i)
<1>0. TypeOK /\ Step(i) = "site" /\ "repo" \in Steps /\ "failed" \in Steps /\ "site" \in Steps
  BY DEF IInv, CreateSite, Steps
<1>1. n \in SiteNames
  BY <1>0, FormFacts
<1>2. UNCHANGED <<repos, deployments, github, apps, owners, disk, told, elsewhere, faults, abandoned>>
  BY DEF CreateSite
<1> USE DEF elsewhere
<1>3. CASE sites[n] # NoRow /\ Go(i, "failed") /\ UNCHANGED sites
  <2>1. Moves(i, "failed") /\ creation' \in [Submissions -> Creations]
    BY <1>0, <1>3, GoMoves
  <2>2. Follows(Step(i), "failed") /\ "failed" \notin Pushed /\ Step(i) \notin Working
    BY <1>0, FollowsFacts, StepSets
  <2>3. faults' \in 0..MaxFaults /\ abandoned' \subseteq SiteNames
    BY <1>0, <1>2 DEF TypeOK
  <2> HIDE DEF n
  <2> QED
    BY <1>0, <1>2, <1>3, <2>1, <2>2, <2>3, StopStep DEF places, rows
<1>4. CASE sites[n] = NoRow /\ sites' = [sites EXCEPT ![n] = FreshSite] /\ Go(i, "repo")
  <2>1. Moves(i, "repo") /\ creation' \in [Submissions -> Creations]
    BY <1>0, <1>4, GoMoves
  <2>2. /\ Step(i)' = "repo" /\ SiteOf(i)' = n /\ RepoOf(i)' = RepoOf(i) /\ Row(i)' = Row(i)
        /\ \A j \in Submissions : j # i =>
             /\ Step(j)' = Step(j) /\ SiteOf(j)' = SiteOf(j) /\ RepoOf(j)' = RepoOf(j) /\ Row(j)' = Row(j)
             /\ \A steps : At(j, steps)' <=> At(j, steps)
    BY <2>1, MovesFacts, OthersStay DEF Moves
  <2>3. /\ sites'[n] = FreshSite /\ FreshSite # NoRow /\ FreshSite.job = "RUNNING" /\ ~FreshSite.private
        /\ \A m \in SiteNames : m # n => sites'[m] = sites[m]
        /\ sites' \in [SiteNames -> SiteRows \cup {NoRow}]
    <3>1. FreshSite \in SiteRows /\ FreshSite.job = "RUNNING" /\ FreshSite.private = FALSE
      BY DEF FreshSite, SiteRows
    <3>2. FreshSite # NoRow
      BY <3>1, SitePrivacyAssumption
    <3> QED
      BY <1>0, <1>1, <1>4, <3>1, <3>2 DEF TypeOK
  <2>4. /\ ~At(i, Working) /\ ~At(i, Finished)' /\ ~At(i, Holding)' /\ ~At(i, Holding \ Entered)'
        /\ ~At(i, Entered \cup Finished)' /\ ~At(i, Pushed)' /\ At(i, Working)'
        /\ ~At(i, Branched)' /\ ~At(i, HasApps)' /\ ~At(i, Deployed)' /\ ~At(i, Linked)' /\ ~At(i, Protected)'
    BY <1>0, <2>2, StepSets DEF At, Finished
  <2>5. \A row \in repos : row.site \in SiteNames /\ row.site # n
    BY <1>0, <1>4 DEF IInv, HoldsInv, RowsInv, TypeOK
  <2>6. \A j \in Submissions : j # i /\ At(j, Working) => SiteOf(j) # n /\ SiteOf(j) \in SiteNames
    BY <1>4, WorkingFacts
  <2>7. told[i] = "nothing"
    BY <1>0 DEF IInv, ReadyInv, TypeOK
  <2> HIDE DEF n
  <2>8. TypeOK'
    BY <1>0, <1>2, <2>1, <2>3 DEF TypeOK, Creations
  <2>9. HoldsInv'
    <3>1. SiteHeld'
      BY <2>2, <2>3, <2>4, <2>6 DEF IInv, HoldsInv, SiteHeld
    <3>2. RepoHeld'
      BY <1>2, <2>2, <2>4 DEF IInv, HoldsInv, RepoHeld
    <3>3. RowsInv'
      <4>1. \A row \in repos' : sites'[row.site] # NoRow /\ github'[row.name] # NoRow
        BY <1>2, <2>3, <2>5 DEF IInv, HoldsInv, RowsInv
      <4>2. \A j \in Submissions : At(j, {"repo"} \cup (Holding \ Entered))' =>
              \A row \in repos' : row.site # SiteOf(j)'
        BY <1>2, <2>2, <2>5 DEF IInv, HoldsInv, RowsInv
      <4>3. \A j \in Submissions : At(j, Holding \ Entered)' => \A row \in repos' : row.name # RepoOf(j)'
        BY <1>2, <2>2, <2>4 DEF IInv, HoldsInv, RowsInv
      <4>4. \A j \in Submissions : At(j, Entered \cup Finished)' => Row(j)' \in repos'
        BY <1>2, <2>2, <2>4 DEF IInv, HoldsInv, RowsInv
      <4> QED
        BY <1>2, <4>1, <4>2, <4>3, <4>4 DEF IInv, HoldsInv, RowsInv
    <3> QED
      BY <3>1, <3>2, <3>3 DEF HoldsInv
  <2>10. RunningInv'
    <3> SUFFICES ASSUME NEW m \in SiteNames, sites'[m] # NoRow, sites'[m].job = "RUNNING", m \notin abandoned
                 PROVE  \E j \in Submissions : At(j, Working)' /\ SiteOf(j)' = m
      BY <1>2 DEF RunningInv
    <3>1. CASE m = n
      BY <2>2, <2>4, <3>1
    <3>2. CASE m # n
      <4>1. PICK j \in Submissions : At(j, Working) /\ SiteOf(j) = m
        BY <2>3, <3>2 DEF IInv, RunningInv
      <4> QED
        BY <2>2, <2>4, <4>1
    <3> QED
      BY <3>1, <3>2
  <2>11. DoneInv'
    <3>1. Done(i)'
      BY <2>4 DEF Done
    <3>2. \A j \in Submissions : j # i => (Done(j)' <=> Done(j))
      BY <1>2, <2>2 DEF Done, RepoDone
    <3> QED
      BY <3>1, <3>2 DEF IInv, DoneInv
  <2>12. ReadyInv'
    <3>1. \A row \in repos : Complete(row)' <=> Complete(row)
      BY <1>2 DEF Complete, RepoDone
    <3>2. \A j \in Submissions : j # i /\ sites[SiteOf(j)] # NoRow /\ Step(j) # "idle" =>
            sites'[SiteOf(j)'] = sites[SiteOf(j)]
      <4> SUFFICES ASSUME NEW j \in Submissions, j # i, sites[SiteOf(j)] # NoRow, Step(j) # "idle"
                   PROVE  sites'[SiteOf(j)'] = sites[SiteOf(j)]
        OBVIOUS
      <4>1. SiteOf(j) \in SiteNames /\ SiteOf(j) # n
        BY <1>0, <1>4, FormFacts
      <4> QED
        BY <2>2, <2>3, <4>1
    <3>3. \A j \in Submissions : At(j, Finished) \/ told[j] # "nothing" => Step(j) # "idle"
      BY DEF IInv, ReadyInv, At, Finished
    <3>4. \A row \in repos : sites'[row.site].job = "READY" => Complete(row)'
      BY <2>3, <2>5, <3>1 DEF IInv, ReadyInv
    <3>5. \A j \in Submissions : At(j, Finished)' => sites'[SiteOf(j)'].job = "READY" /\ sites'[SiteOf(j)'] # NoRow
      <4> SUFFICES ASSUME NEW j \in Submissions, At(j, Finished)'
                   PROVE  sites'[SiteOf(j)'].job = "READY" /\ sites'[SiteOf(j)'] # NoRow
        OBVIOUS
      <4>1. j # i /\ At(j, Finished)
        BY <2>2, <2>4
      <4>2. sites[SiteOf(j)].job = "READY" /\ sites[SiteOf(j)] # NoRow
        BY <4>1 DEF IInv, ReadyInv
      <4>3. sites'[SiteOf(j)'] = sites[SiteOf(j)]
        BY <3>2, <3>3, <4>1, <4>2
      <4> QED
        BY <4>2, <4>3
    <3>6. \A j \in Submissions : told[j] # "nothing" => Step(j)' = "over"
      BY <2>2, <2>7 DEF IInv, ReadyInv
    <3>7. \A j \in Submissions : told[j] = "success" =>
            sites'[SiteOf(j)'] # NoRow /\ sites'[SiteOf(j)'].job = "READY" /\ Row(j)' \in repos
      BY <2>2, <2>7, <3>2, <3>3 DEF IInv, ReadyInv
    <3> QED
      BY <1>2, <3>4, <3>5, <3>6, <3>7 DEF ReadyInv
  <2>13. UnchangedInv'
    <3>1. deployments[n] = NoRow
      BY <1>1, <1>4 DEF IInv, UnchangedInv, n
    <3>2. \A m \in SiteNames : sites'[m] # NoRow /\ deployments[m] = NoRow => ~sites'[m].private
      BY <2>3 DEF IInv, UnchangedInv
    <3>3. \A m \in SiteNames : sites'[m] = NoRow => deployments[m] = NoRow
      BY <2>3 DEF IInv, UnchangedInv
    <3>4. \A j \in Submissions : At(j, Working \ ({"mark"} \cup Deployed))' => deployments[SiteOf(j)'] = NoRow
      BY <2>2, <3>1 DEF IInv, UnchangedInv
    <3>5. \A j \in Submissions : At(j, Holding \ Entered)' => ~github[RepoOf(j)'].private
      BY <2>2, <2>4 DEF IInv, UnchangedInv
    <3> QED
      BY <1>2, <3>2, <3>3, <3>4, <3>5 DEF IInv, UnchangedInv
  <2>14. ChangeInv'
    <3> SUFFICES ASSUME NEW row \in repos
                 PROVE  /\ Changed(row.name, row)' /\ RepoAgrees(row.name, row)'
                        /\ Shows(row.name, row)' /\ Agreed(row.name, row)'
      BY <1>2 DEF ChangeInv
    <3>1. sites'[row.site] = sites[row.site]
      BY <2>3, <2>5
    <3> QED
      BY <1>2, <3>1 DEF IInv, ChangeInv, Changed, RepoAgrees, Shows, Agreed, CanShow, Enable
  <2> QED
    BY <2>8, <2>9, <2>10, <2>11, <2>12, <2>13, <2>14 DEF IInv
<1> QED
  BY <1>3, <1>4 DEF CreateSite

\* What every step of a submission that works on a site shares.
LEMMA MoveFacts ==
  ASSUME IInv, NEW i \in Submissions, NEW at, Moves(i, at)
  PROVE  /\ Step(i)' = at /\ SiteOf(i)' = SiteOf(i) /\ RepoOf(i)' = RepoOf(i) /\ Row(i)' = Row(i)
         /\ \A j \in Submissions : j # i =>
              /\ Step(j)' = Step(j) /\ SiteOf(j)' = SiteOf(j) /\ RepoOf(j)' = RepoOf(j) /\ Row(j)' = Row(j)
              /\ \A steps : At(j, steps)' <=> At(j, steps)
         /\ \A steps : At(i, steps)' <=> at \in steps
<1> QED
  BY MovesFacts, OthersStay DEF Moves, At

\* A submission that goes on working on its site.
LEMMA WorkKept ==
  ASSUME IInv, NEW i \in Submissions, NEW at, Moves(i, at), At(i, Working), at \in Working,
         UNCHANGED <<sites, abandoned>>
  PROVE  SiteHeld' /\ RunningInv'
<1>1. \A j \in Submissions : (At(j, Working)' <=> At(j, Working)) /\ SiteOf(j)' = SiteOf(j)
  BY MoveFacts
<1> QED
  BY <1>1 DEF IInv, HoldsInv, SiteHeld, RunningInv

\* A submission that has not ended, when sites stay ready.
LEMMA ReadyKept ==
  ASSUME IInv, NEW i \in Submissions, NEW at, Moves(i, at), At(i, Working), UNCHANGED told, repos \subseteq repos',
         \A n : sites[n] # NoRow /\ sites[n].job = "READY" => sites'[n] # NoRow /\ sites'[n].job = "READY",
         at \in Finished => sites'[SiteOf(i)] # NoRow /\ sites'[SiteOf(i)].job = "READY",
         \A row \in repos' : sites'[row.site].job = "READY" => Complete(row)'
  PROVE  ReadyInv'
<1>1. told[i] = "nothing"
  BY WorkingFacts
<1>2. \A j \in Submissions : At(j, Finished)' => sites'[SiteOf(j)'].job = "READY" /\ sites'[SiteOf(j)'] # NoRow
  <2> SUFFICES ASSUME NEW j \in Submissions, At(j, Finished)'
               PROVE  sites'[SiteOf(j)'].job = "READY" /\ sites'[SiteOf(j)'] # NoRow
    OBVIOUS
  <2>1. CASE j = i
    BY <2>1, MoveFacts
  <2>2. CASE j # i
    <3>1. At(j, Finished) /\ SiteOf(j)' = SiteOf(j)
      BY <2>2, MoveFacts
    <3> QED
      BY <3>1 DEF IInv, ReadyInv
  <2> QED
    BY <2>1, <2>2
<1>3. \A j \in Submissions : told[j] # "nothing" => Step(j)' = "over"
  BY <1>1, MoveFacts DEF IInv, ReadyInv
<1>4. \A j \in Submissions : told[j] = "success" =>
        sites'[SiteOf(j)'] # NoRow /\ sites'[SiteOf(j)'].job = "READY" /\ Row(j)' \in repos'
  BY MoveFacts DEF IInv, ReadyInv
<1> QED
  BY <1>2, <1>3, <1>4 DEF ReadyInv

\* The repository, made by GitHub if it is not there; its team may fail.
LEMMA CreateRepoStep ==
  ASSUME IInv, NEW i \in Submissions, CreateRepoOnGithub(i)
  PROVE  IInv'
<1> DEFINE r == RepoOf(i)
<1>0. TypeOK /\ Step(i) = "repo" /\ At(i, Working) /\ "publish" \in Steps
  BY StepSets DEF IInv, CreateRepoOnGithub, At, Steps
<1>1. r \in Repos /\ SiteOf(i) \in SiteNames
  BY <1>0, WorkingFacts
<1>2. UNCHANGED <<rows, apps, owners, disk, told, elsewhere, abandoned>>
  BY DEF CreateRepoOnGithub
<1> USE DEF rows, elsewhere
<1>3. CASE Error(i) /\ UNCHANGED <<github, faults>>
  <2>1. faults' \in 0..MaxFaults
    BY <1>0, <1>3 DEF TypeOK
  <2> QED
    BY <1>0, <1>2, <1>3, <2>1, ErrorStep DEF places
<1>4. CASE /\ github[r] = NoRow /\ github' = [github EXCEPT ![r] = FreshRepo]
           /\ (Go(i, "publish") /\ UNCHANGED faults) \/ Fails(i)
  <2>1. PICK at \in {"publish", "mark"} : Moves(i, at) /\ creation' \in [Submissions -> Creations]
                                          /\ faults' \in 0..MaxFaults
    BY <1>0, <1>4, GoMoves, ErrorMoves, Counters DEF Fails, TypeOK
  <2>2. /\ github'[r] = FreshRepo /\ FreshRepo # NoRow /\ ~FreshRepo.private
        /\ \A q \in Repos : q # r => github'[q] = github[q]
        /\ github' \in [Repos -> GitHubRepos \cup {NoRow}]
    <3>1. FreshRepo \in GitHubRepos /\ FreshRepo.private = FALSE
      BY DEF FreshRepo, GitHubRepos
    <3>2. FreshRepo # NoRow
      BY <3>1, SitePrivacyAssumption
    <3> QED
      BY <1>0, <1>1, <1>4, <3>1, <3>2 DEF TypeOK
  <2>3. \A row \in repos : row.name \in Repos /\ row.name # r
    BY <1>0, <1>4 DEF IInv, HoldsInv, RowsInv, TypeOK
  <2>4. \A j \in Submissions : At(j, Holding) => j # i /\ RepoOf(j) # r /\ RepoOf(j) \in Repos
    BY <1>0, <1>4, HoldingFacts, StepSets DEF At
  <2>5. \A row \in repos : row.site # SiteOf(i)
    BY <1>0 DEF IInv, HoldsInv, RowsInv, At
  <2>6. /\ at \in Working /\ at \notin Pushed /\ at \notin Entered \cup Finished
        /\ At(i, Undeployed) /\ (at \in Undeployed => at = "publish")
    BY <1>0, StepSets DEF At, Finished
  <2>7. Row(i).name = r
    BY DEF Row
  <2> HIDE DEF r
  <2>8. TypeOK'
    BY <1>0, <1>2, <2>1, <2>2 DEF TypeOK, Creations
  <2>9. SiteHeld' /\ RunningInv'
    BY <1>0, <1>2, <2>1, <2>6, WorkKept
  <2>10. RepoHeld'
    <3>1. \A j \in Submissions : At(j, Holding)' => j = i \/ At(j, Holding)
      BY <2>1, MoveFacts
    <3>2. RepoOf(i)' = r /\ \A j \in Submissions : RepoOf(j)' = RepoOf(j)
      BY <2>1, MoveFacts DEF r
    <3>3. \A j \in Submissions : At(j, Holding)' => github'[RepoOf(j)'] # NoRow
      BY <2>2, <2>4, <3>1, <3>2 DEF IInv, HoldsInv, RepoHeld
    <3>4. \A j, k \in Submissions : At(j, Holding)' /\ At(k, Holding)' /\ RepoOf(j)' = RepoOf(k)' => j = k
      <4> SUFFICES ASSUME NEW j \in Submissions, NEW k \in Submissions, At(j, Holding)', At(k, Holding)',
                          RepoOf(j) = RepoOf(k)
                   PROVE  j = k
        BY <3>2
      <4>1. (j = i \/ At(j, Holding)) /\ (k = i \/ At(k, Holding))
        BY <3>1
      <4>2. RepoOf(i) = r
        BY <3>2
      <4> QED
        BY <2>4, <4>1, <4>2 DEF IInv, HoldsInv, RepoHeld
    <3> QED
      BY <3>3, <3>4 DEF RepoHeld
  <2>11. RowsInv'
    <3>1. \A row \in repos' : sites'[row.site] # NoRow /\ github'[row.name] # NoRow
      BY <1>2, <2>2, <2>3 DEF IInv, HoldsInv, RowsInv
    <3>2. \A j \in Submissions : At(j, {"repo"} \cup (Holding \ Entered))' => \A row \in repos' : row.site # SiteOf(j)'
      BY <1>2, <2>1, <2>5, MoveFacts DEF IInv, HoldsInv, RowsInv
    <3>3. \A j \in Submissions : At(j, Holding \ Entered)' => \A row \in repos' : row.name # RepoOf(j)'
      <4>1. \A row \in repos : row.name # RepoOf(i)
        BY <2>3 DEF r
      <4> QED
        BY <1>2, <2>1, <4>1, MoveFacts DEF IInv, HoldsInv, RowsInv
    <3>4. \A j \in Submissions : At(j, Entered \cup Finished)' => Row(j)' \in repos'
      BY <1>2, <2>1, <2>6, MoveFacts DEF IInv, HoldsInv, RowsInv
    <3> QED
      BY <1>2, <3>1, <3>2, <3>3, <3>4 DEF IInv, HoldsInv, RowsInv
  <2>12. DoneInv'
    <3>1. Done(i)'
      <4>1. ~At(i, Pushed)' /\ ~At(i, Branched)' /\ ~At(i, HasApps)' /\ ~At(i, Deployed)' /\ ~At(i, Linked)'
            /\ ~At(i, Protected)'
        BY <2>1, <2>6, MoveFacts, StepSets
      <4> QED
        BY <4>1 DEF Done
    <3>2. ASSUME NEW j \in Submissions, j # i
          PROVE  Done(j)'
      <4>1. CASE At(j, Holding)
        <5>1. github'[RepoOf(j)] = github[RepoOf(j)] /\ Done(j)
          BY <2>2, <2>4, <4>1 DEF IInv, DoneInv
        <5> QED
          BY <1>2, <2>1, <3>2, <5>1, MoveFacts DEF Done, RepoDone
      <4>2. CASE ~At(j, Holding)
        <5>1. ~At(j, Pushed)' /\ ~At(j, Branched)' /\ ~At(j, HasApps)' /\ ~At(j, Deployed)' /\ ~At(j, Linked)'
              /\ ~At(j, Protected)'
          BY <2>1, <3>2, <4>2, MoveFacts, StepSets DEF At
        <5> QED
          BY <5>1 DEF Done
      <4> QED
        BY <4>1, <4>2
    <3> QED
      BY <3>1, <3>2 DEF DoneInv
  <2>13. ReadyInv'
    <3>1. \A row \in repos' : sites'[row.site].job = "READY" => Complete(row)'
      BY <1>2, <2>2, <2>3 DEF IInv, ReadyInv, Complete, RepoDone
    <3> QED
      BY <1>0, <1>2, <2>1, <2>6, <3>1, ReadyKept
  <2>14. UnchangedInv'
    <3>1. \A j \in Submissions : At(j, Undeployed)' => At(j, Undeployed) /\ SiteOf(j)' = SiteOf(j)
      BY <2>1, <2>6, MoveFacts
    <3>2. \A j \in Submissions : At(j, Undeployed)' => deployments[SiteOf(j)'] = NoRow
      BY <3>1 DEF IInv, UnchangedInv, Undeployed
    <3>3. \A j \in Submissions : At(j, Holding \ Entered)' => ~github'[RepoOf(j)'].private
      <4> SUFFICES ASSUME NEW j \in Submissions, At(j, Holding \ Entered)'
                   PROVE  ~github'[RepoOf(j)].private
        BY <2>1, MoveFacts
      <4>1. CASE j = i
        BY <2>2, <4>1 DEF r
      <4>2. CASE j # i
        <5>1. At(j, Holding \ Entered) /\ At(j, Holding)
          BY <2>1, <4>2, MoveFacts DEF At
        <5>2. github'[RepoOf(j)] = github[RepoOf(j)]
          BY <2>2, <2>4, <5>1
        <5> QED
          BY <5>1, <5>2 DEF IInv, UnchangedInv
      <4> QED
        BY <4>1, <4>2
    <3> QED
      BY <1>2, <3>2, <3>3 DEF IInv, UnchangedInv, Undeployed
  <2>15. ChangeInv'
    <3> SUFFICES ASSUME NEW row \in repos
                 PROVE  /\ Changed(row.name, row)' /\ RepoAgrees(row.name, row)'
                        /\ Shows(row.name, row)' /\ Agreed(row.name, row)'
      BY <1>2 DEF ChangeInv
    <3>1. github'[row.name] = github[row.name]
      BY <2>2, <2>3
    <3> QED
      BY <1>2, <3>1 DEF IInv, ChangeInv, Changed, RepoAgrees, Shows, Agreed, CanShow, Enable
  <2> QED
    BY <2>8, <2>9, <2>10, <2>11, <2>12, <2>13, <2>14, <2>15 DEF IInv, HoldsInv
<1> QED
  BY <1>3, <1>4 DEF CreateRepoOnGithub, RepoIsThere

\* The row of the repository.
LEMMA CreateRepoRowStep ==
  ASSUME IInv, NEW i \in Submissions, CreateRepoRow(i)
  PROVE  IInv'
<1> DEFINE r == RepoOf(i)
           n == SiteOf(i)
<1>0. /\ TypeOK /\ Step(i) = "row" /\ At(i, Working) /\ At(i, Holding) /\ At(i, Unentered)
      /\ At(i, Holding \ Entered) /\ At(i, Undeployed) /\ "apps" \in Steps
  BY StepSets DEF IInv, CreateRepoRow, At, Steps
<1>1. r \in Repos /\ n \in SiteNames /\ github[r] # NoRow /\ sites[n] # NoRow /\ sites[n].job = "RUNNING"
  BY <1>0, HoldingFacts, WorkingFacts
<1>2. /\ repos' = repos \cup {Row(i)}
      /\ UNCHANGED <<sites, deployments, github, apps, owners, disk, told, elsewhere, faults, abandoned>>
  BY DEF CreateRepoRow, Row
<1>3. Moves(i, "apps") /\ creation' \in [Submissions -> Creations]
  BY <1>0, GoMoves DEF CreateRepoRow
<1>4. /\ Row(i).name = r /\ Row(i).site = n
      /\ \A row \in repos : row.name # r /\ row.site # n
  BY <1>0 DEF IInv, HoldsInv, RowsInv, Row, Unentered
<1>5. deployments[n] = NoRow /\ ~sites[n].private /\ ~github[r].private
  BY <1>0, <1>1 DEF IInv, UnchangedInv, Undeployed
<1>6. change[r] = None /\ agreed[r] = Unknown
  BY <1>1, <1>4 DEF IInv, UnchangedInv
<1>7. Row(i) \in [name : Repos, site : SiteNames]
  BY <1>1 DEF Row
<1>8. "apps" \in Working /\ "apps" \in Holding /\ "apps" \in Entered /\ "apps" \notin Unentered
      /\ "apps" \notin Finished /\ "apps" \in Undeployed
  BY StepSets DEF Finished
<1>9. "apps" \notin {"repo"} \cup (Holding \ Entered)
  BY <1>8
<1> USE DEF elsewhere
<1> HIDE DEF r, n
<1>10. TypeOK'
  BY <1>0, <1>2, <1>3, <1>7 DEF TypeOK, Creations
<1>11. SiteHeld' /\ RunningInv'
  BY <1>0, <1>2, <1>3, <1>8, WorkKept
<1>12. RepoHeld'
  <2>1. \A j \in Submissions : (At(j, Holding)' => At(j, Holding)) /\ RepoOf(j)' = RepoOf(j)
    BY <1>0, <1>3, MoveFacts
  <2> QED
    BY <1>2, <2>1 DEF IInv, HoldsInv, RepoHeld
<1>13. RowsInv'
  <2>1. \A row \in repos' : sites'[row.site] # NoRow /\ github'[row.name] # NoRow
    BY <1>1, <1>2, <1>4 DEF IInv, HoldsInv, RowsInv
  <2>2. \A row, other \in repos' : row.name = other.name \/ row.site = other.site => row = other
    BY <1>2, <1>4 DEF IInv, HoldsInv, RowsInv
  <2>3. \A j \in Submissions : At(j, {"repo"} \cup (Holding \ Entered))' => \A row \in repos' : row.site # SiteOf(j)'
    <3> SUFFICES ASSUME NEW j \in Submissions, At(j, {"repo"} \cup (Holding \ Entered))'
                 PROVE  \A row \in repos' : row.site # SiteOf(j)
      BY <1>3, MoveFacts
    <3>1. j # i /\ At(j, {"repo"} \cup (Holding \ Entered))
      BY <1>3, <1>9, MoveFacts
    <3>2. At(j, Working)
      BY <3>1, StepSets DEF At, Unentered
    <3>3. SiteOf(j) # n
      BY <1>0, <3>1, <3>2 DEF IInv, HoldsInv, SiteHeld, n
    <3> QED
      BY <1>2, <1>4, <3>1, <3>3 DEF IInv, HoldsInv, RowsInv
  <2>4. \A j \in Submissions : At(j, Holding \ Entered)' => \A row \in repos' : row.name # RepoOf(j)'
    <3> SUFFICES ASSUME NEW j \in Submissions, At(j, Holding \ Entered)'
                 PROVE  \A row \in repos' : row.name # RepoOf(j)
      BY <1>3, MoveFacts
    <3>1. j # i /\ At(j, Holding \ Entered)
      BY <1>3, <1>9, MoveFacts
    <3>2. RepoOf(j) # r
      BY <1>0, <3>1 DEF IInv, HoldsInv, RepoHeld, At, r
    <3> QED
      BY <1>2, <1>4, <3>1, <3>2 DEF IInv, HoldsInv, RowsInv
  <2>5. \A j \in Submissions : At(j, Entered \cup Finished)' => Row(j)' \in repos'
    <3>1. \A j \in Submissions : (At(j, Entered \cup Finished)' => j = i \/ At(j, Entered \cup Finished))
                                 /\ Row(j)' = Row(j)
      BY <1>3, MoveFacts
    <3> QED
      BY <1>2, <3>1 DEF IInv, HoldsInv, RowsInv
  <2> QED
    BY <2>1, <2>2, <2>3, <2>4, <2>5 DEF RowsInv
<1>14. DoneInv'
  <2>1. Done(i)'
    <3>1. ~At(i, HasApps)' /\ ~At(i, Deployed)' /\ ~At(i, Linked)' /\ ~At(i, Protected)' /\ RepoOf(i)' = RepoOf(i)
      BY <1>3, MoveFacts, StepSets
    <3>2. RepoDone(RepoOf(i)) /\ {"staging", "master"} \subseteq github[RepoOf(i)].branches
          /\ RepoOf(i) \in disk["staging"]
      BY <1>0, StepSets DEF IInv, DoneInv, Done, At
    <3> QED
      BY <1>2, <3>1, <3>2 DEF Done, RepoDone
  <2>2. \A j \in Submissions : j # i => (Done(j)' <=> Done(j))
    BY <1>2, <1>3, MoveFacts DEF Done, RepoDone
  <2> QED
    BY <2>1, <2>2 DEF IInv, DoneInv
<1>15. ReadyInv'
  <2>1. \A row \in repos' : sites'[row.site].job = "READY" => Complete(row)'
    BY <1>1, <1>2, <1>4 DEF IInv, ReadyInv, Complete, RepoDone
  <2> QED
    BY <1>0, <1>2, <1>3, <1>8, <2>1, ReadyKept
<1>16. UnchangedInv'
  <2>1. \A j \in Submissions : At(j, Undeployed)' => deployments[SiteOf(j)'] = NoRow
    <3>1. \A j \in Submissions : At(j, Undeployed)' => At(j, Undeployed) /\ SiteOf(j)' = SiteOf(j)
      BY <1>0, <1>3, MoveFacts
    <3> QED
      BY <3>1 DEF IInv, UnchangedInv, Undeployed
  <2>2. \A j \in Submissions : At(j, Holding \ Entered)' => ~github[RepoOf(j)'].private
    <3>1. \A j \in Submissions : At(j, Holding \ Entered)' => At(j, Holding \ Entered) /\ RepoOf(j)' = RepoOf(j)
      BY <1>0, <1>3, MoveFacts
    <3> QED
      BY <3>1 DEF IInv, UnchangedInv
  <2>3. \A q \in Repos : (change[q] # None \/ agreed[q] # Unknown) =>
          \E row \in repos' : row.name = q /\ deployments[row.site] # NoRow
    BY <1>2 DEF IInv, UnchangedInv
  <2> QED
    BY <1>2, <2>1, <2>2, <2>3 DEF IInv, UnchangedInv, Undeployed
<1>17. ChangeInv'
  <2>1. ASSUME NEW row \in repos
        PROVE  /\ Changed(row.name, row)' /\ RepoAgrees(row.name, row)'
               /\ Shows(row.name, row)' /\ Agreed(row.name, row)'
    BY <1>2 DEF IInv, ChangeInv, Changed, RepoAgrees, Shows, Agreed, CanShow, Enable
  <2>2. ASSUME NEW row, row.name = r, row.site = n
        PROVE  /\ Changed(row.name, row)' /\ RepoAgrees(row.name, row)'
               /\ Shows(row.name, row)' /\ Agreed(row.name, row)'
    <3>1. github[r].private = FALSE /\ sites[n].private = FALSE
      <4>1. github[r] \in GitHubRepos /\ sites[n] \in SiteRows
        BY <1>0, <1>1 DEF TypeOK
      <4> QED
        BY <1>5, <4>1 DEF GitHubRepos, SiteRows
    <3>2. Changed(row.name, row)' /\ Agreed(row.name, row)'
      BY <1>2, <1>6, <2>2 DEF Changed, Agreed
    <3>3. RepoAgrees(row.name, row)' /\ Shows(row.name, row)'
      BY <1>2, <2>2, <3>1 DEF RepoAgrees, Shows, CanShow
    <3> QED
      BY <3>2, <3>3
  <2> QED
    BY <1>2, <1>4, <2>1, <2>2 DEF ChangeInv
<1> QED
  BY <1>10, <1>11, <1>12, <1>13, <1>14, <1>15, <1>16, <1>17 DEF IInv, HoldsInv

\* The row of the deployment.
LEMMA CreateDeploymentStep ==
  ASSUME IInv, NEW i \in Submissions, CreateDeployment(i)
  PROVE  IInv'
<1> DEFINE r == RepoOf(i)
           n == SiteOf(i)
           data == [password |-> NoPassword, lite |-> TRUE]
<1>0. /\ TypeOK /\ Step(i) = "deployment" /\ At(i, Working) /\ At(i, Holding) /\ At(i, Undeployed)
      /\ At(i, Entered \cup Finished) /\ At(i, HasApps) /\ "urls" \in Steps
  BY StepSets DEF IInv, CreateDeployment, At, Steps
<1>1. n \in SiteNames /\ sites[n] # NoRow /\ sites[n].job = "RUNNING"
  BY <1>0, WorkingFacts
<1>2. /\ deployments' = [deployments EXCEPT ![n] = data]
      /\ UNCHANGED <<sites, repos, github, apps, owners, disk, told, elsewhere, faults, abandoned>>
  BY DEF CreateDeployment
<1>3. Moves(i, "urls") /\ creation' \in [Submissions -> Creations]
  BY <1>0, GoMoves DEF CreateDeployment
<1>4. data \in DeploymentRows /\ data # NoRow
  <2>1. data \in DeploymentRows
    BY DEF DeploymentRows, Secrets
  <2> QED
    BY <2>1, SitePrivacyAssumption
<1>5. deployments[n] = NoRow /\ ~sites[n].private
  BY <1>0, <1>1 DEF IInv, UnchangedInv, Undeployed
<1>6. Row(i) \in repos /\ Row(i).name = r /\ Row(i).site = n
  BY <1>0 DEF IInv, HoldsInv, RowsInv, Row
<1>7. "urls" \in Working /\ "urls" \in Holding /\ "urls" \in Entered /\ "urls" \notin Unentered
      /\ "urls" \notin Finished /\ "urls" \notin Undeployed /\ "urls" \in HasApps /\ "urls" \notin Linked
      /\ "urls" \notin Protected
  BY StepSets DEF Finished
<1>8. "urls" \notin Holding \ Entered /\ "urls" \notin {"repo"} \cup (Holding \ Entered)
  BY <1>7 DEF Unentered
<1> USE DEF elsewhere
<1> HIDE DEF r, n, data
<1>9. /\ deployments'[n] # NoRow
      /\ \A m \in SiteNames : m # n => deployments'[m] = deployments[m]
      /\ \A m \in SiteNames : deployments[m] # NoRow => deployments'[m] # NoRow
      /\ deployments' \in [SiteNames -> DeploymentRows \cup {NoRow}]
  BY <1>0, <1>1, <1>2, <1>4 DEF TypeOK
<1>10. TypeOK'
  BY <1>0, <1>2, <1>3, <1>9 DEF TypeOK, Creations
<1>11. SiteHeld' /\ RunningInv'
  BY <1>0, <1>2, <1>3, <1>7, WorkKept
<1>12. RepoHeld'
  <2>1. \A j \in Submissions : (At(j, Holding)' => At(j, Holding)) /\ RepoOf(j)' = RepoOf(j)
    BY <1>0, <1>3, MoveFacts
  <2> QED
    BY <1>2, <2>1 DEF IInv, HoldsInv, RepoHeld
<1>13. RowsInv'
  <2>1. \A j \in Submissions :
          /\ At(j, {"repo"} \cup (Holding \ Entered))' => At(j, {"repo"} \cup (Holding \ Entered))
          /\ At(j, Holding \ Entered)' => At(j, Holding \ Entered)
          /\ At(j, Entered \cup Finished)' => At(j, Entered \cup Finished)
          /\ SiteOf(j)' = SiteOf(j) /\ RepoOf(j)' = RepoOf(j) /\ Row(j)' = Row(j)
    BY <1>0, <1>3, <1>8, MoveFacts
  <2>2. \A j \in Submissions : At(j, {"repo"} \cup (Holding \ Entered))' => \A row \in repos : row.site # SiteOf(j)
    BY <2>1 DEF IInv, HoldsInv, RowsInv
  <2>3. \A j \in Submissions : At(j, Holding \ Entered)' => \A row \in repos : row.name # RepoOf(j)
    BY <2>1 DEF IInv, HoldsInv, RowsInv
  <2> QED
    BY <1>2, <2>1, <2>2, <2>3 DEF IInv, HoldsInv, RowsInv
<1>14. DoneInv'
  <2>1. Done(i)'
    <3>1. ~At(i, Linked)' /\ ~At(i, Protected)' /\ RepoOf(i)' = RepoOf(i) /\ SiteOf(i)' = n
      BY <1>3, <1>7, MoveFacts DEF n
    <3>2. /\ RepoDone(RepoOf(i)) /\ {"staging", "master"} \subseteq github[RepoOf(i)].branches
          /\ RepoOf(i) \in disk["staging"] /\ apps[RepoOf(i)].main = {"staging", "master"}
      BY <1>0, StepSets DEF IInv, DoneInv, Done, At
    <3> QED
      BY <1>2, <1>9, <3>1, <3>2 DEF Done, RepoDone
  <2>2. ASSUME NEW j \in Submissions, j # i
        PROVE  Done(j)'
    <3>1. At(j, Deployed)' => deployments'[SiteOf(j)'] # NoRow
      <4> SUFFICES ASSUME At(j, Deployed)'
                   PROVE  deployments'[SiteOf(j)] # NoRow
        BY <1>3, MoveFacts
      <4>1. At(j, Deployed) /\ At(j, Working)
        BY <1>3, <2>2, MoveFacts, StepSets DEF At
      <4>2. SiteOf(j) \in SiteNames /\ deployments[SiteOf(j)] # NoRow
        BY <4>1, WorkingFacts DEF IInv, DoneInv, Done
      <4> QED
        BY <1>9, <4>2
    <3> QED
      BY <1>2, <1>3, <2>2, <3>1, MoveFacts DEF IInv, DoneInv, Done, RepoDone
  <2> QED
    BY <2>1, <2>2 DEF DoneInv
<1>15. ReadyInv'
  <2>1. \A row \in repos' : sites'[row.site].job = "READY" => Complete(row)'
    <3>1. \A row \in repos : row.site \in SiteNames
      BY <1>0 DEF TypeOK
    <3> QED
      BY <1>2, <1>9, <3>1 DEF IInv, ReadyInv, Complete, RepoDone
  <2> QED
    BY <1>0, <1>2, <1>3, <1>7, <2>1, ReadyKept
<1>16. UnchangedInv'
  <2>1. \A j \in Submissions : At(j, Undeployed)' => deployments'[SiteOf(j)'] = NoRow
    <3> SUFFICES ASSUME NEW j \in Submissions, At(j, Undeployed)'
                 PROVE  deployments'[SiteOf(j)] = NoRow
      BY <1>3, MoveFacts
    <3>1. j # i /\ At(j, Undeployed) /\ At(j, Working)
      BY <1>3, <1>7, MoveFacts, StepSets DEF At
    <3>2. SiteOf(j) \in SiteNames /\ SiteOf(j) # n
      BY <1>0, <3>1, WorkingFacts DEF IInv, HoldsInv, SiteHeld, n
    <3> QED
      BY <1>9, <3>1, <3>2 DEF IInv, UnchangedInv, Undeployed
  <2>2. \A j \in Submissions : At(j, Holding \ Entered)' => ~github[RepoOf(j)'].private
    <3>1. \A j \in Submissions : At(j, Holding \ Entered)' => At(j, Holding \ Entered) /\ RepoOf(j)' = RepoOf(j)
      BY <1>3, <1>8, MoveFacts
    <3> QED
      BY <3>1 DEF IInv, UnchangedInv
  <2>3. \A q \in Repos : (change[q] # None \/ agreed[q] # Unknown) =>
          \E row \in repos : row.name = q /\ deployments'[row.site] # NoRow
    <3>1. \A row \in repos : row.site \in SiteNames
      BY <1>0 DEF TypeOK
    <3> QED
      BY <1>9, <3>1 DEF IInv, UnchangedInv
  <2>4. /\ \A m \in SiteNames : sites[m] # NoRow /\ deployments'[m] = NoRow => ~sites[m].private
        /\ \A m \in SiteNames : sites[m] = NoRow => deployments'[m] = NoRow
    BY <1>1, <1>9 DEF IInv, UnchangedInv
  <2> QED
    BY <1>2, <2>1, <2>2, <2>3, <2>4 DEF UnchangedInv, Undeployed
<1>17. ChangeInv'
  <2> SUFFICES ASSUME NEW row \in repos
               PROVE  /\ Changed(row.name, row)' /\ RepoAgrees(row.name, row)'
                      /\ Shows(row.name, row)' /\ Agreed(row.name, row)'
    BY <1>2 DEF ChangeInv
  <2>1. CASE row.site # n
    <3>1. deployments'[row.site] = deployments[row.site]
      BY <1>0, <1>9, <2>1 DEF TypeOK
    <3> QED
      BY <1>2, <3>1 DEF IInv, ChangeInv, Changed, RepoAgrees, Shows, Agreed, CanShow, Enable
  <2>2. CASE row.site = n
    <3>1. row.name \in Repos /\ change[row.name] = None /\ agreed[row.name] = Unknown
      <4>1. \A other \in repos : other.name = row.name => deployments[other.site] = NoRow
        BY <1>5, <2>2 DEF IInv, HoldsInv, RowsInv
      <4>2. row.name \in Repos
        BY <1>0 DEF TypeOK
      <4> QED
        BY <4>1, <4>2 DEF IInv, UnchangedInv
    <3>2. RepoAgrees(row.name, row)'
      BY <1>2 DEF IInv, ChangeInv, RepoAgrees
    <3>3. Changed(row.name, row)' /\ Agreed(row.name, row)'
      BY <1>2, <3>1 DEF Changed, Agreed
    <3>4. Shows(row.name, row)'
      BY <1>2, <1>5, <2>2 DEF Shows, CanShow
    <3> QED
      BY <3>2, <3>3, <3>4
  <2> QED
    BY <2>1, <2>2
<1> QED
  BY <1>10, <1>11, <1>12, <1>13, <1>14, <1>15, <1>16, <1>17 DEF IInv, HoldsInv

\* The job of a site that was worked on ends: it is ready and complete, or has failed.
LEMMA JobStep ==
  ASSUME IInv, NEW i \in Submissions, At(i, Working), NEW at \in Steps, NEW row1 \in SiteRows,
         Moves(i, at), creation' \in [Submissions -> Creations],
         row1.job \in {"READY", "FAILED"}, row1.private = sites[SiteOf(i)].private,
         sites' = [sites EXCEPT ![SiteOf(i)] = row1],
         row1.job = "READY" => At(i, Protected), at \in Finished => row1.job = "READY",
         at \in {"made", "clone", "failed"},
         UNCHANGED <<repos, deployments, github, apps, owners, disk, told, elsewhere, abandoned>>,
         faults' \in 0..MaxFaults
  PROVE  IInv'
<1> DEFINE n == SiteOf(i)
<1>0. TypeOK /\ n \in SiteNames /\ sites[n] # NoRow /\ sites[n].job = "RUNNING"
  BY WorkingFacts DEF IInv
<1>1. row1 # NoRow
  BY SitePrivacyAssumption
<1>2. at \notin Working /\ at \notin Holding /\ at \notin Undeployed /\ at \notin Unentered /\ at \notin Pushed
      /\ at \notin Branched /\ at \notin Entered /\ at \notin HasApps /\ at \notin Deployed /\ at \notin Linked
      /\ at \notin Protected
  BY StepSets
<1> USE DEF elsewhere
<1> HIDE DEF n
<1>3. SiteOf(i) = n
  BY DEF n
<1>4. /\ sites'[n] = row1 /\ \A m \in SiteNames : m # n => sites'[m] = sites[m]
      /\ sites' \in [SiteNames -> SiteRows \cup {NoRow}]
  BY <1>0, <1>3 DEF TypeOK
<1>5. TypeOK'
  BY <1>0, <1>4 DEF TypeOK, Creations
<1>6. \A j \in Submissions :
        /\ SiteOf(j)' = SiteOf(j) /\ RepoOf(j)' = RepoOf(j) /\ Row(j)' = Row(j)
        /\ At(j, Working)' => j # i /\ At(j, Working)
        /\ At(j, Holding)' => At(j, Holding)
        /\ At(j, Unentered)' => At(j, Unentered)
        /\ At(j, Holding \ Entered)' => At(j, Holding \ Entered)
        /\ At(j, Undeployed)' => At(j, Undeployed)
  BY <1>2, MoveFacts
<1>7. \A j \in Submissions : At(j, Working) /\ j # i => SiteOf(j) # n /\ SiteOf(j) \in SiteNames
  BY <1>3, WorkingFacts DEF IInv, HoldsInv, SiteHeld
<1>8. SiteHeld' /\ RunningInv'
  <2>1. SiteHeld'
    BY <1>4, <1>6, <1>7 DEF IInv, HoldsInv, SiteHeld
  <2>2. ASSUME NEW m \in SiteNames, sites'[m] # NoRow, sites'[m].job = "RUNNING", m \notin abandoned
        PROVE  \E j \in Submissions : At(j, Working)' /\ SiteOf(j)' = m
    <3>1. m # n
      BY <1>4, <2>2
    <3>2. PICK j \in Submissions : At(j, Working) /\ SiteOf(j) = m
      BY <1>4, <2>2, <3>1 DEF IInv, RunningInv
    <3> QED
      BY <1>3, <3>1, <3>2, MoveFacts
  <2> QED
    BY <2>1, <2>2 DEF RunningInv
<1>9. RepoHeld'
  BY <1>6 DEF IInv, HoldsInv, RepoHeld
<1>10. RowsInv'
  <2>1. \A row \in repos : sites'[row.site] # NoRow
    <3>1. \A row \in repos : row.site \in SiteNames /\ sites[row.site] # NoRow
      BY <1>0 DEF IInv, HoldsInv, RowsInv, TypeOK
    <3> QED
      BY <1>1, <1>4, <3>1
  <2>2. /\ \A j \in Submissions : At(j, Unentered)' => \A row \in repos : row.site # SiteOf(j)'
        /\ \A j \in Submissions : At(j, Holding \ Entered)' => \A row \in repos : row.name # RepoOf(j)'
    BY <1>6 DEF IInv, HoldsInv, RowsInv, Unentered
  <2>3. \A j \in Submissions : At(j, Entered \cup Finished)' => Row(j)' \in repos
    <3> SUFFICES ASSUME NEW j \in Submissions, At(j, Entered \cup Finished)'
                 PROVE  Row(j) \in repos
      BY <1>6
    <3>1. CASE j # i
      <4>1. At(j, Entered \cup Finished)
        BY <3>1, MoveFacts
      <4> QED
        BY <4>1 DEF IInv, HoldsInv, RowsInv
    <3>2. CASE j = i
      <4>1. at \in Finished
        BY <1>2, <3>2, MoveFacts
      <4>2. At(i, Entered \cup Finished)
        BY <4>1, StepSets DEF At
      <4> QED
        BY <3>2, <4>2 DEF IInv, HoldsInv, RowsInv
    <3> QED
      BY <3>1, <3>2
  <2> QED
    BY <2>1, <2>2, <2>3 DEF IInv, HoldsInv, RowsInv, Unentered
<1>11. DoneInv'
  <2>1. Done(i)'
    BY <1>2, MoveFacts DEF Done
  <2>2. \A j \in Submissions : j # i => (Done(j)' <=> Done(j))
    BY MoveFacts DEF Done, RepoDone
  <2> QED
    BY <2>1, <2>2 DEF IInv, DoneInv
<1>12. ReadyInv'
  <2>1. ASSUME NEW row \in repos, sites'[row.site].job = "READY"
        PROVE  Complete(row)'
    <3>1. Complete(row)' <=> Complete(row)
      BY DEF Complete, RepoDone
    <3>2. CASE row.site # n
      <4>1. row.site \in SiteNames
        BY <1>0 DEF TypeOK
      <4> QED
        BY <1>4, <2>1, <3>1, <3>2, <4>1 DEF IInv, ReadyInv
    <3>3. CASE row.site = n
      <4>1. At(i, Protected)
        BY <1>4, <2>1, <3>3
      <4>2. At(i, Entered \cup Finished) /\ At(i, Linked) /\ At(i, Deployed) /\ At(i, HasApps) /\ At(i, Branched)
        BY <4>1, StepSets DEF At
      <4>3. Row(i) \in repos /\ Row(i).site = n /\ Row(i).name = RepoOf(i)
        BY <1>3, <4>2 DEF IInv, HoldsInv, RowsInv, Row
      <4>4. row = Row(i)
        BY <3>3, <4>3 DEF IInv, HoldsInv, RowsInv
      <4>5. Complete(row)
        BY <1>3, <4>1, <4>2, <4>3, <4>4 DEF IInv, DoneInv, Done, Complete
      <4> QED
        BY <3>1, <4>5
    <3> QED
      BY <3>2, <3>3
  <2>2. \A m : sites[m] # NoRow /\ sites[m].job = "READY" => sites'[m] # NoRow /\ sites'[m].job = "READY"
    BY <1>0, <1>3 DEF TypeOK
  <2> QED
    BY <1>1, <1>3, <1>4, <2>1, <2>2, ReadyKept
<1>13. UnchangedInv'
  <2>1. \A m \in SiteNames : sites'[m] # NoRow /\ deployments[m] = NoRow => ~sites'[m].private
    BY <1>0, <1>3, <1>4 DEF IInv, UnchangedInv
  <2>2. \A m \in SiteNames : sites'[m] = NoRow => deployments[m] = NoRow
    BY <1>1, <1>4 DEF IInv, UnchangedInv
  <2>3. \A j \in Submissions : At(j, Undeployed)' => deployments[SiteOf(j)'] = NoRow
    BY <1>6 DEF IInv, UnchangedInv, Undeployed
  <2>4. \A j \in Submissions : At(j, Holding \ Entered)' => ~github[RepoOf(j)'].private
    BY <1>6 DEF IInv, UnchangedInv
  <2> QED
    BY <2>1, <2>2, <2>3, <2>4 DEF IInv, UnchangedInv, Undeployed
<1>14. ChangeInv'
  <2> SUFFICES ASSUME NEW row \in repos
               PROVE  /\ Changed(row.name, row)' /\ RepoAgrees(row.name, row)'
                      /\ Shows(row.name, row)' /\ Agreed(row.name, row)'
    BY DEF ChangeInv
  <2>1. sites'[row.site].private = sites[row.site].private
    BY <1>0, <1>3, <1>4 DEF TypeOK
  <2> QED
    BY <2>1 DEF IInv, ChangeInv, Changed, RepoAgrees, Shows, Agreed, CanShow, Enable
<1> QED
  BY <1>5, <1>8, <1>9, <1>10, <1>11, <1>12, <1>13, <1>14 DEF IInv, HoldsInv

\* The site becomes ready.
LEMMA MarkReadyStep ==
  ASSUME IInv, NEW i \in Submissions, MarkReady(i)
  PROVE  IInv'
<1> DEFINE at == IF Step(i) = "ready" THEN "made" ELSE "clone"
           row1 == [sites[SiteOf(i)] EXCEPT !.status = "INITIALIZED", !.job = "READY"]
<1>0. At(i, Working) /\ At(i, Protected) /\ Step(i) # "idle" /\ TypeOK
  BY StepSets DEF MarkReady, At, IInv
<1>1. at \in Steps /\ at \in {"made", "clone"}
  BY DEF Steps
<1>2. Moves(i, at) /\ creation' \in [Submissions -> Creations]
  BY <1>0, <1>1, GoMoves DEF MarkReady
<1>3. sites[SiteOf(i)] \in SiteRows /\ SiteOf(i) \in SiteNames
  BY <1>0, WorkingFacts
<1>4. row1 \in SiteRows /\ row1.job = "READY" /\ row1.private = sites[SiteOf(i)].private
  BY <1>3 DEF SiteRows
<1>5. sites' = [sites EXCEPT ![SiteOf(i)] = row1]
  BY <1>0, <1>3 DEF MarkReady, TypeOK
<1>6. UNCHANGED <<repos, deployments, github, apps, owners, disk, told, elsewhere, faults, abandoned>>
      /\ faults \in 0..MaxFaults
  BY <1>0 DEF MarkReady, TypeOK
<1> HIDE DEF at, row1
<1> QED
  BY <1>0, <1>1, <1>2, <1>4, <1>5, <1>6, JobStep

\* The site is marked, or the mark fails and it is abandoned.
LEMMA MarkFailedStep ==
  ASSUME IInv, NEW i \in Submissions, MarkFailed(i)
  PROVE  IInv'
<1> DEFINE row1 == [sites[SiteOf(i)] EXCEPT !.job = "FAILED"]
<1>0. At(i, Working) /\ Step(i) = "mark" /\ TypeOK /\ "failed" \in Steps /\ "mark" \in Steps
      /\ "failed" \notin Finished
  BY StepSets DEF MarkFailed, At, IInv, Steps, Finished
<1>1. Moves(i, "failed") /\ creation' \in [Submissions -> Creations]
  BY <1>0, GoMoves DEF MarkFailed
<1>2. UNCHANGED <<repos, deployments, github, apps, owners, disk, told, elsewhere>>
  BY DEF MarkFailed
<1>3. sites[SiteOf(i)] \in SiteRows /\ SiteOf(i) \in SiteNames
  BY <1>0, WorkingFacts
<1>4. CASE sites' = Marked(SiteOf(i)) /\ UNCHANGED <<faults, abandoned>>
  <2>1. row1 \in SiteRows /\ row1.job = "FAILED" /\ row1.private = sites[SiteOf(i)].private
    BY <1>3 DEF SiteRows
  <2>2. sites' = [sites EXCEPT ![SiteOf(i)] = row1]
    BY <1>0, <1>3, <1>4 DEF Marked, TypeOK
  <2>3. faults' \in 0..MaxFaults
    BY <1>0, <1>4 DEF TypeOK
  <2> HIDE DEF row1
  <2> QED
    BY <1>0, <1>1, <1>2, <1>4, <2>1, <2>2, <2>3, JobStep
<1>5. CASE Fault /\ abandoned' = abandoned \cup {SiteOf(i)} /\ UNCHANGED sites
  <2>1. faults' \in 0..MaxFaults /\ Follows(Step(i), "failed") /\ "failed" \notin Pushed
        /\ abandoned' \subseteq SiteNames
    BY <1>0, <1>3, <1>5, Counters, FollowsFacts, StepSets DEF TypeOK
  <2> QED
    BY <1>0, <1>1, <1>2, <1>5, <2>1, StopStep DEF places, rows
<1> QED
  BY <1>4, <1>5 DEF MarkFailed

\* The mail.
LEMMA TellStep ==
  ASSUME IInv, NEW i \in Submissions, Tell(i)
  PROVE  IInv'
<1>0. TypeOK /\ Step(i) \in {"made", "failed"} /\ "over" \in Steps /\ Step(i) \in Steps /\ Step(i) # "idle"
  BY DEF IInv, Tell, Steps
<1>1. Moves(i, "over") /\ creation' \in [Submissions -> Creations]
  BY <1>0, GoMoves DEF Tell
<1>2. /\ told' = [told EXCEPT ![i] = IF Step(i) = "made" THEN "success" ELSE "failure"]
      /\ UNCHANGED <<sites, repos, deployments, github, apps, owners, disk, elsewhere, faults, abandoned>>
  BY DEF Tell, places, rows
<1>3. "over" \notin Working /\ "over" \notin Holding /\ "over" \notin Undeployed /\ "over" \notin Unentered
      /\ "over" \notin Pushed /\ "over" \notin Branched /\ "over" \notin Entered /\ "over" \notin HasApps
      /\ "over" \notin Deployed /\ "over" \notin Linked /\ "over" \notin Protected /\ "over" \notin Finished
  BY StepSets DEF Finished
<1>4. ~At(i, Working)
  BY <1>0, StepSets DEF At
<1> USE DEF elsewhere
<1>5. TypeOK'
  BY <1>0, <1>1, <1>2 DEF TypeOK, Creations
<1>6. \A j \in Submissions :
        /\ SiteOf(j)' = SiteOf(j) /\ RepoOf(j)' = RepoOf(j) /\ Row(j)' = Row(j)
        /\ At(j, Working)' <=> At(j, Working)
        /\ At(j, Holding)' => At(j, Holding)
        /\ At(j, Unentered)' => At(j, Unentered)
        /\ At(j, Holding \ Entered)' => At(j, Holding \ Entered)
        /\ At(j, Undeployed)' => At(j, Undeployed)
        /\ At(j, Entered \cup Finished)' => At(j, Entered \cup Finished)
        /\ At(j, Finished)' => At(j, Finished)
  BY <1>1, <1>3, <1>4, MoveFacts
<1>7. SiteHeld' /\ RunningInv' /\ RepoHeld'
  BY <1>2, <1>6 DEF IInv, HoldsInv, SiteHeld, RunningInv, RepoHeld
<1>8. RowsInv'
  <2>1. /\ \A j \in Submissions : At(j, Unentered)' => \A row \in repos : row.site # SiteOf(j)'
        /\ \A j \in Submissions : At(j, Holding \ Entered)' => \A row \in repos : row.name # RepoOf(j)'
        /\ \A j \in Submissions : At(j, Entered \cup Finished)' => Row(j)' \in repos
    BY <1>6 DEF IInv, HoldsInv, RowsInv, Unentered
  <2> QED
    BY <1>2, <2>1 DEF IInv, HoldsInv, RowsInv, Unentered
<1>9. DoneInv'
  <2>1. Done(i)'
    BY <1>1, <1>3, MoveFacts DEF Done
  <2>2. \A j \in Submissions : j # i => (Done(j)' <=> Done(j))
    BY <1>1, <1>2, MoveFacts DEF Done, RepoDone
  <2> QED
    BY <2>1, <2>2 DEF IInv, DoneInv
<1>10. ReadyInv'
  <2>1. \A row \in repos : Complete(row)' <=> Complete(row)
    BY <1>2 DEF Complete, RepoDone
  <2>2. \A j \in Submissions : At(j, Finished)' => sites[SiteOf(j)'].job = "READY" /\ sites[SiteOf(j)'] # NoRow
    BY <1>6 DEF IInv, ReadyInv
  <2>3. told' \in [Submissions -> {"nothing", "success", "failure"}]
        /\ (\A j \in Submissions : j # i => told'[j] = told[j]) /\ (told'[i] = "success" => Step(i) = "made")
    BY <1>0, <1>2 DEF TypeOK
  <2>4. \A j \in Submissions : told'[j] # "nothing" => Step(j)' = "over"
    BY <1>1, <2>3, MoveFacts DEF IInv, ReadyInv
  <2>5. ASSUME NEW j \in Submissions, told'[j] = "success"
        PROVE  sites[SiteOf(j)] # NoRow /\ sites[SiteOf(j)].job = "READY" /\ Row(j) \in repos
    <3>1. CASE j # i
      BY <2>3, <2>5, <3>1 DEF IInv, ReadyInv
    <3>2. CASE j = i
      <4>1. At(i, Finished) /\ At(i, Entered \cup Finished)
        BY <2>3, <2>5, <3>2, StepSets DEF At
      <4> QED
        BY <3>2, <4>1 DEF IInv, ReadyInv, HoldsInv, RowsInv
    <3> QED
      BY <3>1, <3>2
  <2> QED
    BY <1>2, <1>6, <2>1, <2>2, <2>4, <2>5 DEF IInv, ReadyInv
<1>11. UnchangedInv'
  <2>1. \A j \in Submissions : At(j, Undeployed)' => deployments[SiteOf(j)'] = NoRow
    BY <1>6 DEF IInv, UnchangedInv, Undeployed
  <2>2. \A j \in Submissions : At(j, Holding \ Entered)' => ~github[RepoOf(j)'].private
    BY <1>6 DEF IInv, UnchangedInv
  <2> QED
    BY <1>2, <2>1, <2>2 DEF IInv, UnchangedInv, Undeployed
<1>12. ChangeInv'
  BY <1>2 DEF IInv, ChangeInv, Changed, RepoAgrees, Shows, Agreed, CanShow, Enable
<1> QED
  BY <1>5, <1>7, <1>8, <1>9, <1>10, <1>11, <1>12 DEF IInv, HoldsInv

\* Every step of a creation keeps the invariant.
LEMMA CreationKeeps ==
  ASSUME IInv, NEW i \in Submissions, CreationStep(i)
  PROVE  IInv'
<1> QED
  BY FormStep, CreateSiteStep, CreateRepoStep, PublishStep, LiteStep, CreateRepoRowStep, AppsStep,
     CreateDeploymentStep, UrlsStep, PermissionsStep, OwnerStep, MarkReadyStep, CloneStep,
     MarkFailedStep, TellStep, StepFailsStep, DieStep DEF CreationStep

-----------------------------------------------------------------------------
(* The steps of a change of privacy                                        *)

\* What no such step touches: which rows and repositories there are, the job of a site,
\* and what a creation has done.
SameSites ==
  /\ \A n \in SiteNames : /\ sites'[n] = NoRow <=> sites[n] = NoRow
                          /\ sites'[n].job = sites[n].job
                          /\ deployments'[n] = NoRow <=> deployments[n] = NoRow
  /\ \A r \in Repos : /\ github'[r] = NoRow <=> github[r] = NoRow
                      /\ github'[r].branches = github[r].branches /\ github'[r].urls = github[r].urls
                      /\ github'[r].protected = github[r].protected /\ apps'[r].main = apps[r].main
  /\ UNCHANGED <<repos, creation, told, owners, disk, abandoned>>

\* The steps of the submissions, and so what they have done, are as before.
LEMMA SameSitesKeep ==
  ASSUME IInv, SameSites
  PROVE  HoldsInv' /\ RunningInv' /\ DoneInv' /\ ReadyInv'
<1>0. TypeOK /\ (\A row \in repos : row.name \in Repos /\ row.site \in SiteNames)
  BY DEF IInv, TypeOK
<1>1. \A i \in Submissions :
        /\ SiteOf(i)' = SiteOf(i) /\ RepoOf(i)' = RepoOf(i) /\ Row(i)' = Row(i) /\ Step(i)' = Step(i)
        /\ \A steps : At(i, steps)' <=> At(i, steps)
  BY DEF SameSites, SiteOf, RepoOf, Row, Step, At
<1>2. \A i \in Submissions : Step(i) # "idle" => SiteOf(i) \in SiteNames /\ RepoOf(i) \in Repos
  BY <1>0, FormFacts
<1>3. \A i \in Submissions : At(i, Working \cup Finished) => SiteOf(i) \in SiteNames /\ RepoOf(i) \in Repos
  BY <1>2, StepSets DEF At, Finished
<1>4. \A i \in Submissions : At(i, Holding) => At(i, Working \cup Finished)
  BY StepSets DEF At
<1>5. SiteHeld'
  <2>1. \A i \in Submissions : At(i, Working)' =>
          sites'[SiteOf(i)'] # NoRow /\ sites'[SiteOf(i)'].job = "RUNNING"
    BY <1>1, <1>3 DEF SameSites, IInv, HoldsInv, SiteHeld, At
  <2>2. \A i, j \in Submissions : At(i, Working)' /\ At(j, Working)' /\ SiteOf(i)' = SiteOf(j)' => i = j
    BY <1>1 DEF IInv, HoldsInv, SiteHeld
  <2> QED
    BY <2>1, <2>2 DEF SiteHeld
<1>6. RepoHeld'
  <2>1. \A i \in Submissions : At(i, Holding)' => github'[RepoOf(i)'] # NoRow
    BY <1>1, <1>3, <1>4 DEF SameSites, IInv, HoldsInv, RepoHeld
  <2>2. \A i, j \in Submissions : At(i, Holding)' /\ At(j, Holding)' /\ RepoOf(i)' = RepoOf(j)' => i = j
    BY <1>1 DEF IInv, HoldsInv, RepoHeld
  <2> QED
    BY <2>1, <2>2 DEF RepoHeld
<1>7. RowsInv'
  <2>1. \A row \in repos' : sites'[row.site] # NoRow /\ github'[row.name] # NoRow
    BY <1>0 DEF SameSites, IInv, HoldsInv, RowsInv
  <2>2. /\ \A i \in Submissions : At(i, Unentered)' => \A row \in repos' : row.site # SiteOf(i)'
        /\ \A i \in Submissions : At(i, Holding \ Entered)' => \A row \in repos' : row.name # RepoOf(i)'
        /\ \A i \in Submissions : At(i, Entered \cup Finished)' => Row(i)' \in repos'
    <3>1. \A i \in Submissions : /\ At(i, Unentered)' <=> At(i, Unentered)
                                 /\ At(i, Holding \ Entered)' <=> At(i, Holding \ Entered)
                                 /\ At(i, Entered \cup Finished)' <=> At(i, Entered \cup Finished)
      BY <1>1 DEF At
    <3>2. repos' = repos
      BY DEF SameSites
    <3>3. /\ \A i \in Submissions : At(i, Unentered) => \A row \in repos : row.site # SiteOf(i)
          /\ \A i \in Submissions : At(i, Holding \ Entered) => \A row \in repos : row.name # RepoOf(i)
          /\ \A i \in Submissions : At(i, Entered \cup Finished) => Row(i) \in repos
      BY DEF IInv, HoldsInv, RowsInv, Unentered
    <3> QED
      BY <1>1, <3>1, <3>2, <3>3
  <2>3. \A row, other \in repos' : row.name = other.name \/ row.site = other.site => row = other
    BY DEF SameSites, IInv, HoldsInv, RowsInv
  <2> QED
    BY <2>1, <2>2, <2>3 DEF RowsInv, Unentered
<1>8. RunningInv'
  <2> SUFFICES ASSUME NEW n \in SiteNames, sites'[n] # NoRow, sites'[n].job = "RUNNING", n \notin abandoned'
               PROVE  \E i \in Submissions : At(i, Working)' /\ SiteOf(i)' = n
    BY DEF RunningInv
  <2>1. PICK i \in Submissions : At(i, Working) /\ SiteOf(i) = n
    BY DEF SameSites, IInv, RunningInv
  <2> QED
    BY <1>1, <2>1
<1>9. DoneInv'
  <2> SUFFICES ASSUME NEW i \in Submissions
               PROVE  Done(i)'
    BY DEF DoneInv
  <2>1. CASE At(i, Working)
    <3>1. SiteOf(i) \in SiteNames /\ RepoOf(i) \in Repos /\ Done(i)
      BY <1>3, <2>1 DEF At, IInv, DoneInv
    <3>2. RepoDone(RepoOf(i))' <=> RepoDone(RepoOf(i))
      BY <1>1, <3>1 DEF SameSites, RepoDone
    <3> QED
      BY <1>1, <3>1, <3>2 DEF SameSites, Done
  <2>2. CASE ~At(i, Working)
    <3>1. /\ ~At(i, Pushed) /\ ~At(i, Branched) /\ ~At(i, HasApps)
          /\ ~At(i, Deployed) /\ ~At(i, Linked) /\ ~At(i, Protected)
      BY <2>2, StepSets DEF At
    <3> QED
      BY <1>1, <3>1 DEF Done
  <2> QED
    BY <2>1, <2>2
<1>10. ReadyInv'
  <2>1. ASSUME NEW row \in repos, sites'[row.site].job = "READY"
        PROVE  Complete(row)'
    <3>1. Complete(row)
      BY <1>0, <2>1 DEF SameSites, IInv, ReadyInv
    <3> QED
      BY <1>0, <3>1 DEF SameSites, Complete, RepoDone
  <2>2. \A i \in Submissions : At(i, Finished)' => sites'[SiteOf(i)'].job = "READY" /\ sites'[SiteOf(i)'] # NoRow
    BY <1>1, <1>3 DEF SameSites, IInv, ReadyInv, At
  <2>3. \A i \in Submissions : told'[i] # "nothing" => Step(i)' = "over"
    BY <1>1 DEF SameSites, IInv, ReadyInv
  <2>4. ASSUME NEW i \in Submissions, told'[i] = "success"
        PROVE  sites'[SiteOf(i)'] # NoRow /\ sites'[SiteOf(i)'].job = "READY" /\ Row(i)' \in repos'
    <3>1. told[i] = "success" /\ Step(i) = "over"
      BY <2>4 DEF SameSites, IInv, ReadyInv
    <3>2. SiteOf(i) \in SiteNames
      BY <1>2, <3>1
    <3> QED
      BY <1>1, <3>1, <3>2 DEF SameSites, IInv, ReadyInv
  <2> QED
    BY <2>1, <2>2, <2>3, <2>4 DEF ReadyInv, SameSites
<1> QED
  BY <1>5, <1>6, <1>7, <1>8, <1>9, <1>10 DEF HoldsInv

\* What is said of the row of a repository and its site.
Private(row) == Changed(row.name, row) /\ RepoAgrees(row.name, row) /\ Shows(row.name, row) /\ Agreed(row.name, row)

\* The step changes nothing but what belongs to a row.
OnlyOf(row) ==
  /\ \A r \in Repos : r # row.name =>
       /\ change'[r] = change[r] /\ agreed'[r] = agreed[r] /\ github'[r] = github[r] /\ apps'[r] = apps[r]
       /\ <<r, "password">> \in halfway' <=> <<r, "password">> \in halfway
       /\ <<r, "repository">> \in halfway' <=> <<r, "repository">> \in halfway
  /\ \A n \in SiteNames : n # row.site => sites'[n] = sites[n] /\ deployments'[n] = deployments[n]

\* So it is enough to look at that row.
LEMMA OwnRow ==
  ASSUME IInv, TypeOK', SameSites, NEW row \in repos, deployments[row.site] # NoRow, OnlyOf(row), Private(row)'
  PROVE  IInv'
<1>0. TypeOK /\ (\A other \in repos : other.name \in Repos /\ other.site \in SiteNames)
  BY DEF IInv, TypeOK
<1>1. HoldsInv' /\ RunningInv' /\ DoneInv' /\ ReadyInv'
  BY SameSitesKeep
<1>2. repos' = repos
  BY DEF SameSites
<1>3. UnchangedInv'
  <2>1. ASSUME NEW r \in Repos, change'[r] # None \/ agreed'[r] # Unknown
        PROVE  \E other \in repos : other.name = r /\ deployments'[other.site] # NoRow
    <3>1. CASE r = row.name
      BY <1>0, <3>1 DEF SameSites
    <3>2. CASE r # row.name
      <4>1. change[r] # None \/ agreed[r] # Unknown
        BY <2>1, <3>2 DEF OnlyOf
      <4>2. PICK other \in repos : other.name = r /\ deployments[other.site] # NoRow
        BY <4>1 DEF IInv, UnchangedInv
      <4> QED
        BY <1>0, <4>2 DEF SameSites
    <3> QED
      BY <3>1, <3>2
  <2>2. \A n \in SiteNames : sites'[n] # NoRow /\ deployments'[n] = NoRow => ~sites'[n].private
    BY <1>0 DEF SameSites, OnlyOf, IInv, UnchangedInv
  <2>3. \A n \in SiteNames : sites'[n] = NoRow => deployments'[n] = NoRow
    BY DEF SameSites, IInv, UnchangedInv
  <2>4. ASSUME NEW i \in Submissions, At(i, Undeployed)'
        PROVE  deployments'[SiteOf(i)'] = NoRow
    <3>1. At(i, Undeployed) /\ SiteOf(i)' = SiteOf(i)
      BY <2>4 DEF SameSites, At, Step, SiteOf
    <3>2. At(i, Working)
      BY <3>1, StepSets DEF At
    <3>3. deployments[SiteOf(i)] = NoRow /\ SiteOf(i) \in SiteNames
      BY <3>1, <3>2, WorkingFacts DEF IInv, UnchangedInv, Undeployed
    <3> QED
      BY <3>1, <3>3 DEF SameSites
  <2>5. ASSUME NEW i \in Submissions, At(i, Holding \ Entered)'
        PROVE  ~github'[RepoOf(i)'].private
    <3>1. At(i, Holding \ Entered) /\ RepoOf(i)' = RepoOf(i)
      BY <2>5 DEF SameSites, At, Step, RepoOf
    <3>2. At(i, Working)
      BY <3>1, StepSets DEF At
    <3>3. RepoOf(i) \in Repos /\ RepoOf(i) # row.name /\ ~github[RepoOf(i)].private
      BY <3>1, <3>2, WorkingFacts DEF IInv, UnchangedInv, HoldsInv, RowsInv
    <3> QED
      BY <3>1, <3>3 DEF OnlyOf
  <2> QED
    BY <1>2, <2>1, <2>2, <2>3, <2>4, <2>5 DEF UnchangedInv, Undeployed
<1>4. ChangeInv'
  <2> SUFFICES ASSUME NEW other \in repos
               PROVE  Private(other)'
    BY <1>2 DEF ChangeInv, Private
  <2>1. CASE other = row
    BY <2>1
  <2>2. CASE other # row
    <3>1. other.name # row.name /\ other.site # row.site
      BY <2>2 DEF IInv, HoldsInv, RowsInv
    <3>2. other.name \in Repos /\ other.site \in SiteNames
      BY <1>0
    <3>3. /\ change'[other.name] = change[other.name] /\ agreed'[other.name] = agreed[other.name]
          /\ github'[other.name] = github[other.name] /\ apps'[other.name] = apps[other.name]
          /\ <<other.name, "password">> \in halfway' <=> <<other.name, "password">> \in halfway
          /\ <<other.name, "repository">> \in halfway' <=> <<other.name, "repository">> \in halfway
          /\ sites'[other.site] = sites[other.site] /\ deployments'[other.site] = deployments[other.site]
      BY <3>1, <3>2 DEF OnlyOf
    <3>4. Private(other)
      BY DEF IInv, ChangeInv, Private
    <3> QED
      BY <3>3, <3>4 DEF Private, Changed, RepoAgrees, Shows, Agreed, CanShow, Enable
  <2> QED
    BY <2>1, <2>2
<1> QED
  BY <1>1, <1>3, <1>4 DEF IInv

\* A row with a deployment has all that a change of privacy changes.
LEMMA OwnFacts ==
  ASSUME IInv, NEW row \in repos, deployments[row.site] # NoRow
  PROVE  /\ row.site \in SiteNames /\ row.name \in Repos
         /\ deployments[row.site] \in DeploymentRows
         /\ sites[row.site] \in SiteRows /\ sites[row.site] # NoRow
         /\ github[row.name] \in GitHubRepos /\ github[row.name] # NoRow
         /\ apps[row.name] \in AmplifyApps /\ Private(row)
<1> QED
  BY DEF IInv, TypeOK, HoldsInv, RowsInv, ChangeInv, Private

\* A change under way is of such a row.
LEMMA ChangeFacts ==
  ASSUME IInv, NEW r \in Repos, change[r].at # "none"
  PROVE  /\ change[r] \in Changes /\ change[r] # None
         /\ \E row \in repos : row.name = r /\ deployments[row.site] # NoRow /\ change[r].site = row.site
<1>1. change[r] # None
  BY DEF None
<1>2. PICK row \in repos : row.name = r /\ deployments[row.site] # NoRow
  BY <1>1 DEF IInv, UnchangedInv
<1>3. change[r].site = row.site
  BY <1>1, <1>2 DEF IInv, ChangeInv, Changed
<1> QED
  BY <1>1, <1>2, <1>3 DEF IInv, TypeOK

\* A change that goes on.
LEMMA ChangeType ==
  ASSUME IInv, NEW r \in Repos, change[r] \in Changes, NEW at \in {"main", "lite", "keep", "github", "flag", "done"},
         change' = [change EXCEPT ![r].at = at]
  PROVE  /\ change' \in [Repos -> Changes \cup {None}]
         /\ change'[r] = [change[r] EXCEPT !.at = at] /\ change'[r] # None
         /\ \A q \in Repos : q # r => change'[q] = change[q]
<1>1. change \in [Repos -> Changes \cup {None}]
  BY DEF IInv, TypeOK
<1>2. [change[r] EXCEPT !.at = at] \in Changes /\ [change[r] EXCEPT !.at = at].at # "none"
  BY DEF Changes
<1>3. [change[r] EXCEPT !.at = at] # None
  BY <1>2 DEF None
<1> QED
  BY <1>1, <1>2, <1>3

\* The steps change these variables alone.
StaysWith == UNCHANGED <<repos, creation, told, owners, disk, abandoned>>

\* Nothing is said of the copies on Netlify.
LEMMA NetlifyAside ==
  ASSUME IInv, StaysWith, toNetlify' \subseteq Repos, netlify' \subseteq Repos, requests' \in 0..MaxRequests,
         UNCHANGED <<sites, repos, deployments, github, apps, change, faults, agreed, halfway>>
  PROVE  IInv'
<1>1. TypeOK'
  BY DEF IInv, TypeOK, StaysWith
<1>2. SameSites
  BY DEF SameSites, StaysWith
<1>3. HoldsInv' /\ RunningInv' /\ DoneInv' /\ ReadyInv'
  BY <1>1, <1>2, SameSitesKeep
<1>4. UnchangedInv'
  BY DEF StaysWith, IInv, UnchangedInv, At, Step, SiteOf, RepoOf
<1>5. ChangeInv'
  <2> SUFFICES ASSUME NEW row \in repos
               PROVE  (Changed(row.name, row) /\ RepoAgrees(row.name, row) /\ Shows(row.name, row)
                         /\ Agreed(row.name, row))'
    BY DEF ChangeInv
  <2> QED
    BY DEF IInv, ChangeInv, Changed, RepoAgrees, Shows, Agreed, CanShow
<1> QED
  BY <1>1, <1>3, <1>4, <1>5 DEF IInv

\* The change begins: it keeps what the site was, public or private.
LEMMA ChangeBegins ==
  ASSUME IInv, StaysWith, NEW r \in Repos, NEW password \in Secrets, NEW row \in repos,
         row.name = r, deployments[row.site] # NoRow, change[r] = None, Request, toNetlify' \subseteq Repos,
         sites[row.site].private \/ password # NoPassword,
         change' = [change EXCEPT ![r] =
           [at |-> "main", site |-> row.site, password |-> password, private |-> sites[row.site].private]],
         UNCHANGED <<sites, repos, deployments, github, apps, netlify, faults, agreed, halfway>>
  PROVE  IInv'
<1>1. row.name = r /\ deployments[row.site] # NoRow
  OBVIOUS
<1>2. /\ UNCHANGED <<sites, repos, deployments, github, apps, netlify, faults, agreed, halfway>>
      /\ change[r] = None /\ Request
  OBVIOUS
<1>3. TypeOK
  BY DEF IInv
<1>4. /\ row.site \in SiteNames /\ row.name \in Repos /\ sites[row.site] \in SiteRows /\ Private(row)
  BY <1>1, OwnFacts
<1>5. /\ change'[r] \in Changes /\ change'[r] # None
      /\ change'[r] = [at |-> "main", site |-> row.site, password |-> password, private |-> sites[row.site].private]
      /\ change' \in [Repos -> Changes \cup {None}] /\ \A q \in Repos : q # r => change'[q] = change[q]
  <2> DEFINE new == [at |-> "main", site |-> row.site, password |-> password, private |-> sites[row.site].private]
  <2>1. new \in Changes /\ new.at # "none"
    BY <1>4 DEF Changes, SiteRows
  <2>2. new # None
    BY <2>1 DEF None
  <2> QED
    BY <1>1, <1>3, <2>1, <2>2 DEF TypeOK
<1>6. TypeOK'
  BY <1>2, <1>3, <1>5, Counters DEF TypeOK, StaysWith
<1>7. SameSites
  BY <1>2 DEF SameSites, StaysWith
<1>8. OnlyOf(row)
  BY <1>1, <1>2, <1>5 DEF OnlyOf
<1>9. Private(row)'
  <2>1. /\ change'[r].at = "main" /\ change'[r].site = row.site /\ change'[r].password = password
        /\ change'[r].private = sites[row.site].private
        /\ sites[row.site].private \/ password # NoPassword
    BY <1>5
  <2>2. None.at = "none"
    BY DEF None
  <2>3. Changed(r, row)'
    BY <1>2, <2>1 DEF Changed, Enable
  <2>4. RepoAgrees(r, row)' /\ Shows(r, row)'
    BY <1>1, <1>2, <1>4, <2>1, <2>2 DEF Private, RepoAgrees, Shows, CanShow, Enable
  <2>5. Agreed(r, row)'
    BY <1>5 DEF Agreed
  <2> QED
    BY <1>1, <2>3, <2>4, <2>5 DEF Private
<1> QED
  BY <1>1, <1>6, <1>7, <1>8, <1>9, OwnRow

\* The request: nothing but Netlify may come of it.
LEMMA UpdatePasswordStep ==
  ASSUME IInv, StaysWith, NEW r \in Repos, NEW password \in Secrets, UpdatePassword(r, password)
  PROVE  IInv'
<1>1. PICK row \in repos :
        /\ row.name = r
        /\ toNetlify' \in {toNetlify, toNetlify \cup {r}}
        /\ \/ UNCHANGED change
           \/ /\ sites[row.site].private \/ password # NoPassword
              /\ deployments[row.site] # NoRow
              /\ change' = [change EXCEPT ![r] =
                   [at |-> "main", site |-> row.site, password |-> password, private |-> sites[row.site].private]]
  BY DEF UpdatePassword, BySiteName
<1>2. /\ UNCHANGED <<sites, repos, deployments, github, apps, netlify, faults, agreed, halfway>>
      /\ change[r] = None /\ Request
  BY DEF UpdatePassword, rows
<1>3. toNetlify' \subseteq Repos /\ netlify' \subseteq Repos /\ requests' \in 0..MaxRequests
  BY <1>1, <1>2, Counters DEF IInv, TypeOK
<1>4. CASE UNCHANGED change
  BY <1>2, <1>3, <1>4, NetlifyAside
<1> QED
  BY <1>1, <1>2, <1>3, <1>4, ChangeBegins

\* The password of an app.
LEMMA AppsType ==
  ASSUME IInv, NEW r \in Repos, NEW branch \in {"mainPassword", "litePassword"}, NEW password \in Secrets,
         apps' = BranchPassword(r, branch, password)
  PROVE  /\ apps' \in [Repos -> AmplifyApps]
         /\ \A q \in Repos : apps'[q].main = apps[q].main /\ (q # r => apps'[q] = apps[q])
         /\ branch = "mainPassword" =>
              apps'[r].mainPassword = password /\ apps'[r].litePassword = apps[r].litePassword
         /\ branch = "litePassword" =>
              apps'[r].litePassword = password /\ apps'[r].mainPassword = apps[r].mainPassword
<1>1. apps \in [Repos -> AmplifyApps] /\ apps[r] \in AmplifyApps
  BY DEF IInv, TypeOK
<1>2. CASE branch = "mainPassword"
  <2>1. [apps[r] EXCEPT !.mainPassword = password] \in AmplifyApps
    BY <1>1 DEF AmplifyApps
  <2>2. apps' = [apps EXCEPT ![r] = [apps[r] EXCEPT !.mainPassword = password]]
    BY <1>2 DEF BranchPassword
  <2> QED
    BY <1>1, <1>2, <2>1, <2>2 DEF AmplifyApps
<1>3. CASE branch = "litePassword"
  <2>1. [apps[r] EXCEPT !.litePassword = password] \in AmplifyApps
    BY <1>1 DEF AmplifyApps
  <2>2. apps' = [apps EXCEPT ![r] = [apps[r] EXCEPT !.litePassword = password]]
    BY <1>3 DEF BranchPassword
  <2> QED
    BY <1>1, <1>3, <2>1, <2>2 DEF AmplifyApps
<1> QED
  BY <1>2, <1>3

\* The password kept with a deployment.
LEMMA KeptType ==
  ASSUME IInv, NEW row \in repos, deployments[row.site] # NoRow, NEW password \in Secrets,
         deployments' = [deployments EXCEPT ![row.site].password = password]
  PROVE  /\ deployments' \in [SiteNames -> DeploymentRows \cup {NoRow}]
         /\ deployments'[row.site].password = password /\ deployments'[row.site].lite = deployments[row.site].lite
         /\ deployments'[row.site] # NoRow
         /\ \A n \in SiteNames : n # row.site => deployments'[n] = deployments[n]
<1>1. row.site \in SiteNames /\ deployments[row.site] \in DeploymentRows
      /\ deployments \in [SiteNames -> DeploymentRows \cup {NoRow}]
  BY OwnFacts DEF IInv, TypeOK
<1>2. [deployments[row.site] EXCEPT !.password = password] \in DeploymentRows
  BY <1>1 DEF DeploymentRows
<1> QED
  BY <1>1, <1>2, SitePrivacyAssumption DEF DeploymentRows

\* The app of the site has the password.
LEMMA UpdateMainAppStep ==
  ASSUME IInv, StaysWith, NEW r \in Repos, UpdateMainApp(r)
  PROVE  IInv'
<1> DEFINE c == change[r]
           at == IF deployments[c.site].lite THEN "lite" ELSE "keep"
<1>1. c.at = "main" /\ c \in Changes /\ c # None
  BY ChangeFacts DEF UpdateMainApp
<1>2. PICK row \in repos : row.name = r /\ deployments[row.site] # NoRow /\ c.site = row.site
  BY <1>1, ChangeFacts
<1>3. /\ apps' = BranchPassword(r, "mainPassword", c.password)
      /\ deployments' = IF c.password = NoPassword
                        THEN [deployments EXCEPT ![row.site].password = NoPassword] ELSE deployments
      /\ change' = [change EXCEPT ![r].at = at] /\ at \in {"lite", "keep"}
      /\ at = "keep" => ~deployments[row.site].lite
      /\ UNCHANGED <<sites, repos, github, netlify, toNetlify, requests, faults, agreed, halfway>>
  BY <1>2 DEF UpdateMainApp
<1>4. /\ TypeOK /\ row.site \in SiteNames /\ row.name \in Repos /\ Private(row)
      /\ deployments[row.site] \in DeploymentRows
      /\ c.password \in Secrets /\ NoPassword \in Secrets
  BY <1>1, <1>2, OwnFacts DEF IInv, Changes, Secrets
<1>5. /\ change' \in [Repos -> Changes \cup {None}] /\ change'[r] # None
      /\ change'[r] = [c EXCEPT !.at = at]
      /\ \A q \in Repos : q # r => change'[q] = change[q]
  BY <1>1, <1>3, ChangeType
<1>6. /\ apps' \in [Repos -> AmplifyApps] /\ apps'[r].mainPassword = c.password
      /\ \A q \in Repos : apps'[q].main = apps[q].main /\ (q # r => apps'[q] = apps[q])
  BY <1>3, <1>4, AppsType
<1>7. /\ deployments' \in [SiteNames -> DeploymentRows \cup {NoRow}]
      /\ deployments'[row.site].password = IF c.password = NoPassword THEN NoPassword ELSE deployments[row.site].password
      /\ deployments'[row.site].lite = deployments[row.site].lite /\ deployments'[row.site] # NoRow
      /\ \A n \in SiteNames : n # row.site => deployments'[n] = deployments[n]
  <2>1. CASE c.password = NoPassword
    BY <1>2, <1>3, <1>4, <2>1, KeptType
  <2>2. CASE c.password # NoPassword
    BY <1>2, <1>3, <1>4, <2>2 DEF TypeOK
  <2> QED
    BY <2>1, <2>2
<1>8. TypeOK'
  BY <1>3, <1>4, <1>5, <1>6, <1>7 DEF TypeOK, StaysWith
<1>9. SameSites
  BY <1>2, <1>3, <1>6, <1>7 DEF SameSites, StaysWith
<1>10. OnlyOf(row)
  BY <1>2, <1>3, <1>5, <1>6, <1>7 DEF OnlyOf
<1>11. Private(row)'
  <2>1. /\ change'[r].at = at /\ change'[r].site = c.site /\ change'[r].password = c.password
        /\ change'[r].private = c.private
    BY <1>1, <1>5 DEF Changes
  <2>2. Changed(r, row) /\ RepoAgrees(r, row) /\ Shows(r, row)
    BY <1>2, <1>4 DEF Private
  <2>3. c.site = row.site /\ (c.private \/ Enable(c)) /\ c.private = sites[row.site].private
    BY <1>1, <2>2 DEF Changed
  <2>4. Changed(r, row)'
    <3> HIDE DEF c, at
    <3> QED
      BY <1>3, <1>6, <1>7, <2>1, <2>3 DEF Changed, Enable
  <2>5. RepoAgrees(r, row)'
    BY <1>1, <1>3, <2>1, <2>2 DEF RepoAgrees
  <2>6. Shows(r, row)'
    <3>1. <<r, "password">> \in halfway \/ CanShow(row.site)
      BY <1>1, <2>2 DEF Shows
    <3> QED
      BY <1>3, <1>7, <2>1, <3>1 DEF Shows, CanShow, Enable
  <2>7. Agreed(r, row)'
    BY <1>5 DEF Agreed
  <2> QED
    BY <1>2, <2>4, <2>5, <2>6, <2>7 DEF Private
<1> QED
  BY <1>2, <1>8, <1>9, <1>10, <1>11, OwnRow

\* The staging-lite app has it too.
LEMMA UpdateLiteAppStep ==
  ASSUME IInv, StaysWith, NEW r \in Repos, UpdateLiteApp(r)
  PROVE  IInv'
<1> DEFINE c == change[r]
<1>1. c.at = "lite" /\ c \in Changes /\ c # None
  BY ChangeFacts DEF UpdateLiteApp
<1>2. PICK row \in repos : row.name = r /\ deployments[row.site] # NoRow /\ c.site = row.site
  BY <1>1, ChangeFacts
<1>3. /\ apps' = BranchPassword(r, "litePassword", c.password)
      /\ change' = [change EXCEPT ![r].at = "keep"]
      /\ UNCHANGED <<sites, repos, deployments, github, netlify, toNetlify, requests, faults, agreed, halfway>>
  BY DEF UpdateLiteApp, rows
<1>4. /\ TypeOK /\ row.site \in SiteNames /\ row.name \in Repos /\ Private(row) /\ c.password \in Secrets
  BY <1>1, <1>2, OwnFacts DEF IInv, Changes
<1>5. /\ change' \in [Repos -> Changes \cup {None}] /\ change'[r] # None
      /\ change'[r] = [c EXCEPT !.at = "keep"]
      /\ \A q \in Repos : q # r => change'[q] = change[q]
  BY <1>1, <1>3, ChangeType
<1>6. /\ apps' \in [Repos -> AmplifyApps]
      /\ apps'[r].litePassword = c.password /\ apps'[r].mainPassword = apps[r].mainPassword
      /\ \A q \in Repos : apps'[q].main = apps[q].main /\ (q # r => apps'[q] = apps[q])
  BY <1>3, <1>4, AppsType
<1>7. TypeOK'
  BY <1>3, <1>4, <1>5, <1>6 DEF TypeOK, StaysWith
<1>8. SameSites
  BY <1>3, <1>6 DEF SameSites, StaysWith
<1>9. OnlyOf(row)
  BY <1>2, <1>3, <1>5, <1>6 DEF OnlyOf
<1>10. Private(row)'
  <2>1. /\ change'[r].at = "keep" /\ change'[r].site = c.site /\ change'[r].password = c.password
        /\ change'[r].private = c.private
    BY <1>1, <1>5 DEF Changes
  <2>2. Changed(r, row) /\ RepoAgrees(r, row) /\ Shows(r, row)
    BY <1>2, <1>4 DEF Private
  <2>3. /\ c.site = row.site /\ (c.private \/ Enable(c)) /\ c.private = sites[row.site].private
        /\ apps[r].mainPassword = c.password
        /\ ~Enable(c) => deployments[row.site].password = NoPassword
    BY <1>1, <2>2 DEF Changed
  <2>4. Changed(r, row)'
    <3> HIDE DEF c
    <3> QED
      BY <1>3, <1>6, <2>1, <2>3 DEF Changed, Enable
  <2>5. RepoAgrees(r, row)'
    BY <1>1, <1>3, <2>1, <2>2 DEF RepoAgrees
  <2>6. Shows(r, row)'
    BY <1>1, <1>3, <2>1, <2>2 DEF Shows, CanShow, Enable
  <2>7. Agreed(r, row)'
    BY <1>5 DEF Agreed
  <2> QED
    BY <1>2, <2>4, <2>5, <2>6, <2>7 DEF Private
<1> QED
  BY <1>2, <1>7, <1>8, <1>9, <1>10, OwnRow

\* Both apps have the password that is kept now.
LEMMA KeepPasswordStep ==
  ASSUME IInv, StaysWith, NEW r \in Repos, KeepPassword(r)
  PROVE  IInv'
<1> DEFINE c == change[r]
           at == IF c.private # (c.password # NoPassword) THEN "github" ELSE "done"
<1>1. c.at = "keep" /\ c \in Changes /\ c # None
  BY ChangeFacts DEF KeepPassword
<1>2. PICK row \in repos : row.name = r /\ deployments[row.site] # NoRow /\ c.site = row.site
  BY <1>1, ChangeFacts
<1>3. /\ deployments' = [deployments EXCEPT ![row.site].password = c.password]
      /\ halfway' = halfway \ {<<r, "password">>}
      /\ change' = [change EXCEPT ![r].at = at] /\ at \in {"github", "done"}
      /\ at = "github" => c.private # Enable(c)
      /\ at = "done" => c.private = Enable(c)
      /\ UNCHANGED <<sites, repos, github, apps, netlify, toNetlify, requests, faults, agreed>>
  BY <1>2 DEF KeepPassword, Kept, Enable
<1>4. /\ TypeOK /\ row.site \in SiteNames /\ row.name \in Repos /\ Private(row) /\ c.password \in Secrets
  BY <1>1, <1>2, OwnFacts DEF IInv, Changes
<1>5. /\ change' \in [Repos -> Changes \cup {None}] /\ change'[r] # None
      /\ change'[r] = [c EXCEPT !.at = at]
      /\ \A q \in Repos : q # r => change'[q] = change[q]
  BY <1>1, <1>3, ChangeType
<1>6. /\ deployments' \in [SiteNames -> DeploymentRows \cup {NoRow}]
      /\ deployments'[row.site].password = c.password
      /\ deployments'[row.site].lite = deployments[row.site].lite /\ deployments'[row.site] # NoRow
      /\ \A n \in SiteNames : n # row.site => deployments'[n] = deployments[n]
  BY <1>2, <1>3, <1>4, KeptType
<1>7. TypeOK'
  BY <1>3, <1>4, <1>5, <1>6 DEF TypeOK, StaysWith
<1>8. SameSites
  BY <1>2, <1>3, <1>6 DEF SameSites, StaysWith
<1>9. OnlyOf(row)
  BY <1>2, <1>3, <1>5, <1>6 DEF OnlyOf
<1>10. Private(row)'
  <2>1. /\ change'[r].at = at /\ change'[r].site = c.site /\ change'[r].password = c.password
        /\ change'[r].private = c.private
    BY <1>1, <1>5 DEF Changes
  <2>2. Changed(r, row) /\ RepoAgrees(r, row)
    BY <1>2, <1>4 DEF Private
  <2>3. /\ c.site = row.site /\ (c.private \/ Enable(c)) /\ c.private = sites[row.site].private
        /\ apps[r].mainPassword = c.password
        /\ deployments[row.site].lite => apps[r].litePassword = c.password
    BY <1>1, <2>2 DEF Changed
  <2> HIDE DEF c, at
  <2>4. Changed(r, row)'
    BY <1>3, <1>6, <2>1, <2>3 DEF Changed, Enable
  <2>5. RepoAgrees(r, row)'
    <3>1. github[r].private = sites[row.site].private \/ <<r, "repository">> \in halfway
      BY <1>1, <2>2 DEF RepoAgrees, c
    <3> QED
      BY <1>3, <3>1 DEF RepoAgrees
  <2>6. Shows(r, row)'
    BY <1>3, <1>6, <2>1, <2>3 DEF Shows, CanShow, Enable
  <2>7. Agreed(r, row)'
    BY <1>5 DEF Agreed
  <2> QED
    BY <1>2, <2>4, <2>5, <2>6, <2>7 DEF Private
<1> QED
  BY <1>2, <1>7, <1>8, <1>9, <1>10, OwnRow

\* The repository is as private as the site is to be.
LEMMA ChangeRepoPrivacyStep ==
  ASSUME IInv, StaysWith, NEW r \in Repos, ChangeRepoPrivacy(r)
  PROVE  IInv'
<1> DEFINE c == change[r]
<1>1. c.at = "github" /\ c \in Changes /\ c # None
  BY ChangeFacts DEF ChangeRepoPrivacy
<1>2. PICK row \in repos : row.name = r /\ deployments[row.site] # NoRow /\ c.site = row.site
  BY <1>1, ChangeFacts
<1>3. /\ github' = [github EXCEPT ![r].private = Enable(c)]
      /\ change' = [change EXCEPT ![r].at = "flag"]
      /\ UNCHANGED <<sites, repos, deployments, apps, netlify, toNetlify, requests, faults, agreed, halfway>>
  BY DEF ChangeRepoPrivacy, RepoPrivacy, rows, Enable
<1>4. /\ TypeOK /\ row.site \in SiteNames /\ row.name \in Repos /\ Private(row)
      /\ github[r] \in GitHubRepos /\ github[r] # NoRow /\ Enable(c) \in BOOLEAN
  BY <1>1, <1>2, OwnFacts DEF IInv, Enable
<1>5. /\ change' \in [Repos -> Changes \cup {None}] /\ change'[r] # None
      /\ change'[r] = [c EXCEPT !.at = "flag"]
      /\ \A q \in Repos : q # r => change'[q] = change[q]
  BY <1>1, <1>3, ChangeType
<1>6. /\ github' \in [Repos -> GitHubRepos \cup {NoRow}] /\ github'[r].private = Enable(c) /\ github'[r] # NoRow
      /\ \A q \in Repos : q # r => github'[q] = github[q]
      /\ github'[r].branches = github[r].branches /\ github'[r].urls = github[r].urls
      /\ github'[r].protected = github[r].protected
  <2>1. github' \in [Repos -> GitHubRepos \cup {NoRow}]
    BY <1>3, <1>4, RepoType
  <2>2. [github[r] EXCEPT !.private = Enable(c)] \in GitHubRepos
    BY <1>4 DEF GitHubRepos
  <2> QED
    BY <1>3, <1>4, <2>1, <2>2, SitePrivacyAssumption DEF TypeOK, GitHubRepos
<1>7. TypeOK'
  BY <1>3, <1>4, <1>5, <1>6 DEF TypeOK, StaysWith
<1>8. SameSites
  BY <1>3, <1>4, <1>6 DEF SameSites, StaysWith
<1>9. OnlyOf(row)
  BY <1>2, <1>3, <1>5, <1>6 DEF OnlyOf
<1>10. Private(row)'
  <2>1. /\ change'[r].at = "flag" /\ change'[r].site = c.site /\ change'[r].password = c.password
        /\ change'[r].private = c.private
    BY <1>1, <1>5 DEF Changes
  <2>2. Changed(r, row)
    BY <1>2, <1>4 DEF Private
  <2>3. /\ c.site = row.site /\ (c.private \/ Enable(c)) /\ c.private = sites[row.site].private
        /\ apps[r].mainPassword = c.password
        /\ deployments[row.site].lite => apps[r].litePassword = c.password
        /\ deployments[row.site].password = c.password /\ c.private # Enable(c)
    BY <1>1, <2>2 DEF Changed
  <2> HIDE DEF c
  <2>4. Changed(r, row)'
    BY <1>3, <1>6, <2>1, <2>3 DEF Changed, Enable
  <2>5. RepoAgrees(r, row)' /\ Shows(r, row)'
    BY <2>1 DEF RepoAgrees, Shows
  <2>6. Agreed(r, row)'
    BY <1>5 DEF Agreed
  <2> QED
    BY <1>2, <2>4, <2>5, <2>6 DEF Private
<1> QED
  BY <1>2, <1>7, <1>8, <1>9, <1>10, OwnRow

\* The site is as private as the repository is.
LEMMA ChangeFlagStep ==
  ASSUME IInv, StaysWith, NEW r \in Repos, ChangeFlag(r)
  PROVE  IInv'
<1> DEFINE c == change[r]
<1>1. c.at = "flag" /\ c \in Changes /\ c # None
  BY ChangeFacts DEF ChangeFlag
<1>2. PICK row \in repos : row.name = r /\ deployments[row.site] # NoRow /\ c.site = row.site
  BY <1>1, ChangeFacts
<1>3. /\ sites' = [sites EXCEPT ![row.site].private = Enable(c)]
      /\ halfway' = halfway \ {<<r, "repository">>}
      /\ change' = [change EXCEPT ![r].at = "done"]
      /\ UNCHANGED <<repos, deployments, github, apps, netlify, toNetlify, requests, faults, agreed>>
  BY <1>2 DEF ChangeFlag, Enable
<1>4. /\ TypeOK /\ row.site \in SiteNames /\ row.name \in Repos /\ Private(row)
      /\ sites[row.site] \in SiteRows /\ sites[row.site] # NoRow /\ Enable(c) \in BOOLEAN
  BY <1>1, <1>2, OwnFacts DEF IInv, Enable
<1>5. /\ change' \in [Repos -> Changes \cup {None}] /\ change'[r] # None
      /\ change'[r] = [c EXCEPT !.at = "done"]
      /\ \A q \in Repos : q # r => change'[q] = change[q]
  BY <1>1, <1>3, ChangeType
<1>6. /\ sites' \in [SiteNames -> SiteRows \cup {NoRow}] /\ sites'[row.site].private = Enable(c)
      /\ sites'[row.site] # NoRow /\ sites'[row.site].job = sites[row.site].job
      /\ \A n \in SiteNames : n # row.site => sites'[n] = sites[n]
  <2>1. [sites[row.site] EXCEPT !.private = Enable(c)] \in SiteRows
    BY <1>4 DEF SiteRows
  <2> QED
    BY <1>3, <1>4, <2>1, SitePrivacyAssumption DEF TypeOK, SiteRows
<1>7. TypeOK'
  BY <1>3, <1>4, <1>5, <1>6 DEF TypeOK, StaysWith
<1>8. SameSites
  BY <1>3, <1>4, <1>6 DEF SameSites, StaysWith
<1>9. OnlyOf(row)
  BY <1>2, <1>3, <1>5, <1>6 DEF OnlyOf
<1>10. Private(row)'
  <2>1. /\ change'[r].at = "done" /\ change'[r].site = c.site /\ change'[r].password = c.password
        /\ change'[r].private = c.private
    BY <1>1, <1>5 DEF Changes
  <2>2. Changed(r, row)
    BY <1>2, <1>4 DEF Private
  <2>3. /\ c.site = row.site /\ (c.private \/ Enable(c))
        /\ apps[r].mainPassword = c.password
        /\ deployments[row.site].lite => apps[r].litePassword = c.password
        /\ deployments[row.site].password = c.password /\ github[r].private = Enable(c)
    BY <1>1, <2>2 DEF Changed
  <2> HIDE DEF c
  <2>4. Changed(r, row)'
    BY <1>3, <1>6, <2>1, <2>3 DEF Changed, Enable
  <2>5. RepoAgrees(r, row)'
    BY <1>3, <1>6, <2>1, <2>3 DEF RepoAgrees
  <2>6. Shows(r, row)'
    BY <1>3, <1>6, <2>1, <2>3 DEF Shows, CanShow, Enable
  <2>7. Agreed(r, row)'
    BY <1>5 DEF Agreed
  <2> QED
    BY <1>2, <2>4, <2>5, <2>6, <2>7 DEF Private
<1> QED
  BY <1>2, <1>7, <1>8, <1>9, <1>10, OwnRow

\* All agree when the change is acknowledged.
LEMMA AcknowledgeStep ==
  ASSUME IInv, StaysWith, NEW r \in Repos, Acknowledge(r)
  PROVE  IInv'
<1> DEFINE c == change[r]
<1>1. c.at = "done" /\ c \in Changes /\ c # None
  BY ChangeFacts DEF Acknowledge
<1>2. PICK row \in repos : row.name = r /\ deployments[row.site] # NoRow /\ c.site = row.site
  BY <1>1, ChangeFacts
<1>3. /\ agreed' = [agreed EXCEPT ![r] = c.password]
      /\ change' = [change EXCEPT ![r] = None]
      /\ UNCHANGED <<sites, repos, deployments, github, apps, netlify, toNetlify, requests, faults, halfway>>
  BY DEF Acknowledge, rows
<1>4. /\ TypeOK /\ row.site \in SiteNames /\ row.name \in Repos /\ Private(row) /\ c.password \in Secrets
  BY <1>1, <1>2, OwnFacts DEF IInv, Changes
<1>5. /\ change' \in [Repos -> Changes \cup {None}] /\ change'[r] = None
      /\ agreed' \in [Repos -> Secrets \cup {Unknown}] /\ agreed'[r] = c.password
      /\ \A q \in Repos : q # r => change'[q] = change[q] /\ agreed'[q] = agreed[q]
  BY <1>3, <1>4 DEF TypeOK
<1>6. TypeOK'
  BY <1>3, <1>4, <1>5 DEF TypeOK, StaysWith
<1>7. SameSites
  BY <1>3 DEF SameSites, StaysWith
<1>8. OnlyOf(row)
  BY <1>2, <1>3, <1>5 DEF OnlyOf
<1>9. Private(row)'
  <2>1. Changed(r, row) /\ RepoAgrees(r, row) /\ Shows(r, row)
    BY <1>2, <1>4 DEF Private
  <2>2. /\ apps[r].mainPassword = c.password
        /\ deployments[row.site].lite => apps[r].litePassword = c.password
        /\ deployments[row.site].password = c.password /\ sites[row.site].private = Enable(c)
    BY <1>1, <2>1 DEF Changed
  <2>3. RepoAgrees(r, row)'
    BY <1>1, <1>3, <2>1 DEF RepoAgrees
  <2>4. Shows(r, row)'
    BY <1>1, <1>3, <2>1 DEF Shows, CanShow
  <2> HIDE DEF c
  <2>5. Changed(r, row)'
    BY <1>5 DEF Changed
  <2>6. Agreed(r, row)'
    BY <1>3, <1>5, <2>2 DEF Agreed, Enable
  <2> QED
    BY <1>2, <2>3, <2>4, <2>5, <2>6 DEF Private
<1> QED
  BY <1>2, <1>6, <1>7, <1>8, <1>9, OwnRow

\* What a failed change leaves apart is in halfway.
LEMMA ChangeFailsStep ==
  ASSUME IInv, StaysWith, NEW r \in Repos, ChangeFails(r)
  PROVE  IInv'
<1> DEFINE c == change[r]
           keeps == c.at # "main" /\ deployments[c.site].password = NoPassword
<1>1. c.at \notin {"none", "done"} /\ c \in Changes /\ c # None
  BY ChangeFacts DEF ChangeFails
<1>2. PICK row \in repos : row.name = r /\ deployments[row.site] # NoRow /\ c.site = row.site
  BY <1>1, ChangeFacts
<1>3. /\ agreed' = [agreed EXCEPT ![r] = Unknown]
      /\ change' = [change EXCEPT ![r] = None]
      /\ halfway' = halfway \cup (IF keeps THEN {<<r, "password">>} ELSE {})
                            \cup (IF c.at = "flag" THEN {<<r, "repository">>} ELSE {})
      /\ Fault /\ UNCHANGED <<sites, repos, deployments, github, apps, netlify, toNetlify, requests>>
  BY DEF ChangeFails, Failed, rows
<1>4. TypeOK /\ row.site \in SiteNames /\ row.name \in Repos /\ Private(row)
  BY <1>2, OwnFacts DEF IInv
<1>5. /\ change' \in [Repos -> Changes \cup {None}] /\ change'[r] = None
      /\ agreed' \in [Repos -> Secrets \cup {Unknown}] /\ agreed'[r] = Unknown
      /\ \A q \in Repos : q # r => change'[q] = change[q] /\ agreed'[q] = agreed[q]
  BY <1>3, <1>4 DEF TypeOK
<1>6. /\ halfway' \subseteq Repos \X {"password", "repository"} /\ halfway \subseteq halfway'
      /\ keeps => <<r, "password">> \in halfway'
      /\ c.at = "flag" => <<r, "repository">> \in halfway'
      /\ \A q : q # r => /\ <<q, "password">> \in halfway' <=> <<q, "password">> \in halfway
                         /\ <<q, "repository">> \in halfway' <=> <<q, "repository">> \in halfway
  BY <1>3, <1>4 DEF TypeOK
<1>7. TypeOK'
  BY <1>3, <1>4, <1>5, <1>6, Counters DEF TypeOK, StaysWith
<1>8. SameSites
  BY <1>3 DEF SameSites, StaysWith
<1>9. OnlyOf(row)
  BY <1>2, <1>3, <1>5, <1>6 DEF OnlyOf
<1>10. Private(row)'
  <2>1. Changed(r, row) /\ RepoAgrees(r, row) /\ Shows(r, row)
    BY <1>2, <1>4 DEF Private
  <2>2. RepoAgrees(r, row)'
    BY <1>3, <1>6, <2>1 DEF RepoAgrees
  <2>3. Shows(r, row)'
    <3>1. CASE keeps
      BY <1>6, <3>1 DEF Shows
    <3>2. CASE c.at = "main"
      BY <1>3, <1>6, <2>1, <3>2 DEF Shows, CanShow
    <3>3. CASE c.at # "main" /\ deployments[row.site].password # NoPassword
      BY <1>3, <3>3 DEF Shows, CanShow
    <3> QED
      BY <1>2, <3>1, <3>2, <3>3
  <2> HIDE DEF c, keeps
  <2>4. Changed(r, row)' /\ Agreed(r, row)'
    BY <1>5 DEF Changed, Agreed
  <2> QED
    BY <1>2, <2>2, <2>3, <2>4 DEF Private
<1> QED
  BY <1>2, <1>7, <1>8, <1>9, <1>10, OwnRow

\* Nothing depends on the Netlify copy.
LEMMA TellNetlifyStep ==
  ASSUME IInv, StaysWith, NEW r \in Repos, TellNetlify(r)
  PROVE  IInv'
<1>1. /\ toNetlify' \subseteq Repos /\ netlify' \subseteq Repos
      /\ UNCHANGED <<sites, repos, deployments, github, apps, change, requests, faults, agreed, halfway>>
  BY DEF IInv, TypeOK, TellNetlify, rows
<1>2. requests' \in 0..MaxRequests
  BY <1>1 DEF IInv, TypeOK
<1> QED
  BY <1>1, <1>2, NetlifyAside

\* Every step of a change of privacy keeps the invariant.
LEMMA PrivacyKeeps ==
  ASSUME IInv, NEW r \in Repos, PrivacyStep(r), UNCHANGED <<creation, told, owners, disk, abandoned>>
  PROVE  IInv'
<1>1. StaysWith
  BY DEF StaysWith, PrivacyStep, UpdatePassword, UpdateMainApp, UpdateLiteApp, KeepPassword, ChangeRepoPrivacy,
         ChangeFlag, Acknowledge, ChangeFails, TellNetlify, rows
<1>2. ASSUME NEW password \in Passwords \cup {NoPassword}, UpdatePassword(r, password)
      PROVE  IInv'
  BY <1>1, <1>2, UpdatePasswordStep DEF Secrets
<1> QED
  BY <1>1, <1>2, UpdateMainAppStep, UpdateLiteAppStep, KeepPasswordStep, ChangeRepoPrivacyStep, ChangeFlagStep,
     AcknowledgeStep, ChangeFailsStep, TellNetlifyStep DEF PrivacyStep

-----------------------------------------------------------------------------
(* The invariant, and what it says                                         *)

\* It holds at the start.
LEMMA InitInv == Init => IInv
<1> SUFFICES ASSUME Init
             PROVE  IInv
  OBVIOUS
<1>1. PICK was \in {{}} \cup {{o} : o \in SiteNames \X Repos}, lite \in BOOLEAN :
       /\ sites = [n \in SiteNames |-> IF \E o \in was : o[1] = n
                                       THEN [status |-> "INITIALIZED", job |-> "READY", private |-> FALSE] ELSE NoRow]
       /\ repos = {[name |-> o[2], site |-> o[1]] : o \in was}
       /\ deployments = [n \in SiteNames |-> IF \E o \in was : o[1] = n
                                             THEN [password |-> NoPassword, lite |-> lite] ELSE NoRow]
       /\ github = [r \in Repos |-> IF \E o \in was : o[2] = r
                                    THEN [FreshRepo EXCEPT !.branches = {"staging", "master", "staging-lite"},
                                                           !.urls = {"staging", "master"}, !.protected = TRUE]
                                    ELSE NoRow]
       /\ apps = [r \in Repos |-> IF \E o \in was : o[2] = r
                                  THEN [NoApps EXCEPT !.main = {"staging", "master"},
                                                      !.lite = IF lite THEN {"staging-lite"} ELSE {}]
                                  ELSE NoApps]
       /\ owners = {o[1] : o \in was}
       /\ disk = [b \in {"staging", "staging-lite"} |-> {o[2] : o \in was}]
  BY DEF Init
<1>2. /\ netlify = {} /\ toNetlify = {} /\ halfway = {} /\ requests = 0 /\ faults = 0
      /\ change = [r \in Repos |-> None] /\ agreed = [r \in Repos |-> Unknown]
      /\ creation = [i \in Submissions |-> [at |-> "idle"]]
      /\ told = [i \in Submissions |-> "nothing"]
      /\ abandoned = {}
  BY DEF Init
<1> DEFINE site == [status |-> "INITIALIZED", job |-> "READY", private |-> FALSE]
           deployment == [password |-> NoPassword, lite |-> lite]
           repo == [FreshRepo EXCEPT !.branches = {"staging", "master", "staging-lite"},
                                     !.urls = {"staging", "master"}, !.protected = TRUE]
           app == [NoApps EXCEPT !.main = {"staging", "master"}, !.lite = IF lite THEN {"staging-lite"} ELSE {}]
<1>3. site \in SiteRows /\ site # NoRow /\ site.job = "READY" /\ site.private = FALSE
  <2>1. site \in SiteRows /\ site.job = "READY" /\ site.private = FALSE
    BY DEF SiteRows
  <2> HIDE DEF site
  <2> QED
    BY <2>1, SitePrivacyAssumption
<1>4. deployment \in DeploymentRows /\ deployment # NoRow /\ deployment.password = NoPassword
  BY SitePrivacyAssumption DEF DeploymentRows, Secrets
<1>5. /\ repo \in GitHubRepos /\ repo # NoRow /\ repo.branches = {"staging", "master", "staging-lite"}
      /\ repo.urls = {"staging", "master"} /\ repo.protected /\ repo.private = FALSE
  BY SitePrivacyAssumption DEF GitHubRepos, FreshRepo
<1>6. /\ app \in AmplifyApps /\ NoApps \in AmplifyApps /\ app.main = {"staging", "master"}
  BY DEF AmplifyApps, NoApps, Secrets
<1> HIDE DEF site, deployment, repo, app
<1>7. /\ \A n \in SiteNames : sites[n] = IF \E o \in was : o[1] = n THEN site ELSE NoRow
      /\ \A n \in SiteNames : deployments[n] = IF \E o \in was : o[1] = n THEN deployment ELSE NoRow
      /\ \A r \in Repos : github[r] = IF \E o \in was : o[2] = r THEN repo ELSE NoRow
      /\ \A r \in Repos : apps[r] = IF \E o \in was : o[2] = r THEN app ELSE NoApps
      /\ disk["staging"] = {o[2] : o \in was} /\ disk["staging-lite"] = {o[2] : o \in was}
  BY <1>1 DEF site, deployment, repo, app
<1>8. /\ \A o \in was : o[1] \in SiteNames /\ o[2] \in Repos
      /\ \A o, p \in was : o = p
  OBVIOUS
<1>9. \A row \in repos : \E o \in was : row = [name |-> o[2], site |-> o[1]]
  BY <1>1
<1>10. TypeOK
  <2>1. sites \in [SiteNames -> SiteRows \cup {NoRow}]
    BY <1>1, <1>3 DEF site
  <2>2. deployments \in [SiteNames -> DeploymentRows \cup {NoRow}]
    BY <1>1, <1>4 DEF deployment
  <2>3. github \in [Repos -> GitHubRepos \cup {NoRow}]
    BY <1>1, <1>5 DEF repo
  <2>4. apps \in [Repos -> AmplifyApps]
    BY <1>1, <1>6 DEF app
  <2>5. repos \subseteq [name : Repos, site : SiteNames] /\ owners \subseteq SiteNames
    BY <1>1, <1>8
  <2>6. disk \in [{"staging", "staging-lite"} -> SUBSET Repos]
    BY <1>1, <1>8
  <2>7. requests \in 0..MaxRequests /\ faults \in 0..MaxFaults
    BY <1>2, SitePrivacyAssumption
  <2>8. creation \in [Submissions -> [at : Steps, form : Forms] \cup {[at |-> "idle"]}]
    BY <1>2
  <2> QED
    BY <1>2, <2>1, <2>2, <2>3, <2>4, <2>5, <2>6, <2>7, <2>8 DEF TypeOK
<1>11. \A i \in Submissions : Step(i) = "idle"
  BY <1>2 DEF Step
<1>12. \A i \in Submissions : ~At(i, Working) /\ ~At(i, Finished)
  BY <1>11, StepSets DEF At, Finished
<1>13. \A i \in Submissions :
         /\ ~At(i, Holding) /\ ~At(i, Unentered) /\ ~At(i, Holding \ Entered) /\ ~At(i, Entered \cup Finished)
         /\ ~At(i, Undeployed) /\ ~At(i, Pushed) /\ ~At(i, Branched) /\ ~At(i, HasApps) /\ ~At(i, Deployed)
         /\ ~At(i, Linked) /\ ~At(i, Protected)
  BY <1>12, StepSets DEF At
<1>14. HoldsInv
  <2>1. \A row \in repos : sites[row.site] # NoRow /\ github[row.name] # NoRow
    BY <1>3, <1>5, <1>7, <1>8, <1>9
  <2>2. \A row, other \in repos : row = other
    BY <1>8, <1>9
  <2> QED
    BY <1>12, <1>13, <2>1, <2>2 DEF HoldsInv, SiteHeld, RepoHeld, RowsInv, Unentered
<1>15. RunningInv
  BY <1>3, <1>7 DEF RunningInv
<1>16. DoneInv
  BY <1>13 DEF DoneInv, Done
<1>17. ReadyInv
  <2>1. \A row \in repos : Complete(row)
    BY <1>4, <1>5, <1>6, <1>7, <1>8, <1>9 DEF Complete, RepoDone
  <2> QED
    BY <1>2, <1>12, <2>1 DEF ReadyInv
<1>18. UnchangedInv
  BY <1>2, <1>3, <1>4, <1>7, <1>13 DEF UnchangedInv, Undeployed
<1>19. ChangeInv
  <2> SUFFICES ASSUME NEW row \in repos
               PROVE  Changed(row.name, row) /\ RepoAgrees(row.name, row) /\ Shows(row.name, row) /\ Agreed(row.name, row)
    BY DEF ChangeInv
  <2>1. row.site \in SiteNames /\ row.name \in Repos /\ sites[row.site] = site /\ github[row.name] = repo
    BY <1>7, <1>8, <1>9
  <2> QED
    BY <1>2, <1>3, <1>5, <2>1 DEF Changed, RepoAgrees, Shows, Agreed, CanShow
<1> QED
  BY <1>10, <1>14, <1>15, <1>16, <1>17, <1>18, <1>19 DEF IInv

\* Every step keeps it.
LEMMA StepInv == IInv /\ [Next]_vars => IInv'
<1> SUFFICES ASSUME IInv, [Next]_vars
             PROVE  IInv'
  OBVIOUS
<1>1. CASE UNCHANGED vars
  <2>1. UNCHANGED <<sites, repos, deployments, github, apps, netlify, toNetlify, change, requests, faults, agreed,
                    halfway, creation, told, owners, disk, abandoned>>
    BY <1>1 DEF vars, privacyVars
  <2>2. TypeOK'
    BY <2>1 DEF IInv, TypeOK
  <2>3. SameSites
    BY <2>1 DEF SameSites
  <2>4. UnchangedInv' /\ ChangeInv'
    BY <2>1 DEF IInv, UnchangedInv, At, Step, SiteOf, RepoOf, ChangeInv, Changed, RepoAgrees, Shows, Agreed, CanShow
  <2> QED
    BY <2>2, <2>3, <2>4, SameSitesKeep DEF IInv
<1> QED
  BY <1>1, CreationKeeps, PrivacyKeeps DEF Next

\* The inductive invariant of creations and of the privacy of sites holds in every state.
THEOREM Invariance == Spec => []IInv
<1> QED
  BY InitInv, StepInv, PTL DEF Spec

\* Every variable keeps its type, in the rows of the tables as on GitHub and Amplify.
THEOREM TypeCorrect == Spec => []TypeOK
<1>1. IInv => TypeOK
  BY DEF IInv
<1> QED
  BY <1>1, Invariance, PTL

\* However many forms are submitted at a time, a repository belongs to one site: GitHub
\* refuses to create it twice (createSite enters the row after setupGithubRepo).
THEOREM RepositoriesAreOwned == Spec => []OneSitePerRepo
<1>1. IInv => OneSitePerRepo
  BY DEF IInv, HoldsInv, RowsInv, OneSitePerRepo
<1> QED
  BY <1>1, Invariance, PTL

\* A site marked ready has its branches, urls, protection, apps and clones, and a repository of
\* its own, whatever has failed elsewhere, and a success is told of no other site.
THEOREM ReadySitesAreComplete == Spec => []ReadyIsComplete
<1>1. IInv => ReadyIsComplete
  <2>1. IInv => OneSitePerRepo
    BY DEF IInv, HoldsInv, RowsInv, OneSitePerRepo
  <2> QED
    BY <2>1 DEF IInv, ReadyInv, ReadyIsComplete, Complete, RepoDone, Row
<1> QED
  BY <1>1, Invariance, PTL

\* A site shown as being made is being made, unless its creation died or could not be marked.
THEOREM RunningSitesAreMade == Spec => []RunningIsUnderWay
<1>1. IInv => RunningIsUnderWay
  <2> SUFFICES ASSUME IInv, NEW n \in SiteNames, sites[n] # NoRow, sites[n].job = "RUNNING", n \notin abandoned
               PROVE  \E i \in Submissions : Step(i) \notin {"idle", "site", "over", "failed"} /\ SiteOf(i) = n
    BY DEF RunningIsUnderWay, Sites
  <2>1. PICK i \in Submissions : At(i, Working) /\ SiteOf(i) = n
    BY DEF IInv, RunningInv
  <2> QED
    BY <2>1, StepSets DEF At
<1> QED
  BY <1>1, Invariance, PTL

\* After an acknowledged change of privacy, and until one fails, GitHub, Amplify and the
\* tables agree on it (updatePassword changes one after another).
THEOREM PlacesAgree == Spec => []PrivacyAgrees
<1>1. IInv => PrivacyAgrees
  <2> SUFFICES ASSUME IInv, NEW r \in Repos, change[r] = None, NEW row \in repos, row.name = r
               PROVE  /\ <<r, "password">> \in halfway \/ CanShow(row.site)
                      /\ agreed[r] # Unknown =>
                        /\ apps[r].mainPassword = agreed[r] /\ deployments[row.site].password = agreed[r]
                        /\ deployments[row.site].lite => apps[r].litePassword = agreed[r]
                        /\ github[r].private = (agreed[r] # NoPassword) \/ <<r, "repository">> \in halfway
                        /\ sites[row.site].private = (agreed[r] # NoPassword)
    BY DEF PrivacyAgrees, BySiteName
  <2>1. RepoAgrees(r, row) /\ Shows(r, row) /\ Agreed(r, row)
    BY DEF IInv, ChangeInv
  <2>2. change[r].at = "none"
    BY DEF None
  <2> QED
    BY <2>1, <2>2 DEF RepoAgrees, Shows, Agreed
<1> QED
  BY <1>1, Invariance, PTL

-----------------------------------------------------------------------------
(* What the status of a site can be trusted for, whichever launches and    *)
(* polls overlap, fail or are cut short.                                   *)

(* A call that fails is counted, below the bound of the model.              *)
LEMMA FaultCounted ==
  ASSUME failures \in 0 .. MaxFailures, failures < MaxFailures, failures' = failures + 1
  PROVE  failures' \in 0 .. MaxFailures
  BY MaxFailuresAssumption

(* Every step of the handlers, the step functions and the polls leaves each *)
(* variable within its type.                                                *)
LEMMA LaunchTypeStep == LaunchTypeOK /\ [LaunchNext]_launchVars => LaunchTypeOK'
<1> SUFFICES ASSUME LaunchTypeOK, [LaunchNext]_launchVars
             PROVE  LaunchTypeOK'
  OBVIOUS
<1> USE DEF LaunchTypeOK, siteVars, recordVars, flowVars, handlerVars, pollVars
<1>1. ASSUME NEW l \in Launches, Ask(l) PROVE LaunchTypeOK'
  BY <1>1 DEF Ask, Goto, LaunchSteps
<1>2. ASSUME NEW l \in Launches, UpdateDbForLaunchStart(l) PROVE LaunchTypeOK'
  BY <1>2 DEF UpdateDbForLaunchStart, Goto, LaunchSteps
<1>3. ASSUME NEW l \in Launches, CheckDomain(l) PROVE LaunchTypeOK'
  BY <1>3 DEF CheckDomain, Goto, LaunchSteps
<1>4. ASSUME NEW l \in Launches, AssociateDomain(l) PROVE LaunchTypeOK'
  BY <1>4 DEF AssociateDomain, Goto, LaunchSteps
<1>5. ASSUME NEW l \in Launches, UpsertLaunch(l) PROVE LaunchTypeOK'
  BY <1>5 DEF UpsertLaunch, Goto, LaunchSteps
<1>6. ASSUME NEW l \in Launches, FindRedirections(l) PROVE LaunchTypeOK'
  BY <1>6 DEF FindRedirections, Goto, LaunchSteps
<1>7. ASSUME NEW l \in Launches, DestroyRedirections(l) PROVE LaunchTypeOK'
  BY <1>7 DEF DestroyRedirections, Goto, LaunchSteps
<1>8. ASSUME NEW l \in Launches, CreateRedirection(l) PROVE LaunchTypeOK'
  BY <1>8 DEF CreateRedirection, Goto, LaunchSteps
<1>9. ASSUME NEW l \in Launches, CreateItem(l) PROVE LaunchTypeOK'
  BY <1>9 DEF CreateItem, Goto, LaunchSteps, Items
<1>10. ASSUME NEW l \in Launches, TriggerFlow(l) PROVE LaunchTypeOK'
  BY <1>10 DEF TriggerFlow, Goto, LaunchSteps
<1>11. ASSUME NEW l \in Launches, LaunchFails(l) PROVE LaunchTypeOK'
  <2>1. failures' \in 0 .. MaxFailures
    BY <1>11, FaultCounted DEF LaunchFails
  <2>2. pc' \in [Launches -> LaunchSteps \cup {"idle", "done", "failed"}]
    BY <1>11 DEF LaunchFails, Goto, Active
  <2> QED
    BY <1>11, <2>1, <2>2 DEF LaunchFails
<1>12. ASSUME NEW l \in Launches, FlowEnds(l) PROVE LaunchTypeOK'
  <2>1. item' \in Items \cup {NoLaunch}
    BY <1>12 DEF FlowEnds, Items, Outcomes
  <2>2. assoc' \in [Domains -> {"none", "there", "failed"}]
    BY <1>12 DEF FlowEnds
  <2> QED
    BY <1>12, <2>1, <2>2 DEF FlowEnds
<1>13. ASSUME NEW p \in Polls, Scan(p) PROVE LaunchTypeOK'
  BY <1>13 DEF Scan, Completed
<1>14. ASSUME NEW p \in Polls, DeleteLands(p) PROVE LaunchTypeOK'
  BY <1>14 DEF DeleteLands
<1>15. ASSUME NEW p \in Polls, DeleteFails(p) PROVE LaunchTypeOK'
  <2>1. failures' \in 0 .. MaxFailures
    BY <1>15, FaultCounted DEF DeleteFails
  <2>2. pc' \in [Launches -> LaunchSteps \cup {"idle", "done", "failed"}]
    BY <1>15 DEF DeleteFails, Active
  <2> QED
    BY <1>15, <2>1, <2>2 DEF DeleteFails
<1>16. ASSUME NEW p \in Polls, SiteUpdate(p) PROVE LaunchTypeOK'
  BY <1>16 DEF SiteUpdate, StatusOf
<1>17. ASSUME NEW p \in Polls, SiteUpdateFails(p) PROVE LaunchTypeOK'
  <2>1. failures' \in 0 .. MaxFailures
    BY <1>17, FaultCounted DEF SiteUpdateFails
  <2>2. pc' \in [Launches -> LaunchSteps \cup {"idle", "done", "failed"}]
    BY <1>17 DEF SiteUpdateFails, Active
  <2> QED
    BY <1>17, <2>1, <2>2 DEF SiteUpdateFails
<1>18. ASSUME CrashServer PROVE LaunchTypeOK'
  <2>1. failures' \in 0 .. MaxFailures
    BY <1>18, FaultCounted DEF CrashServer
  <2>2. pc' \in [Launches -> LaunchSteps \cup {"idle", "done", "failed"}]
    BY <1>18 DEF CrashServer, Lost, Active
  <2> QED
    BY <1>18, <2>1, <2>2 DEF CrashServer
<1>19. ASSUME CrashSupport PROVE LaunchTypeOK'
  <2>1. failures' \in 0 .. MaxFailures
    BY <1>19, FaultCounted DEF CrashSupport
  <2>2. pc' \in [Launches -> LaunchSteps \cup {"idle", "done", "failed"}]
    BY <1>19 DEF CrashSupport, Lost, Active
  <2> QED
    BY <1>19, <2>1, <2>2 DEF CrashSupport
<1>20. CASE UNCHANGED launchVars
  BY <1>20 DEF launchVars
<1> QED
  BY <1>1, <1>2, <1>3, <1>4, <1>5, <1>6, <1>7, <1>8, <1>9, <1>10, <1>11, <1>12, <1>13, <1>14, <1>15, <1>16, <1>17, <1>18, <1>19, <1>20 DEF LaunchNext, Handler, Poll

(* A launch starts its step function once, in its last step (launchSite).   *)
LEMMA OnceStep == LaunchTypeOK /\ FlowsRunOnce /\ [LaunchNext]_launchVars => FlowsRunOnce'
<1> SUFFICES ASSUME LaunchTypeOK, FlowsRunOnce, [LaunchNext]_launchVars
             PROVE  FlowsRunOnce'
  OBVIOUS
<1> USE DEF LaunchTypeOK, FlowsRunOnce, flowVars, handlerVars
<1>1. ASSUME NEW l \in Launches, Ask(l) PROVE FlowsRunOnce'
  BY <1>1 DEF Ask, Goto
<1>2. ASSUME NEW l \in Launches, UpdateDbForLaunchStart(l) PROVE FlowsRunOnce'
  BY <1>2 DEF UpdateDbForLaunchStart, Goto
<1>3. ASSUME NEW l \in Launches, CheckDomain(l) PROVE FlowsRunOnce'
  BY <1>3 DEF CheckDomain, Goto
<1>4. ASSUME NEW l \in Launches, AssociateDomain(l) PROVE FlowsRunOnce'
  BY <1>4 DEF AssociateDomain, Goto
<1>5. ASSUME NEW l \in Launches, UpsertLaunch(l) PROVE FlowsRunOnce'
  BY <1>5 DEF UpsertLaunch, Goto
<1>6. ASSUME NEW l \in Launches, FindRedirections(l) PROVE FlowsRunOnce'
  BY <1>6 DEF FindRedirections, Goto
<1>7. ASSUME NEW l \in Launches, DestroyRedirections(l) PROVE FlowsRunOnce'
  BY <1>7 DEF DestroyRedirections, Goto
<1>8. ASSUME NEW l \in Launches, CreateRedirection(l) PROVE FlowsRunOnce'
  BY <1>8 DEF CreateRedirection, Goto
<1>9. ASSUME NEW l \in Launches, CreateItem(l) PROVE FlowsRunOnce'
  BY <1>9 DEF CreateItem, Goto
<1>10. ASSUME NEW l \in Launches, TriggerFlow(l) PROVE FlowsRunOnce'
  BY <1>10 DEF TriggerFlow, Goto
<1>11. ASSUME NEW l \in Launches, LaunchFails(l) PROVE FlowsRunOnce'
  BY <1>11 DEF LaunchFails, Goto, Active, LaunchSteps
<1>12. ASSUME NEW l \in Launches, FlowEnds(l) PROVE FlowsRunOnce'
  BY <1>12 DEF FlowEnds
<1>13. ASSUME NEW p \in Polls, Scan(p) PROVE FlowsRunOnce'
  BY <1>13 DEF Scan, Completed
<1>14. ASSUME NEW p \in Polls, DeleteLands(p) PROVE FlowsRunOnce'
  BY <1>14 DEF DeleteLands
<1>15. ASSUME NEW p \in Polls, DeleteFails(p) PROVE FlowsRunOnce'
  BY <1>15 DEF DeleteFails
<1>16. ASSUME NEW p \in Polls, SiteUpdate(p) PROVE FlowsRunOnce'
  BY <1>16 DEF SiteUpdate, StatusOf
<1>17. ASSUME NEW p \in Polls, SiteUpdateFails(p) PROVE FlowsRunOnce'
  BY <1>17 DEF SiteUpdateFails
<1>18. ASSUME CrashServer PROVE FlowsRunOnce'
  BY <1>18 DEF CrashServer, Lost, Active, LaunchSteps
<1>19. ASSUME CrashSupport PROVE FlowsRunOnce'
  BY <1>19 DEF CrashSupport, Lost, Active, LaunchSteps
<1>20. CASE UNCHANGED launchVars
  BY <1>20 DEF launchVars
<1> QED
  BY <1>1, <1>2, <1>3, <1>4, <1>5, <1>6, <1>7, <1>8, <1>9, <1>10, <1>11, <1>12, <1>13, <1>14, <1>15, <1>16, <1>17, <1>18, <1>19, <1>20 DEF LaunchNext, Handler, Poll

(* A success that is stored, read or shown was reported by a step function: *)
(* siteUpdate never makes one up.                                           *)
LEMMA RealStep ==
  ASSUME LaunchTypeOK, FlowsRunOnce, SuccessesAreReal, [LaunchNext]_launchVars
  PROVE  SuccessesAreReal'
<1> USE DEF SuccessesAreReal, Reported, ShownLiveWasLaunched, siteVars, flowVars, pollVars
<1>1. ASSUME NEW l \in Launches, Ask(l) PROVE SuccessesAreReal'
  BY <1>1 DEF Ask, Goto
<1>2. ASSUME NEW l \in Launches, UpdateDbForLaunchStart(l) PROVE SuccessesAreReal'
  BY <1>2 DEF UpdateDbForLaunchStart, Goto
<1>3. ASSUME NEW l \in Launches, CheckDomain(l) PROVE SuccessesAreReal'
  BY <1>3 DEF CheckDomain, Goto
<1>4. ASSUME NEW l \in Launches, AssociateDomain(l) PROVE SuccessesAreReal'
  BY <1>4 DEF AssociateDomain, Goto
<1>5. ASSUME NEW l \in Launches, UpsertLaunch(l) PROVE SuccessesAreReal'
  BY <1>5 DEF UpsertLaunch, Goto
<1>6. ASSUME NEW l \in Launches, FindRedirections(l) PROVE SuccessesAreReal'
  BY <1>6 DEF FindRedirections, Goto
<1>7. ASSUME NEW l \in Launches, DestroyRedirections(l) PROVE SuccessesAreReal'
  BY <1>7 DEF DestroyRedirections, Goto
<1>8. ASSUME NEW l \in Launches, CreateRedirection(l) PROVE SuccessesAreReal'
  BY <1>8 DEF CreateRedirection, Goto
<1>9. ASSUME NEW l \in Launches, CreateItem(l) PROVE SuccessesAreReal'
  BY <1>9 DEF CreateItem, Goto
<1>10. ASSUME NEW l \in Launches, TriggerFlow(l) PROVE SuccessesAreReal'
  BY <1>10 DEF TriggerFlow, Goto
<1>11. ASSUME NEW l \in Launches, LaunchFails(l) PROVE SuccessesAreReal'
  BY <1>11 DEF LaunchFails, Goto
<1>12. ASSUME NEW l \in Launches, FlowEnds(l) PROVE SuccessesAreReal'
  <2>1. PICK o \in Outcomes : /\ outcome' = [outcome EXCEPT ![l] = o]
                               /\ item' = IF item = NoLaunch THEN NoLaunch ELSE [by |-> item.by, state |-> o]
    BY <1>12 DEF FlowEnds
  <2>2. outcome'[l] = o /\ \A k \in Launches : outcome[k] = "success" => outcome'[k] = "success"
    BY <1>12, <2>1, NoLaunchAssumption DEF LaunchTypeOK, FlowsRunOnce, FlowEnds, Outcomes
  <2>3. Reported(item)'
    BY <2>1, <2>2
  <2>4. (\A p \in Polls : Reported(result[p]))'
    BY <1>12, <2>2 DEF FlowEnds
  <2>5. ShownLiveWasLaunched'
    BY <1>12, <2>2 DEF FlowEnds
  <2> QED
    BY <2>3, <2>4, <2>5
<1>13. ASSUME NEW p \in Polls, Scan(p) PROVE SuccessesAreReal'
  BY <1>13 DEF Scan, Completed, LaunchTypeOK
<1>14. ASSUME NEW p \in Polls, DeleteLands(p) PROVE SuccessesAreReal'
  BY <1>14 DEF DeleteLands
<1>15. ASSUME NEW p \in Polls, DeleteFails(p) PROVE SuccessesAreReal'
  BY <1>15 DEF DeleteFails
<1>16. ASSUME NEW p \in Polls, SiteUpdate(p) PROVE SuccessesAreReal'
  BY <1>16 DEF SiteUpdate, StatusOf, LaunchTypeOK
<1>17. ASSUME NEW p \in Polls, SiteUpdateFails(p) PROVE SuccessesAreReal'
  BY <1>17 DEF SiteUpdateFails, LaunchTypeOK
<1>18. ASSUME CrashServer PROVE SuccessesAreReal'
  BY <1>18 DEF CrashServer, Lost
<1>19. ASSUME CrashSupport PROVE SuccessesAreReal'
  BY <1>19 DEF CrashSupport, Lost, LaunchTypeOK
<1>20. CASE UNCHANGED launchVars
  BY <1>20 DEF launchVars
<1> QED
  BY <1>1, <1>2, <1>3, <1>4, <1>5, <1>6, <1>7, <1>8, <1>9, <1>10, <1>11, <1>12, <1>13, <1>14, <1>15, <1>16, <1>17, <1>18, <1>19, <1>20 DEF LaunchNext, Handler, Poll

\* What holds of launches that do not overlap and that nothing cuts short.
InTurn == undisturbed => WhileActive /\ WhileFlowing /\ WhileQuiet

(* A launch goes from its handler to its step function to the polls, and    *)
(* the next one starts when all three have let go of it.                    *)
LEMMA InTurnStep ==
  ASSUME LaunchTypeOK, InTurn, [LaunchNext]_launchVars
  PROVE  InTurn'
<1> USE DEF InTurn, LaunchTypeOK, WhileActive, WhileFlowing, WhileQuiet, Quiet, Active, IsLastOutcome,
            flowVars, handlerVars, pollVars
<1>1. ASSUME NEW l \in Launches, Ask(l) PROVE InTurn'
  BY <1>1 DEF Ask, Goto, Unsettled, LaunchSteps, Expected, siteVars
<1>2. ASSUME NEW l \in Launches, UpdateDbForLaunchStart(l) PROVE InTurn'
  BY <1>2 DEF UpdateDbForLaunchStart, Goto, LaunchSteps
<1>3. ASSUME NEW l \in Launches, CheckDomain(l) PROVE InTurn'
  BY <1>3 DEF CheckDomain, Goto, LaunchSteps
<1>4. ASSUME NEW l \in Launches, AssociateDomain(l) PROVE InTurn'
  BY <1>4 DEF AssociateDomain, Goto, LaunchSteps
<1>5. ASSUME NEW l \in Launches, UpsertLaunch(l) PROVE InTurn'
  BY <1>5 DEF UpsertLaunch, Goto, LaunchSteps
<1>6. ASSUME NEW l \in Launches, FindRedirections(l) PROVE InTurn'
  BY <1>6 DEF FindRedirections, Goto, LaunchSteps
<1>7. ASSUME NEW l \in Launches, DestroyRedirections(l) PROVE InTurn'
  BY <1>7 DEF DestroyRedirections, Goto, LaunchSteps
<1>8. ASSUME NEW l \in Launches, CreateRedirection(l) PROVE InTurn'
  BY <1>8 DEF CreateRedirection, Goto, LaunchSteps
<1>9. ASSUME NEW l \in Launches, CreateItem(l) PROVE InTurn'
  BY <1>9 DEF CreateItem, Goto, LaunchSteps
<1>10. ASSUME NEW l \in Launches, TriggerFlow(l) PROVE InTurn'
  BY <1>10 DEF TriggerFlow, Goto, LaunchSteps
<1>11. ASSUME NEW l \in Launches, LaunchFails(l) PROVE InTurn'
  BY <1>11 DEF LaunchFails, Goto, LaunchSteps
<1>12. ASSUME NEW l \in Launches, FlowEnds(l) PROVE InTurn'
  <2> SUFFICES ASSUME undisturbed PROVE (WhileActive /\ WhileFlowing /\ WhileQuiet)'
    BY <1>12 DEF FlowEnds
  <2>1. /\ flows = {l} /\ item = [by |-> l, state |-> "pending"]
        /\ deleting = {} /\ \A p \in Polls : result[p] = NoLaunch
        /\ \A k \in Launches : ~Active(k)
    BY <1>12 DEF FlowEnds
  <2>2. PICK o \in Outcomes : /\ outcome' = [outcome EXCEPT ![l] = o]
                               /\ item' = IF item = NoLaunch THEN NoLaunch ELSE [by |-> item.by, state |-> o]
    BY <1>12 DEF FlowEnds
  <2>3. item # NoLaunch
    BY <2>1, NoLaunchAssumption DEF Items, Outcomes
  <2>4. item' # NoLaunch /\ item'.by = l /\ item'.state = o /\ outcome'[l] = o
    BY <2>1, <2>2, <2>3, NoLaunchAssumption DEF Items, Outcomes
  <2>5. WhileActive' /\ WhileFlowing'
    BY <1>12, <2>1 DEF FlowEnds
  <2>6. WhileQuiet'
    BY <1>12, <2>1, <2>2, <2>4, NoLaunchAssumption DEF FlowEnds
  <2> QED
    BY <2>5, <2>6
<1>13. ASSUME NEW p \in Polls, Scan(p) PROVE InTurn'
  <2> SUFFICES ASSUME undisturbed PROVE (WhileActive /\ WhileFlowing /\ WhileQuiet)'
    BY <1>13 DEF Scan
  <2>1. item # NoLaunch /\ item.state # "pending" /\ result'[p] = item /\ p \in deleting'
    BY <1>13 DEF Scan, Completed, Outcomes
  <2>2. Quiet
    BY <2>1
  <2>3. (\A q \in Polls : IsLastOutcome(result[q]))'
    BY <1>13, <2>2 DEF Scan
  <2> QED
    BY <1>13, <2>1, <2>2, <2>3 DEF Scan
<1>14. ASSUME NEW p \in Polls, DeleteLands(p) PROVE InTurn'
  BY <1>14 DEF DeleteLands, Expected, siteVars
<1>15. ASSUME NEW p \in Polls, DeleteFails(p) PROVE InTurn'
  BY <1>15 DEF DeleteFails, Expected, siteVars
<1>16. ASSUME NEW p \in Polls, SiteUpdate(p) PROVE InTurn'
  BY <1>16 DEF SiteUpdate, StatusOf, Expected, siteVars, Outcomes
<1>17. ASSUME NEW p \in Polls, SiteUpdateFails(p) PROVE InTurn'
  BY <1>17 DEF SiteUpdateFails, Expected, siteVars
<1>18. ASSUME CrashServer PROVE InTurn'
  BY <1>18 DEF CrashServer, Lost
<1>19. ASSUME CrashSupport PROVE InTurn'
  BY <1>19 DEF CrashSupport, Lost
<1>20. CASE UNCHANGED launchVars
  BY <1>20 DEF launchVars, siteVars, Expected
<1> QED
  BY <1>1, <1>2, <1>3, <1>4, <1>5, <1>6, <1>7, <1>8, <1>9, <1>10, <1>11, <1>12, <1>13, <1>14, <1>15, <1>16, <1>17, <1>18, <1>19, <1>20 DEF LaunchNext, Handler, Poll

(* While launches come one after the other, what a handler makes of the     *)
(* rows of a launch and of its redirection is of one launch (createOrUpdate).*)
LEMMA RowsStep ==
  ASSUME LaunchTypeOK, InTurn, RowsInTurn, [LaunchNext]_launchVars
  PROVE  RowsInTurn'
<1> USE DEF RowsInTurn, Writing, Tidy, LaunchTypeOK, handlerVars, recordVars
<1>1. ASSUME NEW l \in Launches, Ask(l) PROVE RowsInTurn'
  BY <1>1, NoLaunchAssumption DEF Ask, Goto
<1>2. ASSUME NEW l \in Launches, UpdateDbForLaunchStart(l) PROVE RowsInTurn'
  BY <1>2, NoLaunchAssumption DEF UpdateDbForLaunchStart, Goto
<1>3. ASSUME NEW l \in Launches, CheckDomain(l) PROVE RowsInTurn'
  BY <1>3, NoLaunchAssumption DEF CheckDomain, Goto
<1>4. ASSUME NEW l \in Launches, AssociateDomain(l) PROVE RowsInTurn'
  BY <1>4, NoLaunchAssumption DEF AssociateDomain, Goto
<1>5. ASSUME NEW l \in Launches, UpsertLaunch(l) PROVE RowsInTurn'
  BY <1>5, NoLaunchAssumption DEF UpsertLaunch, Goto, InTurn, WhileActive, Active, LaunchSteps
<1>6. ASSUME NEW l \in Launches, FindRedirections(l) PROVE RowsInTurn'
  BY <1>6, NoLaunchAssumption DEF FindRedirections, Goto, InTurn, WhileActive, Active, LaunchSteps
<1>7. ASSUME NEW l \in Launches, DestroyRedirections(l) PROVE RowsInTurn'
  BY <1>7, NoLaunchAssumption DEF DestroyRedirections, Goto, InTurn, WhileActive, Active, LaunchSteps
<1>8. ASSUME NEW l \in Launches, CreateRedirection(l) PROVE RowsInTurn'
  BY <1>8, NoLaunchAssumption DEF CreateRedirection, Goto, InTurn, WhileActive, Active, LaunchSteps
<1>9. ASSUME NEW l \in Launches, CreateItem(l) PROVE RowsInTurn'
  BY <1>9, NoLaunchAssumption DEF CreateItem, Goto
<1>10. ASSUME NEW l \in Launches, TriggerFlow(l) PROVE RowsInTurn'
  BY <1>10, NoLaunchAssumption DEF TriggerFlow, Goto
<1>11. ASSUME NEW l \in Launches, LaunchFails(l) PROVE RowsInTurn'
  BY <1>11, NoLaunchAssumption DEF LaunchFails, Goto
<1>12. ASSUME NEW l \in Launches, FlowEnds(l) PROVE RowsInTurn'
  BY <1>12, NoLaunchAssumption DEF FlowEnds
<1>13. ASSUME NEW p \in Polls, Scan(p) PROVE RowsInTurn'
  BY <1>13 DEF Scan
<1>14. ASSUME NEW p \in Polls, DeleteLands(p) PROVE RowsInTurn'
  BY <1>14 DEF DeleteLands
<1>15. ASSUME NEW p \in Polls, DeleteFails(p) PROVE RowsInTurn'
  BY <1>15 DEF DeleteFails
<1>16. ASSUME NEW p \in Polls, SiteUpdate(p) PROVE RowsInTurn'
  BY <1>16 DEF SiteUpdate
<1>17. ASSUME NEW p \in Polls, SiteUpdateFails(p) PROVE RowsInTurn'
  BY <1>17 DEF SiteUpdateFails
<1>18. ASSUME CrashServer PROVE RowsInTurn'
  BY <1>18 DEF CrashServer
<1>19. ASSUME CrashSupport PROVE RowsInTurn'
  BY <1>19 DEF CrashSupport
<1>20. CASE UNCHANGED launchVars
  BY <1>20 DEF launchVars
<1> QED
  BY <1>1, <1>2, <1>3, <1>4, <1>5, <1>6, <1>7, <1>8, <1>9, <1>10, <1>11, <1>12, <1>13, <1>14, <1>15, <1>16, <1>17, <1>18, <1>19, <1>20 DEF LaunchNext, Handler, Poll

(* Where every launch starts from: a site that createSite has set up.       *)
LEMMA InitIInv == LaunchInit => LaunchInv
<1> SUFFICES ASSUME LaunchInit PROVE LaunchInv
  OBVIOUS
<1>1. LaunchTypeOK /\ FlowsRunOnce
  BY MaxFailuresAssumption DEF LaunchInit, LaunchTypeOK, FlowsRunOnce
<1>2. SuccessesAreReal
  BY DEF LaunchInit, SuccessesAreReal, Reported, ShownLiveWasLaunched, siteVars
<1>3. WhileActive /\ WhileFlowing /\ WhileQuiet
  BY DEF LaunchInit, WhileActive, WhileFlowing, WhileQuiet, Active, LaunchSteps, IsLastOutcome, siteVars, Expected
<1>4. RowsInTurn
  BY DEF LaunchInit, RowsInTurn, Writing, Tidy
<1> QED
  BY <1>1, <1>2, <1>3, <1>4 DEF LaunchInv

(* The inductive invariant, of every behaviour of handlers, step functions, *)
(* polls, failures and crashes.                                             *)
THEOREM LaunchInvariance == LaunchSpec => []LaunchInv
<1>1. LaunchInv /\ [LaunchNext]_launchVars => LaunchInv'
  BY LaunchTypeStep, OnceStep, RealStep, InTurnStep, RowsStep DEF LaunchInv, InTurn
<1> QED
  BY InitIInv, <1>1, PTL DEF LaunchSpec

(* A site is shown as live (getSiteLaunchStatus) only after a step function *)
(* has reported success, whatever overlaps, fails or crashes.               *)
THEOREM ShownLiveIsLive == LaunchSpec => []ShownLiveWasLaunched
<1>1. LaunchInv => ShownLiveWasLaunched
  BY DEF LaunchInv, SuccessesAreReal
<1> QED
  BY LaunchInvariance, <1>1, PTL

(* When launches come one after the other and none is cut short, the polls  *)
(* of siteUpdate leave the site with the outcome of the last one, and       *)
(* createOrUpdate its rows with those of the last.                          *)
THEOREM OutcomeIsShown == LaunchSpec => []SettledShowsOutcome
<1>1. ASSUME LaunchInv, undisturbed, ~Unsettled PROVE siteVars = Expected(last)
  BY <1>1 DEF LaunchInv, WhileQuiet, Quiet, Unsettled
<1>2. ASSUME LaunchInv, undisturbed, \A l \in Launches : ~Active(l) PROVE Tidy
  BY <1>2 DEF LaunchInv, RowsInTurn, Writing, Active, LaunchSteps
<1>3. LaunchInv => SettledShowsOutcome
  BY <1>1, <1>2 DEF SettledShowsOutcome
<1> QED
  BY LaunchInvariance, <1>3, PTL

(* The variables keep their types.                                          *)
THEOREM LaunchTypes == LaunchSpec => []LaunchTypeOK
<1>1. LaunchInv => LaunchTypeOK
  BY DEF LaunchInv
<1> QED
  BY LaunchInvariance, <1>1, PTL
===============================================================================
