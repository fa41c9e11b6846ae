--------------------------- MODULE Collaborators ----------------------------
(***************************************************************************)
(* The members of a site (CollaboratorsService) and their notifications    *)
(* (NotificationsService).  Both check, then act: members are counted and  *)
(* then one is deleted, a recent notification is looked for and then       *)
(* renewed or added.  Others run in between.                               *)
(***************************************************************************)
EXTENDS Naturals

CONSTANTS
  Ids,           \* ids of users
  IsomerAdmins,  \* those in the table isomer_admins
  Changers,      \* bound: changes of members, and notifications, at one time
  MaxNotes,      \* bound: notifications ever made
  MaxMembers     \* bound: memberships ever made

ASSUME CollaboratorsAssumption ==
  IsomerAdmins \subseteq Ids /\ MaxNotes \in Nat /\ MaxMembers \in Nat

VARIABLES
  members,    \* table site_members of the site: id, user, role
  notes,      \* table notifications
  made,       \* ids given so far: of memberships, of notifications
  change,     \* of a slot: a request on members or notifications
  clashed,    \* history: an admin was deleted while a deletion of another had counted him
  twins,      \* history: searches for a notification, or its end, that overlapped
  owed        \* history: user and source of notifications that are to be unread

memberVars == <<members, notes, made, change, clashed, twins, owed>>

Resting == [at |-> "resting"]
Roles == {"ADMIN", "CONTRIBUTOR"}
AdminsOf(rows) == {m \in rows : m.role = "ADMIN"}
RowsOf(user) == {m \in members : m.user = user}
IsAdmin(user) == AdminsOf(RowsOf(user)) # {}

\* Some earlier history has left the site with an admin at least.
InitMembers ==
  /\ \E user, other \in Ids, role \in Roles :      \* the two are one, or not
       /\ members = {[id |-> 1, user |-> user, role |-> "ADMIN"]} \cup
                      {[id |-> 2, user |-> u, role |-> role] : u \in {other} \ {user}}
       /\ made = [members |-> IF other = user THEN 1 ELSE 2, notes |-> 0]
  /\ notes = {} /\ change = [i \in Changers |-> Resting]
  /\ clashed = FALSE /\ twins = {} /\ owed = {}

\* Rows of site_members, and the keys of notifications.
Memberships == [id : Nat \ {0}, user : Ids, role : Roles]
Keys(sources) == [user : Ids, source : sources]
Kinds == {"updated_request", "request_created"}

\* Requests, with e-mail addresses, on notifications with their source.
Changes(emails, sources) ==
  [at : {"adding"}, email : emails] \cup [at : {"absent"}, user : Ids, role : Roles]
    \cup [at : {"removing", "counted"}, user : Ids] \cup [at : {"reading"}, member : Memberships]
    \cup [at : {"notifying"}, source : sources, kind : Kinds, todo : SUBSET Memberships,
          found : SUBSET [member : Memberships, note : Nat]]

TypeOKMembers(emails, sources) ==
  /\ made \in [members : Nat, notes : Nat]
  /\ members \subseteq Memberships
  /\ notes \subseteq [id : Nat \ {0}, member : Nat \ {0}, user : Ids, source : sources, kind : Kinds,
                      recent : BOOLEAN, read : BOOLEAN]
  /\ change \in [Changers -> Changes(emails, sources) \cup {Resting}]
  /\ clashed \in BOOLEAN /\ twins \subseteq Keys(sources) /\ owed \subseteq Keys(sources)

-----------------------------------------------------------------------------
\* Members.

\* getRole: of a member, or the Isomer admin.
RoleOf(user) ==
  IF RowsOf(user) # {} THEN (CHOOSE m \in RowsOf(user) : TRUE).role
  ELSE IF user \in IsomerAdmins THEN "ISOMERADMIN" ELSE "none"

\* doesUserHaveCollaboratorLevelAccess and checkIsSiteCollaborator, for users who log in
\* by e-mail.
SiteAdmins == IsomerAdmins \cup {user \in Ids : RoleOf(user) \in {"ADMIN", "ISOMERADMIN"}}
SiteMembers == {user \in Ids : RoleOf(user) # "none"}

\* create, as far as the search for the row of the member: `role' is the one the whitelist
\* gives, `account' the user found or created.
LookForMember(i, account, role, acknowledged) ==
  LET conflict == RowsOf(account) # {} \/ (role = "CONTRIBUTOR" /\ ~acknowledged) IN
  /\ change[i].at = "adding"
  /\ change' = [change EXCEPT ![i] = IF role = "none" \/ conflict THEN Resting
                                     ELSE [at |-> "absent", user |-> account, role |-> role]]
  /\ UNCHANGED <<members, notes, made, clashed, twins, owed>>

\* The row of the member.  The table's key is the user and the site: a second row is an error.
AddMember(i) ==
  /\ change[i].at = "absent"
  /\ IF RowsOf(change[i].user) = {}
     THEN /\ made.members < MaxMembers
          /\ made' = [made EXCEPT !.members = @ + 1]
          /\ members' = members \cup
               {[id |-> made.members + 1, user |-> change[i].user, role |-> change[i].role]}
     ELSE UNCHANGED <<members, made>>
  /\ change' = [change EXCEPT ![i] = Resting]
  /\ UNCHANGED <<notes, clashed, twins, owed>>

\* Mutation: the final admin may go.
BugMayGo(user) == RowsOf(user) # {}

\* delete refuses who is no member, and the final admin.
MayGo(user) ==
  /\ RowsOf(user) # {}
  /\ ~ \E m \in RowsOf(user) : AdminsOf(members) = {m}

\* delete, as far as the members it loads.
CountAdmins(i) ==
  /\ change[i].at = "removing"
  /\ change' = [change EXCEPT ![i] = IF MayGo(change[i].user) THEN [@ EXCEPT !.at = "counted"] ELSE Resting]
  /\ UNCHANGED <<members, notes, made, clashed, twins, owed>>

\* The rows go, and with them the notifications of the membership.
RemoveMember(i) ==
  LET gone == RowsOf(change[i].user) IN
  /\ change[i].at = "counted"
  /\ members' = members \ gone
  /\ notes' = {n \in notes : \A m \in gone : n.member # m.id}
  /\ owed' = {o \in owed : o.user # change[i].user}
  /\ clashed' = (clashed \/ \E j \in Changers \ {i} :
                   /\ change[j].at = "counted" /\ change[j].user # change[i].user
                   /\ IsAdmin(change[j].user) /\ IsAdmin(change[i].user))
  /\ change' = [change EXCEPT ![i] = Resting]
  /\ UNCHANGED <<made, twins>>

-----------------------------------------------------------------------------
\* Notifications.

KeyOf(n) == [user |-> n.user, source |-> n.source]

\* What create finds: a notification of three hours at most, with this user, source and
\* kind.  Those on the course of a request are never found: their time is over at once.
RecentNotes(kind, user, source) ==
  {n \in notes : kind = "updated_request" /\ n.kind = kind /\ n.recent
                 /\ n.user = user /\ n.source = source}

\* The members create is called for: all but the user whose request it is.
Recipients(user) == {m \in members : m.user # user}

\* A request has been handled, and its notifications are to be made.
StartNotices(i, user, source, kind) ==
  /\ change[i] = Resting
  /\ change' = [change EXCEPT ![i] =
                  IF Recipients(user) = {} THEN Resting
                  ELSE [at |-> "notifying", source |-> source, kind |-> kind,
                        todo |-> Recipients(user), found |-> {}]]
  /\ UNCHANGED <<members, notes, made, clashed, twins, owed>>

\* NotificationsService.create: the search, of any member's.
SearchNote(i, m) ==
  LET c == change[i]
      key == [user |-> m.user, source |-> c.source]
      recent == RecentNotes(c.kind, m.user, c.source)
      another == \E j \in Changers \ {i} : change[j].at = "notifying" /\ change[j].source = c.source
                   /\ \E f \in change[j].found : f.member.user = m.user
  IN /\ c.at = "notifying" /\ m \in c.todo
     /\ \E note \in IF recent = {} THEN {0} ELSE {n.id : n \in recent} :
          change' = [change EXCEPT ![i].todo = @ \ {m}, ![i].found = @ \cup {[member |-> m, note |-> note]}]
     /\ twins' = IF another THEN twins \cup {key} ELSE twins
     /\ UNCHANGED <<members, notes, made, clashed, owed>>

\* Mutation: a notification that was read stays read.
BugRenewed(n) == [n EXCEPT !.recent = TRUE]

\* The update of what was found: unread, and of now.
Renewed(n) == [n EXCEPT !.recent = TRUE, !.read = FALSE]

\* It is renewed (nothing happens if it is gone), or one is added (an error if the
\* membership is gone).  The request ends with the last one.
WriteNote(i, f) ==
  LET c == change[i]
      key == [user |-> f.member.user, source |-> c.source]
      left == c.found \ {f}
  IN
  /\ c.at = "notifying" /\ f \in c.found
  /\ IF f.note # 0
     THEN /\ notes' = {IF n.id = f.note THEN Renewed(n) ELSE n : n \in notes}
          /\ owed' = IF \E n \in notes : n.id = f.note THEN owed \cup {key} ELSE owed
          /\ UNCHANGED made
     ELSE IF f.member \in members
     THEN /\ made.notes < MaxNotes
          /\ made' = [made EXCEPT !.notes = @ + 1]
          /\ notes' = notes \cup {[id |-> made.notes + 1, member |-> f.member.id, user |-> f.member.user,
                                   source |-> c.source, kind |-> c.kind, recent |-> TRUE, read |-> FALSE]}
          /\ owed' = owed \cup {key}
     ELSE UNCHANGED <<notes, made, owed>>
  /\ change' = [change EXCEPT ![i] =
                  IF c.todo = {} /\ left = {} THEN Resting ELSE [c EXCEPT !.found = left]]
  /\ UNCHANGED <<members, clashed, twins>>

\* Three hours have passed since a notification was made or renewed.
Age(n) ==
  /\ n.recent /\ n.kind = "updated_request"
  /\ notes' = (notes \ {n}) \cup {[n EXCEPT !.recent = FALSE]}
  /\ twins' = IF \E i \in Changers : change[i].at = "notifying" /\ \E f \in change[i].found : f.note = n.id
              THEN twins \cup {KeyOf(n)} ELSE twins
  /\ UNCHANGED <<members, made, change, clashed, owed>>

\* markNotificationsAsRead: the membership is loaded; without one (an Isomer admin) the
\* condition of the update is undefined, an error.
StartReading(i, user) ==
  /\ change[i] = Resting
  /\ \E m \in RowsOf(user) : change' = [change EXCEPT ![i] = [at |-> "reading", member |-> m]]
  /\ UNCHANGED <<members, notes, made, clashed, twins, owed>>

\* ... and all its notifications are read, those that came after the user saw the list too.
ReadNotes(i) ==
  LET m == change[i].member IN
  /\ change[i].at = "reading"
  /\ notes' = {IF n.member = m.id THEN [n EXCEPT !.read = TRUE] ELSE n : n \in notes}
  /\ owed' = {o \in owed : ~\E n \in notes : n.member = m.id /\ KeyOf(n) = o}
  /\ change' = [change EXCEPT ![i] = Resting]
  /\ UNCHANGED <<members, made, clashed, twins>>

\* listRecent: what a user has not read, and if there is nothing the latest of the rest.
ListRecent(user) ==
  LET own == {n \in notes : n.user = user}
      unread == {n \in own : ~n.read}
  IN IF unread # {} THEN unread ELSE own

-----------------------------------------------------------------------------
\* A site keeps an admin, unless the deletions of two of them have overlapped, so that each
\* had counted the one the other removed.
SiteKeepsAnAdmin == clashed \/ AdminsOf(members) # {}

\* Of the edits of one user in three hours a member has one notification, unless two
\* requests looked for it at the same time, or as its three hours ended; and whoever was
\* notified, and has not marked his notifications since, is shown one to read, whether he
\* read an earlier one of the same edits or not.
OneUnreadNote ==
  /\ \A n, o \in notes :
       n.kind = "updated_request" /\ o.kind = n.kind /\ n.recent /\ o.recent /\ KeyOf(n) = KeyOf(o)
       => n = o \/ KeyOf(n) \in twins
  /\ \A o \in owed : \E n \in ListRecent(o.user) : KeyOf(n) = o /\ ~n.read
=============================================================================
