------------------------------- MODULE People -------------------------------
(***************************************************************************)
(* Who may do what: accounts (table users), the sessions they log in to by *)
(* one-time password, sgID or GitHub, and the requests of logged-in users  *)
(* on members and notifications, which are authorised once, at their       *)
(* start.  Composes OneTimePasswords and Collaborators.                    *)
(***************************************************************************)
EXTENDS OneTimePasswords, Collaborators, FiniteSets

CONSTANTS
  Emails,         \* e-mail addresses
  Mobiles,        \* mobile numbers
  GitHubIds,
  Whitelisted,    \* role the whitelist gives an e-mail address, or "none"
  Officer,        \* what sgID tells of the user of a client: e-mail addresses
  GitHubUser,     \* who the user of a client is on GitHub, or NoRow
  GitHubAccess,   \* GitHub users with access to the repository
  MaxRequests     \* bound: requests

\* Rows of users, and what a session keeps of one.
AccountRows == [email : Emails \cup {NoRow}, github : GitHubIds \cup {NoRow}, mobile : Mobiles \cup {NoRow}]
Sessions == [id : Ids, email : Emails \cup {NoRow}, github : GitHubIds \cup {NoRow}]

ASSUME PeopleAssumption ==
  /\ Addresses = Emails \cup Mobiles
  /\ Whitelisted \in [Emails -> Roles \cup {"none"}]
  /\ Officer \in [Ips -> SUBSET Emails]
  /\ GitHubUser \in [Ips -> GitHubIds \cup {NoRow}]
  /\ GitHubAccess \subseteq GitHubIds
  /\ NoRow \notin AccountRows /\ NoRow \notin Sessions /\ "login" \notin Ids
  /\ MaxRequests \in Nat

VARIABLES
  accounts,    \* table users
  session,     \* userInfo of the session of a client, or NoRow
  officers,    \* the sgID cookie of a client: addresses to choose from
  requests     \* requests so far

vars == <<otpVars, memberVars, accounts, session, officers, requests>>
identity == <<accounts, session, officers>>

\* How a row of users begins.
NewAccount(email, github) == [email |-> email, github |-> github, mobile |-> NoRow]
Accounts == {id \in Ids : accounts[id] # NoRow}
OfEmail(e) == {id \in Accounts : accounts[id].email = e}
OfGitHub(g) == {id \in Accounts : accounts[id].github = g}

\* findOrCreate, upsert: the row with this key, or a new one.
FoundOr(found) == IF found # {} THEN found ELSE Ids \ Accounts
WithAccount(id, row) == IF id \in Accounts THEN accounts ELSE [accounts EXCEPT ![id] = row]

Init ==
  /\ InitPasswords /\ InitMembers      \* every client is logged in, as someone it can be
  /\ \E email \in [{m.user : m \in members} \cup IsomerAdmins -> Emails \cup {NoRow}], github \in GitHubIds :
       /\ \A i, j \in DOMAIN email : email[i] = email[j] => i = j    \* one may be on GitHub only
       /\ \A m \in members : email[m.user] # NoRow
       /\ accounts = [id \in Ids |-> IF id \notin DOMAIN email THEN NoRow
                                     ELSE NewAccount(email[id], IF email[id] = NoRow THEN github ELSE NoRow)]
       /\ session \in
            {[c \in Ips |-> [id |-> who[c], email |-> email[who[c]], github |-> accounts[who[c]].github]] :
               who \in {f \in [Ips -> DOMAIN email] :
                         /\ \A c, d \in Ips : f[c] = f[d] => c = d
                         /\ \A c \in Ips : email[f[c]] \in Officer[c] \/ accounts[f[c]] = NewAccount(NoRow, GitHubUser[c])}}
  /\ officers = [c \in Ips |-> {}]
  /\ requests = 0

TypeOK ==
  /\ TypeOKPasswords({"login"} \cup Accounts) /\ TypeOKMembers(Emails, Emails \cup {NoRow})
  /\ accounts \in [Ids -> AccountRows \cup {NoRow}]
  /\ session \in [Ips -> Sessions \cup {NoRow}]
  /\ \A c \in Ips : session[c] # NoRow => session[c].id \in Accounts
  /\ \A m \in members : m.user \in Accounts
  /\ \A i \in Changers : change[i].at = "absent" => change[i].user \in Accounts
  /\ \A i \in Slots : verification[i].at \in UnderWay /\ verification[i].for = "login" => verification[i].address \in Emails
  /\ officers \in [Ips -> SUBSET Emails]
  /\ requests \in 0..MaxRequests

Count == requests < MaxRequests /\ requests' = requests + 1

-----------------------------------------------------------------------------
\* Who is asking.

LoggedIn(c) == session[c] # NoRow                       \* verifyAccess
IsEmailUser(c) == session[c].github = NoRow

\* hasAccessToSite: whether GitHub knows the repository for this user.
HasAccessToSite(c) == session[c].github \in GitHubAccess

\* verifySiteMember, verifySiteAdmin: GitHub users by their access to the repository.
MayAct(c, entitled) ==
  /\ LoggedIn(c)
  /\ \/ IsEmailUser(c) /\ session[c].id \in entitled
     \/ ~IsEmailUser(c) /\ HasAccessToSite(c)
     \/ session[c].id \in IsomerAdmins

-----------------------------------------------------------------------------
\* Logging in and out.

CanSendEmailOtp(e) == Whitelisted[e] # "none"

\* login: whoever is not on the whitelist is told the same, but gets nothing.
Login(e) ==
  /\ Count
  /\ CanSendEmailOtp(e) /\ SendOtp(e)
  /\ UNCHANGED <<memberVars, identity>>

\* A request for a verification that changes nothing is not counted.
CountEffect == requests < MaxRequests /\ requests' = IF otpVars' = otpVars THEN requests ELSE requests + 1

\* verify: the password that came with an e-mail address.
Verify(c) ==
  /\ \E i \in Slots, e \in Emails, guess \in 0..sent : LoadOtp(i, e, c, guess, "login")
  /\ CountEffect
  /\ UNCHANGED <<memberVars, identity>>

Attempt(i) == (CountAttempt(i) \/ DestroyExpired(i)) /\ UNCHANGED <<memberVars, identity, requests>>

\* loginWithEmail, and the session of the client.
LoginWithEmail(c, e) ==
  \E id \in FoundOr(OfEmail(e)) :
     /\ accounts' = WithAccount(id, NewAccount(e, NoRow))
     /\ session' = [session EXCEPT ![c] = [id |-> id, email |-> e, github |-> NoRow]]

\* The session, when the password has been used.
LogIn(i) ==
  LET v == verification[i] IN
  /\ v.at = "valid" /\ v.for = "login"
  /\ UseOtp(i)
  /\ LoginWithEmail(v.ip, v.address)
  /\ UNCHANGED <<memberVars, officers, requests>>

\* handleSgidLogin: one address logs in, several are kept in a cookie to choose from.
SgidLogin(c) ==
  /\ Count
  /\ Officer[c] # {}
  /\ IF Cardinality(Officer[c]) = 1
     THEN (\E e \in Officer[c] : LoginWithEmail(c, e)) /\ UNCHANGED officers
     ELSE officers' = [officers EXCEPT ![c] = Officer[c]] /\ UNCHANGED <<accounts, session>>
  /\ UNCHANGED <<otpVars, memberVars>>

\* handleSgidMultiuserLogin: the cookie is cleared whatever comes of it.
SgidMultiuserLogin(c) ==
  /\ Count
  /\ officers[c] # {}
  /\ officers' = [officers EXCEPT ![c] = {}]
  /\ \/ \E e \in officers[c] : LoginWithEmail(c, e)
     \/ Emails \ officers[c] # {} /\ UNCHANGED <<accounts, session>>
  /\ UNCHANGED <<otpVars, memberVars>>

\* githubAuth
GitHubLogin(c) ==
  /\ Count
  /\ GitHubUser[c] # NoRow
  /\ \E id \in FoundOr(OfGitHub(GitHubUser[c])) :
       /\ accounts' = WithAccount(id, NewAccount(NoRow, GitHubUser[c]))
       /\ session' = [session EXCEPT ![c] =
                        [id |-> id, email |-> accounts'[id].email, github |-> GitHubUser[c]]]
  /\ UNCHANGED <<otpVars, memberVars, officers>>

\* logout, and whoami when no account has the e-mail address of the session (the address
\* was changed after logging in) or its GitHub user.
KnowsWho(c) ==
  IF IsEmailUser(c) THEN OfEmail(session[c].email) # {} ELSE OfGitHub(session[c].github) # {}

LeaveSession(c) ==
  /\ Count
  /\ LoggedIn(c)
  /\ session' = [session EXCEPT ![c] = NoRow]
  /\ UNCHANGED <<otpVars, memberVars, accounts, officers>>

Logout(c) == LeaveSession(c)
Whoami(c) == LoggedIn(c) /\ ~KnowsWho(c) /\ LeaveSession(c)

\* sendEmailOtp and sendMobileNumberOtp of a user who is logged in.
SendTo(c, address) ==
  /\ Count
  /\ LoggedIn(c)
  /\ SendOtp(address)
  /\ UNCHANGED <<memberVars, identity>>

SendEmailOtp(c) == \E e \in Emails : CanSendEmailOtp(e) /\ SendTo(c, e)
SendMobileNumberOtp(c) == \E number \in Mobiles : SendTo(c, number)

\* verifyEmailOtp and verifyMobileNumberOtp: the address becomes the one of the session's
\* account.
VerifyAddress(c, address) ==
  /\ LoggedIn(c)
  /\ \E i \in Slots, guess \in 0..sent : LoadOtp(i, address, c, guess, session[c].id)
  /\ CountEffect
  /\ UNCHANGED <<memberVars, identity>>

VerifyEmailOtp(c) == \E e \in Emails : VerifyAddress(c, e)
VerifyMobileNumberOtp(c) == \E number \in Mobiles : VerifyAddress(c, number)

\* updateUserByIsomerId, when the password has been used; no two accounts have the same
\* address: then it is an error.
KeepAddress(i) ==
  LET v == verification[i]
      taken == \E id \in Accounts \ {v.for} : accounts[id].email = v.address \/ accounts[id].mobile = v.address
  IN
  /\ v.at = "valid" /\ v.for \in Ids
  /\ UseOtp(i)
  /\ accounts' = IF taken THEN accounts
                 ELSE IF v.address \in Emails THEN [accounts EXCEPT ![v.for].email = v.address]
                 ELSE [accounts EXCEPT ![v.for].mobile = v.address]
  /\ UNCHANGED <<memberVars, session, officers, requests>>

-----------------------------------------------------------------------------
\* Requests on members and notifications.

\* createCollaborator, deleteCollaborator: GitHub users are answered before they get here.
AskToChange(c, asked) ==
  /\ Count
  /\ MayAct(c, SiteAdmins) /\ IsEmailUser(c)
  /\ \E i \in Changers : change[i] = Resting /\ change' = [change EXCEPT ![i] = asked]
  /\ UNCHANGED <<otpVars, identity, members, notes, made, clashed, twins, owed>>

CreateCollaborator(c) ==
  \E e \in Emails : AskToChange(c, [at |-> "adding", email |-> e])

DeleteCollaborator(c) ==
  \E user \in Ids : AskToChange(c, [at |-> "removing", user |-> user])

\* The account is found, or created, and the member looked for.
FindMember(i) ==
  LET c == change[i] IN
  /\ c.at = "adding"
  /\ IF Whitelisted[c.email] = "none"
     THEN LookForMember(i, NoRow, "none", TRUE) /\ UNCHANGED accounts
     ELSE \E id \in FoundOr(OfEmail(c.email)), acknowledged \in BOOLEAN :
            /\ accounts' = WithAccount(id, NewAccount(c.email, NoRow))
            /\ LookForMember(i, id, Whitelisted[c.email], acknowledged)
  /\ UNCHANGED <<otpVars, session, officers, requests>>

\* The notifications of a request of a member.
NotifyOthers(c, kind) ==
  /\ Count
  /\ MayAct(c, SiteMembers)
  /\ \E i \in Changers : StartNotices(i, session[c].id, session[c].email, kind)
  /\ UNCHANGED <<otpVars, identity>>

\* createNotification, after a request that edited the site while a review is open.
CreateNotification(c) == LoggedIn(c) /\ IsEmailUser(c) /\ NotifyOthers(c, "updated_request")

\* A step of a review.
NotifyOfReview(c) == NotifyOthers(c, "request_created")

\* markNotificationsAsRead
MarkNotificationsAsRead(c) ==
  /\ Count
  /\ MayAct(c, SiteMembers)
  /\ \E i \in Changers : StartReading(i, session[c].id)
  /\ UNCHANGED <<otpVars, identity>>

MemberStep(i) ==
  /\ \/ AddMember(i) \/ CountAdmins(i) \/ RemoveMember(i) \/ ReadNotes(i)
     \/ change[i].at = "notifying" /\ \E m \in change[i].todo : SearchNote(i, m)
     \/ change[i].at = "notifying" /\ \E f \in change[i].found : WriteNote(i, f)
  /\ UNCHANGED <<otpVars, identity, requests>>

Time == \E n \in notes : Age(n) /\ UNCHANGED <<otpVars, identity, requests>>

Next ==
  \/ \E e \in Emails : Login(e)
  \/ \E c \in Ips :
       \/ Verify(c) \/ SgidLogin(c) \/ SgidMultiuserLogin(c) \/ GitHubLogin(c)
       \/ Logout(c) \/ Whoami(c) \/ SendEmailOtp(c) \/ SendMobileNumberOtp(c)
       \/ VerifyEmailOtp(c) \/ VerifyMobileNumberOtp(c)
       \/ CreateCollaborator(c) \/ DeleteCollaborator(c)
       \/ CreateNotification(c) \/ NotifyOfReview(c) \/ MarkNotificationsAsRead(c)
  \/ \E i \in Slots : Attempt(i) \/ LogIn(i) \/ KeepAddress(i)
  \/ \E i \in Changers : FindMember(i) \/ MemberStep(i)
  \/ Time

Spec == Init /\ [][Next]_vars
=============================================================================
