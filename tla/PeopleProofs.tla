----------------------------- MODULE PeopleProofs -----------------------------
(***************************************************************************)
(* One-time passwords, members and notifications, for any number of        *)
(* addresses, users, verifications and requests that overlap.              *)
(*                                                                         *)
(* A password is in one row at most and its verifications know the row     *)
(* (PasswordInv), so the row goes with the password; and unless one was    *)
(* under way as a password was sent, the attempts a row counts are the     *)
(* comparisons with its password (GuessInv).  An admin remains whom a      *)
(* deletion has counted (MembersInv).  What a request on notifications has *)
(* found is still what there is, unless another looked for the same        *)
(* (FoundInv, NotesInv).                                                   *)
(***************************************************************************)
EXTENDS People, TLAPS

\* A password is in the row of one address, and a verification knows which.
Busy(i) == verification[i].at \in UnderWay
Loaded(i) == verification[i].row
RowOf(i) == otp[verification[i].address]
PasswordInv ==
  /\ \A a \in Addresses : otp[a] # NoRow =>
       otp[a].id <= sent /\ otp[a].password <= sent /\ otp[a].password \notin used
  /\ \A a, b \in Addresses : otp[a] # NoRow /\ otp[b] # NoRow /\ otp[a].password = otp[b].password => a = b
  /\ \A i \in Slots : Busy(i) => Loaded(i).id <= sent /\ Loaded(i).password <= sent
  /\ \A i \in Slots, a \in Addresses :
       Busy(i) /\ otp[a] # NoRow /\ otp[a].password = Loaded(i).password =>
         a = verification[i].address /\ otp[a].id = Loaded(i).id

\* The attempts counted with a row are the comparisons with its password, unless a
\* verification was under way as it was sent.
GuessInv ==
  /\ \A p \in 1..MaxSent : p > sent => tried[p] = NoAttempts
  /\ \A p \in 1..MaxSent : p \in resent \/ \A ip \in Ips : tried[p][ip] <= MaxAttempts
  /\ \A a \in Addresses : otp[a] # NoRow => otp[a].password \in resent \/ tried[otp[a].password] = otp[a].byIp
  /\ \A i \in Slots : verification[i].at = "loaded" => Loaded(i).byIp[verification[i].ip] < MaxAttempts
  /\ \A i \in Slots : Busy(i) /\ RowOf(i) # NoRow /\ RowOf(i).id = Loaded(i).id =>
       \/ RowOf(i).password = Loaded(i).password
       \/ RowOf(i).password \in resent /\ Loaded(i).password \in resent
  /\ \A i \in Slots : Busy(i) /\ RowOf(i) # NoRow /\ RowOf(i).password = Loaded(i).password =>
       /\ Loaded(i).attempts <= RowOf(i).attempts
       /\ Loaded(i).attempts = RowOf(i).attempts => Loaded(i).byIp = RowOf(i).byIp

\* A membership is of one user, and an admin remains whom a deletion has counted.
MembersInv ==
  /\ \A m \in members : m.id <= made.members
  /\ \A m, n \in members : m.id = n.id \/ m.user = n.user => m = n
  /\ clashed \/ AdminsOf(members) # {}
  /\ \A i \in Changers : change[i].at = "counted" =>
       clashed \/ \E m \in AdminsOf(members) : m.user # change[i].user

\* A notification is of the user of its membership.
OwnersInv ==
  /\ \A n \in notes : n.id <= made.notes /\ n.member <= made.members
  /\ \A n, o \in notes : n.id = o.id => n = o
  /\ \A n \in notes, m \in members : n.member = m.id => n.user = m.user

\* What a request has found is of the user, and not of another request too.
Notifying(i) == change[i].at = "notifying"
KeyFound(i, f) == [user |-> f.member.user, source |-> change[i].source]
Recent(n) == n.kind = "updated_request" /\ n.recent
FoundInv ==
  /\ \A i \in Changers : Notifying(i) =>
       /\ \A m, n \in change[i].todo : m.user = n.user => m = n
       /\ \A f, g \in change[i].found : f.member.user = g.member.user => f = g
       /\ \A f \in change[i].found, m \in change[i].todo : f.member.user # m.user
       /\ \A f \in change[i].found : f.note <= made.notes
  /\ \A i, j \in Changers : Notifying(i) /\ Notifying(j) /\ i # j =>
       \A f \in change[i].found, g \in change[j].found :
         KeyFound(i, f) = KeyFound(j, g) => KeyFound(i, f) \in twins

\* So it is what there is, and a user has one recent notification of a source at most.
FoundNotes ==
  \A i \in Changers : Notifying(i) =>
    \A f \in change[i].found, n \in notes :
      /\ n.id = f.note => KeyOf(n) = KeyFound(i, f) /\ (Recent(n) \/ KeyFound(i, f) \in twins)
      /\ f.note = 0 /\ change[i].kind = "updated_request" /\ Recent(n) /\ KeyOf(n) = KeyFound(i, f) =>
           KeyFound(i, f) \in twins
OneRecent == \A n, o \in notes : Recent(n) /\ Recent(o) /\ KeyOf(n) = KeyOf(o) => n = o \/ KeyOf(n) \in twins
OwedInv == \A o \in owed : \E n \in notes : KeyOf(n) = o /\ ~n.read
NotesInv == FoundNotes /\ OneRecent /\ OwedInv

IInv == TypeOK /\ PasswordInv /\ GuessInv /\ MembersInv /\ OwnersInv /\ FoundInv /\ NotesInv

-----------------------------------------------------------------------------
(* One-time passwords                                                      *)

PInv(purposes) == TypeOKPasswords(purposes) /\ PasswordInv /\ GuessInv

\* A verification under way, with what it has loaded.
LEMMA BusyFacts ==
  ASSUME NEW P, TypeOKPasswords(P), NEW i \in Slots, Busy(i)
  PROVE  /\ verification[i] \in Verifications(P) /\ verification[i].address \in Addresses
         /\ verification[i].ip \in Ips /\ Loaded(i) \in OtpRows /\ verification[i].at \in {"loaded", "valid"}
         /\ verification[i] # Free
<1>1. verification[i] # Free
  BY DEF Busy, UnderWay, Free
<1>2. verification[i] \in Verifications(P)
  BY <1>1 DEF TypeOKPasswords
<1> QED
  BY <1>1, <1>2 DEF Verifications, Loaded, Busy, UnderWay

\* A password is sent: no row and no verification has it yet, and whoever is at the
\* address is in resent.
LEMMA SendKeeps ==
  ASSUME NEW P, PInv(P), NEW a \in Addresses, SendOtp(a)
  PROVE  PInv(P)'
<1> DEFINE id == IF otp[a] = NoRow THEN sent + 1 ELSE otp[a].id
           row == [id |-> id, password |-> sent + 1, attempts |-> 0, byIp |-> NoAttempts]
           busy == {i \in Slots : verification[i].at \in UnderWay /\ verification[i].address = a}
<1>0. TypeOKPasswords(P) /\ PasswordInv /\ GuessInv
  BY DEF PInv
<1>1. /\ sent \in Nat /\ sent < MaxSent /\ sent' = sent + 1 /\ sent' \in 1..MaxSent /\ MaxSent \in Nat
      /\ otp \in [Addresses -> OtpRows \cup {NoRow}]
      /\ used \subseteq 1..sent /\ resent \subseteq 1..sent
  BY <1>0, OneTimePasswordsAssumption DEF TypeOKPasswords, SendOtp
<1>2. /\ otp' = [otp EXCEPT ![a] = row]
      /\ resent' = resent \cup {verification[i].row.password : i \in busy} \cup (IF busy = {} THEN {} ELSE {sent + 1})
      /\ UNCHANGED <<verification, used, tried>>
  BY DEF SendOtp
<1>3. id \in 1..MaxSent /\ id <= sent + 1 /\ (otp[a] # NoRow => id = otp[a].id) /\ (otp[a] = NoRow => id = sent + 1)
  BY <1>0, <1>1 DEF PasswordInv, OtpRows
<1>4. NoAttempts \in [Ips -> Nat]
  BY DEF NoAttempts
<1>5. /\ row \in OtpRows /\ row.id = id /\ row.password = sent + 1 /\ row.attempts = 0 /\ row.byIp = NoAttempts
  BY <1>1, <1>3, <1>4 DEF OtpRows
<1> HIDE DEF row, id
<1>6. /\ otp'[a] = row /\ otp'[a] # NoRow /\ \A b \in Addresses : b # a => otp'[b] = otp[b]
      /\ otp' \in [Addresses -> OtpRows \cup {NoRow}]
  BY <1>1, <1>2, <1>5, OneTimePasswordsAssumption
<1>7. \A i \in Slots : /\ Busy(i)' <=> Busy(i)
                       /\ Loaded(i)' = Loaded(i)
  BY <1>2 DEF Busy, UnderWay, Loaded
<1>8. \A i \in Slots : Busy(i) => /\ Loaded(i) \in OtpRows /\ verification[i].address \in Addresses
                                  /\ Loaded(i).password \in 1..sent /\ Loaded(i).id \in 1..sent
                                  /\ Loaded(i).password < sent + 1 /\ Loaded(i).id < sent + 1
  <2>1. \A i \in Slots : Busy(i) => Loaded(i) \in OtpRows /\ verification[i].address \in Addresses
    BY <1>0, BusyFacts
  <2>2. \A i \in Slots : Busy(i) => Loaded(i).password <= sent /\ Loaded(i).id <= sent
    BY <1>0 DEF PasswordInv
  <2> QED
    BY <1>1, <2>1, <2>2 DEF OtpRows
<1>9. \A b \in Addresses : otp[b] # NoRow =>
        /\ otp[b] \in OtpRows /\ otp[b].password \in 1..sent /\ otp[b].id \in 1..sent
        /\ otp[b].password < sent + 1 /\ otp[b].password \notin used
  <2>1. \A b \in Addresses : otp[b] # NoRow => otp[b] \in OtpRows /\ otp[b].id <= sent /\ otp[b].password <= sent
                                               /\ otp[b].password \notin used
    BY <1>0, <1>1 DEF PasswordInv
  <2> QED
    BY <1>1, <2>1 DEF OtpRows
<1>10. \A i \in Slots : Busy(i) /\ verification[i].address = a =>
         Loaded(i).password \in resent' /\ sent + 1 \in resent'
  BY <1>2 DEF Busy, UnderWay, Loaded
<1>11. resent \subseteq resent' /\ resent' \subseteq 1..(sent + 1)
  <2>1. \A i \in busy : verification[i].row.password \in 1..(sent + 1)
    <3>1. \A i \in busy : verification[i].row.password \in 1..sent
      BY <1>8 DEF Busy, UnderWay, Loaded
    <3> QED
      BY <1>1, <3>1
  <2>2. sent + 1 \in 1..(sent + 1) /\ resent \subseteq 1..(sent + 1)
    BY <1>1
  <2> HIDE DEF busy
  <2> QED
    BY <1>2, <2>1, <2>2
<1>12. TypeOKPasswords(P)'
  <2>1. used' \subseteq 1..sent'
    BY <1>1, <1>2
  <2> QED
    BY <1>0, <1>1, <1>2, <1>6, <1>11, <2>1 DEF TypeOKPasswords
<1>13. PasswordInv'
  <2>1. \A b \in Addresses : otp'[b] # NoRow =>
          otp'[b].id <= sent' /\ otp'[b].password <= sent' /\ otp'[b].password \notin used'
    <3>1. sent + 1 \notin used
      BY <1>1
    <3> QED
      BY <1>1, <1>2, <1>3, <1>5, <1>6, <1>9, <3>1
  <2>2. \A b, d \in Addresses : otp'[b] # NoRow /\ otp'[d] # NoRow /\ otp'[b].password = otp'[d].password => b = d
    <3>1. \A b \in Addresses : b # a /\ otp'[b] # NoRow => otp'[b].password # sent + 1
      BY <1>1, <1>6, <1>9
    <3> QED
      BY <1>0, <1>5, <1>6, <3>1 DEF PasswordInv
  <2>3. \A i \in Slots : Busy(i)' => Loaded(i)'.id <= sent' /\ Loaded(i)'.password <= sent'
    BY <1>1, <1>7, <1>8
  <2>4. ASSUME NEW i \in Slots, NEW b \in Addresses, Busy(i), otp'[b] # NoRow, otp'[b].password = Loaded(i).password
        PROVE  b = verification[i].address /\ otp'[b].id = Loaded(i).id
    <3>1. b # a
      BY <1>1, <1>5, <1>6, <1>8, <2>4
    <3> QED
      BY <1>0, <1>6, <2>4, <3>1 DEF PasswordInv
  <2> QED
    BY <1>2, <1>7, <2>1, <2>2, <2>3, <2>4 DEF PasswordInv
<1>14. GuessInv'
  <2>1. \A p \in 1..MaxSent : p > sent' => tried'[p] = NoAttempts
    BY <1>0, <1>1, <1>2 DEF GuessInv
  <2>2. \A p \in 1..MaxSent : p \in resent' \/ \A ip \in Ips : tried'[p][ip] <= MaxAttempts
    BY <1>0, <1>2, <1>11 DEF GuessInv
  <2>3. ASSUME NEW b \in Addresses, otp'[b] # NoRow
        PROVE  otp'[b].password \in resent' \/ tried'[otp'[b].password] = otp'[b].byIp
    <3>1. CASE b = a
      <4>1. tried[sent + 1] = NoAttempts
        BY <1>0, <1>1 DEF GuessInv
      <4> QED
        BY <1>2, <1>5, <1>6, <3>1, <4>1
    <3>2. CASE b # a
      BY <1>0, <1>2, <1>6, <1>11, <2>3, <3>2 DEF GuessInv
    <3> QED
      BY <3>1, <3>2
  <2>4. \A i \in Slots : verification'[i].at = "loaded" => Loaded(i)'.byIp[verification'[i].ip] < MaxAttempts
    BY <1>0, <1>2, <1>7 DEF GuessInv
  <2>5. ASSUME NEW i \in Slots, Busy(i), RowOf(i)' # NoRow, RowOf(i)'.id = Loaded(i).id
        PROVE  \/ RowOf(i)'.password = Loaded(i).password
               \/ RowOf(i)'.password \in resent' /\ Loaded(i).password \in resent'
    <3>1. CASE verification[i].address = a
      BY <1>2, <1>5, <1>6, <1>10, <2>5, <3>1 DEF RowOf
    <3>2. CASE verification[i].address # a
      <4>1. RowOf(i)' = RowOf(i)
        BY <1>2, <1>6, <1>8, <2>5, <3>2 DEF RowOf
      <4> QED
        BY <1>0, <1>11, <2>5, <4>1 DEF GuessInv
    <3> QED
      BY <3>1, <3>2
  <2>6. ASSUME NEW i \in Slots, Busy(i), RowOf(i)' # NoRow, RowOf(i)'.password = Loaded(i).password
        PROVE  /\ Loaded(i).attempts <= RowOf(i)'.attempts
               /\ Loaded(i).attempts = RowOf(i)'.attempts => Loaded(i).byIp = RowOf(i)'.byIp
    <3>1. verification[i].address # a
      BY <1>1, <1>2, <1>5, <1>6, <1>8, <2>6 DEF RowOf
    <3>2. RowOf(i)' = RowOf(i)
      BY <1>2, <1>6, <1>8, <2>6, <3>1 DEF RowOf
    <3> QED
      BY <1>0, <2>6, <3>2 DEF GuessInv
  <2> QED
    BY <1>7, <2>1, <2>2, <2>3, <2>4, <2>5, <2>6 DEF GuessInv
<1> QED
  BY <1>12, <1>13, <1>14 DEF PInv

\* A row goes: nothing is said of it any more.
LEMMA ExpiredKeeps ==
  ASSUME NEW P, PInv(P), NEW e \in Slots, DestroyExpired(e)
  PROVE  PInv(P)'
<1>0. /\ TypeOKPasswords(P) /\ PasswordInv /\ GuessInv /\ otp \in [Addresses -> OtpRows \cup {NoRow}]
      /\ verification \in [Slots -> Verifications(P) \cup {Free}]
  BY DEF PInv, TypeOKPasswords
<1>1. /\ \A b \in Addresses : otp'[b] # NoRow => otp'[b] = otp[b]
      /\ otp' \in [Addresses -> OtpRows \cup {NoRow}]
      /\ UNCHANGED <<sent, used, tried, resent>>
  BY <1>0 DEF DestroyExpired, Destroyed
<1>2. \A i \in Slots : Busy(i)' => /\ Busy(i) /\ Loaded(i)' = Loaded(i)
                                  /\ verification'[i] = verification[i]
  BY <1>0 DEF DestroyExpired, Busy, UnderWay, Loaded, Free
<1>3. \A i \in Slots : Busy(i)' /\ RowOf(i)' # NoRow => RowOf(i)' = RowOf(i)
  <2> SUFFICES ASSUME NEW i \in Slots, Busy(i)', RowOf(i)' # NoRow
               PROVE  RowOf(i)' = RowOf(i)
    OBVIOUS
  <2>1. verification[i].address \in Addresses
    BY <1>0, <1>2, BusyFacts
  <2> QED
    BY <1>1, <1>2, <2>1 DEF RowOf
<1>4. TypeOKPasswords(P)'
  BY <1>0, <1>1 DEF TypeOKPasswords, DestroyExpired
<1>5. PasswordInv'
  BY <1>0, <1>1, <1>2 DEF PasswordInv
<1>6. GuessInv'
  <2>0. \A i \in Slots : verification'[i].at = "loaded" => Loaded(i)'.byIp[verification'[i].ip] < MaxAttempts
    BY <1>0, <1>2 DEF GuessInv, Busy, UnderWay
  <2>1. \A b \in Addresses : otp'[b] # NoRow => otp'[b].password \in resent' \/ tried'[otp'[b].password] = otp'[b].byIp
    BY <1>0, <1>1 DEF GuessInv
  <2>2. \A i \in Slots : Busy(i)' /\ RowOf(i)' # NoRow /\ RowOf(i)'.id = Loaded(i)'.id =>
          \/ RowOf(i)'.password = Loaded(i)'.password
          \/ RowOf(i)'.password \in resent' /\ Loaded(i)'.password \in resent'
    BY <1>0, <1>1, <1>2, <1>3 DEF GuessInv
  <2>3. \A i \in Slots : Busy(i)' /\ RowOf(i)' # NoRow /\ RowOf(i)'.password = Loaded(i)'.password =>
          /\ Loaded(i)'.attempts <= RowOf(i)'.attempts
          /\ Loaded(i)'.attempts = RowOf(i)'.attempts => Loaded(i)'.byIp = RowOf(i)'.byIp
    BY <1>0, <1>2, <1>3 DEF GuessInv
  <2> QED
    BY <1>0, <1>1, <2>0, <2>1, <2>2, <2>3 DEF GuessInv
<1> QED
  BY <1>4, <1>5, <1>6 DEF PInv

\* A verification ends, keeps what it has loaded as the comparison succeeds, or finds the
\* password expired.
LEMMA SlotMoves ==
  ASSUME NEW P, PInv(P), NEW i \in Slots, NEW v, verification' = [verification EXCEPT ![i] = v],
         \/ v = Free \/ (v \in Verifications(P) /\ v.at = "expired")
         \/ Busy(i) /\ v = [verification[i] EXCEPT !.at = "valid"],
         UNCHANGED <<otp, sent, used, tried, resent>>
  PROVE  PInv(P)'
<1>0. TypeOKPasswords(P) /\ PasswordInv /\ GuessInv
      /\ verification \in [Slots -> Verifications(P) \cup {Free}]
  BY DEF PInv, TypeOKPasswords
<1>1. /\ verification'[i] = v /\ \A j \in Slots : j # i => verification'[j] = verification[j]
      /\ Free.at = "free"
  BY <1>0 DEF Free
<1>2. v.at \in UnderWay =>
        /\ Busy(i) /\ v \in Verifications(P) /\ v.at = "valid" /\ v.row = Loaded(i)
        /\ v.address = verification[i].address /\ v.ip = verification[i].ip
  <2> SUFFICES ASSUME Busy(i), v = [verification[i] EXCEPT !.at = "valid"]
               PROVE  /\ v \in Verifications(P) /\ v.at = "valid" /\ v.row = Loaded(i)
                      /\ v.address = verification[i].address /\ v.ip = verification[i].ip
    BY <1>1 DEF UnderWay
  <2>1. verification[i] \in Verifications(P)
    BY <1>0, BusyFacts
  <2> QED
    BY <2>1 DEF Verifications, Loaded, UnderWay
<1>3. \A j \in Slots : Busy(j)' => /\ Busy(j) /\ Loaded(j)' = Loaded(j) /\ RowOf(j)' = RowOf(j)
                                   /\ verification'[j].address = verification[j].address
  BY <1>1, <1>2 DEF Busy, UnderWay, Loaded, RowOf
<1>4. \A j \in Slots : verification'[j].at = "loaded" => verification'[j] = verification[j]
  BY <1>1, <1>2 DEF UnderWay
<1>5. TypeOKPasswords(P)'
  <2>1. v \in Verifications(P) \cup {Free}
    <3>1. CASE Busy(i) /\ v = [verification[i] EXCEPT !.at = "valid"]
      <4>1. verification[i] \in Verifications(P)
        BY <1>0, <3>1, BusyFacts
      <4> QED
        BY <3>1, <4>1 DEF Verifications, UnderWay
    <3> QED
      BY <3>1
  <2> QED
    BY <1>0, <2>1 DEF TypeOKPasswords
<1>6. PasswordInv'
  BY <1>0, <1>3 DEF PasswordInv
<1>7. GuessInv'
  <2>1. \A j \in Slots : verification'[j].at = "loaded" => Loaded(j)'.byIp[verification'[j].ip] < MaxAttempts
    BY <1>0, <1>4 DEF GuessInv, Loaded
  <2> QED
    BY <1>0, <1>3, <2>1 DEF GuessInv
<1> QED
  BY <1>5, <1>6, <1>7 DEF PInv

\* A verification loads the row of an address, which has attempts left.
LEMMA LoadKeeps ==
  ASSUME NEW P, PInv(P), NEW i \in Slots, NEW a \in Addresses, NEW ip \in Ips, NEW guess, NEW for \in P,
         LoadOtp(i, a, ip, guess, for)
  PROVE  PInv(P)'
<1>0. TypeOKPasswords(P) /\ PasswordInv /\ GuessInv
      /\ otp \in [Addresses -> OtpRows \cup {NoRow}]
      /\ verification \in [Slots -> Verifications(P) \cup {Free}]
  BY DEF PInv, TypeOKPasswords
<1>1. UNCHANGED <<otp, sent, used, tried, resent>> /\ verification[i] = Free /\ guess \in 0..MaxSent
  BY <1>0, OneTimePasswordsAssumption DEF LoadOtp, TypeOKPasswords
<1>2. CASE UNCHANGED <<otp, verification>>
  BY <1>0, <1>1, <1>2 DEF PInv, TypeOKPasswords, PasswordInv, GuessInv, Busy, UnderWay, Loaded, RowOf
<1>3. CASE /\ otp[a] # NoRow
           /\ verification' = [verification EXCEPT ![i] =
                [at |-> "expired", address |-> a, ip |-> ip, guess |-> guess, row |-> otp[a], for |-> for]]
  <2> DEFINE v == [at |-> "expired", address |-> a, ip |-> ip, guess |-> guess, row |-> otp[a], for |-> for]
  <2>1. v \in Verifications(P) /\ v.at = "expired"
    BY <1>0, <1>1, <1>3 DEF Verifications, UnderWay
  <2> HIDE DEF v
  <2>2. verification' = [verification EXCEPT ![i] = v]
    BY <1>3 DEF v
  <2> QED
    BY <1>1, <2>1, <2>2, SlotMoves
<1>4. CASE /\ otp[a] # NoRow /\ otp[a].byIp[ip] < MaxAttempts
           /\ verification' = [verification EXCEPT ![i] =
                [at |-> "loaded", address |-> a, ip |-> ip, guess |-> guess, row |-> otp[a], for |-> for]]
  <2> DEFINE v == [at |-> "loaded", address |-> a, ip |-> ip, guess |-> guess, row |-> otp[a], for |-> for]
  <2>1. v \in Verifications(P) /\ v.at = "loaded" /\ v.address = a /\ v.ip = ip /\ v.row = otp[a]
    BY <1>0, <1>1, <1>4 DEF Verifications, UnderWay
  <2>2. verification' = [verification EXCEPT ![i] = v]
    BY <1>4
  <2> HIDE DEF v
  <2>3. verification'[i] = v /\ \A j \in Slots : j # i => verification'[j] = verification[j]
    BY <1>0, <2>2
  <2>4. /\ Loaded(i)' = otp[a] /\ RowOf(i)' = otp[a]
        /\ \A j \in Slots : j # i =>
             /\ Busy(j)' <=> Busy(j)
             /\ Loaded(j)' = Loaded(j) /\ RowOf(j)' = RowOf(j)
    BY <1>1, <1>4, <2>1, <2>3 DEF Busy, UnderWay, Loaded, RowOf
  <2>5. otp[a] \in OtpRows /\ otp[a].attempts \in Nat
    BY <1>0, <1>4 DEF OtpRows
  <2>6. TypeOKPasswords(P)'
    BY <1>0, <1>1, <1>4, <2>1, <2>2 DEF TypeOKPasswords
  <2>7. PasswordInv'
    <3>1. \A j \in Slots : Busy(j)' => Loaded(j)'.id <= sent' /\ Loaded(j)'.password <= sent'
      BY <1>0, <1>1, <1>4, <2>4 DEF PasswordInv
    <3>2. \A j \in Slots, b \in Addresses :
            Busy(j)' /\ otp'[b] # NoRow /\ otp'[b].password = Loaded(j)'.password =>
              b = verification'[j].address /\ otp'[b].id = Loaded(j)'.id
      BY <1>0, <1>1, <1>4, <2>1, <2>3, <2>4 DEF PasswordInv
    <3> QED
      BY <1>0, <1>1, <1>4, <3>1, <3>2 DEF PasswordInv
  <2>8. GuessInv'
    <3>1. \A j \in Slots : verification'[j].at = "loaded" => Loaded(j)'.byIp[verification'[j].ip] < MaxAttempts
      BY <1>0, <1>4, <2>1, <2>3, <2>4 DEF GuessInv
    <3>2. \A j \in Slots : Busy(j)' /\ RowOf(j)' # NoRow /\ RowOf(j)'.id = Loaded(j)'.id =>
            \/ RowOf(j)'.password = Loaded(j)'.password
            \/ RowOf(j)'.password \in resent' /\ Loaded(j)'.password \in resent'
      BY <1>0, <1>1, <2>4 DEF GuessInv
    <3>3. \A j \in Slots : Busy(j)' /\ RowOf(j)' # NoRow /\ RowOf(j)'.password = Loaded(j)'.password =>
            /\ Loaded(j)'.attempts <= RowOf(j)'.attempts
            /\ Loaded(j)'.attempts = RowOf(j)'.attempts => Loaded(j)'.byIp = RowOf(j)'.byIp
      BY <1>0, <2>4, <2>5 DEF GuessInv
    <3> QED
      BY <1>0, <1>1, <1>4, <3>1, <3>2, <3>3 DEF GuessInv
  <2> QED
    BY <2>6, <2>7, <2>8 DEF PInv
<1> QED
  BY <1>2, <1>3, <1>4 DEF LoadOtp

\* An attempt is counted with the row it was loaded from.
LEMMA CountKeeps ==
  ASSUME NEW P, PInv(P), NEW i \in Slots, CountAttempt(i)
  PROVE  PInv(P)'
<1> DEFINE v == verification[i]
           a == v.address
           row == [otp[a] EXCEPT !.attempts = v.row.attempts + 1, !.byIp = [v.row.byIp EXCEPT ![v.ip] = @ + 1]]
           next == IF v.guess = v.row.password THEN [v EXCEPT !.at = "valid"] ELSE Free
<1>0. TypeOKPasswords(P) /\ PasswordInv /\ GuessInv
      /\ otp \in [Addresses -> OtpRows \cup {NoRow}]
      /\ verification \in [Slots -> Verifications(P) \cup {Free}]
      /\ tried \in [1..MaxSent -> [Ips -> Nat]]
      /\ sent \in Nat /\ sent <= MaxSent /\ MaxSent \in Nat /\ MaxAttempts \in Nat
  BY OneTimePasswordsAssumption DEF PInv, TypeOKPasswords
<1>1. v.at = "loaded" /\ Busy(i) /\ UNCHANGED <<sent, used, resent>>
  BY DEF CountAttempt, Busy, UnderWay
<1>2. v \in Verifications(P) /\ a \in Addresses /\ v.ip \in Ips /\ v.row \in OtpRows /\ v.row = Loaded(i) /\ v # Free
  BY <1>0, <1>1, BusyFacts DEF Loaded
<1>3. CASE ~Unchanged(v) /\ verification' = [verification EXCEPT ![i] = Free] /\ UNCHANGED <<otp, tried>>
  BY <1>1, <1>3, SlotMoves
<1>4. CASE /\ Unchanged(v)
           /\ otp' = [otp EXCEPT ![v.address].attempts = v.row.attempts + 1,
                                 ![v.address].byIp = [v.row.byIp EXCEPT ![v.ip] = @ + 1]]
           /\ tried' = [tried EXCEPT ![v.row.password][v.ip] = @ + 1]
           /\ verification' = [verification EXCEPT ![i] = next]
  <2>1. otp[a] \in OtpRows /\ otp[a] # NoRow /\ otp[a].id = v.row.id /\ otp[a].attempts = v.row.attempts
    BY <1>0, <1>2, <1>4 DEF Unchanged
  <2>2. /\ v.row.attempts \in Nat /\ v.row.byIp \in [Ips -> Nat]
        /\ v.row.password \in 1..MaxSent
        /\ [v.row.byIp EXCEPT ![v.ip] = @ + 1] \in [Ips -> Nat]
    BY <1>2 DEF OtpRows
  <2>3. /\ row \in OtpRows /\ row.id = otp[a].id /\ row.password = otp[a].password
        /\ row.attempts = v.row.attempts + 1 /\ row.byIp = [v.row.byIp EXCEPT ![v.ip] = @ + 1]
    <3> DEFINE attempts == v.row.attempts + 1
               byIp == [v.row.byIp EXCEPT ![v.ip] = @ + 1]
    <3>1. attempts \in Nat /\ byIp \in [Ips -> Nat]
      BY <2>2
    <3>2. row = [otp[a] EXCEPT !.attempts = attempts, !.byIp = byIp]
      OBVIOUS
    <3> HIDE DEF row, attempts, byIp
    <3>3. /\ row \in OtpRows /\ row.id = otp[a].id /\ row.password = otp[a].password
          /\ row.attempts = attempts /\ row.byIp = byIp
      BY <2>1, <3>1, <3>2 DEF OtpRows
    <3> QED
      BY <3>3 DEF attempts, byIp
  <2>4. otp' = [otp EXCEPT ![a] = row]
    BY <1>0, <1>2, <1>4, <2>1
  <2> HIDE DEF row
  <2>5. /\ otp'[a] = row /\ row # NoRow /\ \A b \in Addresses : b # a => otp'[b] = otp[b]
        /\ otp' \in [Addresses -> OtpRows \cup {NoRow}]
    BY <1>0, <1>2, <2>3, <2>4, OneTimePasswordsAssumption
  <2>6. /\ tried' \in [1..MaxSent -> [Ips -> Nat]]
        /\ tried'[v.row.password] = [tried[v.row.password] EXCEPT ![v.ip] = @ + 1]
        /\ \A p \in 1..MaxSent : p # v.row.password => tried'[p] = tried[p]
    <3>1. [tried[v.row.password] EXCEPT ![v.ip] = @ + 1] \in [Ips -> Nat]
      BY <1>0, <1>2, <2>2
    <3>2. tried' = [tried EXCEPT ![v.row.password] = [tried[v.row.password] EXCEPT ![v.ip] = @ + 1]]
      BY <1>0, <1>4, <2>2
    <3> QED
      BY <1>0, <2>2, <3>1, <3>2
  \* what becomes of the slot
  <2>7. /\ next = Free \/ next \in Verifications(P)
        /\ next # Free => /\ next.row = v.row /\ next.address = a /\ next.at = "valid"
        /\ Free.at = "free"
    BY <1>2 DEF Verifications, UnderWay, Free
  <2> HIDE DEF next
  <2>8. verification'[i] = next /\ \A j \in Slots : j # i => verification'[j] = verification[j]
    BY <1>0, <1>4
  <2>9. \A j \in Slots : Busy(j)' => /\ Busy(j) /\ Loaded(j)' = Loaded(j)
                                     /\ verification'[j].address = verification[j].address
    BY <1>1, <2>7, <2>8 DEF Busy, UnderWay, Loaded
  <2>10. \A j \in Slots : verification'[j].at = "loaded" => verification'[j] = verification[j] /\ j # i
    BY <2>7, <2>8
  <2>11. \A j \in Slots : Busy(j) => verification[j].address \in Addresses /\ Loaded(j) \in OtpRows
    BY <1>0, BusyFacts
  \* the rows keep their ids and passwords, and RowOf(j) is the new one at this address
  <2>12. \A b \in Addresses : /\ otp'[b] # NoRow <=> otp[b] # NoRow
                              /\ otp[b] # NoRow => otp'[b].id = otp[b].id /\ otp'[b].password = otp[b].password
    BY <2>1, <2>3, <2>5
  <2>13. \A j \in Slots : Busy(j)' => RowOf(j)' = IF verification[j].address = a THEN row ELSE RowOf(j)
    BY <2>5, <2>9, <2>11 DEF RowOf
  <2>14. TypeOKPasswords(P)'
    BY <1>0, <1>1, <1>4, <2>5, <2>6, <2>7 DEF TypeOKPasswords
  <2>15. PasswordInv'
    <3>1. \A b \in Addresses : otp'[b] # NoRow =>
            otp'[b].id <= sent' /\ otp'[b].password <= sent' /\ otp'[b].password \notin used'
      BY <1>0, <1>1, <2>12 DEF PasswordInv
    <3>2. \A b, d \in Addresses : otp'[b] # NoRow /\ otp'[d] # NoRow /\ otp'[b].password = otp'[d].password => b = d
      BY <1>0, <2>12 DEF PasswordInv
    <3>3. \A j \in Slots : Busy(j)' => Loaded(j)'.id <= sent' /\ Loaded(j)'.password <= sent'
      BY <1>0, <1>1, <2>9 DEF PasswordInv
    <3>4. \A j \in Slots, b \in Addresses :
            Busy(j)' /\ otp'[b] # NoRow /\ otp'[b].password = Loaded(j)'.password =>
              b = verification'[j].address /\ otp'[b].id = Loaded(j)'.id
      BY <1>0, <2>9, <2>12 DEF PasswordInv
    <3> QED
      BY <3>1, <3>2, <3>3, <3>4 DEF PasswordInv
  <2>16. GuessInv'
    <3>1. RowOf(i) = otp[a]
      BY DEF RowOf
    <3>2. \/ v.row.password \in resent
          \/ /\ otp[a].password = v.row.password /\ otp[a].byIp = v.row.byIp
             /\ tried[v.row.password] = v.row.byIp /\ v.row.byIp[v.ip] < MaxAttempts
      BY <1>0, <1>1, <1>2, <2>1, <3>1 DEF GuessInv
    <3>3. v.row.password <= sent
      BY <1>0, <1>1, <1>2 DEF PasswordInv
    <3>4. \A p \in 1..MaxSent : p > sent' => tried'[p] = NoAttempts
      BY <1>0, <1>1, <2>2, <2>6, <3>3 DEF GuessInv
    <3>5. ASSUME NEW p \in 1..MaxSent, p \notin resent, NEW ip \in Ips
          PROVE  tried'[p][ip] <= MaxAttempts
      <4>1. tried[p][ip] <= MaxAttempts
        BY <1>0, <3>5 DEF GuessInv
      <4>2. CASE p # v.row.password
        BY <2>6, <4>1, <4>2
      <4>3. CASE p = v.row.password
        <5>1. tried[p] = v.row.byIp /\ v.row.byIp[v.ip] < MaxAttempts
          BY <3>2, <3>5, <4>3
        <5>2. v.row.byIp[v.ip] \in Nat
          BY <1>2, <2>2
        <5>3. tried'[p][ip] = IF ip = v.ip THEN v.row.byIp[v.ip] + 1 ELSE tried[p][ip]
          BY <2>2, <2>6, <4>3, <5>1
        <5> QED
          BY <1>0, <4>1, <5>1, <5>2, <5>3
      <4> QED
        BY <4>2, <4>3
    <3>6. ASSUME NEW b \in Addresses, otp'[b] # NoRow
          PROVE  otp'[b].password \in resent' \/ tried'[otp'[b].password] = otp'[b].byIp
      <4>1. CASE b = a
        <5>1. CASE v.row.password \in resent
          <6>1. otp[a].password \in resent
            BY <1>0, <1>1, <1>2, <2>1, <3>1, <5>1 DEF GuessInv
          <6> QED
            BY <1>1, <2>3, <2>5, <4>1, <6>1
        <5>2. CASE v.row.password \notin resent
          BY <2>3, <2>5, <2>6, <3>2, <4>1, <5>2
        <5> QED
          BY <5>1, <5>2
      <4>2. CASE b # a
        <5>1. otp'[b] = otp[b] /\ otp[b] # NoRow /\ otp[b] \in OtpRows
          BY <1>0, <2>5, <3>6, <4>2
        <5>2. otp[b].password = v.row.password => otp[b].password \in resent
          BY <1>0, <1>1, <1>2, <4>2, <5>1 DEF PasswordInv
        <5>3. otp[b].password \in 1..MaxSent
          BY <5>1 DEF OtpRows
        <5> QED
          BY <1>0, <1>1, <2>6, <5>1, <5>2, <5>3 DEF GuessInv
      <4> QED
        BY <4>1, <4>2
    <3>7. \A j \in Slots : verification'[j].at = "loaded" => Loaded(j)'.byIp[verification'[j].ip] < MaxAttempts
      BY <1>0, <2>10 DEF GuessInv, Loaded
    <3>8. ASSUME NEW j \in Slots, Busy(j)', RowOf(j)' # NoRow, RowOf(j)'.id = Loaded(j).id
          PROVE  \/ RowOf(j)'.password = Loaded(j).password
                 \/ RowOf(j)'.password \in resent' /\ Loaded(j).password \in resent'
      <4>1. RowOf(j) # NoRow /\ RowOf(j)'.id = RowOf(j).id /\ RowOf(j)'.password = RowOf(j).password
        BY <2>1, <2>3, <2>13, <3>8 DEF RowOf
      <4> QED
        BY <1>0, <1>1, <2>9, <3>8, <4>1 DEF GuessInv
    <3>9. ASSUME NEW j \in Slots, Busy(j)', RowOf(j)' # NoRow, RowOf(j)'.password = Loaded(j).password
          PROVE  /\ Loaded(j).attempts <= RowOf(j)'.attempts
                 /\ Loaded(j).attempts = RowOf(j)'.attempts => Loaded(j).byIp = RowOf(j)'.byIp
      <4>1. RowOf(j) # NoRow /\ RowOf(j)'.password = RowOf(j).password
        BY <2>1, <2>3, <2>13, <3>9 DEF RowOf
      <4>2. /\ Loaded(j).attempts <= RowOf(j).attempts
            /\ Loaded(j).attempts = RowOf(j).attempts => Loaded(j).byIp = RowOf(j).byIp
        BY <1>0, <2>9, <3>9, <4>1 DEF GuessInv
      <4>3. CASE verification[j].address # a
        BY <2>13, <3>9, <4>2, <4>3
      <4>4. CASE verification[j].address = a
        <5>1. RowOf(j) = otp[a] /\ RowOf(j)' = row
          BY <2>13, <3>9, <4>4 DEF RowOf
        <5>2. Loaded(j).attempts \in Nat
          BY <2>9, <2>11, <3>9 DEF OtpRows
        <5> QED
          BY <2>1, <2>2, <2>3, <4>2, <5>1, <5>2
      <4> QED
        BY <4>3, <4>4
    <3> QED
      BY <1>1, <2>9, <3>4, <3>5, <3>6, <3>7, <3>8, <3>9 DEF GuessInv
  <2> QED
    BY <2>14, <2>15, <2>16 DEF PInv
<1> QED
  BY <1>3, <1>4 DEF CountAttempt

\* An accepted password's row goes; if the row has another password by then, or is not
\* the same any more, no row has this one.
LEMMA UseKeeps ==
  ASSUME NEW P, PInv(P), NEW i \in Slots, UseOtp(i)
  PROVE  PInv(P)'
<1> DEFINE v == verification[i]
           a == v.address
<1>0. TypeOKPasswords(P) /\ PasswordInv /\ GuessInv
      /\ otp \in [Addresses -> OtpRows \cup {NoRow}]
      /\ verification \in [Slots -> Verifications(P) \cup {Free}]
      /\ sent \in Nat /\ used \subseteq 1..sent
  BY DEF PInv, TypeOKPasswords
<1>1. /\ v.at = "valid" /\ Busy(i) /\ UNCHANGED <<sent, tried, resent>>
      /\ otp' = Destroyed(v) /\ used' = used \cup {v.row.password}
      /\ verification' = [verification EXCEPT ![i] = Free]
  BY DEF UseOtp, Busy, UnderWay
<1>2. a \in Addresses /\ v.row = Loaded(i) /\ v.row \in OtpRows
  BY <1>0, <1>1, BusyFacts DEF Loaded
<1>3. v.row.password \in 1..sent
  BY <1>0, <1>1, <1>2 DEF PasswordInv, OtpRows
<1>4. \A b \in Addresses : otp'[b] # NoRow => otp'[b] = otp[b] /\ otp[b].password # v.row.password
  <2> SUFFICES ASSUME NEW b \in Addresses, otp'[b] # NoRow
               PROVE  otp'[b] = otp[b] /\ otp[b].password # v.row.password
    OBVIOUS
  <2>1. otp'[b] = otp[b] /\ (b = a => otp[b].id # v.row.id)
    BY <1>0, <1>1, <1>2 DEF Destroyed
  <2>2. otp[b].password = v.row.password => b = a /\ otp[b].id = v.row.id
    BY <1>0, <1>1, <1>2, <2>1 DEF PasswordInv
  <2> QED
    BY <2>1, <2>2
<1>5. otp' \in [Addresses -> OtpRows \cup {NoRow}]
  BY <1>0, <1>1 DEF Destroyed
<1>6. \A j \in Slots : Busy(j)' => Busy(j) /\ verification'[j] = verification[j] /\ Loaded(j)' = Loaded(j)
  BY <1>0, <1>1 DEF Busy, UnderWay, Loaded, Free
<1>7. \A j \in Slots : Busy(j)' /\ RowOf(j)' # NoRow => RowOf(j)' = RowOf(j)
  <2> SUFFICES ASSUME NEW j \in Slots, Busy(j)', RowOf(j)' # NoRow
               PROVE  RowOf(j)' = RowOf(j)
    OBVIOUS
  <2>1. verification[j].address \in Addresses
    BY <1>0, <1>6, BusyFacts
  <2> QED
    BY <1>4, <1>6, <2>1 DEF RowOf
<1>8. TypeOKPasswords(P)'
  BY <1>0, <1>1, <1>3, <1>5 DEF TypeOKPasswords
<1>9. PasswordInv'
  <2>1. \A b \in Addresses : otp'[b] # NoRow =>
          otp'[b].id <= sent' /\ otp'[b].password <= sent' /\ otp'[b].password \notin used'
    BY <1>0, <1>1, <1>4 DEF PasswordInv
  <2>2. \A b, d \in Addresses : otp'[b] # NoRow /\ otp'[d] # NoRow /\ otp'[b].password = otp'[d].password => b = d
    BY <1>0, <1>4 DEF PasswordInv
  <2>3. \A j \in Slots : Busy(j)' => Loaded(j)'.id <= sent' /\ Loaded(j)'.password <= sent'
    BY <1>0, <1>1, <1>6 DEF PasswordInv
  <2>4. \A j \in Slots, b \in Addresses :
          Busy(j)' /\ otp'[b] # NoRow /\ otp'[b].password = Loaded(j)'.password =>
            b = verification'[j].address /\ otp'[b].id = Loaded(j)'.id
    BY <1>0, <1>4, <1>6 DEF PasswordInv
  <2> QED
    BY <2>1, <2>2, <2>3, <2>4 DEF PasswordInv
<1>10. GuessInv'
  <2>1. \A b \in Addresses : otp'[b] # NoRow => otp'[b].password \in resent' \/ tried'[otp'[b].password] = otp'[b].byIp
    BY <1>0, <1>1, <1>4 DEF GuessInv
  <2>2. \A j \in Slots : verification'[j].at = "loaded" => Loaded(j)'.byIp[verification'[j].ip] < MaxAttempts
    BY <1>0, <1>6 DEF GuessInv, Busy, UnderWay
  <2>3. \A j \in Slots : Busy(j)' /\ RowOf(j)' # NoRow /\ RowOf(j)'.id = Loaded(j)'.id =>
          \/ RowOf(j)'.password = Loaded(j)'.password
          \/ RowOf(j)'.password \in resent' /\ Loaded(j)'.password \in resent'
    BY <1>0, <1>1, <1>6, <1>7 DEF GuessInv
  <2>4. \A j \in Slots : Busy(j)' /\ RowOf(j)' # NoRow /\ RowOf(j)'.password = Loaded(j)'.password =>
          /\ Loaded(j)'.attempts <= RowOf(j)'.attempts
          /\ Loaded(j)'.attempts = RowOf(j)'.attempts => Loaded(j)'.byIp = RowOf(j)'.byIp
    BY <1>0, <1>6, <1>7 DEF GuessInv
  <2> QED
    BY <1>0, <1>1, <2>1, <2>2, <2>3, <2>4 DEF GuessInv
<1> QED
  BY <1>8, <1>9, <1>10 DEF PInv

\* What a step may do to the passwords.
OtpStep(purposes) ==
  \/ \E a \in Addresses : SendOtp(a)
  \/ \E i \in Slots, a \in Addresses, ip \in Ips, guess \in 0..sent, for \in purposes :
       LoadOtp(i, a, ip, guess, for) /\ (for = "login" => a \in Emails)
  \/ \E i \in Slots : CountAttempt(i) \/ UseOtp(i) \/ DestroyExpired(i)
  \/ UNCHANGED otpVars

LEMMA OtpKeeps ==
  ASSUME NEW P, PInv(P), OtpStep(P)
  PROVE  PInv(P)'
<1>1. CASE UNCHANGED otpVars
  <2>1. UNCHANGED <<otp, sent, verification, used, tried, resent>>
    BY <1>1 DEF otpVars
  <2> QED
    BY <2>1 DEF PInv, TypeOKPasswords, PasswordInv, GuessInv, Busy, UnderWay, Loaded, RowOf
<1> QED
  BY <1>1, SendKeeps, LoadKeeps, CountKeeps, UseKeeps, ExpiredKeeps DEF OtpStep

-----------------------------------------------------------------------------
(* Members and notifications                                               *)

Sources == Emails \cup {NoRow}
MInv == TypeOKMembers(Emails, Sources) /\ MembersInv /\ OwnersInv /\ FoundInv /\ NotesInv

\* A slot does no more than before on notifications, or on the deletion of a member.
Shrinks(i) ==
  /\ Notifying(i)' =>
       /\ Notifying(i) /\ change'[i].source = change[i].source /\ change'[i].kind = change[i].kind
       /\ change'[i].todo \subseteq change[i].todo /\ change'[i].found \subseteq change[i].found
  /\ change'[i].at = "counted" => change[i].at = "counted" /\ change'[i].user = change[i].user

\* A note becomes recent only in a twin, and ceases to be in a twin or unfound.
Descends(n1, n) ==
  /\ n1.id = n.id /\ n1.member = n.member /\ KeyOf(n1) = KeyOf(n)
  /\ Recent(n1) => Recent(n) \/ KeyOf(n) \in twins'
  /\ Recent(n) => \/ Recent(n1) \/ KeyOf(n) \in twins'
                  \/ \A i \in Changers : Notifying(i)' => \A f \in change'[i].found : f.note # n.id

\* What was found stays found.
LEMMA FoundKept ==
  ASSUME MInv, TypeOKMembers(Emails, Sources)', \A i \in Changers : Shrinks(i), twins \subseteq twins',
         made.notes <= made'.notes
  PROVE  FoundInv'
<1>0. FoundInv /\ made \in [members : Nat, notes : Nat] /\ made' \in [members : Nat, notes : Nat]
  BY DEF MInv, TypeOKMembers
<1>1. \A i \in Changers : Notifying(i)' => \A f \in change'[i].found : KeyFound(i, f)' = KeyFound(i, f)
  BY DEF Shrinks, KeyFound
<1>2. \A i \in Changers : Notifying(i)' =>
        /\ \A m, n \in change'[i].todo : m.user = n.user => m = n
        /\ \A f, g \in change'[i].found : f.member.user = g.member.user => f = g
        /\ \A f \in change'[i].found, m \in change'[i].todo : f.member.user # m.user
  BY <1>0 DEF Shrinks, FoundInv
<1>3. ASSUME NEW i \in Changers, Notifying(i)', NEW f \in change'[i].found
      PROVE  f.note <= made'.notes
  <2>1. Notifying(i) /\ f \in change[i].found
    BY <1>3 DEF Shrinks
  <2>2. change[i] \in [at : {"notifying"}, source : Sources, kind : Kinds, todo : SUBSET Memberships,
                       found : SUBSET [member : Memberships, note : Nat]]
    BY <2>1 DEF MInv, TypeOKMembers, Changes, Notifying, Resting
  <2>3. f.note \in Nat
    BY <2>1, <2>2
  <2> QED
    BY <1>0, <2>1, <2>3 DEF FoundInv
<1>4. \A i, j \in Changers : Notifying(i)' /\ Notifying(j)' /\ i # j =>
        \A f \in change'[i].found, g \in change'[j].found :
          KeyFound(i, f)' = KeyFound(j, g)' => KeyFound(i, f)' \in twins'
  BY <1>0, <1>1 DEF Shrinks, FoundInv
<1> QED
  BY <1>2, <1>3, <1>4 DEF FoundInv

\* And what there is stays as it was found.
LEMMA NotesKept ==
  ASSUME MInv, \A i \in Changers : Shrinks(i), twins \subseteq twins',
         \A n1, o1 \in notes' : n1.id = o1.id => n1 = o1,
         \A n1 \in notes' : \E n \in notes : Descends(n1, n)
  PROVE  FoundNotes' /\ OneRecent'
<1>0. FoundInv /\ FoundNotes /\ OneRecent
  BY DEF MInv, NotesInv
<1>1. FoundNotes'
  <2> SUFFICES ASSUME NEW i \in Changers, Notifying(i)', NEW f \in change'[i].found, NEW n1 \in notes'
               PROVE  /\ n1.id = f.note =>
                           KeyOf(n1) = KeyFound(i, f)' /\ (Recent(n1) \/ KeyFound(i, f)' \in twins')
                      /\ f.note = 0 /\ change'[i].kind = "updated_request" /\ Recent(n1)
                         /\ KeyOf(n1) = KeyFound(i, f)' => KeyFound(i, f)' \in twins'
    BY DEF FoundNotes, KeyOf, Recent
  <2>1. /\ Notifying(i) /\ f \in change[i].found /\ KeyFound(i, f)' = KeyFound(i, f)
        /\ change'[i].kind = change[i].kind
    BY DEF Shrinks, KeyFound
  <2>2. PICK n \in notes : Descends(n1, n)
    OBVIOUS
  <2>3. ASSUME n1.id = f.note
        PROVE  KeyOf(n1) = KeyFound(i, f) /\ (Recent(n1) \/ KeyFound(i, f) \in twins')
    <3>1. KeyOf(n) = KeyFound(i, f) /\ (Recent(n) \/ KeyFound(i, f) \in twins)
      BY <1>0, <2>1, <2>2, <2>3 DEF Descends, FoundNotes
    <3>2. KeyOf(n1) = KeyOf(n) /\ (Recent(n) => Recent(n1) \/ KeyOf(n) \in twins')
      BY <2>2, <2>3 DEF Descends
    <3> QED
      BY <3>1, <3>2
  <2>4. ASSUME f.note = 0, change[i].kind = "updated_request", Recent(n1), KeyOf(n1) = KeyFound(i, f)
        PROVE  KeyFound(i, f) \in twins'
    <3>1. KeyOf(n) = KeyFound(i, f) /\ (Recent(n) \/ KeyOf(n) \in twins')
      BY <2>2, <2>4 DEF Descends
    <3> QED
      BY <1>0, <2>1, <2>4, <3>1 DEF FoundNotes
  <2> QED
    BY <2>1, <2>3, <2>4
<1>2. OneRecent'
  <2> SUFFICES ASSUME NEW n1 \in notes', NEW o1 \in notes', Recent(n1), Recent(o1), KeyOf(n1) = KeyOf(o1),
                      KeyOf(n1) \notin twins'
               PROVE  n1 = o1
    BY DEF OneRecent, KeyOf, Recent
  <2>1. PICK n \in notes : Descends(n1, n)
    OBVIOUS
  <2>2. PICK o \in notes : Descends(o1, o)
    OBVIOUS
  <2>3. Recent(n) /\ Recent(o) /\ KeyOf(n) = KeyOf(o) /\ KeyOf(n) \notin twins
    BY <2>1, <2>2 DEF Descends
  <2>4. n = o
    BY <1>0, <2>3 DEF OneRecent
  <2> QED
    BY <2>1, <2>2, <2>4 DEF Descends
<1> QED
  BY <1>1, <1>2

\* A slot is given something else to do, or nothing.
LEMMA ChangeShrinks ==
  ASSUME MInv, NEW i \in Changers, NEW new, new.at \notin {"notifying", "counted"},
         change' = [change EXCEPT ![i] = new]
  PROVE  \A j \in Changers : Shrinks(j)
<1>1. change'[i] = new /\ \A j \in Changers : j # i => change'[j] = change[j]
  BY DEF MInv, TypeOKMembers
<1> QED
  BY <1>1 DEF Shrinks, Notifying

\* ... and nothing else happens.
LEMMA QuietKeeps ==
  ASSUME MInv, NEW i \in Changers, NEW new \in Changes(Emails, Sources) \cup {Resting},
         new.at \notin {"notifying", "counted"}, change' = [change EXCEPT ![i] = new],
         UNCHANGED <<members, notes, made, clashed, twins, owed>>
  PROVE  MInv'
<1>0. TypeOKMembers(Emails, Sources) /\ MembersInv /\ OwnersInv /\ NotesInv
  BY DEF MInv
<1>1. \A j \in Changers : Shrinks(j)
  BY ChangeShrinks
<1>2. TypeOKMembers(Emails, Sources)'
  BY <1>0 DEF TypeOKMembers
<1>3. MembersInv'
  BY <1>0, <1>1 DEF MembersInv, Shrinks, AdminsOf
<1>4. OwnersInv'
  BY <1>0 DEF OwnersInv
<1>5. FoundInv'
  BY <1>0, <1>1, <1>2, FoundKept DEF TypeOKMembers
<1>6. FoundNotes' /\ OneRecent'
  <2>1. \A n \in notes' : Descends(n, n)
    BY DEF Descends
  <2>2. \A n, o \in notes' : n.id = o.id => n = o
    BY <1>0 DEF OwnersInv
  <2> QED
    BY <1>1, <2>1, <2>2, NotesKept
<1>7. OwedInv'
  BY <1>0 DEF NotesInv, OwedInv
<1> QED
  BY <1>2, <1>3, <1>4, <1>5, <1>6, <1>7 DEF MInv, NotesInv

\* A member is added, with an id that no notification has.
LEMMA AddKeeps ==
  ASSUME MInv, NEW i \in Changers, AddMember(i)
  PROVE  MInv'
<1>0. TypeOKMembers(Emails, Sources) /\ MembersInv /\ OwnersInv /\ NotesInv
  BY DEF MInv
<1>1. /\ change[i].at = "absent" /\ change' = [change EXCEPT ![i] = Resting]
      /\ UNCHANGED <<notes, clashed, twins, owed>>
      /\ Resting.at = "resting" /\ Resting \in Changes(Emails, Sources) \cup {Resting}
  BY DEF AddMember, Resting
<1>2. CASE UNCHANGED <<members, made>>
  BY <1>1, <1>2, QuietKeeps
<1>3. CASE /\ RowsOf(change[i].user) = {}
           /\ made' = [made EXCEPT !.members = @ + 1]
           /\ members' = members \cup {[id |-> made.members + 1, user |-> change[i].user, role |-> change[i].role]}
  <2> DEFINE m1 == [id |-> made.members + 1, user |-> change[i].user, role |-> change[i].role]
  <2>1. change[i].user \in Ids /\ change[i].role \in Roles
    <3>1. change[i] \in [at : {"absent"}, user : Ids, role : Roles]
      BY <1>0, <1>1 DEF TypeOKMembers, Changes, Resting
    <3> QED
      BY <3>1
  <2>2. /\ made.members \in Nat /\ made.notes \in Nat /\ made'.members = made.members + 1
        /\ made'.notes = made.notes /\ made' \in [members : Nat, notes : Nat]
    BY <1>0, <1>3 DEF TypeOKMembers
  <2>3. m1 \in Memberships /\ m1.id = made.members + 1 /\ m1.user = change[i].user
    BY <2>1, <2>2 DEF Memberships
  <2>4. members' = members \cup {m1} /\ \A m \in members : m.user # m1.user
    BY <1>3, <2>3 DEF RowsOf
  <2> HIDE DEF m1
  <2>5. \A j \in Changers : Shrinks(j)
    BY <1>1, ChangeShrinks
  <2>6. TypeOKMembers(Emails, Sources)'
    BY <1>0, <1>1, <2>2, <2>3, <2>4 DEF TypeOKMembers
  <2>7. \A m \in members : m.id \in Nat /\ m.id <= made.members
    BY <1>0 DEF TypeOKMembers, Memberships, MembersInv
  <2>8. MembersInv'
    <3>1. \A m \in members' : m.id <= made'.members
      BY <2>2, <2>3, <2>4, <2>7
    <3>2. \A m, n \in members' : m.id = n.id \/ m.user = n.user => m = n
      BY <1>0, <2>2, <2>3, <2>4, <2>7 DEF MembersInv
    <3>3. AdminsOf(members) \subseteq AdminsOf(members')
      BY <2>4 DEF AdminsOf
    <3>4. AdminsOf(members)' = AdminsOf(members')
      BY DEF AdminsOf
    <3> QED
      BY <1>0, <1>1, <2>5, <3>1, <3>2, <3>3, <3>4 DEF MembersInv, Shrinks
  <2>9. OwnersInv'
    <3>1. \A n \in notes : n.member \in Nat /\ n.member <= made.members /\ n.id <= made.notes
      BY <1>0 DEF OwnersInv, TypeOKMembers
    <3> QED
      BY <1>0, <1>1, <2>2, <2>3, <2>4, <3>1 DEF OwnersInv
  <2>10. FoundInv'
    BY <1>1, <2>2, <2>5, <2>6, FoundKept
  <2>11. FoundNotes' /\ OneRecent'
    <3>1. \A n \in notes' : Descends(n, n)
      BY <1>1 DEF Descends
    <3>2. \A n, o \in notes' : n.id = o.id => n = o
      BY <1>0, <1>1 DEF OwnersInv
    <3> QED
      BY <1>1, <2>5, <3>1, <3>2, NotesKept
  <2>12. OwedInv'
    BY <1>0, <1>1 DEF NotesInv, OwedInv
  <2> QED
    BY <2>6, <2>8, <2>9, <2>10, <2>11, <2>12 DEF MInv, NotesInv
<1> QED
  BY <1>2, <1>3 DEF AddMember

\* A deletion counts the admins: another one remains.
LEMMA CountAdminsKeeps ==
  ASSUME MInv, NEW i \in Changers, CountAdmins(i)
  PROVE  MInv'
<1>0. TypeOKMembers(Emails, Sources) /\ MembersInv /\ OwnersInv /\ NotesInv
  BY DEF MInv
<1>1. /\ change[i].at = "removing" /\ UNCHANGED <<members, notes, made, clashed, twins, owed>>
      /\ Resting.at = "resting" /\ Resting \in Changes(Emails, Sources) \cup {Resting}
  BY DEF CountAdmins, Resting
<1>2. CASE change' = [change EXCEPT ![i] = Resting]
  BY <1>1, <1>2, QuietKeeps
<1>3. CASE MayGo(change[i].user) /\ change' = [change EXCEPT ![i] = [change[i] EXCEPT !.at = "counted"]]
  <2> DEFINE new == [change[i] EXCEPT !.at = "counted"]
  <2>1. change[i] \in [at : {"removing", "counted"}, user : Ids]
    BY <1>0, <1>1 DEF TypeOKMembers, Changes, Resting
  <2>2. new \in [at : {"removing", "counted"}, user : Ids] /\ new.at = "counted" /\ new.user = change[i].user
    BY <2>1
  <2> HIDE DEF new
  <2>3. change' = [change EXCEPT ![i] = new]
    BY <1>3 DEF new
  <2>4. change'[i] = new /\ \A j \in Changers : j # i => change'[j] = change[j]
    BY <1>0, <2>3 DEF TypeOKMembers
  <2>5. clashed \/ \E m \in AdminsOf(members) : m.user # change[i].user
    <3>1. PICK own \in RowsOf(change[i].user) : AdminsOf(members) # {own}
      BY <1>3 DEF MayGo
    <3>2. own \in members /\ own.user = change[i].user
      BY <3>1 DEF RowsOf
    <3>3. \A m \in AdminsOf(members) : m \in members /\ (m.user = change[i].user => m = own)
      BY <1>0, <3>2 DEF MembersInv, AdminsOf
    <3> QED
      BY <1>0, <3>1, <3>3 DEF MembersInv
  <2>6. TypeOKMembers(Emails, Sources)'
    <3>1. new \in Changes(Emails, Sources)
      BY <2>2 DEF Changes
    <3> QED
      BY <1>0, <1>1, <2>3, <3>1 DEF TypeOKMembers
  <2>7. MembersInv'
    <3>1. \A j \in Changers : change'[j].at = "counted" =>
            clashed \/ \E m \in AdminsOf(members) : m.user # change'[j].user
      BY <1>0, <2>2, <2>4, <2>5 DEF MembersInv
    <3> QED
      BY <1>0, <1>1, <3>1 DEF MembersInv, AdminsOf
  <2>8. OwnersInv' /\ FoundInv' /\ NotesInv'
    <3>1. \A j \in Changers : /\ Notifying(j)' <=> Notifying(j)
                              /\ Notifying(j) => change'[j] = change[j]
      BY <1>1, <2>2, <2>4 DEF Notifying
    <3>2. OwnersInv'
      BY <1>0, <1>1 DEF OwnersInv
    <3>3. FoundInv'
      BY <1>1, <3>1 DEF MInv, FoundInv, KeyFound
    <3>4. NotesInv'
      BY <1>0, <1>1, <3>1 DEF NotesInv, FoundNotes, OneRecent, OwedInv, KeyFound
    <3> QED
      BY <3>2, <3>3, <3>4
  <2> QED
    BY <2>6, <2>7, <2>8 DEF MInv
<1> QED
  BY <1>2, <1>3 DEF CountAdmins

\* A member goes, with its notifications: the admin counted remains, unless another had
\* been counted on too.
LEMMA RemoveKeeps ==
  ASSUME MInv, NEW i \in Changers, RemoveMember(i)
  PROVE  MInv'
<1> DEFINE user == change[i].user
           gone == RowsOf(user)
<1>0. TypeOKMembers(Emails, Sources) /\ MembersInv /\ OwnersInv /\ FoundInv /\ NotesInv
  BY DEF MInv
<1>1. /\ change[i].at = "counted" /\ members' = members \ gone
      /\ notes' = {n \in notes : \A m \in gone : n.member # m.id}
      /\ owed' = {o \in owed : o.user # user}
      /\ clashed' = (clashed \/ \E j \in Changers \ {i} :
                       /\ change[j].at = "counted" /\ change[j].user # user
                       /\ IsAdmin(change[j].user) /\ IsAdmin(user))
      /\ change' = [change EXCEPT ![i] = Resting]
      /\ UNCHANGED <<made, twins>> /\ Resting.at = "resting"
  BY DEF RemoveMember, Resting
<1>2. \A j \in Changers : Shrinks(j)
  BY <1>1, ChangeShrinks
<1>3. notes' \subseteq notes /\ members' \subseteq members /\ owed' \subseteq owed /\ (clashed => clashed')
  BY <1>1
<1>4. TypeOKMembers(Emails, Sources)'
  <2>1. change' \in [Changers -> Changes(Emails, Sources) \cup {Resting}]
    BY <1>0, <1>1 DEF TypeOKMembers
  <2>2. clashed' \in BOOLEAN
    BY <1>1
  <2> QED
    BY <1>0, <1>1, <1>3, <2>1, <2>2 DEF TypeOKMembers
<1>5. MembersInv'
  <2>1. clashed \/ \E m \in AdminsOf(members) : m.user # user
    BY <1>0, <1>1 DEF MembersInv
  <2>2. \A m \in AdminsOf(members) : m.user # user => m \in AdminsOf(members')
    BY <1>1 DEF AdminsOf, RowsOf
  <2>3. clashed' \/ AdminsOf(members') # {}
    BY <1>3, <2>1, <2>2
  <2>4. ASSUME NEW j \in Changers, change'[j].at = "counted"
        PROVE  clashed' \/ \E m \in AdminsOf(members') : m.user # change'[j].user
    <3>1. j # i /\ change'[j] = change[j] /\ change[j].at = "counted"
      BY <1>0, <1>1, <2>4 DEF TypeOKMembers
    <3>2. clashed \/ \E m \in AdminsOf(members) : m.user # change[j].user
      BY <1>0, <3>1 DEF MembersInv
    <3>3. \A u : IsAdmin(u) <=> \E m \in AdminsOf(members) : m.user = u
      BY DEF IsAdmin, AdminsOf, RowsOf
    \* the admin counted on stays, or another has been counted by this deletion
    <3>4. CASE change[j].user = user
      BY <1>3, <2>1, <2>2, <3>1, <3>4
    <3>5. CASE change[j].user # user /\ IsAdmin(change[j].user) /\ IsAdmin(user)
      BY <1>1, <3>1, <3>5
    <3>6. CASE ~IsAdmin(change[j].user)
      BY <1>3, <2>1, <2>2, <3>1, <3>3, <3>6
    <3>7. CASE ~IsAdmin(user)
      BY <1>3, <2>2, <3>1, <3>2, <3>3, <3>7
    <3> QED
      BY <3>4, <3>5, <3>6, <3>7
  <2> QED
    BY <1>0, <1>1, <1>3, <2>3, <2>4 DEF MembersInv, AdminsOf
<1>6. OwnersInv'
  BY <1>0, <1>1, <1>3 DEF OwnersInv
<1>7. FoundInv'
  BY <1>0, <1>1, <1>2, <1>4, FoundKept DEF TypeOKMembers
<1>8. FoundNotes' /\ OneRecent'
  <2>1. \A n \in notes' : n \in notes /\ Descends(n, n)
    BY <1>3 DEF Descends
  <2>2. \A n, o \in notes' : n.id = o.id => n = o
    BY <1>0, <1>3 DEF OwnersInv
  <2> QED
    BY <1>1, <1>2, <2>1, <2>2, NotesKept
<1>9. OwedInv'
  <2> SUFFICES ASSUME NEW o \in owed'
               PROVE  \E n \in notes' : KeyOf(n) = o /\ ~n.read
    BY DEF OwedInv, KeyOf
  <2>1. o \in owed /\ o.user # user
    BY <1>1
  <2>2. PICK n \in notes : KeyOf(n) = o /\ ~n.read
    BY <1>0, <2>1 DEF NotesInv, OwedInv
  <2>3. n.user # user
    BY <2>1, <2>2 DEF KeyOf
  <2>4. \A m \in gone : n.member # m.id
    BY <1>0, <2>3 DEF OwnersInv, RowsOf
  <2> QED
    BY <1>1, <2>2, <2>4
<1> QED
  BY <1>4, <1>5, <1>6, <1>7, <1>8, <1>9 DEF MInv, NotesInv

\* A request begins to notify the other members.
LEMMA StartNoticesKeeps ==
  ASSUME MInv, NEW i \in Changers, NEW user, NEW source \in Sources, NEW kind \in Kinds,
         StartNotices(i, user, source, kind)
  PROVE  MInv'
<1> DEFINE new == [at |-> "notifying", source |-> source, kind |-> kind, todo |-> Recipients(user), found |-> {}]
<1>0. TypeOKMembers(Emails, Sources) /\ MembersInv /\ OwnersInv /\ FoundInv /\ NotesInv
  BY DEF MInv
<1>1. UNCHANGED <<members, notes, made, clashed, twins, owed>>
      /\ Resting.at = "resting" /\ Resting \in Changes(Emails, Sources) \cup {Resting}
  BY DEF StartNotices, Resting
<1>2. CASE change' = [change EXCEPT ![i] = Resting]
  BY <1>1, <1>2, QuietKeeps
<1>3. CASE change' = [change EXCEPT ![i] = new]
  <2>1. Recipients(user) \subseteq members /\ members \subseteq Memberships
    BY <1>0 DEF Recipients, TypeOKMembers
  <2>2. new \in Changes(Emails, Sources) /\ new.at = "notifying" /\ new.found = {} /\ new.todo = Recipients(user)
    BY <2>1 DEF Changes
  <2> HIDE DEF new
  <2>3. change'[i] = new /\ \A j \in Changers : j # i => change'[j] = change[j]
    BY <1>0, <1>3 DEF TypeOKMembers
  <2>4. TypeOKMembers(Emails, Sources)'
    BY <1>0, <1>1, <1>3, <2>2 DEF TypeOKMembers
  <2>5. MembersInv'
    <3>1. \A j \in Changers : change'[j].at = "counted" => change'[j] = change[j]
      BY <2>2, <2>3
    <3> QED
      BY <1>0, <1>1, <3>1 DEF MembersInv, AdminsOf
  <2>6. OwnersInv'
    BY <1>0, <1>1 DEF OwnersInv
  <2>7. FoundInv'
    <3>1. \A m, n \in new.todo : m.user = n.user => m = n
      BY <1>0, <2>1, <2>2 DEF MembersInv
    <3>2. \A j \in Changers : Notifying(j)' /\ j # i => Notifying(j) /\ change'[j] = change[j]
      BY <2>3 DEF Notifying
    <3>3. \A j \in Changers : j # i => \A f : KeyFound(j, f)' = KeyFound(j, f)
      BY <2>3 DEF KeyFound
    <3>4. \A j \in Changers : Notifying(j)' =>
            /\ \A m, n \in change'[j].todo : m.user = n.user => m = n
            /\ \A f, g \in change'[j].found : f.member.user = g.member.user => f = g
            /\ \A f \in change'[j].found, m \in change'[j].todo : f.member.user # m.user
            /\ \A f \in change'[j].found : f.note <= made'.notes
      BY <1>0, <1>1, <2>2, <2>3, <3>1, <3>2 DEF FoundInv
    <3>5. \A j, k \in Changers : Notifying(j)' /\ Notifying(k)' /\ j # k =>
            \A f \in change'[j].found, g \in change'[k].found :
              KeyFound(j, f)' = KeyFound(k, g)' => KeyFound(j, f)' \in twins'
      BY <1>0, <1>1, <2>2, <2>3, <3>2, <3>3 DEF FoundInv
    <3> QED
      BY <3>4, <3>5 DEF FoundInv
  <2>8. FoundNotes'
    <3>1. \A j \in Changers : Notifying(j)' => change'[j].found = {} \/ (Notifying(j) /\ change'[j] = change[j])
      BY <2>2, <2>3 DEF Notifying
    <3> QED
      BY <1>0, <1>1, <3>1 DEF NotesInv, FoundNotes, KeyFound
  <2>9. OneRecent' /\ OwedInv'
    BY <1>0, <1>1 DEF NotesInv, OneRecent, OwedInv
  <2> QED
    BY <2>4, <2>5, <2>6, <2>7, <2>8, <2>9 DEF MInv, NotesInv
<1> QED
  BY <1>2, <1>3 DEF StartNotices

\* A search: what it finds is what there is, and it meets those of the others.
LEMMA SearchKeeps ==
  ASSUME MInv, NEW i \in Changers, NEW m \in change[i].todo, SearchNote(i, m)
  PROVE  MInv'
<1> DEFINE c == change[i]
           key == [user |-> m.user, source |-> c.source]
           recent == RecentNotes(c.kind, m.user, c.source)
           another == \E j \in Changers \ {i} : change[j].at = "notifying" /\ change[j].source = c.source
                        /\ \E f \in change[j].found : f.member.user = m.user
<1>0. TypeOKMembers(Emails, Sources) /\ MembersInv /\ OwnersInv /\ FoundInv /\ NotesInv
  BY DEF MInv
<1>1. /\ c.at = "notifying" /\ m \in c.todo /\ Notifying(i)
      /\ twins' = IF another THEN twins \cup {key} ELSE twins
      /\ UNCHANGED <<members, notes, made, clashed, owed>>
  BY DEF SearchNote, Notifying
<1>2. PICK note \in IF recent = {} THEN {0} ELSE {n.id : n \in recent} :
        change' = [change EXCEPT ![i].todo = @ \ {m}, ![i].found = @ \cup {[member |-> m, note |-> note]}]
  BY DEF SearchNote
<1> DEFINE g == [member |-> m, note |-> note]
           new == [c EXCEPT !.todo = @ \ {m}, !.found = @ \cup {g}]
<1>3. c \in [at : {"notifying"}, source : Sources, kind : Kinds, todo : SUBSET Memberships,
             found : SUBSET [member : Memberships, note : Nat]]
  BY <1>0, <1>1 DEF TypeOKMembers, Changes, Resting
<1>4. m \in Memberships /\ m.user \in Ids /\ key \in Keys(Sources)
  <2>1. m \in Memberships
    BY <1>1, <1>3
  <2>2. m.user \in Ids /\ c.source \in Sources
    BY <1>3, <2>1 DEF Memberships
  <2> QED
    BY <2>1, <2>2 DEF Keys
<1>5. note \in Nat /\ note <= made.notes
  <2>1. \A n \in notes : n.id \in Nat /\ n.id <= made.notes
    BY <1>0 DEF TypeOKMembers, OwnersInv
  <2>2. recent \subseteq notes
    BY DEF RecentNotes
  <2>3. made.notes \in Nat
    BY <1>0 DEF TypeOKMembers
  <2> QED
    BY <2>1, <2>2, <2>3
<1>6. /\ new \in [at : {"notifying"}, source : Sources, kind : Kinds, todo : SUBSET Memberships,
                  found : SUBSET [member : Memberships, note : Nat]]
      /\ new.at = "notifying" /\ new.source = c.source /\ new.kind = c.kind
      /\ new.todo = c.todo \ {m} /\ new.found = c.found \cup {g} /\ g.member = m /\ g.note = note
  <2> DEFINE todo == c.todo \ {m}
             found == c.found \cup {g}
  <2>1. g \in [member : Memberships, note : Nat] /\ g.member = m /\ g.note = note
    BY <1>4, <1>5
  <2>2. todo \in SUBSET Memberships /\ found \in SUBSET [member : Memberships, note : Nat]
    BY <1>3, <2>1
  <2>3. new = [c EXCEPT !.todo = todo, !.found = found]
    BY <1>3
  <2> HIDE DEF c, new, todo, found
  <2>4. /\ new \in [at : {"notifying"}, source : Sources, kind : Kinds, todo : SUBSET Memberships,
                    found : SUBSET [member : Memberships, note : Nat]]
        /\ new.at = "notifying" /\ new.source = c.source /\ new.kind = c.kind
        /\ new.todo = todo /\ new.found = found
    BY <1>3, <2>2, <2>3
  <2> QED
    BY <2>1, <2>4 DEF todo, found
<1>7. change' = [change EXCEPT ![i] = new]
  BY <1>0, <1>2, <1>3 DEF TypeOKMembers
<1> HIDE DEF new, g, recent, another
<1>8. change'[i] = new /\ \A j \in Changers : j # i => change'[j] = change[j]
  BY <1>0, <1>7 DEF TypeOKMembers
<1>9. twins \subseteq twins' /\ twins' \subseteq Keys(Sources)
  BY <1>0, <1>1, <1>4 DEF TypeOKMembers
<1>10. KeyFound(i, g)' = key /\ \A j \in Changers : \A f : KeyFound(j, f)' = KeyFound(j, f)
  BY <1>6, <1>8 DEF KeyFound
<1>11. \A j \in Changers : j # i /\ Notifying(j) => \A f \in change[j].found : KeyFound(j, f) = key => key \in twins'
  <2> SUFFICES ASSUME NEW j \in Changers, j # i, Notifying(j), NEW f \in change[j].found, KeyFound(j, f) = key
               PROVE  key \in twins'
    OBVIOUS
  <2>1. change[j].source = c.source /\ f.member.user = m.user
    BY DEF KeyFound
  <2>2. another
    BY <2>1 DEF another, Notifying
  <2> QED
    BY <1>1, <2>2
<1>12. \A j \in Changers : (Notifying(j)' <=> Notifying(j)) /\ (change'[j].at = "counted" => change'[j] = change[j])
  BY <1>1, <1>6, <1>8 DEF Notifying
<1>13. TypeOKMembers(Emails, Sources)'
  <2>1. new \in Changes(Emails, Sources)
    BY <1>6 DEF Changes
  <2> QED
    BY <1>0, <1>1, <1>7, <1>9, <2>1 DEF TypeOKMembers
<1>14. MembersInv' /\ OwnersInv'
  BY <1>0, <1>1, <1>12 DEF MembersInv, OwnersInv, AdminsOf
<1>15. FoundInv'
  <2>1. ASSUME NEW j \in Changers, Notifying(j)
        PROVE  /\ \A k, n \in change'[j].todo : k.user = n.user => k = n
               /\ \A f, h \in change'[j].found : f.member.user = h.member.user => f = h
               /\ \A f \in change'[j].found, k \in change'[j].todo : f.member.user # k.user
               /\ \A f \in change'[j].found : f.note <= made'.notes
    <3>1. CASE j # i
      BY <1>0, <1>1, <1>8, <2>1, <3>1 DEF FoundInv
    <3>2. CASE j = i
      <4>1. /\ \A k, n \in c.todo : k.user = n.user => k = n
            /\ \A f, h \in c.found : f.member.user = h.member.user => f = h
            /\ \A f \in c.found, k \in c.todo : f.member.user # k.user
            /\ \A f \in c.found : f.note <= made.notes
        BY <1>0, <1>1 DEF FoundInv
      <4>2. change'[j].todo = c.todo \ {m} /\ change'[j].found = c.found \cup {g}
        BY <1>6, <1>8, <3>2
      <4> QED
        BY <1>1, <1>5, <1>6, <4>1, <4>2
    <3> QED
      BY <3>1, <3>2
  <2>2. ASSUME NEW j \in Changers, NEW k \in Changers, Notifying(j), Notifying(k), j # k,
               NEW f \in change'[j].found, NEW h \in change'[k].found, KeyFound(j, f)' = KeyFound(k, h)'
        PROVE  KeyFound(j, f)' \in twins'
    <3>1. CASE f \in change[j].found /\ h \in change[k].found
      BY <1>0, <1>9, <1>10, <2>2, <3>1 DEF FoundInv
    <3>2. CASE f \notin change[j].found
      <4>1. j = i /\ f = g
        BY <1>6, <1>8, <2>2, <3>2
      <4>2. h \in change[k].found
        BY <1>8, <2>2, <4>1
      <4> QED
        BY <1>10, <1>11, <2>2, <4>1, <4>2
    <3>3. CASE h \notin change[k].found
      <4>1. k = i /\ h = g
        BY <1>6, <1>8, <2>2, <3>3
      <4>2. f \in change[j].found
        BY <1>8, <2>2, <4>1
      <4> QED
        BY <1>10, <1>11, <2>2, <4>1, <4>2
    <3> QED
      BY <3>1, <3>2, <3>3
  <2> QED
    BY <1>12, <2>1, <2>2 DEF FoundInv
<1>16. FoundNotes'
  <2> SUFFICES ASSUME NEW j \in Changers, Notifying(j), NEW f \in change'[j].found, NEW n \in notes
               PROVE  /\ n.id = f.note => KeyOf(n) = KeyFound(j, f) /\ (Recent(n) \/ KeyFound(j, f) \in twins')
                      /\ f.note = 0 /\ change'[j].kind = "updated_request" /\ Recent(n) /\ KeyOf(n) = KeyFound(j, f) =>
                           KeyFound(j, f) \in twins'
    BY <1>1, <1>10, <1>12 DEF FoundNotes
  <2>1. change'[j].kind = change[j].kind
    BY <1>6, <1>8
  <2>2. CASE f \in change[j].found
    BY <1>0, <1>9, <2>1, <2>2 DEF NotesInv, FoundNotes
  <2>3. CASE f \notin change[j].found
    <3>1. j = i /\ f = g /\ f.note = note /\ KeyFound(j, f) = key
      BY <1>6, <1>8, <1>10, <2>3
    <3>2. ASSUME n.id = note
          PROVE  KeyOf(n) = key /\ Recent(n)
      <4>1. n.id # 0
        BY <1>0 DEF TypeOKMembers
      <4>2. PICK o \in recent : note = o.id
        BY <1>2, <3>2, <4>1
      <4>3. o \in notes /\ Recent(o) /\ KeyOf(o) = key
        BY <4>2 DEF recent, RecentNotes, Recent, KeyOf
      <4>4. n = o
        BY <1>0, <3>2, <4>2, <4>3 DEF OwnersInv
      <4> QED
        BY <4>3, <4>4
    <3>3. ASSUME note = 0, c.kind = "updated_request", Recent(n), KeyOf(n) = key
          PROVE  FALSE
      <4>1. n.user = m.user /\ n.source = c.source
        BY <3>3 DEF KeyOf
      <4>2. n \in recent
        BY <3>3, <4>1 DEF recent, RecentNotes, Recent
      <4>3. PICK o \in recent : o.id = 0
        BY <1>2, <3>3, <4>2
      <4>4. o \in notes
        BY <4>3 DEF recent, RecentNotes
      <4> QED
        BY <1>0, <4>3, <4>4 DEF TypeOKMembers
    <3> QED
      BY <2>1, <3>1, <3>2, <3>3
  <2> QED
    BY <2>2, <2>3
<1>17. OneRecent' /\ OwedInv'
  BY <1>0, <1>1, <1>9 DEF NotesInv, OneRecent, OwedInv
<1> QED
  BY <1>13, <1>14, <1>15, <1>16, <1>17 DEF MInv, NotesInv

\* What the search found is renewed, if it is still there, or a notification is added.
LEMMA WriteKeeps ==
  ASSUME MInv, NEW i \in Changers, NEW f \in change[i].found, WriteNote(i, f)
  PROVE  MInv'
<1> DEFINE c == change[i]
           key == [user |-> f.member.user, source |-> c.source]
           left == c.found \ {f}
           less == [c EXCEPT !.found = left]
           new == IF c.todo = {} /\ left = {} THEN Resting ELSE less
<1>0. TypeOKMembers(Emails, Sources) /\ MembersInv /\ OwnersInv /\ FoundInv /\ FoundNotes /\ OneRecent /\ OwedInv
  BY DEF MInv, NotesInv
<1>1. /\ c.at = "notifying" /\ f \in c.found /\ change' = [change EXCEPT ![i] = new]
      /\ UNCHANGED <<members, clashed, twins>> /\ Notifying(i)
      /\ \/ /\ f.note # 0
            /\ notes' = {IF n.id = f.note THEN Renewed(n) ELSE n : n \in notes}
            /\ owed' = IF \E n \in notes : n.id = f.note THEN owed \cup {key} ELSE owed
            /\ UNCHANGED made
         \/ /\ f.note = 0 /\ f.member \in members
            /\ made' = [made EXCEPT !.notes = @ + 1]
            /\ notes' = notes \cup {[id |-> made.notes + 1, member |-> f.member.id, user |-> f.member.user,
                                     source |-> c.source, kind |-> c.kind, recent |-> TRUE, read |-> FALSE]}
            /\ owed' = owed \cup {key}
         \/ UNCHANGED <<notes, made, owed>>
  BY DEF WriteNote, Notifying
<1>2. c \in [at : {"notifying"}, source : Sources, kind : Kinds, todo : SUBSET Memberships,
             found : SUBSET [member : Memberships, note : Nat]]
  BY <1>0, <1>1 DEF TypeOKMembers, Changes, Resting
<1>3. /\ f.member \in Memberships /\ f.note \in Nat /\ c.source \in Sources /\ c.kind \in Kinds
      /\ key \in Keys(Sources) /\ KeyFound(i, f) = key
  <2>1. f \in [member : Memberships, note : Nat] /\ c.source \in Sources /\ c.kind \in Kinds
    BY <1>1, <1>2
  <2>2. f.member.user \in Ids
    BY <2>1 DEF Memberships
  <2> QED
    BY <2>1, <2>2 DEF Keys, KeyFound
<1>4. /\ less \in [at : {"notifying"}, source : Sources, kind : Kinds, todo : SUBSET Memberships,
                   found : SUBSET [member : Memberships, note : Nat]]
      /\ less.at = "notifying" /\ less.source = c.source /\ less.kind = c.kind
      /\ less.todo = c.todo /\ less.found = left
  BY <1>2
<1> HIDE DEF less
<1>5. change'[i] = new /\ \A j \in Changers : j # i => change'[j] = change[j]
  BY <1>0, <1>1 DEF TypeOKMembers
<1>6. \A j \in Changers : Shrinks(j)
  <2>1. Resting.at = "resting"
    BY DEF Resting
  <2> QED
    BY <1>1, <1>4, <1>5, <2>1 DEF Shrinks, Notifying
<1>7. change' \in [Changers -> Changes(Emails, Sources) \cup {Resting}]
  <2>1. new \in Changes(Emails, Sources) \cup {Resting}
    BY <1>4 DEF Changes
  <2> QED
    BY <1>0, <1>1, <2>1 DEF TypeOKMembers
<1>8. Notifying(i)' => change'[i].found = left
  <2>1. Resting.at # "notifying"
    BY DEF Resting
  <2> QED
    BY <1>4, <1>5, <2>1 DEF Notifying
<1> HIDE DEF new
<1>9. made \in [members : Nat, notes : Nat] /\ made.members \in Nat /\ made.notes \in Nat
  BY <1>0 DEF TypeOKMembers
<1>10. ASSUME made' \in [members : Nat, notes : Nat], made'.members = made.members, made.notes <= made'.notes,
              notes' \subseteq [id : Nat \ {0}, member : Nat \ {0}, user : Ids, source : Sources, kind : Kinds,
                                recent : BOOLEAN, read : BOOLEAN],
              owed' \subseteq Keys(Sources)
       PROVE  TypeOKMembers(Emails, Sources)' /\ MembersInv' /\ FoundInv'
  <2>1. TypeOKMembers(Emails, Sources)'
    BY <1>0, <1>1, <1>7, <1>10 DEF TypeOKMembers
  <2>2. MembersInv'
    BY <1>0, <1>1, <1>6, <1>10 DEF MembersInv, AdminsOf, Shrinks
  <2> QED
    BY <1>1, <1>6, <1>10, <2>1, <2>2, FoundKept
<1>11. CASE UNCHANGED <<notes, made, owed>>
  <2>1. TypeOKMembers(Emails, Sources)' /\ MembersInv' /\ FoundInv'
    BY <1>0, <1>9, <1>10, <1>11 DEF TypeOKMembers
  <2>2. OwnersInv' /\ OwedInv'
    BY <1>0, <1>1, <1>11 DEF OwnersInv, OwedInv, KeyOf
  <2>3. \A n \in notes' : Descends(n, n)
    BY DEF Descends
  <2>4. FoundNotes' /\ OneRecent'
    BY <1>1, <1>6, <1>11, <2>2, <2>3, NotesKept DEF OwnersInv
  <2> QED
    BY <2>1, <2>2, <2>4 DEF MInv, NotesInv
<1>12. CASE /\ f.note # 0
            /\ notes' = {IF n.id = f.note THEN Renewed(n) ELSE n : n \in notes}
            /\ owed' = IF \E n \in notes : n.id = f.note THEN owed \cup {key} ELSE owed
            /\ UNCHANGED made
  <2>1. \A n \in notes : /\ Renewed(n).id = n.id /\ Renewed(n).member = n.member /\ Renewed(n).user = n.user
                         /\ Renewed(n).source = n.source /\ Renewed(n).kind = n.kind
                         /\ Renewed(n).read = FALSE /\ Renewed(n).recent = TRUE
                         /\ Renewed(n) \in [id : Nat \ {0}, member : Nat \ {0}, user : Ids, source : Sources,
                                            kind : Kinds, recent : BOOLEAN, read : BOOLEAN]
    BY <1>0 DEF TypeOKMembers, Renewed
  <2>2. notes' \subseteq [id : Nat \ {0}, member : Nat \ {0}, user : Ids, source : Sources, kind : Kinds,
                          recent : BOOLEAN, read : BOOLEAN]
    BY <1>0, <1>12, <2>1 DEF TypeOKMembers
  <2>3. TypeOKMembers(Emails, Sources)' /\ MembersInv' /\ FoundInv'
    <3>1. owed' \subseteq Keys(Sources)
      BY <1>0, <1>3, <1>12 DEF TypeOKMembers
    <3> QED
      BY <1>9, <1>10, <1>12, <2>2, <3>1
  <2>4. \A n1 \in notes' : \E n \in notes :
          /\ n1.id = n.id /\ n1.member = n.member /\ n1.user = n.user /\ KeyOf(n1) = KeyOf(n)
          /\ n1 = n \/ (n.id = f.note /\ n1 = Renewed(n))
    BY <1>12, <2>1 DEF KeyOf
  <2>5. OwnersInv'
    <3>1. \A n \in notes' : n.id <= made'.notes /\ n.member <= made'.members
      BY <1>0, <1>12, <2>4 DEF OwnersInv
    <3>2. ASSUME NEW n1 \in notes', NEW o1 \in notes', n1.id = o1.id
          PROVE  n1 = o1
      <4>1. \E k \in notes : n1 = IF k.id = f.note THEN Renewed(k) ELSE k
        BY <1>12
      <4>2. \E k \in notes : o1 = IF k.id = f.note THEN Renewed(k) ELSE k
        BY <1>12
      <4> QED
        BY <1>0, <2>1, <3>2, <4>1, <4>2 DEF OwnersInv
    <3>3. \A n \in notes', m \in members' : n.member = m.id => n.user = m.user
      BY <1>0, <1>1, <2>4 DEF OwnersInv
    <3> QED
      BY <3>1, <3>2, <3>3 DEF OwnersInv
  <2>6. \A n \in notes : n.id = f.note => KeyOf(n) = key /\ (Recent(n) \/ key \in twins)
    BY <1>0, <1>1, <1>3 DEF FoundNotes
  <2>7. \A n1 \in notes' : \E n \in notes : Descends(n1, n)
    <3> SUFFICES ASSUME NEW n1 \in notes'
                 PROVE  \E n \in notes : Descends(n1, n)
      OBVIOUS
    <3>1. PICK n \in notes : /\ n1.id = n.id /\ n1.member = n.member /\ KeyOf(n1) = KeyOf(n)
                             /\ n1 = n \/ (n.id = f.note /\ n1 = Renewed(n))
      BY <2>4
    <3>2. CASE n1 = n
      BY <3>2 DEF Descends
    <3>3. CASE n.id = f.note /\ n1 = Renewed(n)
      <4>1. Recent(n) => Recent(n1)
        BY <2>1, <3>3 DEF Recent
      <4>2. Recent(n) \/ KeyOf(n) \in twins'
        BY <1>1, <2>6, <3>3
      <4> QED
        BY <3>1, <4>1, <4>2 DEF Descends
    <3> QED
      BY <3>1, <3>2, <3>3
  <2>8. FoundNotes' /\ OneRecent'
    BY <1>1, <1>6, <2>5, <2>7, NotesKept DEF OwnersInv
  <2>9. OwedInv'
    <3> SUFFICES ASSUME NEW o \in owed'
                 PROVE  \E n \in notes' : KeyOf(n) = o /\ ~n.read
      BY DEF OwedInv, KeyOf
    <3>1. \A n \in notes : n.id # f.note => n \in notes'
      BY <1>12
    <3>2. \A n \in notes : n.id = f.note => Renewed(n) \in notes'
      BY <1>12
    <3>3. \A n \in notes : KeyOf(Renewed(n)) = KeyOf(n) /\ Renewed(n).read = FALSE
      BY <2>1 DEF KeyOf
    <3>4. CASE o \in owed
      <4>1. PICK n \in notes : KeyOf(n) = o /\ ~n.read
        BY <1>0, <3>4 DEF OwedInv
      <4> QED
        BY <3>1, <3>2, <3>3, <4>1
    <3>5. CASE o \notin owed
      <4>1. PICK n \in notes : n.id = f.note /\ o = key
        BY <1>12, <3>5
      <4> QED
        BY <2>6, <3>2, <3>3, <4>1
    <3> QED
      BY <3>4, <3>5
  <2> QED
    BY <2>3, <2>5, <2>8, <2>9 DEF MInv, NotesInv
<1>13. CASE /\ f.note = 0 /\ f.member \in members
            /\ made' = [made EXCEPT !.notes = @ + 1]
            /\ notes' = notes \cup {[id |-> made.notes + 1, member |-> f.member.id, user |-> f.member.user,
                                     source |-> c.source, kind |-> c.kind, recent |-> TRUE, read |-> FALSE]}
            /\ owed' = owed \cup {key}
  <2> DEFINE p == [id |-> made.notes + 1, member |-> f.member.id, user |-> f.member.user,
                   source |-> c.source, kind |-> c.kind, recent |-> TRUE, read |-> FALSE]
  <2>1. /\ p.id = made.notes + 1 /\ p.member = f.member.id /\ p.user = f.member.user /\ p.kind = c.kind
        /\ p.read = FALSE /\ KeyOf(p) = key
    BY DEF KeyOf
  <2>2. p \in [id : Nat \ {0}, member : Nat \ {0}, user : Ids, source : Sources, kind : Kinds,
               recent : BOOLEAN, read : BOOLEAN]
    <3>1. made.notes + 1 \in Nat \ {0} /\ f.member.id \in Nat \ {0} /\ f.member.user \in Ids
      BY <1>3, <1>9 DEF Memberships
    <3> QED
      BY <1>3, <3>1
  <2> HIDE DEF p
  <2>3. notes' = notes \cup {p}
    BY <1>13 DEF p
  <2>4. made' \in [members : Nat, notes : Nat] /\ made'.members = made.members /\ made'.notes = made.notes + 1
    BY <1>9, <1>13
  <2>5. TypeOKMembers(Emails, Sources)' /\ MembersInv' /\ FoundInv'
    <3>1. notes' \subseteq [id : Nat \ {0}, member : Nat \ {0}, user : Ids, source : Sources, kind : Kinds,
                            recent : BOOLEAN, read : BOOLEAN]
      BY <1>0, <2>2, <2>3 DEF TypeOKMembers
    <3>2. owed' \subseteq Keys(Sources)
      BY <1>0, <1>3, <1>13 DEF TypeOKMembers
    <3> QED
      BY <1>9, <1>10, <2>4, <3>1, <3>2
  <2>6. \A n \in notes : n.id \in Nat /\ n.id <= made.notes
    BY <1>0 DEF OwnersInv, TypeOKMembers
  <2>7. OwnersInv'
    <3>1. f.member.id <= made.members
      BY <1>0, <1>13 DEF MembersInv
    <3>2. \A n \in notes' : n.id <= made'.notes /\ n.member <= made'.members
      BY <1>0, <1>9, <2>1, <2>3, <2>4, <2>6, <3>1 DEF OwnersInv
    <3>3. \A n, o \in notes' : n.id = o.id => n = o
      BY <1>0, <1>9, <2>1, <2>3, <2>6 DEF OwnersInv
    <3>4. \A m \in members : f.member.id = m.id => m = f.member
      BY <1>0, <1>13 DEF MembersInv
    <3>5. \A n \in notes', m \in members' : n.member = m.id => n.user = m.user
      BY <1>0, <1>1, <2>1, <2>3, <3>4 DEF OwnersInv
    <3> QED
      BY <3>2, <3>3, <3>5 DEF OwnersInv
  <2>8. FoundNotes'
    <3> SUFFICES ASSUME NEW j \in Changers, Notifying(j)', NEW g \in change'[j].found, NEW n \in notes'
                 PROVE  /\ n.id = g.note =>
                             KeyOf(n) = KeyFound(j, g)' /\ (Recent(n) \/ KeyFound(j, g)' \in twins')
                        /\ g.note = 0 /\ change'[j].kind = "updated_request" /\ Recent(n)
                           /\ KeyOf(n) = KeyFound(j, g)' => KeyFound(j, g)' \in twins'
      BY DEF FoundNotes, KeyOf, Recent
    <3>1. /\ Notifying(j) /\ g \in change[j].found /\ KeyFound(j, g)' = KeyFound(j, g)
          /\ change'[j].kind = change[j].kind
      BY <1>6 DEF Shrinks, KeyFound
    <3>2. CASE n \in notes
      BY <1>0, <1>1, <3>1, <3>2 DEF FoundNotes
    <3>3. CASE n = p
      <4>1. g.note <= made.notes
        BY <1>0, <3>1 DEF FoundInv
      <4>2. g.note \in Nat
        <5>1. change[j] \in [at : {"notifying"}, source : Sources, kind : Kinds, todo : SUBSET Memberships,
                             found : SUBSET [member : Memberships, note : Nat]]
          BY <1>0, <3>1 DEF TypeOKMembers, Changes, Resting, Notifying
        <5> QED
          BY <3>1, <5>1
      <4>3. n.id # g.note
        BY <1>9, <2>1, <3>3, <4>1, <4>2
      <4>4. ASSUME KeyFound(j, g) = key
            PROVE  key \in twins
        <5>1. CASE j # i
          BY <1>0, <1>1, <1>3, <3>1, <4>4, <5>1 DEF FoundInv
        <5>2. CASE j = i
          <6>1. g \in c.found /\ g # f /\ g.member.user = f.member.user
            BY <1>8, <4>4, <5>2 DEF KeyFound
          <6> QED
            BY <1>0, <1>1, <6>1 DEF FoundInv
        <5> QED
          BY <5>1, <5>2
      <4> QED
        BY <1>1, <2>1, <3>1, <3>3, <4>3, <4>4
    <3> QED
      BY <2>3, <3>2, <3>3
  <2>9. OneRecent'
    <3>1. \A o \in notes : Recent(o) /\ Recent(p) /\ KeyOf(o) = key => key \in twins
      BY <1>0, <1>1, <1>3, <1>13, <2>1 DEF FoundNotes, Recent
    <3>2. \A n, o \in notes' : Recent(n) /\ Recent(o) /\ KeyOf(n) = KeyOf(o) => n = o \/ KeyOf(n) \in twins
      BY <1>0, <2>1, <2>3, <3>1 DEF OneRecent
    <3> QED
      BY <1>1, <3>2 DEF OneRecent, Recent, KeyOf
  <2>10. OwedInv'
    BY <1>0, <1>13, <2>1, <2>3 DEF OwedInv, KeyOf
  <2> QED
    BY <2>5, <2>7, <2>8, <2>9, <2>10 DEF MInv, NotesInv
<1> QED
  BY <1>1, <1>11, <1>12, <1>13

\* Three hours are over.
LEMMA AgeKeeps ==
  ASSUME MInv, NEW n \in notes, Age(n)
  PROVE  MInv'
<1> DEFINE old == [n EXCEPT !.recent = FALSE]
<1>0. TypeOKMembers(Emails, Sources) /\ MembersInv /\ OwnersInv /\ FoundInv /\ FoundNotes /\ OneRecent /\ OwedInv
  BY DEF MInv, NotesInv
<1>1. /\ notes' = (notes \ {n}) \cup {old}
      /\ twins' = IF \E i \in Changers : change[i].at = "notifying" /\ \E f \in change[i].found : f.note = n.id
                  THEN twins \cup {KeyOf(n)} ELSE twins
      /\ UNCHANGED <<members, made, change, clashed, owed>>
  BY DEF Age
<1>2. /\ n \in [id : Nat \ {0}, member : Nat \ {0}, user : Ids, source : Sources, kind : Kinds,
                recent : BOOLEAN, read : BOOLEAN]
  BY <1>0 DEF TypeOKMembers
<1>3. /\ old \in [id : Nat \ {0}, member : Nat \ {0}, user : Ids, source : Sources, kind : Kinds,
                  recent : BOOLEAN, read : BOOLEAN]
      /\ old.id = n.id /\ old.member = n.member /\ old.user = n.user /\ old.source = n.source /\ old.kind = n.kind
      /\ old.recent = FALSE /\ old.read = n.read
  BY <1>2
<1> HIDE DEF old
<1>4. KeyOf(old) = KeyOf(n) /\ ~Recent(old) /\ KeyOf(n) \in Keys(Sources)
  BY <1>2, <1>3 DEF KeyOf, Recent, Keys
<1>5. TypeOKMembers(Emails, Sources)'
  BY <1>0, <1>1, <1>3, <1>4 DEF TypeOKMembers
<1>6. MembersInv'
  BY <1>0, <1>1 DEF MembersInv, AdminsOf
<1>7. OwnersInv'
  BY <1>0, <1>1, <1>3 DEF OwnersInv
<1>8. \A j \in Changers : Shrinks(j)
  BY <1>1 DEF Shrinks, Notifying
<1>9. made.notes <= made'.notes
  BY <1>0, <1>1 DEF TypeOKMembers
<1>10. FoundInv'
  BY <1>1, <1>5, <1>8, <1>9, FoundKept
<1>11. \A n1 \in notes' : \E n0 \in notes : Descends(n1, n0)
  <2>1. Descends(old, n)
    BY <1>1, <1>3, <1>4 DEF Descends, Notifying
  <2>2. \A n1 \in notes : Descends(n1, n1)
    BY DEF Descends
  <2> QED
    BY <1>1, <2>1, <2>2
<1>12. FoundNotes' /\ OneRecent'
  BY <1>1, <1>7, <1>8, <1>11, NotesKept DEF OwnersInv
<1>13. OwedInv'
  BY <1>0, <1>1, <1>3, <1>4 DEF OwedInv, KeyOf
<1> QED
  BY <1>5, <1>6, <1>7, <1>10, <1>12, <1>13 DEF MInv, NotesInv

\* The notifications of a member are read.
LEMMA ReadKeeps ==
  ASSUME MInv, NEW i \in Changers, ReadNotes(i)
  PROVE  MInv'
<1> DEFINE m == change[i].member
           Seen(n) == [n EXCEPT !.read = TRUE]
<1>0. TypeOKMembers(Emails, Sources) /\ MembersInv /\ OwnersInv /\ FoundInv /\ FoundNotes /\ OneRecent /\ OwedInv
  BY DEF MInv, NotesInv
<1>1. /\ notes' = {IF n.member = m.id THEN Seen(n) ELSE n : n \in notes}
      /\ owed' = {o \in owed : ~\E n \in notes : n.member = m.id /\ KeyOf(n) = o}
      /\ change' = [change EXCEPT ![i] = Resting]
      /\ UNCHANGED <<members, made, clashed, twins>> /\ Resting.at = "resting"
  BY DEF ReadNotes, Resting
<1>2. \A n \in notes : /\ Seen(n).id = n.id /\ Seen(n).member = n.member /\ Seen(n).user = n.user
                       /\ Seen(n).source = n.source /\ Seen(n).kind = n.kind /\ Seen(n).recent = n.recent
                       /\ Seen(n) \in [id : Nat \ {0}, member : Nat \ {0}, user : Ids, source : Sources,
                                       kind : Kinds, recent : BOOLEAN, read : BOOLEAN]
  BY <1>0 DEF TypeOKMembers
<1> HIDE DEF Seen
<1>3. notes' \subseteq [id : Nat \ {0}, member : Nat \ {0}, user : Ids, source : Sources, kind : Kinds,
                        recent : BOOLEAN, read : BOOLEAN]
  BY <1>0, <1>1, <1>2 DEF TypeOKMembers
<1>4. \A j \in Changers : Shrinks(j)
  BY <1>1, ChangeShrinks
<1>5. TypeOKMembers(Emails, Sources)'
  <2>1. change' \in [Changers -> Changes(Emails, Sources) \cup {Resting}]
    BY <1>0, <1>1 DEF TypeOKMembers
  <2> QED
    BY <1>0, <1>1, <1>3, <2>1 DEF TypeOKMembers
<1>6. MembersInv'
  BY <1>0, <1>1, <1>4 DEF MembersInv, AdminsOf, Shrinks
<1>7. \A n1 \in notes' : \E n \in notes :
        /\ n1.id = n.id /\ n1.member = n.member /\ n1.user = n.user /\ KeyOf(n1) = KeyOf(n)
        /\ n1.kind = n.kind /\ n1.recent = n.recent /\ n1 = IF n.member = m.id THEN Seen(n) ELSE n
  BY <1>1, <1>2 DEF KeyOf
<1>8. OwnersInv'
  <2>1. \A n \in notes' : n.id <= made'.notes /\ n.member <= made'.members
    BY <1>0, <1>1, <1>7 DEF OwnersInv
  <2>2. \A n, o \in notes' : n.id = o.id => n = o
    BY <1>0, <1>7 DEF OwnersInv
  <2>3. \A n \in notes', k \in members' : n.member = k.id => n.user = k.user
    BY <1>0, <1>1, <1>7 DEF OwnersInv
  <2> QED
    BY <2>1, <2>2, <2>3 DEF OwnersInv
<1>9. made.notes <= made'.notes
  BY <1>0, <1>1 DEF TypeOKMembers
<1>10. FoundInv'
  BY <1>1, <1>4, <1>5, <1>9, FoundKept
<1>11. \A n1 \in notes' : \E n \in notes : Descends(n1, n)
  BY <1>7 DEF Descends, Recent
<1>12. FoundNotes' /\ OneRecent'
  BY <1>1, <1>4, <1>8, <1>11, NotesKept DEF OwnersInv
<1>13. OwedInv'
  <2> SUFFICES ASSUME NEW o \in owed'
               PROVE  \E n \in notes' : KeyOf(n) = o /\ ~n.read
    BY DEF OwedInv, KeyOf
  <2>1. PICK n \in notes : KeyOf(n) = o /\ ~n.read
    BY <1>0, <1>1 DEF OwedInv
  <2>2. n.member # m.id
    BY <1>1, <2>1
  <2> QED
    BY <1>1, <2>1, <2>2
<1> QED
  BY <1>5, <1>6, <1>8, <1>10, <1>12, <1>13 DEF MInv, NotesInv

-----------------------------------------------------------------------------
(* Requests                                                                *)

IdentityInv ==
  /\ accounts \in [Ids -> AccountRows \cup {NoRow}]
  /\ session \in [Ips -> Sessions \cup {NoRow}]
  /\ \A c \in Ips : session[c] # NoRow => session[c].id \in Accounts
  /\ \A m \in members : m.user \in Accounts
  /\ \A i \in Changers : change[i].at = "absent" => change[i].user \in Accounts
  /\ officers \in [Ips -> SUBSET Emails]
  /\ requests \in 0..MaxRequests

\* Who is to log in does so by e-mail address.
LoginsInv == \A i \in Slots : Busy(i) /\ verification[i].for = "login" => verification[i].address \in Emails

\* Passwords, members and accounts.
LEMMA Parts ==
  IInv <=> PInv({"login"} \cup Accounts) /\ MInv /\ IdentityInv /\ LoginsInv
BY DEF IInv, TypeOK, PInv, MInv, IdentityInv, LoginsInv, Sources, Busy, UnderWay

\* A verification keeps what it is for.
LEMMA LoginsKept ==
  ASSUME NEW P, TypeOKPasswords(P), LoginsInv, OtpStep(P)
  PROVE  LoginsInv'
<1>0. verification \in [Slots -> Verifications(P) \cup {Free}] /\ Free.at = "free"
  BY DEF TypeOKPasswords, Free
<1>1. CASE verification' = verification
  BY <1>1 DEF LoginsInv, Busy, UnderWay
<1>2. ASSUME NEW i \in Slots, NEW v, verification' = [verification EXCEPT ![i] = v],
             v.at = "free" \/ (Busy(i) /\ v.for = verification[i].for /\ v.address = verification[i].address)
                           \/ (v.for = "login" => v.address \in Emails)
      PROVE  LoginsInv'
  <2>1. verification'[i] = v /\ \A j \in Slots : j # i => verification'[j] = verification[j]
    BY <1>0, <1>2
  <2> QED
    BY <1>2, <2>1 DEF LoginsInv, Busy, UnderWay
<1>3. ASSUME NEW i \in Slots, NEW a \in Addresses, NEW ip \in Ips, NEW guess \in 0..sent, NEW for \in P,
             LoadOtp(i, a, ip, guess, for), for = "login" => a \in Emails
      PROVE  LoginsInv'
  <2> DEFINE v(at) == [at |-> at, address |-> a, ip |-> ip, guess |-> guess, row |-> otp[a], for |-> for]
  <2>1. \A at : v(at).for = for /\ v(at).address = a
    OBVIOUS
  <2>2. verification' = verification \/ \E at : verification' = [verification EXCEPT ![i] = v(at)]
    BY <1>3 DEF LoadOtp
  <2> HIDE DEF v
  <2> QED
    BY <1>1, <1>2, <1>3, <2>1, <2>2
<1>4. ASSUME NEW i \in Slots, CountAttempt(i)
      PROVE  LoginsInv'
  <2> DEFINE v == [verification[i] EXCEPT !.at = "valid"]
  <2>1. Busy(i) /\ (verification' = [verification EXCEPT ![i] = Free] \/ verification' = [verification EXCEPT ![i] = v])
    BY <1>4 DEF CountAttempt, Busy, UnderWay
  <2>2. v.for = verification[i].for /\ v.address = verification[i].address
    BY <1>0, <2>1 DEF Verifications, Busy, UnderWay
  <2> HIDE DEF v
  <2> QED
    BY <1>0, <1>2, <2>1, <2>2
<1>5. ASSUME NEW i \in Slots, UseOtp(i)
      PROVE  LoginsInv'
  BY <1>0, <1>2, <1>5 DEF UseOtp
<1>6. ASSUME NEW i \in Slots, DestroyExpired(i)
      PROVE  LoginsInv'
  BY <1>0, <1>2, <1>6 DEF DestroyExpired
<1> QED
  BY <1>1, <1>3, <1>4, <1>5, <1>6 DEF OtpStep, SendOtp, otpVars

\* A row is found, or added.
LEMMA AccountKept ==
  ASSUME accounts \in [Ids -> AccountRows \cup {NoRow}], NEW id \in Ids, NEW row \in AccountRows,
         accounts' = WithAccount(id, row)
  PROVE  accounts' \in [Ids -> AccountRows \cup {NoRow}] /\ Accounts \subseteq Accounts' /\ id \in Accounts'
<1>1. NoRow \notin AccountRows
  BY PeopleAssumption
<1>2. CASE id \in Accounts
  BY <1>2 DEF WithAccount, Accounts
<1>3. CASE id \notin Accounts
  <2>1. accounts' = [accounts EXCEPT ![id] = row]
    BY <1>3 DEF WithAccount
  <2> QED
    BY <1>1, <2>1 DEF Accounts
<1> QED
  BY <1>2, <1>3

\* What a request finds is an id of a user.
LEMMA FoundIds ==
  (\A e : FoundOr(OfEmail(e)) \subseteq Ids) /\ (\A g : FoundOr(OfGitHub(g)) \subseteq Ids)
BY DEF FoundOr, OfEmail, OfGitHub, Accounts

\* The rows users begin with.
LEMMA NewRows ==
  /\ \A e \in Emails : NewAccount(e, NoRow) \in AccountRows
  /\ \A g \in GitHubIds : NewAccount(NoRow, g) \in AccountRows
BY DEF NewAccount, AccountRows

\* A user logs in by e-mail address.
LEMMA EmailLogsIn ==
  ASSUME IdentityInv, NEW c \in Ips, NEW e \in Emails, LoginWithEmail(c, e)
  PROVE  /\ accounts' \in [Ids -> AccountRows \cup {NoRow}] /\ session' \in [Ips -> Sessions \cup {NoRow}]
         /\ Accounts \subseteq Accounts'
         /\ \A d \in Ips : session'[d] # NoRow => session'[d].id \in Accounts'
<1>1. PICK id \in FoundOr(OfEmail(e)) :
        /\ accounts' = WithAccount(id, NewAccount(e, NoRow))
        /\ session' = [session EXCEPT ![c] = [id |-> id, email |-> e, github |-> NoRow]]
  BY DEF LoginWithEmail
<1> DEFINE who == [id |-> id, email |-> e, github |-> NoRow]
<1>2. id \in Ids /\ NewAccount(e, NoRow) \in AccountRows
  BY FoundIds, NewRows
<1>3. accounts' \in [Ids -> AccountRows \cup {NoRow}] /\ Accounts \subseteq Accounts' /\ id \in Accounts'
  BY <1>1, <1>2, AccountKept DEF IdentityInv
<1>4. who \in Sessions /\ who.id = id
  BY <1>2 DEF Sessions
<1> HIDE DEF who
<1>5. session' = [session EXCEPT ![c] = who]
  BY <1>1 DEF who
<1> QED
  BY <1>3, <1>4, <1>5 DEF IdentityInv

\* Accounts, sessions and requests, when members are not asked about.
LEMMA IdentityKept ==
  ASSUME IdentityInv, accounts' \in [Ids -> AccountRows \cup {NoRow}], session' \in [Ips -> Sessions \cup {NoRow}],
         Accounts \subseteq Accounts', \A d \in Ips : session'[d] # NoRow => session'[d].id \in Accounts',
         members' = members, change' = change, officers' \in [Ips -> SUBSET Emails], requests' \in 0..MaxRequests
  PROVE  IdentityInv'
BY DEF IdentityInv

\* A request is counted.
LEMMA Counted ==
  ASSUME IdentityInv, Count \/ CountEffect \/ UNCHANGED requests
  PROVE  requests' \in 0..MaxRequests
BY PeopleAssumption DEF IdentityInv, Count, CountEffect

\* The steps on members leave the accounts, and the accounts know who they add.
LEMMA MembersKnown ==
  ASSUME IdentityInv, UNCHANGED identity, requests' \in 0..MaxRequests,
         \A m \in members' : m \in members \/ m.user \in Accounts,
         \A i \in Changers : change'[i].at = "absent" => change'[i] = change[i]
  PROVE  IdentityInv' /\ Accounts' = Accounts
<1>1. UNCHANGED <<accounts, session, officers>>
  BY DEF identity
<1>2. Accounts' = Accounts
  BY <1>1 DEF Accounts
<1> QED
  BY <1>1, <1>2 DEF IdentityInv

\* Nothing is asked about members.
LEMMA MembersQuiet ==
  ASSUME MInv, UNCHANGED memberVars
  PROVE  MInv' /\ members' = members /\ change' = change
<1>1. UNCHANGED <<members, notes, made, change, clashed, twins, owed>>
  BY DEF memberVars
<1>2. TypeOKMembers(Emails, Sources)' /\ MembersInv' /\ OwnersInv'
  BY <1>1 DEF MInv, TypeOKMembers, MembersInv, OwnersInv, AdminsOf
<1>3. FoundInv'
  BY <1>1 DEF MInv, FoundInv, Notifying, KeyFound
<1>4. NotesInv'
  BY <1>1 DEF MInv, NotesInv, FoundNotes, OneRecent, OwedInv, Notifying, KeyFound, KeyOf, Recent
<1> QED
  BY <1>1, <1>2, <1>3, <1>4 DEF MInv

-----------------------------------------------------------------------------
(* Steps.  Each keeps the three parts.                                     *)

Purposes == {"login"} \cup Accounts
Kept == OtpStep(Purposes) /\ MInv' /\ IdentityInv' /\ Accounts \subseteq Accounts'

\* Somebody asks for a password, or brings one: accounts stay as they are.
LEMMA PasswordAsked ==
  ASSUME MInv, IdentityInv, OtpStep(Purposes), UNCHANGED <<memberVars, identity>>, Count \/ CountEffect \/ UNCHANGED requests
  PROVE  Kept
<1>1. MInv' /\ members' = members /\ change' = change
  BY MembersQuiet
<1>2. requests' \in 0..MaxRequests
  BY Counted
<1>3. IdentityInv' /\ Accounts' = Accounts
  BY <1>1, <1>2, MembersKnown DEF identity
<1> QED
  BY <1>1, <1>3 DEF Kept

\* A user logs in, in one way or another, or chooses an address.
LEMMA LoginKeeps ==
  ASSUME MInv, IdentityInv, OtpStep(Purposes), UNCHANGED memberVars, Count \/ UNCHANGED requests,
         officers' \in [Ips -> SUBSET Emails],
         UNCHANGED <<accounts, session>> \/ \E c \in Ips, e \in Emails : LoginWithEmail(c, e)
  PROVE  Kept
<1>1. MInv' /\ members' = members /\ change' = change
  BY MembersQuiet
<1>2. requests' \in 0..MaxRequests
  BY Counted
<1>3. /\ accounts' \in [Ids -> AccountRows \cup {NoRow}] /\ session' \in [Ips -> Sessions \cup {NoRow}]
      /\ Accounts \subseteq Accounts'
      /\ \A d \in Ips : session'[d] # NoRow => session'[d].id \in Accounts'
  <2>1. CASE UNCHANGED <<accounts, session>>
    BY <2>1 DEF IdentityInv, Accounts
  <2>2. CASE \E c \in Ips, e \in Emails : LoginWithEmail(c, e)
    BY <2>2, EmailLogsIn
  <2> QED
    BY <2>1, <2>2
<1>4. IdentityInv'
  BY <1>1, <1>2, <1>3, IdentityKept
<1> QED
  BY <1>1, <1>3, <1>4 DEF Kept

\* ... by GitHub.
LEMMA GitHubLoginKeeps ==
  ASSUME MInv, IdentityInv, NEW c \in Ips, GitHubLogin(c)
  PROVE  Kept
<1>1. MInv' /\ members' = members /\ change' = change
  BY MembersQuiet DEF GitHubLogin
<1>2. requests' \in 0..MaxRequests /\ officers' \in [Ips -> SUBSET Emails] /\ OtpStep(Purposes)
  BY Counted DEF GitHubLogin, OtpStep, IdentityInv
<1>3. GitHubUser[c] \in GitHubIds
  BY PeopleAssumption DEF GitHubLogin
<1>4. PICK id \in FoundOr(OfGitHub(GitHubUser[c])) :
        /\ accounts' = WithAccount(id, NewAccount(NoRow, GitHubUser[c]))
        /\ session' = [session EXCEPT ![c] =
                         [id |-> id, email |-> accounts'[id].email, github |-> GitHubUser[c]]]
  BY DEF GitHubLogin
<1> DEFINE who == [id |-> id, email |-> accounts'[id].email, github |-> GitHubUser[c]]
<1>5. id \in Ids /\ NewAccount(NoRow, GitHubUser[c]) \in AccountRows
  BY <1>3, FoundIds, NewRows
<1>6. accounts' \in [Ids -> AccountRows \cup {NoRow}] /\ Accounts \subseteq Accounts' /\ id \in Accounts'
  BY <1>4, <1>5, AccountKept DEF IdentityInv
<1>7. accounts'[id] \in AccountRows
  BY <1>5, <1>6 DEF Accounts
<1>8. accounts'[id].email \in Emails \cup {NoRow}
  BY <1>7 DEF AccountRows
<1>9. who \in Sessions /\ who.id = id
  BY <1>3, <1>5, <1>8 DEF Sessions
<1>10. session' = [session EXCEPT ![c] = who]
  BY <1>4
<1> HIDE DEF who
<1>11. session' \in [Ips -> Sessions \cup {NoRow}] /\ \A d \in Ips : session'[d] # NoRow => session'[d].id \in Accounts'
  BY <1>6, <1>9, <1>10 DEF IdentityInv
<1>12. IdentityInv'
  BY <1>1, <1>2, <1>6, <1>11, IdentityKept
<1> QED
  BY <1>1, <1>2, <1>6, <1>12 DEF Kept

\* A session ends.
LEMMA LeaveKeeps ==
  ASSUME MInv, IdentityInv, NEW c \in Ips, LeaveSession(c)
  PROVE  Kept
<1>1. MInv' /\ members' = members /\ change' = change
  BY MembersQuiet DEF LeaveSession
<1>2. requests' \in 0..MaxRequests /\ officers' \in [Ips -> SUBSET Emails] /\ OtpStep(Purposes)
  BY Counted DEF LeaveSession, OtpStep, IdentityInv
<1>3. session' = [session EXCEPT ![c] = NoRow] /\ accounts' = accounts /\ Accounts' = Accounts
  BY DEF LeaveSession, Accounts
<1>4. session' \in [Ips -> Sessions \cup {NoRow}] /\ \A d \in Ips : session'[d] # NoRow => session'[d].id \in Accounts'
  BY <1>3 DEF IdentityInv
<1>5. IdentityInv'
  BY <1>1, <1>2, <1>3, <1>4, IdentityKept DEF IdentityInv
<1> QED
  BY <1>1, <1>2, <1>3, <1>5 DEF Kept

\* An account is given the address that was verified.
LEMMA AddressKeeps ==
  ASSUME MInv, IdentityInv, TypeOKPasswords(Purposes), NEW i \in Slots, KeepAddress(i)
  PROVE  Kept
<1> DEFINE v == verification[i]
           for == v.for
           mailed == [accounts[for] EXCEPT !.email = v.address]
           called == [accounts[for] EXCEPT !.mobile = v.address]
<1>1. MInv' /\ members' = members /\ change' = change
  BY MembersQuiet DEF KeepAddress
<1>2. /\ requests' \in 0..MaxRequests /\ officers' \in [Ips -> SUBSET Emails] /\ OtpStep(Purposes)
      /\ session' = session
  BY Counted DEF KeepAddress, OtpStep, IdentityInv
<1>3. v \in Verifications(Purposes)
  <2>1. v.at = "valid" /\ Free.at = "free"
    BY DEF KeepAddress, Free
  <2> QED
    BY <2>1 DEF TypeOKPasswords
<1>4. for \in Purposes /\ v.address \in Emails \cup Mobiles
  BY <1>3, PeopleAssumption DEF Verifications
<1>5. for \in Accounts
  BY <1>4, PeopleAssumption DEF Purposes, KeepAddress
<1>6. for \in Ids /\ accounts[for] \in AccountRows
  BY <1>5 DEF Accounts, IdentityInv
<1>7. v.address \in Emails => mailed \in AccountRows
  BY <1>6 DEF AccountRows
<1>8. v.address \in Mobiles => called \in AccountRows
  BY <1>6 DEF AccountRows
<1>9. \/ accounts' = accounts
      \/ v.address \in Emails /\ accounts' = [accounts EXCEPT ![for] = mailed]
      \/ v.address \in Mobiles /\ accounts' = [accounts EXCEPT ![for] = called]
  BY <1>4 DEF KeepAddress
<1> HIDE DEF mailed, called, for
<1>10. accounts' = accounts \/ \E row \in AccountRows : accounts' = [accounts EXCEPT ![for] = row]
  BY <1>7, <1>8, <1>9
<1>11. accounts' \in [Ids -> AccountRows \cup {NoRow}] /\ Accounts \subseteq Accounts'
  <2>1. NoRow \notin AccountRows
    BY PeopleAssumption
  <2> QED
    BY <1>6, <1>10, <2>1 DEF Accounts, IdentityInv
<1>12. session' \in [Ips -> Sessions \cup {NoRow}] /\ \A d \in Ips : session'[d] # NoRow => session'[d].id \in Accounts'
  BY <1>2, <1>11 DEF IdentityInv
<1>13. IdentityInv'
  BY <1>1, <1>2, <1>11, <1>12, IdentityKept
<1> QED
  BY <1>1, <1>2, <1>11, <1>13 DEF Kept

\* A change of members is asked for.
LEMMA AskKeeps ==
  ASSUME MInv, IdentityInv, NEW c \in Ips, NEW asked \in Changes(Emails, Sources),
         asked.at \in {"adding", "removing"}, AskToChange(c, asked)
  PROVE  Kept
<1>1. PICK i \in Changers : change' = [change EXCEPT ![i] = asked]
  BY DEF AskToChange
<1>2. MInv'
  BY <1>1, QuietKeeps DEF AskToChange
<1>3. requests' \in 0..MaxRequests /\ OtpStep(Purposes)
  BY Counted DEF AskToChange, OtpStep
<1>4. \A j \in Changers : change'[j].at = "absent" => change'[j] = change[j]
  BY <1>1 DEF MInv, TypeOKMembers
<1>5. IdentityInv' /\ Accounts' = Accounts
  BY <1>3, <1>4, MembersKnown DEF AskToChange
<1> QED
  BY <1>2, <1>3, <1>5 DEF Kept

\* The new member's account is found, or created.
LEMMA FindKeeps ==
  ASSUME MInv, IdentityInv, NEW i \in Changers, FindMember(i)
  PROVE  Kept
<1> DEFINE c == change[i]
<1>1. UNCHANGED <<otpVars, session, officers, requests, members, notes, made, clashed, twins, owed>> /\ c.at = "adding"
  BY DEF FindMember, LookForMember
<1>2. c.email \in Emails
  <2>1. c \in [at : {"adding"}, email : Emails]
    BY <1>1 DEF MInv, TypeOKMembers, Changes, Resting
  <2> QED
    BY <2>1
<1>3. Resting.at = "resting" /\ Resting \in Changes(Emails, Sources) \cup {Resting}
  BY DEF Resting
<1>4. OtpStep(Purposes)
  BY <1>1 DEF OtpStep
<1>5. CASE change' = [change EXCEPT ![i] = Resting] /\ accounts' = accounts
  <2>1. MInv'
    BY <1>1, <1>3, <1>5, QuietKeeps
  <2>2. \A j \in Changers : change'[j].at = "absent" => change'[j] = change[j]
    BY <1>3, <1>5 DEF MInv, TypeOKMembers
  <2>3. requests' \in 0..MaxRequests
    BY <1>1 DEF IdentityInv
  <2>4. IdentityInv' /\ Accounts' = Accounts
    BY <1>1, <1>5, <2>2, <2>3, MembersKnown DEF identity
  <2> QED
    BY <1>4, <2>1, <2>4 DEF Kept
<1>6. ASSUME Whitelisted[c.email] # "none", NEW id \in FoundOr(OfEmail(c.email)),
             NEW new, new = Resting \/ new = [at |-> "absent", user |-> id, role |-> Whitelisted[c.email]],
             accounts' = WithAccount(id, NewAccount(c.email, NoRow)), change' = [change EXCEPT ![i] = new]
      PROVE  Kept
  <2>1. id \in Ids /\ NewAccount(c.email, NoRow) \in AccountRows
    BY <1>2, FoundIds, NewRows
  <2>2. Whitelisted[c.email] \in Roles
    BY <1>2, <1>6, PeopleAssumption
  <2>3. new \in Changes(Emails, Sources) \cup {Resting}
    BY <1>6, <2>1, <2>2 DEF Changes
  <2>4. new.at \in {"resting", "absent"} /\ (new.at = "absent" => new.user = id)
    BY <1>3, <1>6
  <2>5. MInv'
    BY <1>1, <1>6, <2>3, <2>4, QuietKeeps
  <2>6. accounts' \in [Ids -> AccountRows \cup {NoRow}] /\ Accounts \subseteq Accounts' /\ id \in Accounts'
    BY <1>6, <2>1, AccountKept DEF IdentityInv
  <2>7. change'[i] = new /\ \A j \in Changers : j # i => change'[j] = change[j]
    BY <1>6 DEF MInv, TypeOKMembers
  <2>8. \A j \in Changers : change'[j].at = "absent" => change'[j].user \in Accounts'
    BY <2>4, <2>6, <2>7 DEF IdentityInv
  <2>9. IdentityInv'
    BY <1>1, <2>6, <2>8 DEF IdentityInv
  <2> QED
    BY <1>4, <2>5, <2>6, <2>9 DEF Kept
<1>7. CASE Whitelisted[c.email] = "none"
  BY <1>5, <1>7 DEF FindMember, LookForMember
<1>8. CASE Whitelisted[c.email] # "none"
  <2>1. PICK id \in FoundOr(OfEmail(c.email)), acknowledged \in BOOLEAN :
          /\ accounts' = WithAccount(id, NewAccount(c.email, NoRow))
          /\ LookForMember(i, id, Whitelisted[c.email], acknowledged)
    BY <1>8 DEF FindMember
  <2>2. \/ change' = [change EXCEPT ![i] = Resting]
        \/ change' = [change EXCEPT ![i] = [at |-> "absent", user |-> id, role |-> Whitelisted[c.email]]]
    BY <2>1 DEF LookForMember
  <2> QED
    BY <1>6, <1>8, <2>1, <2>2
<1> QED
  BY <1>7, <1>8

\* A request on notifications begins.
LEMMA NotifyKeeps ==
  ASSUME MInv, IdentityInv, NEW c \in Ips, NEW kind \in Kinds, NotifyOthers(c, kind)
  PROVE  Kept
<1>1. PICK i \in Changers : StartNotices(i, session[c].id, session[c].email, kind)
  BY DEF NotifyOthers
<1>2. session[c].email \in Sources
  <2>1. session[c] \in Sessions
    BY DEF NotifyOthers, MayAct, LoggedIn, IdentityInv
  <2> QED
    BY <2>1 DEF Sessions, Sources
<1>3. MInv'
  BY <1>1, <1>2, StartNoticesKeeps
<1>4. requests' \in 0..MaxRequests /\ OtpStep(Purposes)
  BY Counted DEF NotifyOthers, OtpStep
<1>5. \A j \in Changers : change'[j].at = "absent" => change'[j] = change[j]
  BY <1>1 DEF StartNotices, MInv, TypeOKMembers, Resting
<1>6. members' = members /\ UNCHANGED identity
  BY <1>1 DEF StartNotices, NotifyOthers
<1>7. IdentityInv' /\ Accounts' = Accounts
  BY <1>4, <1>5, <1>6, MembersKnown
<1> QED
  BY <1>3, <1>4, <1>7 DEF Kept

LEMMA MarkKeeps ==
  ASSUME MInv, IdentityInv, NEW c \in Ips, MarkNotificationsAsRead(c)
  PROVE  Kept
<1>1. PICK i \in Changers : StartReading(i, session[c].id)
  BY DEF MarkNotificationsAsRead
<1>2. PICK m \in RowsOf(session[c].id) : change' = [change EXCEPT ![i] = [at |-> "reading", member |-> m]]
  BY <1>1 DEF StartReading
<1> DEFINE new == [at |-> "reading", member |-> m]
<1>3. new \in Changes(Emails, Sources) /\ new.at = "reading"
  <2>1. m \in Memberships
    BY DEF RowsOf, MInv, TypeOKMembers
  <2> QED
    BY <2>1 DEF Changes
<1> HIDE DEF new
<1>4. change' = [change EXCEPT ![i] = new] /\ UNCHANGED <<members, notes, made, clashed, twins, owed>>
  BY <1>1, <1>2 DEF new, StartReading
<1>5. MInv'
  BY <1>3, <1>4, QuietKeeps
<1>6. requests' \in 0..MaxRequests /\ OtpStep(Purposes)
  BY Counted DEF MarkNotificationsAsRead, OtpStep
<1>7. \A j \in Changers : change'[j].at = "absent" => change'[j] = change[j]
  BY <1>3, <1>4 DEF MInv, TypeOKMembers
<1>8. IdentityInv' /\ Accounts' = Accounts
  BY <1>4, <1>6, <1>7, MembersKnown DEF MarkNotificationsAsRead
<1> QED
  BY <1>5, <1>6, <1>8 DEF Kept

\* A step of a request on members or notifications.
LEMMA MemberStepKeeps ==
  ASSUME MInv, IdentityInv, NEW i \in Changers, MemberStep(i)
  PROVE  Kept
<1>1. UNCHANGED <<otpVars, identity, requests>>
  BY DEF MemberStep
<1>2. requests' \in 0..MaxRequests /\ OtpStep(Purposes)
  BY <1>1 DEF IdentityInv, OtpStep
<1>3. MInv'
  <2>1. CASE AddMember(i) \/ CountAdmins(i) \/ RemoveMember(i) \/ ReadNotes(i)
    BY <2>1, AddKeeps, CountAdminsKeeps, RemoveKeeps, ReadKeeps
  <2>2. CASE \E m \in change[i].todo : SearchNote(i, m)
    BY <2>2, SearchKeeps
  <2>3. CASE \E f \in change[i].found : WriteNote(i, f)
    BY <2>3, WriteKeeps
  <2> QED
    BY <2>1, <2>2, <2>3 DEF MemberStep
<1>4. \A m \in members' : m \in members \/ m.user \in Accounts
  <2>1. CASE AddMember(i)
    <3>1. /\ change[i].at = "absent"
          /\ \/ members' = members
             \/ members' = members \cup
                  {[id |-> made.members + 1, user |-> change[i].user, role |-> change[i].role]}
      BY <2>1 DEF AddMember
    <3>2. change[i].user \in Accounts
      BY <3>1 DEF IdentityInv
    <3> QED
      BY <3>1, <3>2
  <2>2. CASE members' \subseteq members
    BY <2>2
  <2> QED
    BY <2>1, <2>2 DEF MemberStep, CountAdmins, RemoveMember, ReadNotes, SearchNote, WriteNote
<1>5. \A j \in Changers : change'[j].at = "absent" => change'[j] = change[j]
  <2> SUFFICES ASSUME NEW j \in Changers, change'[j].at = "absent"
               PROVE  change'[j] = change[j]
    OBVIOUS
  <2>1. change \in [Changers -> Changes(Emails, Sources) \cup {Resting}]
    BY DEF MInv, TypeOKMembers
  <2>2. CASE change' = [change EXCEPT ![i] = Resting]
    BY <2>1, <2>2 DEF Resting
  <2>3. CASE CountAdmins(i)
    <3>1. change[i] \in [at : {"removing"}, user : Ids]
      BY <2>1, <2>3 DEF CountAdmins, Changes, Resting
    <3>2. [change[i] EXCEPT !.at = "counted"].at = "counted"
      BY <3>1
    <3>3. \/ change' = [change EXCEPT ![i] = Resting]
          \/ change' = [change EXCEPT ![i] = [change[i] EXCEPT !.at = "counted"]]
      BY <2>3 DEF CountAdmins
    <3> QED
      BY <2>1, <2>2, <3>2, <3>3
  <2>4. CASE change[i].at = "notifying" /\ ((\E m \in change[i].todo : SearchNote(i, m))
                                             \/ \E f \in change[i].found : WriteNote(i, f))
    <3>1. change[i] \in [at : {"notifying"}, source : Sources, kind : Kinds, todo : SUBSET Memberships,
                         found : SUBSET [member : Memberships, note : Nat]]
      BY <2>1, <2>4 DEF Changes, Resting
    <3>2. /\ \A k \in Changers : k # i => change'[k] = change[k]
          /\ change'[i].at = "notifying" \/ change'[i] = Resting
      <4>1. CASE \E m \in change[i].todo : SearchNote(i, m)
        <5>0. PICK m \in change[i].todo : SearchNote(i, m)
          BY <4>1
        <5>1. PICK note :
                change' = [change EXCEPT ![i].todo = @ \ {m}, ![i].found = @ \cup {[member |-> m, note |-> note]}]
          BY <5>0 DEF SearchNote
        <5> DEFINE found == change[i].found \cup {[member |-> m, note |-> note]}
                   todo == change[i].todo \ {m}
                   next == [change[i] EXCEPT !.todo = todo, !.found = found]
        <5>2. change' = [change EXCEPT ![i] = next]
          BY <2>1, <3>1, <5>1
        <5> HIDE DEF found, todo
        <5>3. next.at = "notifying"
          BY <3>1
        <5> HIDE DEF next
        <5> QED
          BY <2>1, <5>2, <5>3
      <4>2. CASE \E f \in change[i].found : WriteNote(i, f)
        <5>1. PICK left : \/ change' = [change EXCEPT ![i] = Resting]
                          \/ change' = [change EXCEPT ![i] = [change[i] EXCEPT !.found = left]]
          BY <4>2 DEF WriteNote
        <5>2. [change[i] EXCEPT !.found = left].at = "notifying"
          BY <3>1
        <5> QED
          BY <2>1, <5>1, <5>2
      <4> QED
        BY <2>4, <4>1, <4>2
    <3> QED
      BY <3>2 DEF Resting
  <2> QED
    BY <2>2, <2>3, <2>4 DEF MemberStep, AddMember, RemoveMember, ReadNotes
<1>6. IdentityInv' /\ Accounts' = Accounts
  BY <1>1, <1>2, <1>4, <1>5, MembersKnown
<1> QED
  BY <1>2, <1>3, <1>6 DEF Kept

\* Every step keeps all three.
LEMMA EveryStep ==
  ASSUME IInv, Next
  PROVE  Kept
<1>0. MInv /\ IdentityInv /\ LoginsInv /\ TypeOKPasswords(Purposes)
  BY Parts DEF PInv, Purposes
<1>1. ASSUME NEW e \in Emails, Login(e)
      PROVE  Kept
  <2>1. e \in Addresses
    BY PeopleAssumption
  <2> QED
    BY <1>0, <1>1, <2>1, PasswordAsked DEF Login, OtpStep
<1>2. ASSUME NEW c \in Ips, Verify(c)
      PROVE  Kept
  <2>1. Emails \subseteq Addresses /\ "login" \in Purposes
    BY PeopleAssumption DEF Purposes
  <2>2. OtpStep(Purposes)
    BY <1>2, <2>1 DEF Verify, OtpStep
  <2> QED
    BY <1>0, <1>2, <2>2, PasswordAsked DEF Verify
<1>3. ASSUME NEW c \in Ips, SgidLogin(c)
      PROVE  Kept
  <2>1. Officer[c] \subseteq Emails
    BY PeopleAssumption
  <2>2. officers' \in [Ips -> SUBSET Emails]
    BY <1>0, <1>3, <2>1 DEF SgidLogin, IdentityInv
  <2>3. UNCHANGED <<accounts, session>> \/ \E d \in Ips, e \in Emails : LoginWithEmail(d, e)
    BY <1>3, <2>1 DEF SgidLogin
  <2> QED
    BY <1>0, <1>3, <2>2, <2>3, LoginKeeps DEF SgidLogin, OtpStep
<1>4. ASSUME NEW c \in Ips, SgidMultiuserLogin(c)
      PROVE  Kept
  <2>1. officers[c] \subseteq Emails
    BY <1>0 DEF IdentityInv
  <2>2. officers' \in [Ips -> SUBSET Emails]
    BY <1>0, <1>4 DEF SgidMultiuserLogin, IdentityInv
  <2>3. UNCHANGED <<accounts, session>> \/ \E d \in Ips, e \in Emails : LoginWithEmail(d, e)
    BY <1>4, <2>1 DEF SgidMultiuserLogin
  <2> QED
    BY <1>0, <1>4, <2>2, <2>3, LoginKeeps DEF SgidMultiuserLogin, OtpStep
<1>5. ASSUME NEW c \in Ips, GitHubLogin(c) \/ Logout(c) \/ Whoami(c)
      PROVE  Kept
  BY <1>0, <1>5, GitHubLoginKeeps, LeaveKeeps DEF Logout, Whoami
<1>6. ASSUME NEW c \in Ips, SendEmailOtp(c) \/ SendMobileNumberOtp(c)
      PROVE  Kept
  <2>1. PICK a \in Addresses : SendTo(c, a)
    BY <1>6, PeopleAssumption DEF SendEmailOtp, SendMobileNumberOtp
  <2> QED
    BY <1>0, <2>1, PasswordAsked DEF SendTo, OtpStep
<1>7. ASSUME NEW c \in Ips, VerifyEmailOtp(c) \/ VerifyMobileNumberOtp(c)
      PROVE  Kept
  <2>1. PICK a \in Addresses : VerifyAddress(c, a)
    BY <1>7, PeopleAssumption DEF VerifyEmailOtp, VerifyMobileNumberOtp
  <2>2. session[c].id \in Purposes
    BY <1>0, <2>1 DEF VerifyAddress, LoggedIn, IdentityInv, Purposes
  <2>3. session[c].id # "login"
    BY <1>0, <2>1, PeopleAssumption DEF VerifyAddress, LoggedIn, IdentityInv, Accounts
  <2>4. OtpStep(Purposes)
    BY <2>1, <2>2, <2>3 DEF VerifyAddress, OtpStep
  <2> QED
    BY <1>0, <2>1, <2>4, PasswordAsked DEF VerifyAddress
<1>8. ASSUME NEW i \in Slots, Attempt(i)
      PROVE  Kept
  BY <1>0, <1>8, PasswordAsked DEF Attempt, OtpStep
<1>9. ASSUME NEW i \in Slots, LogIn(i)
      PROVE  Kept
  <2> DEFINE v == verification[i]
  <2>1. v \in Verifications(Purposes)
    <3>1. v.at = "valid" /\ Free.at = "free"
      BY <1>9 DEF LogIn, Free
    <3> QED
      BY <1>0, <3>1 DEF TypeOKPasswords
  <2>2. v.ip \in Ips
    BY <2>1 DEF Verifications
  <2>3. v.address \in Emails
    BY <1>0, <1>9 DEF LogIn, LoginsInv, Busy, UnderWay
  <2>4. OtpStep(Purposes)
    BY <1>9 DEF LogIn, OtpStep
  <2>5. officers' \in [Ips -> SUBSET Emails]
    BY <1>0, <1>9 DEF LogIn, IdentityInv
  <2> QED
    BY <1>0, <1>9, <2>2, <2>3, <2>4, <2>5, LoginKeeps DEF LogIn
<1>10. ASSUME NEW i \in Slots, KeepAddress(i)
       PROVE  Kept
  BY <1>0, <1>10, AddressKeeps
<1>11. ASSUME NEW c \in Ips, CreateCollaborator(c) \/ DeleteCollaborator(c)
       PROVE  Kept
  <2>1. \A e \in Emails : [at |-> "adding", email |-> e] \in Changes(Emails, Sources)
    BY DEF Changes
  <2>2. \A u \in Ids : [at |-> "removing", user |-> u] \in Changes(Emails, Sources)
    BY DEF Changes
  <2>3. PICK asked \in Changes(Emails, Sources) : asked.at \in {"adding", "removing"} /\ AskToChange(c, asked)
    BY <1>11, <2>1, <2>2 DEF CreateCollaborator, DeleteCollaborator
  <2> QED
    BY <1>0, <2>3, AskKeeps
<1>12. ASSUME NEW c \in Ips, CreateNotification(c) \/ NotifyOfReview(c) \/ MarkNotificationsAsRead(c)
       PROVE  Kept
  BY <1>0, <1>12, NotifyKeeps, MarkKeeps DEF CreateNotification, NotifyOfReview, Kinds
<1>13. ASSUME NEW i \in Changers, FindMember(i) \/ MemberStep(i)
       PROVE  Kept
  BY <1>0, <1>13, FindKeeps, MemberStepKeeps
<1>14. ASSUME Time
       PROVE  Kept
  <2>1. PICK n \in notes : Age(n) /\ UNCHANGED <<otpVars, identity, requests>>
    BY <1>14 DEF Time
  <2>2. MInv'
    BY <1>0, <2>1, AgeKeeps
  <2>3. requests' \in 0..MaxRequests /\ OtpStep(Purposes)
    BY <1>0, <2>1 DEF IdentityInv, OtpStep
  <2>4. members' = members /\ change' = change
    BY <2>1 DEF Age
  <2>5. IdentityInv' /\ Accounts' = Accounts
    BY <1>0, <2>1, <2>3, <2>4, MembersKnown
  <2> QED
    BY <2>2, <2>3, <2>5 DEF Kept
<1> QED
  BY <1>1, <1>2, <1>3, <1>4, <1>5, <1>6, <1>7, <1>8, <1>9, <1>10, <1>11, <1>12, <1>13, <1>14 DEF Next

\* The start.
LEMMA InitInv ==
  ASSUME Init
  PROVE  IInv
<1>0. InitPasswords /\ InitMembers /\ officers = [c \in Ips |-> {}] /\ requests = 0
  BY DEF Init
<1>1. PInv({"login"} \cup Accounts)
  <2>1. PICK known \in {{}} \cup {{a} : a \in Addresses} :
          /\ sent = IF known = {} THEN 0 ELSE 1
          /\ otp = [a \in Addresses |->
                      IF a \in known THEN [id |-> 1, password |-> 1, attempts |-> 0, byIp |-> NoAttempts] ELSE NoRow]
    BY <1>0 DEF InitPasswords
  <2>2. /\ verification = [i \in Slots |-> Free] /\ used = {} /\ resent = {}
        /\ tried = [p \in 1..MaxSent |-> NoAttempts]
    BY <1>0 DEF InitPasswords
  <2> DEFINE row == [id |-> 1, password |-> 1, attempts |-> 0, byIp |-> NoAttempts]
  <2>3. NoAttempts \in [Ips -> Nat] /\ \A ip \in Ips : NoAttempts[ip] = 0
    BY DEF NoAttempts
  <2>4. MaxSent \in Nat \ {0} /\ MaxAttempts \in Nat \ {0} /\ NoRow \notin OtpRows
    BY OneTimePasswordsAssumption
  <2>5. row \in OtpRows /\ row.id = 1 /\ row.password = 1 /\ row.byIp = NoAttempts
    BY <2>3, <2>4 DEF OtpRows
  <2> HIDE DEF row
  <2>6. otp \in [Addresses -> OtpRows \cup {NoRow}] /\ \A a \in Addresses : otp[a] = NoRow \/ (a \in known /\ otp[a] = row)
    BY <2>1, <2>5 DEF row
  <2>7. sent \in 0..MaxSent /\ (known # {} => sent = 1) /\ \A a, b \in known : a = b
    BY <2>1, <2>4
  <2>8. \A i \in Slots : ~Busy(i) /\ verification[i].at = "free"
    BY <2>2 DEF Busy, UnderWay, Free
  <2>9. TypeOKPasswords({"login"} \cup Accounts)
    BY <2>2, <2>3, <2>6, <2>7 DEF TypeOKPasswords
  <2>10. PasswordInv
    BY <2>2, <2>5, <2>6, <2>7, <2>8 DEF PasswordInv
  <2>11. GuessInv
    <3>1. \A p \in 1..MaxSent : tried[p] = NoAttempts
      BY <2>2
    <3> QED
      BY <2>3, <2>4, <2>5, <2>6, <2>8, <3>1 DEF GuessInv
  <2> QED
    BY <2>9, <2>10, <2>11 DEF PInv
<1>2. /\ notes = {} /\ change = [i \in Changers |-> Resting] /\ clashed = FALSE /\ twins = {} /\ owed = {}
      /\ \A i \in Changers : change[i] = Resting
  BY <1>0 DEF InitMembers
<1>3. Resting.at = "resting"
  BY DEF Resting
<1>4. MInv
  <2>1. PICK user \in Ids, other \in Ids, role \in Roles :
          /\ members = {[id |-> 1, user |-> user, role |-> "ADMIN"]} \cup
                         {[id |-> 2, user |-> u, role |-> role] : u \in {other} \ {user}}
          /\ made = [members |-> IF other = user THEN 1 ELSE 2, notes |-> 0]
    BY <1>0 DEF InitMembers
  <2> DEFINE first == [id |-> 1, user |-> user, role |-> "ADMIN"]
             second == [id |-> 2, user |-> other, role |-> role]
  <2>2. /\ first \in Memberships /\ second \in Memberships
        /\ first.id = 1 /\ first.user = user /\ first.role = "ADMIN"
        /\ second.id = 2 /\ second.user = other
    BY DEF Memberships, Roles
  <2> HIDE DEF first, second
  <2>3. members = IF other = user THEN {first} ELSE {first, second}
    BY <2>1 DEF first, second
  <2>4. made \in [members : Nat, notes : Nat] /\ made.members = (IF other = user THEN 1 ELSE 2)
    BY <2>1
  <2>5. TypeOKMembers(Emails, Sources)
    BY <1>2, <2>2, <2>3, <2>4 DEF TypeOKMembers
  <2>6. MembersInv
    <3>1. first \in AdminsOf(members)
      BY <2>2, <2>3 DEF AdminsOf
    <3>2. \A k, m \in members : k.id = m.id \/ k.user = m.user => k = m
      BY <2>2, <2>3
    <3>3. \A m \in members : m.id <= made.members
      BY <2>2, <2>3, <2>4
    <3> QED
      BY <1>2, <1>3, <3>1, <3>2, <3>3 DEF MembersInv
  <2>7. OwnersInv /\ FoundInv /\ NotesInv
    BY <1>2, <1>3 DEF OwnersInv, FoundInv, NotesInv, FoundNotes, OneRecent, OwedInv, Notifying
  <2> QED
    BY <2>5, <2>6, <2>7 DEF MInv
<1>5. LoginsInv
  BY <1>0 DEF InitPasswords, LoginsInv, Busy, UnderWay, Free
<1>6. IdentityInv
  <2>1. PICK email \in [{m.user : m \in members} \cup IsomerAdmins -> Emails \cup {NoRow}], github \in GitHubIds :
          /\ accounts = [id \in Ids |-> IF id \notin DOMAIN email THEN NoRow
                                        ELSE NewAccount(email[id], IF email[id] = NoRow THEN github ELSE NoRow)]
          /\ session \in
               {[c \in Ips |-> [id |-> who[c], email |-> email[who[c]], github |-> accounts[who[c]].github]] :
                  who \in {f \in [Ips -> DOMAIN email] :
                            /\ \A c, d \in Ips : f[c] = f[d] => c = d
                            /\ \A c \in Ips : email[f[c]] \in Officer[c] \/ accounts[f[c]] = NewAccount(NoRow, GitHubUser[c])}}
    BY DEF Init
  <2> DEFINE Users == {m.user : m \in members} \cup IsomerAdmins
             Row(id) == NewAccount(email[id], IF email[id] = NoRow THEN github ELSE NoRow)
  <2>2. Users \subseteq Ids /\ DOMAIN email = Users /\ email \in [Users -> Emails \cup {NoRow}]
    BY <1>4, CollaboratorsAssumption DEF MInv, TypeOKMembers, Memberships
  <2>3. \A id \in Users : Row(id) \in AccountRows
    BY <2>2 DEF NewAccount, AccountRows
  <2>4. accounts = [id \in Ids |-> IF id \notin Users THEN NoRow ELSE Row(id)]
    BY <2>1, <2>2
  <2> HIDE DEF Row
  <2>5. accounts \in [Ids -> AccountRows \cup {NoRow}]
    BY <2>3, <2>4
  <2>6. Users \subseteq Accounts /\ \A id \in Users : accounts[id] \in AccountRows
    BY <2>2, <2>3, <2>4, PeopleAssumption DEF Accounts
  <2>7. \A id \in Users : accounts[id].github \in GitHubIds \cup {NoRow}
    BY <2>6 DEF AccountRows
  <2>8. PICK who \in [Ips -> Users] :
          session = [c \in Ips |-> [id |-> who[c], email |-> email[who[c]], github |-> accounts[who[c]].github]]
    BY <2>1, <2>2
  <2> HIDE DEF Users
  <2>9. \A c \in Ips : who[c] \in Users
    OBVIOUS
  <2>10. \A c \in Ips : session[c] = [id |-> who[c], email |-> email[who[c]], github |-> accounts[who[c]].github]
    BY <2>8
  <2>11. \A c \in Ips : session[c] \in Sessions /\ session[c].id = who[c]
    <3> SUFFICES ASSUME NEW c \in Ips
                 PROVE  session[c] \in Sessions /\ session[c].id = who[c]
      OBVIOUS
    <3>1. who[c] \in Ids /\ email[who[c]] \in Emails \cup {NoRow} /\ accounts[who[c]].github \in GitHubIds \cup {NoRow}
      BY <2>2, <2>7, <2>9
    <3>2. \A i \in Ids, e \in Emails \cup {NoRow}, g \in GitHubIds \cup {NoRow} :
            [id |-> i, email |-> e, github |-> g] \in Sessions
      BY DEF Sessions
    <3>3. session[c] = [id |-> who[c], email |-> email[who[c]], github |-> accounts[who[c]].github]
      BY <2>10
    <3>4. session[c] \in Sessions
      BY <3>1, <3>2, <3>3
    <3> QED
      BY <3>3, <3>4
  <2>12. session \in [Ips -> Sessions \cup {NoRow}]
    BY <2>8, <2>10, <2>11
  <2>13. \A c \in Ips : session[c] # NoRow => session[c].id \in Accounts
    BY <2>6, <2>9, <2>11
  <2>14. \A m \in members : m.user \in Accounts
    BY <2>6 DEF Users
  <2>15. \A i \in Changers : change[i].at = "absent" => change[i].user \in Accounts
    BY <1>2, <1>3
  <2>16. officers \in [Ips -> SUBSET Emails] /\ requests \in 0..MaxRequests
    BY <1>0, PeopleAssumption
  <2> QED
    BY <2>5, <2>12, <2>13, <2>14, <2>15, <2>16 DEF IdentityInv
<1> QED
  BY <1>1, <1>4, <1>5, <1>6, Parts

\* Every step keeps the invariant.
LEMMA StepInv ==
  ASSUME IInv, [Next]_vars
  PROVE  IInv'
<1> DEFINE Q == {"login"} \cup Accounts'
<1>0. PInv(Purposes) /\ MInv /\ IdentityInv /\ LoginsInv
  BY Parts DEF Purposes
<1>1. Kept
  <2>1. CASE Next
    BY <2>1, EveryStep
  <2>2. CASE UNCHANGED vars
    <3>1. UNCHANGED <<otpVars, memberVars, identity>> /\ UNCHANGED requests
      BY <2>2 DEF vars, identity
    <3>2. OtpStep(Purposes)
      BY <3>1 DEF OtpStep
    <3> QED
      BY <1>0, <3>1, <3>2, PasswordAsked
  <2> QED
    BY <2>1, <2>2
<1>2. OtpStep(Purposes) /\ MInv' /\ IdentityInv' /\ Accounts \subseteq Accounts'
  BY <1>1 DEF Kept
<1>3. PICK P : P = Purposes
  OBVIOUS
<1>4. PInv(P) /\ OtpStep(P) /\ TypeOKPasswords(P)
  BY <1>0, <1>2, <1>3 DEF PInv
<1>5. PInv(P)'
  BY <1>4, OtpKeeps
<1>6. LoginsInv'
  BY <1>0, <1>4, LoginsKept
<1>7. PInv({"login"} \cup Accounts)'
  <2>1. P \subseteq Q
    BY <1>2, <1>3 DEF Purposes
  <2>2. Verifications(P) \subseteq Verifications(Q)
    BY <2>1 DEF Verifications
  <2>3. verification' \in [Slots -> Verifications(Q) \cup {Free}]
    BY <1>5, <2>2 DEF PInv, TypeOKPasswords, Verifications, Free, OtpRows
  <2>4. TypeOKPasswords({"login"} \cup Accounts)'
    BY <1>5, <2>3 DEF PInv, TypeOKPasswords, Verifications, Free, OtpRows
  <2> QED
    BY <1>5, <2>4 DEF PInv
<1> QED
  BY <1>2, <1>6, <1>7
     DEF IInv, TypeOK, PInv, MInv, IdentityInv, LoginsInv, Sources, Busy, UnderWay

\* The inductive invariant of passwords, members and notifications holds in every state.
THEOREM Invariance == Spec => []IInv
<1>1. Init => IInv
  BY InitInv
<1>2. IInv /\ [Next]_vars => IInv'
  BY StepInv
<1> QED
  BY <1>1, <1>2, PTL DEF Spec

\* Rows, sessions and requests are what the code's types say, and whoever is a member, or
\* has a session, has an account.
THEOREM TypeCorrect == Spec => []TypeOK
<1>1. IInv => TypeOK
  BY DEF IInv
<1> QED
  BY <1>1, Invariance, PTL

\* verifyOtp: once a password is accepted it is in no row, whatever verifications overlap.
THEOREM PasswordsAreSpent == Spec => []UsedIsGone
<1>1. IInv => UsedIsGone
  BY DEF IInv, PasswordInv, UsedIsGone
<1> QED
  BY <1>1, Invariance, PTL

\* verifyOtp's update of the row it has loaded: no IP address compares more often than
\* MAX_NUM_OTP_ATTEMPTS with a password, unless one was under way as the password was sent.
THEOREM GuessesAreCounted == Spec => []GuessesAreBounded
<1>1. IInv => GuessesAreBounded
  BY DEF IInv, GuessInv, GuessesAreBounded
<1> QED
  BY <1>1, Invariance, PTL

\* delete counts the admins first: the last one goes only if two deletions overlap.
THEOREM AdminsRemain == Spec => []SiteKeepsAnAdmin
<1>1. IInv => SiteKeepsAnAdmin
  BY DEF IInv, MembersInv, SiteKeepsAnAdmin
<1> QED
  BY <1>1, Invariance, PTL

\* create renews what it finds: of one's edits in three hours a member has one
\* notification, unless two searches overlap, and who was notified is shown it.
THEOREM NotesAreOne == Spec => []OneUnreadNote
<1>1. ASSUME IInv
      PROVE  OneUnreadNote
  <2>1. \A n, o \in notes :
          n.kind = "updated_request" /\ o.kind = n.kind /\ n.recent /\ o.recent /\ KeyOf(n) = KeyOf(o)
          => n = o \/ KeyOf(n) \in twins
    BY <1>1 DEF IInv, NotesInv, OneRecent, Recent
  <2>2. ASSUME NEW o \in owed
        PROVE  \E n \in ListRecent(o.user) : KeyOf(n) = o /\ ~n.read
    <3>1. PICK n \in notes : KeyOf(n) = o /\ ~n.read
      BY <1>1 DEF IInv, NotesInv, OwedInv
    <3>2. n.user = o.user
      BY <3>1 DEF KeyOf
    <3>3. n \in ListRecent(o.user)
      BY <3>1, <3>2 DEF ListRecent
    <3> QED
      BY <3>1, <3>3
  <2> QED
    BY <2>1, <2>2 DEF OneUnreadNote
<1> QED
  BY <1>1, Invariance, PTL
================
