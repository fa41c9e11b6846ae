-------------------------- MODULE OneTimePasswords --------------------------
(***************************************************************************)
(* The one-time passwords UsersService sends to e-mail addresses and       *)
(* mobile numbers.  A verification loads the row of the address, counts    *)
(* the attempt of its IP address by an update of the row it has loaded,    *)
(* compares with the hash it has loaded, and deletes the row: others run   *)
(* between these steps.                                                    *)
(*                                                                         *)
(* Passwords are numbered in the order they are sent; 0 is a wrong one.    *)
(***************************************************************************)
EXTENDS Naturals

CONSTANTS
  Addresses,     \* e-mail addresses and mobile numbers
  Ips,           \* addresses requests come from
  Slots,         \* bound: verifications at one time
  MaxAttempts,   \* MAX_NUM_OTP_ATTEMPTS
  MaxSent,       \* bound: passwords
  NoRow

\* Rows of the table otps.
OtpRows == [id : 1..MaxSent, password : 1..MaxSent, attempts : Nat, byIp : [Ips -> Nat]]

ASSUME OneTimePasswordsAssumption ==
  MaxAttempts \in Nat \ {0} /\ MaxSent \in Nat \ {0} /\ NoRow \notin OtpRows

VARIABLES
  otp,           \* table otps: the row of an address
  sent,          \* passwords sent
  verification,  \* of a slot: a verification and the row it has loaded
  used,          \* history: passwords accepted
  tried,         \* history: comparisons with a password, by IP address
  resent         \* history: passwords with verifications under way as another was sent

otpVars == <<otp, sent, verification, used, tried, resent>>

Free == [at |-> "free"]
NoAttempts == [ip \in Ips |-> 0]

\* Verifications, for some purpose of the caller's, that are under way or have found the
\* password expired.
UnderWay == {"loaded", "valid"}
Verifications(purposes) ==
  [at : UnderWay \cup {"expired"}, address : Addresses, ip : Ips, guess : 0..MaxSent, row : OtpRows, for : purposes]

InitPasswords ==
  /\ \E known \in {{}} \cup {{a} : a \in Addresses} :   \* a password has been sent already, or not
       /\ sent = IF known = {} THEN 0 ELSE 1
       /\ otp = [a \in Addresses |->
                   IF a \in known
                   THEN [id |-> 1, password |-> 1, attempts |-> 0, byIp |-> NoAttempts]
                   ELSE NoRow]
  /\ verification = [i \in Slots |-> Free]
  /\ used = {} /\ resent = {}
  /\ tried = [p \in 1..MaxSent |-> NoAttempts]

TypeOKPasswords(purposes) ==
  /\ sent \in 0..MaxSent
  /\ otp \in [Addresses -> OtpRows \cup {NoRow}]
  /\ verification \in [Slots -> Verifications(purposes) \cup {Free}]
  /\ used \subseteq 1..sent /\ resent \subseteq 1..sent
  /\ tried \in [1..MaxSent -> [Ips -> Nat]]

\* sendEmailOtp, sendSmsOtp: an upsert; the row of the address keeps its id.
SendOtp(a) ==
  /\ sent < MaxSent
  /\ sent' = sent + 1
  /\ otp' = [otp EXCEPT ![a] = [id |-> IF @ = NoRow THEN sent + 1 ELSE @.id, password |-> sent + 1,
                                attempts |-> 0, byIp |-> NoAttempts]]
  /\ LET busy == {i \in Slots : verification[i].at \in UnderWay /\ verification[i].address = a}
     IN resent' = resent \cup {verification[i].row.password : i \in busy}
                         \cup (IF busy = {} THEN {} ELSE {sent + 1})
  /\ UNCHANGED <<verification, used, tried>>

\* verifyOtp: loads the row.  Without one, or with too many attempts, that is all; a row
\* whose time is over, which may be any, is to be deleted.
LoadOtp(i, a, ip, guess, for) ==
  /\ verification[i] = Free
  /\ guess \in 0..sent
  /\ \/ otp[a] = NoRow /\ UNCHANGED verification
     \/ otp[a] # NoRow /\ otp[a].byIp[ip] >= MaxAttempts /\ UNCHANGED verification
     \/ \E at \in {"loaded", "expired"} :
          /\ otp[a] # NoRow
          /\ at = "loaded" => otp[a].byIp[ip] < MaxAttempts
          /\ verification' = [verification EXCEPT ![i] =
               [at |-> at, address |-> a, ip |-> ip, guess |-> guess, row |-> otp[a], for |-> for]]
  /\ UNCHANGED <<otp, sent, used, tried, resent>>

\* Mutation: the attempts are not compared.
BugUnchanged(v) == otp[v.address] # NoRow /\ otp[v.address].id = v.row.id

\* The row the update is for: it has the id and the number of attempts loaded.
Unchanged(v) ==
  /\ otp[v.address] # NoRow
  /\ otp[v.address].id = v.row.id /\ otp[v.address].attempts = v.row.attempts

\* The attempt is counted, or the verification fails; then the comparison with the hash
\* that was loaded.
CountAttempt(i) ==
  LET v == verification[i] IN
  /\ v.at = "loaded"
  /\ \/ /\ Unchanged(v)
        /\ otp' = [otp EXCEPT ![v.address].attempts = v.row.attempts + 1,
                              ![v.address].byIp = [v.row.byIp EXCEPT ![v.ip] = @ + 1]]
        /\ tried' = [tried EXCEPT ![v.row.password][v.ip] = @ + 1]
        /\ verification' = [verification EXCEPT ![i] =
                              IF v.guess = v.row.password THEN [v EXCEPT !.at = "valid"] ELSE Free]
     \/ ~Unchanged(v) /\ verification' = [verification EXCEPT ![i] = Free] /\ UNCHANGED <<otp, tried>>
  /\ UNCHANGED <<sent, used, resent>>

\* Mutation: the row stays.
BugDestroyed(v) == otp

\* otpDestroyEntry: by id, whatever the row now holds.
Destroyed(v) ==
  IF otp[v.address] # NoRow /\ otp[v.address].id = v.row.id
  THEN [otp EXCEPT ![v.address] = NoRow] ELSE otp

\* The password is used.
UseOtp(i) ==
  /\ verification[i].at = "valid"
  /\ otp' = Destroyed(verification[i])
  /\ used' = used \cup {verification[i].row.password}
  /\ verification' = [verification EXCEPT ![i] = Free]
  /\ UNCHANGED <<sent, tried, resent>>

\* The expired row is destroyed, though a new password may be in it by then.
DestroyExpired(i) ==
  /\ verification[i].at = "expired"
  /\ otp' = Destroyed(verification[i])
  /\ verification' = [verification EXCEPT ![i] = Free]
  /\ UNCHANGED <<sent, used, tried, resent>>

-----------------------------------------------------------------------------
\* A password cannot be used again: once a verification has accepted it, it is in no row
\* (two verifications that overlap can both be accepted).
UsedIsGone == \A a \in Addresses : otp[a] # NoRow => otp[a].password \notin used

\* An IP address gets its number of comparisons with a password and no more, however its
\* requests overlap, unless a verification was under way as a password was sent.
GuessesAreBounded ==
  \A p \in 1..MaxSent : p \in resent \/ \A ip \in Ips : tried[p][ip] <= MaxAttempts
=============================================================================
