------------------------------ MODULE TokenPool ------------------------------
(***************************************************************************)
(* The GitHub access tokens of the users who log in by e-mail              *)
(* (TokenService).  Every server keeps what it knows of the use of the     *)
(* active tokens, from the answers it has got.  When none is below its     *)
(* threshold it goes over, for an hour, to a reserved token, which it      *)
(* books in the database so that no other server takes it.  Neither the    *)
(* booking nor its end is waited for: either may be rejected and nobody     *)
(* learns of it; and timers die with their server.                         *)
(*                                                                         *)
(* Time passes in steps; any number of things happen within one.  Of what  *)
(* is left of a token in its hour at GitHub, only counts whether it is     *)
(* more than the part TokenService leaves alone (GITHUB_TOKEN_LIMIT -      *)
(* GITHUB_TOKEN_THRESHOLD): low if not.                                    *)
(***************************************************************************)
EXTENDS Naturals, FiniteSets

CONSTANTS
  Servers, Active, Reserved,   \* servers and tokens
  NoToken,
  Hour,         \* steps of an hour
  Slots,        \* bound: the requests that wait for the database at one time
  MaxNow,       \* bound: time; only the first requests of a server come that late
  MaxLosses     \* bound: servers that die, updates that are rejected

ASSUME TokenPoolAssumption ==
  /\ Active \cap Reserved = {} /\ NoToken \notin Active \cup Reserved
  /\ Hour \in Nat \ {0}
  /\ MaxNow \in Nat /\ MaxLosses \in Nat

NoTime == MaxNow + Hour + 1        \* NO_RESET_TIME, null

VARIABLES
  now,
  row,       \* database: resetTime of a reserved token
  writes,    \* updates of rows that nobody waits for
  known,     \* of a server: whether initialised, and until when its active tokens are low
  reserve,   \* of a server: reservedTokenData, or its token is NoToken
  spare,     \* of a server: useReservedTokens
  timers,    \* timeouts of the servers
  call,      \* requests waiting for the database
  raced,     \* history: tokens found free by two searches before a booking was written
  orphaned,  \* history: tokens whose timer died with a server, or an update of whose row was
             \* rejected or died with a server
  asked,     \* history: when the last server asked for stranded bookings as it started, since
             \* an update that ends one was last rejected or died with a server
  losses

vars == <<now, row, writes, known, reserve, spare, timers, call,
          raced, orphaned, asked, losses>>

NoReserve == [token |-> NoToken, low |-> TRUE, until |-> 0]
Idle == [at |-> "none"]
Past(time) == time = NoTime \/ time < now

TypeOK ==
  /\ now \in 0..MaxNow
  /\ row \in [Reserved -> 0..NoTime]
  /\ writes \subseteq [of : Servers, token : Reserved, value : 0..NoTime]
  /\ known \in [Servers -> [init : BOOLEAN, low : [Active -> 0..NoTime]]]
  /\ reserve \in [Servers -> [token : Reserved \cup {NoToken}, low : BOOLEAN,
                              until : 0..(MaxNow + Hour)]]
  /\ spare \in [Servers -> BOOLEAN]
  /\ timers \subseteq [of : Servers, token : Reserved \cup {NoToken}, due : 0..(MaxNow + Hour)]
  /\ call \in [Slots -> {Idle}
        \cup [at : {"init"}, server : Servers, time : 0..MaxNow, past : SUBSET Reserved]
        \cup [at : {"found"}, server : Servers, token : Reserved]]
  /\ raced \subseteq Reserved /\ orphaned \subseteq Reserved
  /\ asked \in 0..MaxNow
  /\ losses \in 0..MaxLosses

Init ==
  /\ now = 0
  /\ row = [t \in Reserved |-> NoTime]
  /\ known = [s \in Servers |-> [init |-> FALSE, low |-> [t \in Active |-> NoTime]]]
  /\ reserve = [s \in Servers |-> NoReserve]
  /\ spare = [s \in Servers |-> FALSE]
  /\ writes = {} /\ timers = {} /\ call = [i \in Slots |-> Idle]
  /\ raced = {} /\ orphaned = {} /\ asked = 0 /\ losses = 0

database == <<row, writes>>
server == <<known, reserve, spare, timers>>
history == <<raced, orphaned, asked, losses>>

-----------------------------------------------------------------------------
\* Choosing a token.

\* selectActiveToken: those it chooses from are below the threshold as far as known, or
\* their hour is past; of them it takes one whose hour is to end soonest.
ActiveTokens(low) == {t \in Active : Past(low[t])}

HasReserve(s) == reserve[s].token # NoToken /\ ~reserve[s].low

\* Mutation: the search takes a token whatever its resetTime.
BugUnbooked == Reserved

\* Reserved tokens that nobody has booked, as the database has it.
Unbooked == {t \in Reserved : row[t] = NoTime}

\* Another search has found the token, or an update of it is on its way.
FoundTwice(i, t) ==
  (\E j \in Slots \ {i} : call[j].at = "found" /\ call[j].token = t) \/ (\E w \in writes : w.token = t)

\* sourceReservedToken: the search; nothing found is NoAvailableTokenError, and the
\* request goes to GitHub without a token.
SourceReservedToken(i, s) ==
  /\ \/ \E t \in Unbooked :
          /\ call' = [call EXCEPT ![i] = [at |-> "found", server |-> s, token |-> t]]
          /\ raced' = IF FoundTwice(i, t) THEN raced \cup {t} ELSE raced
     \/ Unbooked = {} /\ call' = [call EXCEPT ![i] = Idle] /\ UNCHANGED raced
  /\ UNCHANGED <<reserve, spare, timers>>

\* switchToReserve, and keeping the token: only if the server does not use reserves yet.
Switch(s, data, ending) ==
  IF spare[s]
  THEN timers' = timers \cup ending /\ UNCHANGED <<reserve, spare>>
  ELSE /\ spare' = [spare EXCEPT ![s] = TRUE]
       /\ reserve' = [reserve EXCEPT ![s] = data]
       /\ timers' = timers \cup ending \cup {[of |-> s, token |-> NoToken, due |-> now + Hour]}

\* selectToken, given what the server knows of its active tokens.
SelectToken(i, s, low) ==
  LET active == IF spare[s] THEN {} ELSE ActiveTokens(low) IN
  \/ /\ active # {}
     /\ call' = [call EXCEPT ![i] = Idle]
     /\ UNCHANGED <<reserve, spare, timers, raced>>
  \/ /\ active = {} /\ HasReserve(s)
     /\ Switch(s, reserve[s], {})
     /\ call' = [call EXCEPT ![i] = Idle]
     /\ UNCHANGED raced
  \/ active = {} /\ ~HasReserve(s) /\ SourceReservedToken(i, s)

\* Mutation: cleared before their time, and not after it.
BugStranded == {t \in Reserved : row[t] # NoTime /\ row[t] > now}

\* resetStrandedTokens: bookings whose end has passed.
Stranded == {t \in Reserved : row[t] < now}

\* getAccessToken for a request to GitHub; the first ones of a server initialise it.
GetAccessToken(s) ==
  \E i \in Slots :
     /\ call[i] = Idle
     /\ \/ known[s].init /\ now < MaxNow /\ SelectToken(i, s, known[s].low)
        \/ /\ ~known[s].init
           /\ call' = [call EXCEPT ![i] = [at |-> "init", server |-> s, time |-> now,
                                           past |-> Stranded]]
           /\ UNCHANGED <<reserve, spare, timers, raced>>
     /\ UNCHANGED <<now, database, known, orphaned, asked, losses>>

\* ensureInitialization: bookings that were over when it asked are to be cleared, and all
\* it knew of active tokens is forgotten; then the request goes on.
Initialised(i) ==
  /\ call[i].at = "init"
  /\ LET s == call[i].server
         low == [t \in Active |-> NoTime]
     IN /\ known' = [known EXCEPT ![s] = [init |-> TRUE, low |-> low]]
        /\ writes' = writes \cup {[of |-> s, token |-> t, value |-> NoTime] : t \in call[i].past}
        /\ asked' = IF call[i].time > asked THEN call[i].time ELSE asked
        /\ SelectToken(i, s, low)
  /\ UNCHANGED <<now, row, orphaned, losses>>

\* Mutation: the end of a booking is left to the next start of a server.
BugBookingTimer(s, t) == {}

\* setTimeout of occupyReservedToken
BookingTimer(s, t) == {[of |-> s, token |-> t, due |-> now + Hour]}

\* occupyReservedToken, whose update is not waited for, and the use of the token found.
Occupy(i) ==
  /\ call[i].at = "found"
  /\ LET s == call[i].server
         t == call[i].token
     IN /\ writes' = writes \cup {[of |-> s, token |-> t, value |-> now + Hour]}
        /\ Switch(s, [token |-> t, low |-> FALSE, until |-> now + Hour], BookingTimer(s, t))
        /\ call' = [call EXCEPT ![i] = Idle]
  /\ UNCHANGED <<now, row, known, history>>

-----------------------------------------------------------------------------
\* updateTokens: an answer replaces what the server knows of the token.  Any number of
\* requests are under way and answers come in any order, so one may say anything, of an
\* hour that has begun before or after this one.
OnResponse(s) ==
  /\ known[s].init
  /\ \/ /\ \E t \in Active, until \in {NoTime, now + Hour} :
             known' = [known EXCEPT ![s].low[t] = until]
        /\ UNCHANGED reserve
     \/ /\ reserve[s].token # NoToken
        /\ \E low \in BOOLEAN : reserve' = [reserve EXCEPT ![s].low = low]
        /\ UNCHANGED known
  /\ UNCHANGED <<now, database, spare, timers, call, history>>

\* An update of a row reaches the database.
Write(w) ==
  /\ writes' = writes \ {w}
  /\ row' = [row EXCEPT ![w.token] = w.value]
  /\ UNCHANGED <<now, server, call, history>>

\* An update is rejected: a promise that nobody looks at, which the process survives
\* (--unhandled-rejections=warn).  The row stays as it is.
WriteFails(w) ==
  /\ losses < MaxLosses /\ losses' = losses + 1
  /\ writes' = writes \ {w}
  /\ orphaned' = orphaned \cup {w.token}
  /\ asked' = IF w.value = NoTime THEN 0 ELSE asked
  /\ UNCHANGED <<now, row, server, call, raced>>

\* A timer: the server goes back to its active tokens, or ends a booking.
Timer(timer) ==
  /\ timer.due <= now
  /\ timers' = timers \ {timer}
  /\ IF timer.token = NoToken
     THEN /\ spare' = [spare EXCEPT ![timer.of] = FALSE]
          /\ UNCHANGED writes
     ELSE /\ writes' = writes \cup {[of |-> timer.of, token |-> timer.token, value |-> NoTime]}
          /\ UNCHANGED spare
  /\ UNCHANGED <<now, row, known, reserve, call, history>>

\* A timer fires within the step of time it is due, and an update is written in it.
Tick ==
  /\ now < MaxNow
  /\ now' = now + 1
  /\ \A timer \in timers : timer.due > now
  /\ writes = {}
  /\ \A i \in Slots : call[i] = Idle
  /\ UNCHANGED <<database, server, call, history>>

\* A server dies and starts again: what it knows, its timers and its updates are lost.
Crash(s) ==
  /\ known[s].init
  /\ losses < MaxLosses /\ losses' = losses + 1
  /\ known' = [known EXCEPT ![s] = [init |-> FALSE, low |-> [t \in Active |-> NoTime]]]
  /\ reserve' = [reserve EXCEPT ![s] = NoReserve]
  /\ spare' = [spare EXCEPT ![s] = FALSE]
  /\ timers' = {timer \in timers : timer.of # s}
  /\ writes' = {w \in writes : w.of # s}
  /\ call' = [i \in Slots |-> IF call[i] # Idle /\ call[i].server = s THEN Idle ELSE call[i]]
  /\ orphaned' = orphaned \cup {x.token : x \in {y \in timers \cup writes : y.of = s /\ y.token # NoToken}}
  /\ asked' = IF \E w \in writes : w.of = s /\ w.value = NoTime THEN 0 ELSE asked
  /\ UNCHANGED <<now, row, raced>>

Next ==
  \/ \E s \in Servers : GetAccessToken(s) \/ OnResponse(s) \/ Crash(s)
  \/ \E i \in Slots :
       Initialised(i) \/ Occupy(i)
  \/ \E w \in writes : Write(w) \/ WriteFails(w)
  \/ \E timer \in timers : Timer(timer)
  \/ Tick

Spec == Init /\ [][Next]_vars

-----------------------------------------------------------------------------
\* Two servers keep the same reserved token within the hour they took it for only if both
\* had found it before either booking was written, or its booking was rejected, or died
\* with a server.
ReserveIsExclusive ==
  \A s, r \in Servers :
    s # r /\ reserve[s].token = reserve[r].token /\ reserve[s].token # NoToken
      /\ now < reserve[s].until /\ now < reserve[r].until
    => reserve[s].token \in raced \cup orphaned

\* Nothing lasts for ever: a booking, and the use of reserved tokens by a server, end by
\* a timer that is still to come, unless the timer died with a server or the update that
\* ends the booking was rejected or died.
TimersRunOut ==
  /\ \A t \in Reserved :
       row[t] # NoTime /\ t \notin orphaned =>
         \/ \E timer \in timers : timer.token = t
         \/ \E w \in writes : w.token = t /\ w.value = NoTime
  /\ \A s \in Servers : spare[s] => \E timer \in timers : timer.of = s /\ timer.token = NoToken

\* The booking that a dead server has left is cleared by the next server that starts after
\* its end (one that is not over when servers start stays), unless its update is rejected
\* or dies with that server as well: then it is left to the one after.
StrandedEndAtStart ==
  \A t \in Reserved :
    row[t] # NoTime /\ asked > row[t] => \E w \in writes : w.token = t
=============================================================================
