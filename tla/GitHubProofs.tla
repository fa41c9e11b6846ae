------------------------------ MODULE GitHubProofs -----------------------------
(***************************************************************************)
(* The two ways the services use GitHub directly: the tokens its API is    *)
(* called with, and the content of the sites that only GitHub has.  They   *)
(* share no state.                                                         *)
(*                                                                         *)
(* Tokens, for any servers, tokens and requests.  A token that no two      *)
(* searches have found at once, and of which no timer or update was lost   *)
(* with a server or rejected, goes round: free,                            *)
(* found by one request, its booking being written, booked with one timer  *)
(* to end it, its end being written.  A server that keeps it within its    *)
(* hour is the one whose timer is the one of the booking, so there is at   *)
(* most one (CleanInv).  Without the history of races only the weaker      *)
(* BookedInv holds: what is booked has a timer that is due when the        *)
(* booking ends, or the end is being written.                              *)
(*                                                                         *)
(* Content, for any rooms, categories, posts, albums, pictures and texts.  *)
(* A request makes its tree calls before it has changed anything, so they  *)
(* are built on the head; a deletion that nobody waits for is followed by  *)
(* calls on the config alone, which do the same with it and without it     *)
(* (Chain, SyncInv, UnderDeletion).  The calls of a room leave its name    *)
(* and its index file in step when the last of them is made (RoomPending). *)
(***************************************************************************)
EXTENDS TokenPool, SiteContent, SequenceTheorems, TLAPS

(***************************************************************************)
(* The tokens                                                              *)
(***************************************************************************)

Clean(t) == t \notin raced \cup orphaned
Found(i, t) == call[i].at = "found" /\ call[i].token = t

\* Bookings are written in the step of time they are made in, and timers fire in the step
\* they are due.
TimeInv ==
  /\ \A w \in writes : w.value = NoTime \/ w.value = now + Hour
  /\ \A x \in timers : now <= x.due

\* Bookings that did not die with a server have their timer, or are about to end; the
\* start of a server takes none of them for stranded.
Ends(t) ==
  \/ \E x \in timers : x.token = t /\ x.due = row[t]
  \/ \E w \in writes : w.token = t /\ w.value = NoTime
Timed(t) ==
  \A w \in writes : w.token = t /\ w.value # NoTime =>
    \E x \in timers : x.token = t /\ x.due = w.value
BookedInv ==
  \A t \in Reserved : t \notin orphaned =>
    /\ row[t] # NoTime => now <= row[t] /\ Ends(t)
    /\ Timed(t)
    /\ \A i \in Slots : call[i].at = "init" => t \notin call[i].past

\* A server that uses reserved tokens has a timer to end that.
SpareInv == \A s \in Servers : spare[s] => \E x \in timers : x.of = s /\ x.token = NoToken

\* The start of a server is over within the step of time it asked in, and finds every
\* booking that had ended.
AskedInv ==
  /\ asked <= now
  /\ \A i \in Slots : call[i].at = "init" =>
       call[i].time = now /\ \A t \in Reserved : row[t] < now => t \in call[i].past
  /\ \A t \in Reserved : row[t] # NoTime /\ asked > row[t] =>
       \E w \in writes : w.token = t /\ w.value = NoTime

\* The round of a token that was not raced for and is not orphaned.
OneSearch(t) ==
  \A i \in Slots : Found(i, t) =>
    /\ \A j \in Slots : Found(j, t) => i = j
    /\ row[t] = NoTime
    /\ \A w \in writes : w.token # t
    /\ \A x \in timers : x.token # t
OneUpdate(t) == \A w, v \in writes : w.token = t /\ v.token = t => w = v
OneTimer(t) == \A x, y \in timers : x.token = t /\ y.token = t => x = y
UpdateMatches(t) ==
  \A w \in writes : w.token = t =>
    IF w.value = NoTime THEN row[t] # NoTime /\ \A x \in timers : x.token # t
                        ELSE \E x \in timers : x.token = t /\ x.due = w.value
TimerMatches(t) ==
  \A x \in timers : x.token = t =>
    row[t] = x.due \/ \E w \in writes : w.token = t /\ w.value = x.due
HeldIsBooked(t) ==
  \A s \in Servers : reserve[s].token = t /\ now < reserve[s].until =>
    \E x \in timers : x.of = s /\ x.token = t /\ x.due = reserve[s].until
Round(t) ==
  /\ OneSearch(t) /\ OneUpdate(t) /\ OneTimer(t)
  /\ UpdateMatches(t) /\ TimerMatches(t) /\ HeldIsBooked(t)
CleanInv == \A t \in Reserved : Clean(t) => Round(t)

IInv == TypeOK /\ TimeInv /\ BookedInv /\ SpareInv /\ AskedInv /\ CleanInv

-----------------------------------------------------------------------------
(* Types, and what a search does                                           *)

\* No time of a booking or a timer is taken for none.
LEMMA TimeFacts ==
  ASSUME TypeOK
  PROVE  /\ NoTime \in Nat /\ now \in Nat /\ Hour \in Nat \ {0} /\ now + Hour \in 0..(MaxNow + Hour)
         /\ now < NoTime /\ now + Hour # NoTime /\ now < now + Hour /\ now + Hour \in 0..NoTime
         /\ \A x \in timers : x.due \in Nat /\ x.due # NoTime
         /\ NoTime \in 0..NoTime /\ now \in 0..MaxNow
<1>1. MaxNow \in Nat /\ Hour \in Nat \ {0} /\ now \in 0..MaxNow
  BY TokenPoolAssumption DEF TypeOK
<1>2. \A x \in timers : x.due \in 0..(MaxNow + Hour)
  BY DEF TypeOK
<1> QED
  BY <1>1, <1>2 DEF NoTime

\* A request that needs a token ends its choice, which may put its server on the token it
\* keeps, or it has found a token nobody has booked.
Ended(i, s) ==
  /\ call' = [call EXCEPT ![i] = Idle] /\ UNCHANGED <<raced, reserve>>
  /\ \/ UNCHANGED <<spare, timers>>
     \/ /\ spare' = [spare EXCEPT ![s] = TRUE]
        /\ timers' = timers \cup {[of |-> s, token |-> NoToken, due |-> now + Hour]}
Searched(i, s, t) ==
  /\ row[t] = NoTime /\ UNCHANGED <<reserve, spare, timers>>
  /\ call' = [call EXCEPT ![i] = [at |-> "found", server |-> s, token |-> t]]
  /\ raced' = IF FoundTwice(i, t) THEN raced \cup {t} ELSE raced

LEMMA SelectCases ==
  ASSUME TypeOK, NEW i \in Slots, NEW s \in Servers, NEW low, SelectToken(i, s, low)
  PROVE  Ended(i, s) \/ \E t \in Reserved : Searched(i, s, t)
<1>1. CASE HasReserve(s) /\ Switch(s, reserve[s], {}) /\ call' = [call EXCEPT ![i] = Idle]
           /\ UNCHANGED raced
  <2>1. [reserve EXCEPT ![s] = reserve[s]] = reserve
    BY DEF TypeOK
  <2> QED
    BY <1>1, <2>1 DEF Switch, Ended
<1>2. CASE SourceReservedToken(i, s)
  BY <1>2 DEF SourceReservedToken, Unbooked, Searched, Ended
<1>3. CASE call' = [call EXCEPT ![i] = Idle] /\ UNCHANGED <<reserve, spare, timers, raced>>
  BY <1>3 DEF Ended
<1> QED
  BY <1>1, <1>2, <1>3 DEF SelectToken

Calls == {Idle} \cup [at : {"init"}, server : Servers, time : 0..MaxNow, past : SUBSET Reserved]
                \cup [at : {"found"}, server : Servers, token : Reserved]
Timers == [of : Servers, token : Reserved \cup {NoToken}, due : 0..(MaxNow + Hour)]
Updates == [of : Servers, token : Reserved, value : 0..NoTime]
Keeps == [token : Reserved \cup {NoToken}, low : BOOLEAN, until : 0..(MaxNow + Hour)]

\* The choice of a token keeps the types.
LEMMA SelectType ==
  ASSUME TypeOK, NEW i \in Slots, NEW s \in Servers, NEW low, SelectToken(i, s, low)
  PROVE  /\ call' \in [Slots -> Calls] /\ spare' \in [Servers -> BOOLEAN]
         /\ timers' \subseteq Timers /\ raced' \subseteq Reserved /\ UNCHANGED reserve
<1>0. call \in [Slots -> Calls] /\ timers \subseteq Timers
  BY DEF TypeOK, Calls, Timers
<1>1. CASE Ended(i, s)
  <2>1. [of |-> s, token |-> NoToken, due |-> now + Hour] \in Timers
    BY TimeFacts DEF Timers
  <2>2. Idle \in Calls
    BY DEF Calls
  <2> QED
    BY <1>0, <1>1, <2>1, <2>2 DEF Ended, TypeOK
<1>2. ASSUME NEW t \in Reserved, Searched(i, s, t)
      PROVE  /\ call' \in [Slots -> Calls] /\ spare' \in [Servers -> BOOLEAN]
             /\ timers' \subseteq Timers /\ raced' \subseteq Reserved /\ UNCHANGED reserve
  <2>1. [at |-> "found", server |-> s, token |-> t] \in Calls
    BY DEF Calls
  <2> QED
    BY <1>0, <1>2, <2>1 DEF Searched, TypeOK
<1> QED
  BY <1>1, <1>2, SelectCases

\* Every step keeps the types.
LEMMA TypeStep == TypeOK /\ [Next]_vars => TypeOK'
<1> SUFFICES ASSUME TypeOK, [Next]_vars
             PROVE  TypeOK'
  OBVIOUS
<1> USE DEF database, server, history
<1>0. /\ call \in [Slots -> Calls] /\ timers \subseteq Timers /\ writes \subseteq Updates
      /\ reserve \in [Servers -> Keeps] /\ spare \in [Servers -> BOOLEAN]
      /\ MaxLosses \in Nat /\ MaxNow \in Nat
  BY TokenPoolAssumption DEF TypeOK, Calls, Timers, Updates, Keeps
<1>1. ASSUME NEW s \in Servers, GetAccessToken(s)
      PROVE  TypeOK'
  <2>1. PICK i \in Slots :
          \/ SelectToken(i, s, known[s].low)
          \/ /\ call' = [call EXCEPT ![i] = [at |-> "init", server |-> s, time |-> now, past |-> Stranded]]
             /\ UNCHANGED <<reserve, spare, timers, raced>>
    BY <1>1 DEF GetAccessToken
  <2>2. [at |-> "init", server |-> s, time |-> now, past |-> Stranded] \in Calls
    BY TimeFacts DEF Calls, Stranded
  <2>3. call' \in [Slots -> Calls] /\ spare' \in [Servers -> BOOLEAN]
        /\ timers' \subseteq Timers /\ raced' \subseteq Reserved /\ UNCHANGED reserve
    BY <1>0, <2>1, <2>2, SelectType DEF TypeOK
  <2> QED
    BY <1>1, <2>3 DEF GetAccessToken, TypeOK, Calls, Timers
<1>2. ASSUME NEW i \in Slots, Initialised(i)
      PROVE  TypeOK'
  <2> DEFINE s == call[i].server
  <2>1. call[i].at = "init" /\ call[i] \in Calls /\ call[i] # Idle
    BY <1>0, <1>2 DEF Initialised, Idle
  <2>2. s \in Servers /\ call[i].past \subseteq Reserved /\ call[i].time \in 0..MaxNow
    BY <2>1 DEF Calls, Idle
  <2>3. call' \in [Slots -> Calls] /\ spare' \in [Servers -> BOOLEAN]
        /\ timers' \subseteq Timers /\ raced' \subseteq Reserved /\ UNCHANGED reserve
    BY <1>2, <2>2, SelectType DEF Initialised
  <2>4. known' \in [Servers -> [init : BOOLEAN, low : [Active -> 0..NoTime]]]
    BY <1>2, <2>2, TimeFacts DEF Initialised, TypeOK
  <2>5. writes' \subseteq Updates
    BY <1>0, <1>2, <2>2, TimeFacts DEF Initialised, Updates
  <2> QED
    BY <1>2, <2>2, <2>3, <2>4, <2>5 DEF Initialised, TypeOK, Calls, Timers, Updates
<1>3. ASSUME NEW i \in Slots, Occupy(i)
      PROVE  TypeOK'
  <2> DEFINE s == call[i].server
             t == call[i].token
  <2>1. call[i].at = "found" /\ call[i] \in Calls
    BY <1>0, <1>3 DEF Occupy
  <2>2. s \in Servers /\ t \in Reserved
    BY <2>1 DEF Calls, Idle
  <2> HIDE DEF s, t
  <2>3. /\ [of |-> s, token |-> t, value |-> now + Hour] \in Updates
        /\ [token |-> t, low |-> FALSE, until |-> now + Hour] \in Keeps
        /\ [of |-> s, token |-> t, due |-> now + Hour] \in Timers
        /\ [of |-> s, token |-> NoToken, due |-> now + Hour] \in Timers
        /\ Idle \in Calls
    BY <2>2, TimeFacts DEF Updates, Timers, Calls, Keeps
  <2>4. /\ writes' = writes \cup {[of |-> s, token |-> t, value |-> now + Hour]}
        /\ Switch(s, [token |-> t, low |-> FALSE, until |-> now + Hour],
                  {[of |-> s, token |-> t, due |-> now + Hour]})
        /\ call' = [call EXCEPT ![i] = Idle]
        /\ UNCHANGED <<now, row, known, history>>
    BY <1>3 DEF Occupy, BookingTimer, s, t
  <2>5. writes' \subseteq Updates /\ timers' \subseteq Timers /\ call' \in [Slots -> Calls]
    BY <1>0, <2>3, <2>4 DEF Switch
  <2>6. spare' \in [Servers -> BOOLEAN] /\ reserve' \in [Servers -> Keeps]
    BY <1>0, <2>3, <2>4 DEF Switch
  <2> QED
    BY <2>4, <2>5, <2>6 DEF TypeOK, Calls, Timers, Updates, Keeps
<1>4. ASSUME NEW s \in Servers, OnResponse(s)
      PROVE  TypeOK'
  <2>1. known' \in [Servers -> [init : BOOLEAN, low : [Active -> 0..NoTime]]]
    <3>1. CASE UNCHANGED known
      BY <3>1 DEF TypeOK
    <3>2. ASSUME NEW t \in Active, NEW until \in {NoTime, now + Hour},
                 known' = [known EXCEPT ![s].low[t] = until]
          PROVE  known' \in [Servers -> [init : BOOLEAN, low : [Active -> 0..NoTime]]]
      BY <3>2, TimeFacts DEF TypeOK
    <3> QED
      BY <1>4, <3>1, <3>2 DEF OnResponse
  <2>2. reserve' \in [Servers -> Keeps]
    <3>1. ASSUME NEW low \in BOOLEAN, reserve' = [reserve EXCEPT ![s].low = low]
          PROVE  reserve' \in [Servers -> Keeps]
      <4>1. [reserve[s] EXCEPT !.low = low] \in Keeps
        BY <1>0 DEF Keeps
      <4> QED
        BY <1>0, <3>1, <4>1
    <3> QED
      BY <1>0, <1>4, <3>1 DEF OnResponse
  <2> QED
    BY <1>4, <2>1, <2>2 DEF OnResponse, TypeOK, Keeps
<1>5. ASSUME NEW w \in writes, Write(w)
      PROVE  TypeOK'
  <2>1. w \in Updates
    BY <1>0
  <2> QED
    BY <1>5, <2>1 DEF Write, TypeOK, Updates
<1>6. ASSUME NEW x \in timers, Timer(x)
      PROVE  TypeOK'
  <2>1. x \in Timers
    BY <1>0
  <2>2. x.token # NoToken => [of |-> x.of, token |-> x.token, value |-> NoTime] \in Updates
    BY <2>1, TimeFacts DEF Timers, Updates
  <2>3. timers' \subseteq Timers /\ writes' \subseteq Updates
    BY <1>0, <1>6, <2>2 DEF Timer
  <2>4. spare' \in [Servers -> BOOLEAN]
    BY <1>6 DEF Timer, TypeOK
  <2> QED
    BY <1>6, <2>3, <2>4 DEF Timer, TypeOK, Timers, Updates
<1>7. CASE Tick
  BY <1>0, <1>7 DEF Tick, TypeOK
<1>8. ASSUME NEW s \in Servers, Crash(s)
      PROVE  TypeOK'
  <2>1. known' \in [Servers -> [init : BOOLEAN, low : [Active -> 0..NoTime]]]
    BY <1>8, TimeFacts DEF Crash, TypeOK
  <2>2. reserve' \in [Servers -> Keeps]
    <3>1. NoReserve \in Keeps
      BY TokenPoolAssumption DEF NoReserve, Keeps
    <3> QED
      BY <1>0, <1>8, <3>1 DEF Crash
  <2>3. call' \in [Slots -> Calls] /\ spare' \in [Servers -> BOOLEAN]
    <3>1. Idle \in Calls
      BY DEF Calls
    <3>2. call' \in [Slots -> Calls]
      BY <1>0, <1>8, <3>1 DEF Crash
    <3> QED
      BY <1>8, <3>2 DEF Crash, TypeOK
  <2>4. orphaned' \subseteq Reserved
    BY <1>0, <1>8 DEF Crash, TypeOK, Timers, Updates
  <2>5. asked' \in 0..MaxNow /\ losses' \in 0..MaxLosses
    BY <1>0, <1>8 DEF Crash, TypeOK
  <2>6. timers' \subseteq Timers /\ writes' \subseteq Updates
    BY <1>0, <1>8 DEF Crash
  <2> QED
    BY <1>8, <2>1, <2>2, <2>3, <2>4, <2>5, <2>6 DEF Crash, TypeOK, Calls, Keeps, Timers, Updates
<1>9. CASE UNCHANGED vars
  BY <1>9 DEF vars, TypeOK
<1>10. ASSUME NEW w \in writes, WriteFails(w)
       PROVE  TypeOK'
  <2>1. w.token \in Reserved
    BY <1>0, <1>10 DEF Updates
  <2>2. asked' \in 0..MaxNow /\ losses' \in 0..MaxLosses
    BY <1>0, <1>10 DEF WriteFails, TypeOK
  <2> QED
    BY <1>10, <2>1, <2>2 DEF WriteFails, TypeOK
<1> QED
  BY <1>1, <1>2, <1>3, <1>4, <1>5, <1>6, <1>7, <1>8, <1>9, <1>10 DEF Next

-----------------------------------------------------------------------------
(* The round of a token                                                    *)

\* What the steps of other tokens leave alone.
SameToken(t) ==
  /\ row'[t] = row[t]
  /\ \A j \in Slots : Found(j, t)' => Found(j, t)
  /\ \A w : w.token = t => (w \in writes' <=> w \in writes)
  /\ \A x : x.token = t => (x \in timers' <=> x \in timers)
  /\ \A s \in Servers : reserve'[s].token = t /\ now' < reserve'[s].until =>
       reserve[s].token = t /\ now < reserve[s].until /\ reserve'[s].until = reserve[s].until

\* They keep the round of the token.
LEMMA RoundKept ==
  ASSUME NEW t \in Reserved, Round(t), SameToken(t)
  PROVE  Round(t)'
<1> USE DEF SameToken
<1>1. OneSearch(t)' /\ OneUpdate(t)' /\ OneTimer(t)'
  <2>1. OneSearch(t)'
    <3> SUFFICES ASSUME NEW i \in Slots, Found(i, t)'
                 PROVE  /\ \A j \in Slots : Found(j, t)' => i = j
                        /\ row'[t] = NoTime
                        /\ \A w \in writes' : w.token # t
                        /\ \A x \in timers' : x.token # t
      BY DEF OneSearch
    <3>1. Found(i, t)
      OBVIOUS
    <3> QED
      BY <3>1 DEF Round, OneSearch
  <2> QED
    BY <2>1 DEF Round, OneUpdate, OneTimer
<1>2. UpdateMatches(t)'
  BY DEF Round, UpdateMatches, NoTime
<1>3. TimerMatches(t)'
  BY DEF Round, TimerMatches
<1>4. HeldIsBooked(t)'
  BY DEF Round, HeldIsBooked
<1> QED
  BY <1>1, <1>2, <1>3, <1>4 DEF Round

\* What is left alone is left as it is.
LEMMA InvUnchanged == IInv /\ UNCHANGED vars => IInv'
<1> SUFFICES ASSUME IInv, UNCHANGED vars
             PROVE  IInv'
  OBVIOUS
<1> USE DEF vars, NoTime
<1>1. TypeOK' /\ TimeInv'
  BY DEF IInv, TypeOK, TimeInv
<1>2. BookedInv' /\ SpareInv' /\ AskedInv'
  BY DEF IInv, BookedInv, SpareInv, AskedInv, Ends, Timed
<1>3. CleanInv'
  <2>1. \A t \in Reserved : SameToken(t) /\ (Clean(t)' <=> Clean(t))
    BY DEF SameToken, Found, Clean
  <2> QED
    BY <2>1, RoundKept DEF IInv, CleanInv
<1> QED
  BY <1>1, <1>2, <1>3 DEF IInv

-----------------------------------------------------------------------------
(* The steps                                                               *)

\* A request chooses a token, when the bookings of no token that a server did not die with
\* are taken for stranded.
LEMMA ChoiceStep ==
  ASSUME IInv, NEW i \in Slots, NEW s \in Servers, NEW low, SelectToken(i, s, low),
         NEW past \in SUBSET Reserved, \A t \in Reserved : t \notin orphaned => t \notin past,
         writes' = writes \cup {[of |-> s, token |-> t, value |-> NoTime] : t \in past},
         UNCHANGED <<now, row, orphaned>>
  PROVE  TimeInv' /\ BookedInv' /\ SpareInv' /\ CleanInv'
<1> DEFINE timer == [of |-> s, token |-> NoToken, due |-> now + Hour]
<1>0. TypeOK /\ NoTime' = NoTime /\ (now + Hour)' = now + Hour /\ NoToken \notin Reserved
  BY TokenPoolAssumption DEF IInv, NoTime
<1>1. Ended(i, s) \/ \E t \in Reserved : Searched(i, s, t)
  BY <1>0, SelectCases
<1>2. /\ timers \subseteq timers' /\ timers' \subseteq timers \cup {timer} /\ UNCHANGED reserve
      /\ raced \subseteq raced'
      /\ \A j \in Slots : j # i => call'[j] = call[j]
      /\ call'[i].at # "init"
  BY <1>0, <1>1 DEF Ended, Searched, Idle, TypeOK
<1>3. /\ \A w \in writes' : w \in writes \/ (w.value = NoTime /\ w.token \in past)
      /\ writes \subseteq writes'
  OBVIOUS
<1>4. TimeInv'
  <2>1. now <= timer.due
    BY <1>0, TimeFacts
  <2> QED
    BY <1>0, <1>2, <1>3, <2>1 DEF IInv, TimeInv
<1>5. BookedInv'
  <2> SUFFICES ASSUME NEW t \in Reserved, t \notin orphaned
               PROVE  /\ row[t] # NoTime => now <= row[t] /\ Ends(t)'
                      /\ Timed(t)'
                      /\ \A j \in Slots : call'[j].at = "init" => t \notin call'[j].past
    BY <1>0 DEF BookedInv
  <2>1. \A w \in writes' : w.token = t => w \in writes
    BY <1>3
  <2>2. row[t] # NoTime => now <= row[t] /\ Ends(t)
    BY DEF IInv, BookedInv
  <2>3. Ends(t) => Ends(t)'
    BY <1>0, <1>2, <1>3 DEF Ends
  <2>4. Timed(t)'
    BY <1>0, <1>2, <2>1 DEF IInv, BookedInv, Timed
  <2>5. \A j \in Slots : call'[j].at = "init" => t \notin call'[j].past
    BY <1>2 DEF IInv, BookedInv
  <2> QED
    BY <2>2, <2>3, <2>4, <2>5
<1>6. SpareInv'
  <2>1. \A r \in Servers : r # s => spare'[r] = spare[r]
    BY <1>0, <1>1 DEF Ended, Searched, TypeOK
  <2>2. spare'[s] => \E x \in timers' : x.of = s /\ x.token = NoToken
    <3>1. spare'[s] /\ ~spare[s] => timer \in timers'
      BY <1>1 DEF Ended, Searched
    <3> QED
      BY <1>2, <3>1 DEF IInv, SpareInv
  <2> QED
    BY <1>2, <2>1, <2>2 DEF IInv, SpareInv
<1>7. CleanInv'
  <2> SUFFICES ASSUME NEW t \in Reserved, Clean(t)'
               PROVE  Round(t)'
    BY DEF CleanInv
  <2>1. Round(t) /\ t \notin past
    BY <1>2 DEF Clean, IInv, CleanInv
  <2>2. /\ \A w : w.token = t => (w \in writes' <=> w \in writes)
        /\ \A x : x.token = t => (x \in timers' <=> x \in timers)
    BY <1>0, <1>2, <1>3, <2>1
  <2>3. \A r \in Servers : reserve'[r] = reserve[r]
    BY <1>2
  <2>4. CASE \A j \in Slots : Found(j, t)' => Found(j, t)
    <3>1. SameToken(t)
      BY <2>2, <2>3, <2>4 DEF SameToken
    <3> QED
      BY <2>1, <3>1, RoundKept
  <2>5. CASE Searched(i, s, t)
    <3>1. ~FoundTwice(i, t) /\ row[t] = NoTime
      BY <2>5 DEF Searched, Clean
    <3>2. /\ \A j \in Slots : j # i => ~Found(j, t)
          /\ \A w \in writes : w.token # t
      BY <3>1 DEF FoundTwice, Found
    <3>3. \A x \in timers : x.token # t
      BY <1>0, <2>1, <3>1, <3>2, TimeFacts DEF Round, TimerMatches
    <3>4. OneSearch(t)'
      BY <1>0, <1>2, <2>2, <3>1, <3>2, <3>3 DEF OneSearch, Found
    <3>5. OneUpdate(t)' /\ OneTimer(t)' /\ UpdateMatches(t)' /\ TimerMatches(t)'
      BY <2>2, <3>2, <3>3 DEF OneUpdate, OneTimer, UpdateMatches, TimerMatches
    <3>6. HeldIsBooked(t)'
      BY <2>1, <2>3, <3>3 DEF Round, HeldIsBooked
    <3> QED
      BY <3>4, <3>5, <3>6 DEF Round
  <2>6. (\A j \in Slots : Found(j, t)' => Found(j, t)) \/ Searched(i, s, t)
    <3>1. \A j \in Slots : j # i => (Found(j, t)' => Found(j, t))
      BY <1>2 DEF Found
    <3>2. Found(i, t)' => Searched(i, s, t)
      BY <1>0, <1>1 DEF Found, Ended, Searched, Idle, TypeOK
    <3> QED
      BY <3>1, <3>2
  <2> QED
    BY <2>4, <2>5, <2>6
<1> QED
  BY <1>4, <1>5, <1>6, <1>7

\* A request to GitHub.
LEMMA GetAccessTokenStep ==
  ASSUME IInv, NEW s \in Servers, GetAccessToken(s)
  PROVE  TimeInv' /\ BookedInv' /\ SpareInv' /\ AskedInv' /\ CleanInv'
<1> USE DEF database
<1>0. TypeOK /\ NoTime' = NoTime
  BY DEF IInv, NoTime
<1>1. PICK i \in Slots :
        /\ call[i] = Idle
        /\ \/ SelectToken(i, s, known[s].low)
           \/ /\ call' = [call EXCEPT ![i] = [at |-> "init", server |-> s, time |-> now, past |-> Stranded]]
              /\ UNCHANGED <<reserve, spare, timers, raced>>
        /\ UNCHANGED <<now, row, writes, known, orphaned, asked, losses>>
  BY DEF GetAccessToken
<1>2. CASE SelectToken(i, s, known[s].low)
  <2>1. TimeInv' /\ BookedInv' /\ SpareInv' /\ CleanInv'
    <3> DEFINE past == {}
    <3>1. /\ past \in SUBSET Reserved /\ \A t \in Reserved : t \notin orphaned => t \notin past
          /\ writes' = writes \cup {[of |-> s, token |-> t, value |-> NoTime] : t \in past}
      BY <1>1
    <3> HIDE DEF past
    <3> QED
      BY <1>1, <1>2, <3>1, ChoiceStep
  <2>2. \A j \in Slots : call'[j].at = "init" => call'[j] = call[j]
    <3>1. DOMAIN call = Slots
      BY <1>0 DEF TypeOK
    <3>2. CASE Ended(i, s)
      BY <3>1, <3>2 DEF Ended, Idle
    <3>3. ASSUME NEW t \in Reserved, Searched(i, s, t)
          PROVE  \A j \in Slots : call'[j].at = "init" => call'[j] = call[j]
      BY <3>1, <3>3 DEF Searched
    <3> QED
      BY <1>0, <1>2, <3>2, <3>3, SelectCases
  <2>3. AskedInv'
    BY <1>0, <1>1, <2>2 DEF IInv, AskedInv
  <2> QED
    BY <2>1, <2>3
<1>3. CASE /\ call' = [call EXCEPT ![i] = [at |-> "init", server |-> s, time |-> now, past |-> Stranded]]
           /\ UNCHANGED <<reserve, spare, timers, raced>>
  <2>1. /\ \A j \in Slots : j # i => call'[j] = call[j]
        /\ call'[i].at = "init" /\ call'[i].time = now /\ call'[i].past = Stranded
    BY <1>0, <1>3 DEF TypeOK
  <2>2. TimeInv' /\ SpareInv'
    BY <1>0, <1>1, <1>3 DEF IInv, TimeInv, SpareInv
  <2>3. BookedInv'
    <3>1. \A t \in Reserved : t \notin orphaned => t \notin Stranded
      BY <1>0, TimeFacts DEF IInv, BookedInv, Stranded, TypeOK
    <3>2. \A t \in Reserved : t \notin orphaned =>
            \A j \in Slots : call'[j].at = "init" => t \notin call'[j].past
      BY <2>1, <3>1 DEF IInv, BookedInv
    <3>3. \A t \in Reserved : (Ends(t)' <=> Ends(t)) /\ (Timed(t)' <=> Timed(t))
      BY <1>0, <1>1, <1>3 DEF Ends, Timed
    <3> QED
      BY <1>0, <1>1, <3>2, <3>3 DEF IInv, BookedInv
  <2>4. AskedInv'
    <3>1. \A j \in Slots : call'[j].at = "init" =>
            call'[j].time = now /\ \A t \in Reserved : row[t] < now => t \in call'[j].past
      BY <2>1 DEF IInv, AskedInv, Stranded
    <3> QED
      BY <1>0, <1>1, <3>1 DEF IInv, AskedInv
  <2>5. CleanInv'
    <3>1. \A t \in Reserved : SameToken(t) /\ (Clean(t)' <=> Clean(t))
      BY <1>1, <1>3, <2>1 DEF SameToken, Found, Clean
    <3> QED
      BY <3>1, RoundKept DEF IInv, CleanInv
  <2> QED
    BY <2>2, <2>3, <2>4, <2>5
<1> QED
  BY <1>1, <1>2, <1>3

\* A server has asked for stranded bookings.
LEMMA InitialisedStep ==
  ASSUME IInv, NEW i \in Slots, Initialised(i)
  PROVE  TimeInv' /\ BookedInv' /\ SpareInv' /\ AskedInv' /\ CleanInv'
<1> DEFINE s == call[i].server
           past == call[i].past
           low == [t \in Active |-> NoTime]
<1>0. TypeOK /\ NoTime' = NoTime
  BY DEF IInv, NoTime
<1>1. /\ call[i].at = "init"
      /\ writes' = writes \cup {[of |-> s, token |-> t, value |-> NoTime] : t \in past}
      /\ asked' = IF call[i].time > asked THEN call[i].time ELSE asked
      /\ SelectToken(i, s, low) /\ UNCHANGED <<now, row, orphaned, losses>>
  BY DEF Initialised
<1>2. s \in Servers /\ past \in SUBSET Reserved
  <2>1. call[i] \in Calls /\ call[i].at = "init"
    BY <1>0, <1>1 DEF TypeOK, Calls
  <2> QED
    BY <2>1 DEF Calls, Idle
<1>3. \A t \in Reserved : t \notin orphaned => t \notin past
  BY <1>1 DEF IInv, BookedInv
<1>4. TimeInv' /\ BookedInv' /\ SpareInv' /\ CleanInv'
  <2> HIDE DEF s, past, low
  <2> QED
    BY <1>1, <1>2, <1>3, ChoiceStep
<1>5. AskedInv'
  <2>1. \A j \in Slots : call'[j].at = "init" => call'[j] = call[j]
    <3> HIDE DEF s, past, low
    <3> QED
      BY <1>0, <1>1, <1>2, SelectCases DEF Ended, Searched, Idle, TypeOK
  <2>2. call[i].time = now /\ asked <= now /\ \A t \in Reserved : row[t] < now => t \in past
    BY <1>1 DEF IInv, AskedInv
  <2>3. asked' = now
    BY <1>0, <1>1, <2>2 DEF TypeOK
  <2>4. ASSUME NEW t \in Reserved, row[t] # NoTime, now > row[t]
        PROVE  \E w \in writes' : w.token = t /\ w.value = NoTime
    <3>1. t \in past
      BY <1>0, <2>2, <2>4, TimeFacts DEF TypeOK
    <3>2. [of |-> s, token |-> t, value |-> NoTime] \in writes'
      BY <1>1, <3>1
    <3> QED
      BY <3>2
  <2> QED
    BY <1>0, <1>1, <2>1, <2>2, <2>3, <2>4, TimeFacts DEF IInv, AskedInv
<1> QED
  BY <1>4, <1>5

\* A server books the token it has found.
LEMMA OccupyStep ==
  ASSUME IInv, NEW i \in Slots, Occupy(i)
  PROVE  TimeInv' /\ BookedInv' /\ SpareInv' /\ AskedInv' /\ CleanInv'
<1> DEFINE s == call[i].server
           t == call[i].token
           booking == [of |-> s, token |-> t, value |-> now + Hour]
           end == [of |-> s, token |-> t, due |-> now + Hour]
           back == [of |-> s, token |-> NoToken, due |-> now + Hour]
<1>0. TypeOK /\ NoTime' = NoTime /\ NoToken \notin Reserved
  BY TokenPoolAssumption DEF IInv, NoTime
<1>1. call[i].at = "found" /\ s \in Servers /\ t \in Reserved
  <2>1. call[i] \in Calls /\ call[i].at = "found"
    BY <1>0 DEF Occupy, TypeOK, Calls
  <2> QED
    BY <2>1 DEF Calls, Idle
<1>2. /\ writes' = writes \cup {booking}
      /\ IF spare[s]
         THEN timers' = timers \cup {end} /\ UNCHANGED <<reserve, spare>>
         ELSE /\ spare' = [spare EXCEPT ![s] = TRUE]
              /\ reserve' = [reserve EXCEPT ![s] = [token |-> t, low |-> FALSE, until |-> now + Hour]]
              /\ timers' = timers \cup {end} \cup {back}
      /\ call' = [call EXCEPT ![i] = Idle]
      /\ UNCHANGED <<now, row, known, raced, orphaned, asked, losses>>
  BY DEF Occupy, Switch, BookingTimer, history
<1>3. Found(i, t)
  BY <1>1 DEF Found
<1>4. /\ booking.token = t /\ booking.value = now + Hour
      /\ end.of = s /\ end.token = t /\ end.due = now + Hour
      /\ back.of = s /\ back.token = NoToken /\ back.due = now + Hour
  OBVIOUS
<1> HIDE DEF s, t, booking, end, back
<1>5. /\ timers \subseteq timers' /\ end \in timers' /\ timers' \subseteq timers \cup {end, back}
      /\ \A j \in Slots : j # i => call'[j] = call[j]
      /\ call'[i].at = "none"
  BY <1>0, <1>2 DEF Idle, TypeOK
<1>6. \A r \in Servers : \/ reserve'[r] = reserve[r]
                         \/ r = s /\ reserve'[r].token = t /\ reserve'[r].until = now + Hour
  <2> DEFINE data == [token |-> t, low |-> FALSE, until |-> now + Hour]
  <2>1. data.token = t /\ data.until = now + Hour
    OBVIOUS
  <2>2. UNCHANGED reserve \/ reserve' = [reserve EXCEPT ![s] = data]
    BY <1>2
  <2> HIDE DEF data
  <2>3. \A r \in Servers : reserve'[r] = reserve[r] \/ (r = s /\ reserve'[r] = data)
    BY <1>0, <2>2 DEF TypeOK
  <2> QED
    BY <2>1, <2>3
<1>7. now + Hour # NoTime /\ now <= now + Hour /\ now \in Nat
  BY <1>0, TimeFacts
<1>8. TimeInv'
  BY <1>0, <1>2, <1>4, <1>5, <1>7 DEF IInv, TimeInv
<1>9. BookedInv'
  <2> SUFFICES ASSUME NEW u \in Reserved, u \notin orphaned
               PROVE  /\ row[u] # NoTime => now <= row[u] /\ Ends(u)'
                      /\ Timed(u)'
                      /\ \A j \in Slots : call'[j].at = "init" => u \notin call'[j].past
    BY <1>0, <1>2 DEF BookedInv
  <2>1. Ends(u) => Ends(u)'
    BY <1>0, <1>2, <1>5 DEF Ends
  <2>2. Timed(u)'
    BY <1>0, <1>2, <1>4, <1>5 DEF IInv, BookedInv, Timed
  <2> QED
    BY <1>5, <2>1, <2>2 DEF IInv, BookedInv
<1>10. SpareInv'
  <2>1. spare'[s] => spare[s] \/ back \in timers'
    BY <1>2
  <2>2. \A r \in Servers : r # s => spare'[r] = spare[r]
    BY <1>0, <1>2 DEF TypeOK
  <2> QED
    BY <1>4, <1>5, <2>1, <2>2 DEF IInv, SpareInv
<1>11. AskedInv'
  BY <1>0, <1>2, <1>5 DEF IInv, AskedInv
<1>12. CleanInv'
  <2> SUFFICES ASSUME NEW u \in Reserved, Clean(u)
               PROVE  Round(u)'
    BY <1>2 DEF CleanInv, Clean
  <2>1. Round(u)
    BY DEF IInv, CleanInv
  <2>2. CASE u # t
    <3>1. SameToken(u)
      <4>1. /\ \A w : w.token = u => (w \in writes' <=> w \in writes)
            /\ \A x : x.token = u => (x \in timers' <=> x \in timers)
        BY <1>0, <1>2, <1>4, <1>5, <2>2
      <4>2. \A j \in Slots : Found(j, u)' => Found(j, u)
        BY <1>5 DEF Found
      <4> QED
        BY <1>2, <1>6, <2>2, <4>1, <4>2 DEF SameToken
    <3> QED
      BY <2>1, <3>1, RoundKept
  <2>3. CASE u = t
    <3>1. /\ \A j \in Slots : Found(j, t) => i = j
          /\ row[t] = NoTime
          /\ \A w \in writes : w.token # t
          /\ \A x \in timers : x.token # t
      BY <1>3, <2>1, <2>3 DEF Round, OneSearch
    <3>3. (\A w \in writes' : w.token = t => w = booking) /\ booking \in writes'
      BY <1>2, <3>1
    <3>4. \A x \in timers' : x.token = t => x = end
      BY <1>0, <1>1, <1>4, <1>5, <3>1
    <3>5. OneSearch(u)' /\ OneUpdate(u)' /\ OneTimer(u)'
      <4>1. \A j \in Slots : ~Found(j, u)'
        BY <1>5, <3>1, <2>3 DEF Found
      <4>2. OneSearch(u)'
        BY <4>1 DEF OneSearch
      <4> QED
        BY <2>3, <3>3, <3>4, <4>2 DEF OneUpdate, OneTimer
    <3>6. UpdateMatches(u)' /\ TimerMatches(u)'
      BY <1>0, <1>4, <1>5, <1>7, <2>3, <3>3, <3>4 DEF UpdateMatches, TimerMatches
    <3>7. HeldIsBooked(u)'
      <4> SUFFICES ASSUME NEW r \in Servers, reserve'[r].token = t, now < reserve'[r].until
                   PROVE  \E x \in timers' : x.of = r /\ x.token = t /\ x.due = reserve'[r].until
        BY <1>2, <2>3 DEF HeldIsBooked
      <4>1. CASE reserve'[r] = reserve[r]
        BY <2>1, <2>3, <3>1, <4>1 DEF Round, HeldIsBooked
      <4>2. CASE r = s /\ reserve'[r].token = t /\ reserve'[r].until = now + Hour
        BY <1>4, <1>5, <4>2
      <4> QED
        BY <1>6, <4>1, <4>2
    <3> QED
      BY <3>5, <3>6, <3>7 DEF Round
  <2> QED
    BY <2>2, <2>3
<1> QED
  BY <1>8, <1>9, <1>10, <1>11, <1>12

\* A server hears from GitHub.
LEMMA OnResponseStep ==
  ASSUME IInv, NEW s \in Servers, OnResponse(s)
  PROVE  TimeInv' /\ BookedInv' /\ SpareInv' /\ AskedInv' /\ CleanInv'
<1>0. TypeOK /\ NoTime' = NoTime
  BY DEF IInv, NoTime
<1>1. UNCHANGED <<now, row, writes, spare, timers, call, raced, orphaned, asked>>
  BY DEF OnResponse, database, history
<1>2. \A r \in Servers : reserve'[r].token = reserve[r].token /\ reserve'[r].until = reserve[r].until
  <2>1. CASE UNCHANGED reserve
    BY <2>1
  <2>2. ASSUME NEW low \in BOOLEAN, reserve' = [reserve EXCEPT ![s].low = low]
        PROVE  \A r \in Servers : reserve'[r].token = reserve[r].token /\ reserve'[r].until = reserve[r].until
    BY <1>0, <2>2 DEF TypeOK
  <2> QED
    BY <2>1, <2>2 DEF OnResponse
<1>3. TimeInv' /\ SpareInv' /\ AskedInv'
  BY <1>0, <1>1 DEF IInv, TimeInv, SpareInv, AskedInv
<1>4. BookedInv'
  <2>1. \A t \in Reserved : (Ends(t)' <=> Ends(t)) /\ (Timed(t)' <=> Timed(t))
    BY <1>0, <1>1 DEF Ends, Timed
  <2> QED
    BY <1>0, <1>1, <2>1 DEF IInv, BookedInv
<1>5. CleanInv'
  <2>1. \A t \in Reserved : SameToken(t) /\ (Clean(t)' <=> Clean(t))
    BY <1>1, <1>2 DEF SameToken, Found, Clean
  <2> QED
    BY <2>1, RoundKept DEF IInv, CleanInv
<1> QED
  BY <1>3, <1>4, <1>5

\* An update reaches the database.
LEMMA WriteStep ==
  ASSUME IInv, NEW w \in writes, Write(w)
  PROVE  TimeInv' /\ BookedInv' /\ SpareInv' /\ AskedInv' /\ CleanInv'
<1>0. TypeOK /\ NoTime' = NoTime /\ w \in Updates
  BY DEF IInv, NoTime, TypeOK, Updates
<1>1. /\ writes' = writes \ {w} /\ row' = [row EXCEPT ![w.token] = w.value]
      /\ UNCHANGED <<now, reserve, spare, timers, call, raced, orphaned, asked>>
  BY DEF Write, server, history
<1>2. /\ w.token \in Reserved /\ row'[w.token] = w.value
      /\ \A u \in Reserved : u # w.token => row'[u] = row[u]
  BY <1>0, <1>1 DEF TypeOK, Updates
<1>3. (w.value = NoTime \/ w.value = now + Hour) /\ now \in Nat /\ Hour \in Nat \ {0} /\ now < NoTime
      /\ now + Hour # NoTime /\ NoTime \in Nat
  BY <1>0, TimeFacts DEF IInv, TimeInv
<1>4. TimeInv' /\ SpareInv'
  BY <1>0, <1>1 DEF IInv, TimeInv, SpareInv
<1>5. BookedInv'
  <2> SUFFICES ASSUME NEW u \in Reserved, u \notin orphaned
               PROVE  /\ row'[u] # NoTime => now <= row'[u] /\ Ends(u)'
                      /\ Timed(u)'
                      /\ \A j \in Slots : call[j].at = "init" => u \notin call[j].past
    BY <1>0, <1>1 DEF BookedInv
  <2>1. /\ row[u] # NoTime => now <= row[u] /\ Ends(u)
        /\ Timed(u)
        /\ \A j \in Slots : call[j].at = "init" => u \notin call[j].past
    BY DEF IInv, BookedInv
  <2>2. Timed(u)'
    BY <1>0, <1>1, <2>1 DEF Timed
  <2>3. CASE u # w.token
    <3>1. Ends(u) => Ends(u)'
      BY <1>0, <1>1, <1>2, <2>3 DEF Ends
    <3> QED
      BY <1>2, <2>1, <2>2, <2>3, <3>1
  <2>4. CASE u = w.token
    <3>1. w.value # NoTime => \E x \in timers : x.token = u /\ x.due = w.value
      BY <2>1, <2>4 DEF Timed
    <3>2. w.value # NoTime => Ends(u)'
      BY <1>1, <1>2, <2>4, <3>1 DEF Ends
    <3> QED
      BY <1>2, <1>3, <2>1, <2>2, <2>4, <3>2
  <2> QED
    BY <2>3, <2>4
<1>6. AskedInv'
  <2>1. asked <= now /\ asked \in Nat
    BY <1>0 DEF IInv, AskedInv, TypeOK
  <2>2. \A j \in Slots : call[j].at = "init" =>
          call[j].time = now /\ \A t \in Reserved : row'[t] < now => t \in call[j].past
    <3>1. \A t \in Reserved : row'[t] < now => row[t] < now
      BY <1>2, <1>3
    <3> QED
      BY <3>1 DEF IInv, AskedInv
  <2>3. ASSUME NEW u \in Reserved, row'[u] # NoTime, asked > row'[u]
        PROVE  \E v \in writes' : v.token = u /\ v.value = NoTime
    <3>1. u # w.token
      BY <1>2, <1>3, <2>1, <2>3
    <3> QED
      BY <1>1, <1>2, <2>3, <3>1 DEF IInv, AskedInv
  <2> QED
    BY <1>0, <1>1, <2>1, <2>2, <2>3 DEF AskedInv
<1>7. CleanInv'
  <2> SUFFICES ASSUME NEW u \in Reserved, Clean(u)
               PROVE  Round(u)'
    BY <1>1 DEF CleanInv, Clean
  <2>1. Round(u)
    BY DEF IInv, CleanInv
  <2>2. CASE u # w.token
    <3>1. SameToken(u)
      BY <1>1, <1>2, <2>2 DEF SameToken, Found
    <3> QED
      BY <2>1, <3>1, RoundKept
  <2>3. CASE u = w.token
    <3>1. \A v \in writes' : v.token # u
      BY <1>1, <2>1, <2>3 DEF Round, OneUpdate
    <3>2. \A j \in Slots : ~Found(j, u)
      BY <2>1, <2>3 DEF Round, OneSearch
    <3>3. OneSearch(u)' /\ OneUpdate(u)' /\ OneTimer(u)' /\ UpdateMatches(u)'
      <4>1. OneSearch(u)'
        BY <1>1, <3>2 DEF OneSearch, Found
      <4> QED
        BY <1>1, <2>1, <3>1, <4>1 DEF Round, OneUpdate, OneTimer, UpdateMatches
    <3>4. TimerMatches(u)'
      <4>1. CASE w.value = NoTime
        BY <1>1, <2>1, <2>3, <4>1 DEF Round, UpdateMatches, TimerMatches
      <4>2. CASE w.value # NoTime
        <5>1. PICK x \in timers : x.token = u /\ x.due = w.value
          BY <2>1, <2>3, <4>2 DEF Round, UpdateMatches
        <5>2. \A y \in timers : y.token = u => y.due = row'[u]
          BY <1>2, <2>1, <2>3, <5>1 DEF Round, OneTimer
        <5> QED
          BY <1>1, <5>2 DEF TimerMatches
      <4> QED
        BY <4>1, <4>2
    <3>5. HeldIsBooked(u)'
      BY <1>1, <2>1 DEF Round, HeldIsBooked
    <3> QED
      BY <3>3, <3>4, <3>5 DEF Round
  <2> QED
    BY <2>2, <2>3
<1> QED
  BY <1>4, <1>5, <1>6, <1>7

\* A timer fires.
LEMMA TimerStep ==
  ASSUME IInv, NEW x \in timers, Timer(x)
  PROVE  TimeInv' /\ BookedInv' /\ SpareInv' /\ AskedInv' /\ CleanInv'
<1> DEFINE end == [of |-> x.of, token |-> x.token, value |-> NoTime]
<1>0. TypeOK /\ NoTime' = NoTime /\ x \in Timers /\ NoToken \notin Reserved
  BY TokenPoolAssumption DEF IInv, NoTime, TypeOK, Timers
<1>1. /\ timers' = timers \ {x} /\ writes \subseteq writes' /\ writes' \subseteq writes \cup {end}
      /\ UNCHANGED <<now, row, reserve, call, raced, orphaned, asked>>
  BY DEF Timer, history
<1>2. x.due = now /\ now \in Nat /\ Hour \in Nat \ {0} /\ x.due # NoTime
  <2>1. x.due <= now /\ now <= x.due /\ x.due \in 0..(MaxNow + Hour)
    BY <1>0 DEF IInv, TimeInv, Timer, Timers
  <2> QED
    BY <1>0, <2>1, TimeFacts
<1>3. /\ x.token = NoToken => writes' = writes /\ spare' = [spare EXCEPT ![x.of] = FALSE]
      /\ x.token # NoToken => end \in writes' /\ spare' = spare
  BY DEF Timer
<1>4. end.token = x.token /\ end.value = NoTime
  OBVIOUS
<1> HIDE DEF end
<1>5. TimeInv'
  BY <1>0, <1>1, <1>4 DEF IInv, TimeInv
<1>6. BookedInv'
  <2> SUFFICES ASSUME NEW u \in Reserved, u \notin orphaned
               PROVE  /\ row[u] # NoTime => now <= row[u] /\ Ends(u)'
                      /\ Timed(u)'
                      /\ \A j \in Slots : call[j].at = "init" => u \notin call[j].past
    BY <1>0, <1>1 DEF BookedInv
  <2>1. /\ row[u] # NoTime => now <= row[u] /\ Ends(u)
        /\ Timed(u)
        /\ \A j \in Slots : call[j].at = "init" => u \notin call[j].past
    BY DEF IInv, BookedInv
  <2>2. row[u] # NoTime => Ends(u)'
    <3>1. CASE u # x.token
      BY <1>0, <1>1, <2>1, <3>1 DEF Ends
    <3>2. CASE u = x.token
      BY <1>0, <1>3, <1>4, <3>2 DEF Ends
    <3> QED
      BY <3>1, <3>2
  <2>3. Timed(u)'
    <3> SUFFICES ASSUME NEW v \in writes', v.token = u, v.value # NoTime
                 PROVE  \E y \in timers' : y.token = u /\ y.due = v.value
      BY <1>0 DEF Timed
    <3>1. v \in writes
      BY <1>1, <1>4
    <3>2. PICK y \in timers : y.token = u /\ y.due = v.value
      BY <2>1, <3>1 DEF Timed
    <3>3. v.value = now + Hour
      BY <3>1 DEF IInv, TimeInv
    <3>4. y # x
      BY <1>2, <3>2, <3>3
    <3> QED
      BY <1>1, <3>2, <3>4
  <2> QED
    BY <2>1, <2>2, <2>3
<1>7. SpareInv'
  <2> SUFFICES ASSUME NEW r \in Servers, spare'[r]
               PROVE  \E y \in timers' : y.of = r /\ y.token = NoToken
    BY DEF SpareInv
  <2>1. spare[r] /\ (x.token = NoToken => r # x.of)
    BY <1>0, <1>3 DEF TypeOK, Timers
  <2>2. PICK y \in timers : y.of = r /\ y.token = NoToken
    BY <2>1 DEF IInv, SpareInv
  <2> QED
    BY <1>1, <2>1, <2>2
<1>8. AskedInv'
  BY <1>0, <1>1 DEF IInv, AskedInv
<1>9. CleanInv'
  <2> SUFFICES ASSUME NEW u \in Reserved, Clean(u)
               PROVE  Round(u)'
    BY <1>1 DEF CleanInv, Clean
  <2>1. Round(u)
    BY DEF IInv, CleanInv
  <2>2. CASE u # x.token
    <3>1. /\ \A w : w.token = u => (w \in writes' <=> w \in writes)
          /\ \A y : y.token = u => (y \in timers' <=> y \in timers)
      BY <1>1, <1>4, <2>2
    <3>2. SameToken(u)
      BY <1>1, <3>1 DEF SameToken, Found
    <3> QED
      BY <2>1, <3>2, RoundKept
  <2>3. CASE u = x.token
    <3>1. \A y \in timers : y.token = u => y = x
      BY <2>1, <2>3 DEF Round, OneTimer
    <3>2. \A w \in writes : w.token # u
      <4> SUFFICES ASSUME NEW w \in writes, w.token = u
                   PROVE  FALSE
        OBVIOUS
      <4>1. w.value # NoTime
        BY <2>1, <2>3 DEF Round, UpdateMatches
      <4>2. w.value = now + Hour
        BY <4>1 DEF IInv, TimeInv
      <4>3. PICK y \in timers : y.token = u /\ y.due = w.value
        BY <2>1, <4>1 DEF Round, UpdateMatches
      <4> QED
        BY <1>2, <3>1, <4>2, <4>3
    <3>3. row[u] # NoTime
      BY <1>2, <2>1, <2>3, <3>2 DEF Round, TimerMatches
    <3>4. (\A y \in timers' : y.token # u) /\ \A w \in writes' : w.token = u => w = end
      BY <1>1, <3>1, <3>2
    <3>5. OneSearch(u)'
      <4>1. \A j \in Slots : ~Found(j, u)
        BY <2>1, <2>3 DEF Round, OneSearch
      <4> QED
        BY <1>1, <4>1 DEF OneSearch, Found
    <3>6. OneUpdate(u)' /\ OneTimer(u)' /\ UpdateMatches(u)' /\ TimerMatches(u)'
      BY <1>0, <1>1, <1>4, <3>3, <3>4 DEF OneUpdate, OneTimer, UpdateMatches, TimerMatches
    <3>7. HeldIsBooked(u)'
      <4> SUFFICES ASSUME NEW r \in Servers, reserve[r].token = u, now < reserve[r].until
                   PROVE  FALSE
        BY <1>1 DEF HeldIsBooked
      <4>1. PICK y \in timers : y.of = r /\ y.token = u /\ y.due = reserve[r].until
        BY <2>1 DEF Round, HeldIsBooked
      <4>2. y = x
        BY <3>1, <4>1
      <4> QED
        BY <1>0, <1>2, <4>1, <4>2 DEF TypeOK
    <3> QED
      BY <3>5, <3>6, <3>7 DEF Round
  <2> QED
    BY <2>2, <2>3
<1> QED
  BY <1>5, <1>6, <1>7, <1>8, <1>9

\* Time passes.
LEMMA TickStep ==
  ASSUME IInv, Tick
  PROVE  TimeInv' /\ BookedInv' /\ SpareInv' /\ AskedInv' /\ CleanInv'
<1>0. TypeOK /\ NoTime' = NoTime /\ now \in Nat
  BY DEF IInv, NoTime, TypeOK
<1>1. /\ now' = now + 1 /\ writes = {} /\ \A i \in Slots : call[i] = Idle
      /\ UNCHANGED <<row, writes, reserve, spare, timers, call, raced, orphaned, asked>>
      /\ \A x \in timers : x.due > now /\ x.due \in Nat
  BY <1>0, TimeFacts DEF Tick, database, server, history
<1>2. Idle.at = "none"
  BY DEF Idle
<1>3. TimeInv' /\ SpareInv'
  BY <1>0, <1>1 DEF IInv, TimeInv, SpareInv
<1>4. BookedInv'
  <2> SUFFICES ASSUME NEW t \in Reserved, t \notin orphaned
               PROVE  (row[t] # NoTime => now + 1 <= row[t] /\ Ends(t)') /\ Timed(t)'
    BY <1>0, <1>1, <1>2 DEF BookedInv
  <2>1. ASSUME row[t] # NoTime
        PROVE  now + 1 <= row[t] /\ Ends(t)'
    <3>1. PICK x \in timers : x.token = t /\ x.due = row[t]
      BY <1>1, <2>1 DEF IInv, BookedInv, Ends
    <3>2. Ends(t)'
      BY <1>1, <3>1 DEF Ends
    <3> QED
      BY <1>0, <1>1, <3>1, <3>2
  <2> QED
    BY <1>1, <2>1 DEF Timed
<1>5. AskedInv'
  <2>1. asked <= now + 1
    BY <1>0 DEF IInv, AskedInv, TypeOK
  <2> QED
    BY <1>0, <1>1, <1>2, <2>1 DEF IInv, AskedInv
<1>6. CleanInv'
  <2>1. \A t \in Reserved : SameToken(t) /\ (Clean(t)' <=> Clean(t))
    BY <1>0, <1>1 DEF SameToken, Found, Clean, TypeOK
  <2> QED
    BY <2>1, RoundKept DEF IInv, CleanInv
<1> QED
  BY <1>3, <1>4, <1>5, <1>6

\* A server dies: the tokens it has timers or updates for are orphaned.
LEMMA CrashStep ==
  ASSUME IInv, NEW s \in Servers, Crash(s)
  PROVE  TimeInv' /\ BookedInv' /\ SpareInv' /\ AskedInv' /\ CleanInv'
<1>0. TypeOK /\ NoTime' = NoTime /\ NoToken \notin Reserved
  BY TokenPoolAssumption DEF IInv, NoTime
<1>1. /\ timers' = {x \in timers : x.of # s} /\ writes' = {w \in writes : w.of # s}
      /\ UNCHANGED <<now, row, raced>>
      /\ orphaned \subseteq orphaned'
      /\ asked' = IF \E w \in writes : w.of = s /\ w.value = NoTime THEN 0 ELSE asked
  BY DEF Crash
<1>2. \A t \in Reserved : t \notin orphaned' =>
        /\ \A w : w.token = t => (w \in writes' <=> w \in writes)
        /\ \A x : x.token = t => (x \in timers' <=> x \in timers)
  <2> SUFFICES ASSUME NEW t \in Reserved, t \notin orphaned'
               PROVE  \A x \in timers \cup writes : x.token = t => x.of # s
    BY <1>1
  <2>1. \A x \in timers \cup writes : x.of = s /\ x.token # NoToken => x.token \in orphaned'
    BY DEF Crash
  <2> QED
    BY <1>0, <2>1
<1>3. \A i \in Slots : call'[i] = call[i] \/ call'[i].at = "none"
  BY <1>0 DEF Crash, Idle, TypeOK
<1>4. /\ ~spare'[s] /\ reserve'[s].token = NoToken
      /\ \A r \in Servers : r # s => spare'[r] = spare[r] /\ reserve'[r] = reserve[r]
  BY <1>0 DEF Crash, NoReserve, TypeOK
<1>5. TimeInv'
  BY <1>0, <1>1 DEF IInv, TimeInv
<1>6. BookedInv'
  <2> SUFFICES ASSUME NEW t \in Reserved, t \notin orphaned'
               PROVE  /\ row[t] # NoTime => now <= row[t] /\ Ends(t)'
                      /\ Timed(t)'
                      /\ \A j \in Slots : call'[j].at = "init" => t \notin call'[j].past
    BY <1>0, <1>1 DEF BookedInv
  <2>1. /\ row[t] # NoTime => now <= row[t] /\ Ends(t)
        /\ Timed(t)
        /\ \A j \in Slots : call[j].at = "init" => t \notin call[j].past
    BY <1>1 DEF IInv, BookedInv
  <2>2. Ends(t) => Ends(t)'
    BY <1>0, <1>1, <1>2 DEF Ends
  <2>3. Timed(t)'
    BY <1>0, <1>2, <2>1 DEF Timed
  <2> QED
    BY <1>3, <2>1, <2>2, <2>3
<1>7. SpareInv'
  BY <1>1, <1>4 DEF IInv, SpareInv
<1>8. AskedInv'
  <2>1. asked' \in Nat /\ asked' <= asked /\ asked <= now /\ now \in Nat
    BY <1>0, <1>1 DEF IInv, AskedInv, TypeOK
  <2>2. \A i \in Slots : call'[i].at = "init" =>
          call'[i].time = now /\ \A t \in Reserved : row[t] < now => t \in call'[i].past
    BY <1>3 DEF IInv, AskedInv
  <2>3. ASSUME NEW t \in Reserved, row[t] # NoTime, asked' > row[t]
        PROVE  \E w \in writes' : w.token = t /\ w.value = NoTime
    <3>1. row[t] \in Nat /\ asked' = asked
      BY <1>0, <1>1, <2>3, TimeFacts DEF TypeOK
    <3>2. PICK w \in writes : w.token = t /\ w.value = NoTime
      BY <2>3, <3>1 DEF IInv, AskedInv
    <3>3. w.of # s
      BY <1>1, <2>1, <2>3, <3>1, <3>2
    <3> QED
      BY <1>1, <3>2, <3>3
  <2> QED
    BY <1>0, <1>1, <2>1, <2>2, <2>3 DEF AskedInv
<1>9. CleanInv'
  <2> SUFFICES ASSUME NEW t \in Reserved, Clean(t)'
               PROVE  Round(t)'
    BY DEF CleanInv
  <2>1. Round(t)
    BY <1>1 DEF Clean, IInv, CleanInv
  <2>2. \A j \in Slots : Found(j, t)' => Found(j, t)
    BY <1>3 DEF Found
  <2>3. \A r \in Servers : reserve'[r].token = t => reserve'[r] = reserve[r]
    BY <1>0, <1>4
  <2>4. SameToken(t)
    BY <1>1, <1>2, <2>2, <2>3 DEF SameToken, Clean
  <2> QED
    BY <2>1, <2>4, RoundKept
<1> QED
  BY <1>5, <1>6, <1>7, <1>8, <1>9

\* An update is rejected: its token is orphaned.
LEMMA WriteFailsStep ==
  ASSUME IInv, NEW v \in writes, WriteFails(v)
  PROVE  TimeInv' /\ BookedInv' /\ SpareInv' /\ AskedInv' /\ CleanInv'
<1>0. TypeOK /\ NoTime' = NoTime
  BY DEF IInv, NoTime
<1>1. /\ writes' = writes \ {v} /\ orphaned' = orphaned \cup {v.token}
      /\ asked' = IF v.value = NoTime THEN 0 ELSE asked
      /\ UNCHANGED <<now, row, reserve, spare, timers, call, raced>>
  BY DEF WriteFails, server
<1>2. \A t \in Reserved : t \notin orphaned' =>
        t \notin orphaned /\ \A w : w.token = t => (w \in writes' <=> w \in writes)
  BY <1>1
<1>3. TimeInv' /\ SpareInv'
  BY <1>0, <1>1 DEF IInv, TimeInv, SpareInv
<1>4. BookedInv'
  <2> SUFFICES ASSUME NEW t \in Reserved, t \notin orphaned'
               PROVE  /\ row[t] # NoTime => now <= row[t] /\ Ends(t)'
                      /\ Timed(t)'
                      /\ \A j \in Slots : call[j].at = "init" => t \notin call[j].past
    BY <1>0, <1>1 DEF BookedInv
  <2>1. /\ row[t] # NoTime => now <= row[t] /\ Ends(t)
        /\ Timed(t)
        /\ \A j \in Slots : call[j].at = "init" => t \notin call[j].past
    BY <1>2 DEF IInv, BookedInv
  <2>2. Ends(t) => Ends(t)'
    BY <1>0, <1>1, <1>2 DEF Ends
  <2>3. Timed(t)'
    BY <1>0, <1>1, <1>2, <2>1 DEF Timed
  <2> QED
    BY <2>1, <2>2, <2>3
<1>5. AskedInv'
  <2>1. asked' \in Nat /\ asked' <= asked /\ asked <= now /\ now \in Nat
    BY <1>0, <1>1 DEF IInv, AskedInv, TypeOK
  <2>2. \A i \in Slots : call[i].at = "init" =>
          call[i].time = now /\ \A t \in Reserved : row[t] < now => t \in call[i].past
    BY DEF IInv, AskedInv
  <2>3. ASSUME NEW t \in Reserved, row[t] # NoTime, asked' > row[t]
        PROVE  \E w \in writes' : w.token = t /\ w.value = NoTime
    <3>1. row[t] \in Nat /\ asked' = asked /\ v.value # NoTime
      BY <1>0, <1>1, <2>1, <2>3, TimeFacts DEF TypeOK
    <3>2. PICK w \in writes : w.token = t /\ w.value = NoTime
      BY <2>3, <3>1 DEF IInv, AskedInv
    <3> QED
      BY <1>1, <3>1, <3>2
  <2> QED
    BY <1>0, <1>1, <2>1, <2>2, <2>3 DEF AskedInv
<1>6. CleanInv'
  <2> SUFFICES ASSUME NEW t \in Reserved, Clean(t)'
               PROVE  Round(t)'
    BY DEF CleanInv
  <2>1. Round(t)
    BY <1>1 DEF Clean, IInv, CleanInv
  <2>2. SameToken(t)
    BY <1>1, <1>2 DEF SameToken, Clean, Found
  <2> QED
    BY <2>1, <2>2, RoundKept
<1> QED
  BY <1>3, <1>4, <1>5, <1>6

-----------------------------------------------------------------------------
(* The theorems                                                            *)

\* At first no token is booked and no server is up.
LEMMA InitInv == Init => IInv
<1> SUFFICES ASSUME Init
             PROVE  IInv
  OBVIOUS
<1> USE DEF Init
<1>0. MaxNow \in Nat /\ Hour \in Nat \ {0} /\ MaxLosses \in Nat /\ NoTime \in Nat
  BY TokenPoolAssumption DEF NoTime
<1>1. TypeOK
  <2>1. NoReserve \in Keeps
    BY <1>0 DEF NoReserve, Keeps
  <2>2. reserve \in [Servers -> Keeps]
    BY <2>1
  <2>3. known \in [Servers -> [init : BOOLEAN, low : [Active -> 0..NoTime]]]
    BY <1>0
  <2>4. call \in [Slots -> Calls]
    BY DEF Calls
  <2> QED
    BY <1>0, <2>2, <2>3, <2>4 DEF TypeOK, Keeps, Calls
<1>2. TimeInv /\ SpareInv
  BY DEF TimeInv, SpareInv
<1>3. BookedInv /\ AskedInv
  BY <1>0 DEF BookedInv, AskedInv, Timed, Idle
<1>4. CleanInv
  <2>1. \A i \in Slots : call[i].at = "none"
    BY DEF Idle
  <2>2. \A s \in Servers : reserve[s].token = NoToken
    BY DEF NoReserve
  <2> QED
    BY <2>1, <2>2, TokenPoolAssumption
    DEF CleanInv, Round, OneSearch, OneUpdate, OneTimer, UpdateMatches, TimerMatches, HeldIsBooked, Found
<1> QED
  BY <1>1, <1>2, <1>3, <1>4 DEF IInv

\* Every step keeps the round of every token.
LEMMA StepInv == IInv /\ [Next]_vars => IInv'
<1> SUFFICES ASSUME IInv, [Next]_vars
             PROVE  IInv'
  OBVIOUS
<1>1. TypeOK'
  BY TypeStep DEF IInv
<1>2. CASE UNCHANGED vars
  BY <1>2, InvUnchanged
<1>3. ASSUME Next
      PROVE  TimeInv' /\ BookedInv' /\ SpareInv' /\ AskedInv' /\ CleanInv'
  BY <1>3, GetAccessTokenStep, InitialisedStep, OccupyStep, OnResponseStep, WriteStep, WriteFailsStep,
     TimerStep, TickStep, CrashStep DEF Next
<1> QED
  BY <1>1, <1>2, <1>3 DEF IInv

\* The inductive invariant of the pool holds in every state of every behaviour.
THEOREM TokenInvariance == Spec => []IInv
<1> QED
  BY InitInv, StepInv, PTL DEF Spec

\* Rows, servers, updates and timers keep their types, whatever dies.
THEOREM TokenTypes == Spec => []TypeOK
<1>1. IInv => TypeOK
  BY DEF IInv
<1> QED
  BY <1>1, TokenInvariance, PTL

\* Two servers never keep the same reserved token within its hour (sourceReservedToken and
\* occupyReservedToken), unless it was found by both before its booking was written, or its
\* booking was rejected or had died with a server.
THEOREM TokensAreExclusive == Spec => []ReserveIsExclusive
<1>1. IInv => ReserveIsExclusive
  <2> SUFFICES ASSUME IInv, NEW s \in Servers, NEW r \in Servers, s # r,
                      reserve[s].token = reserve[r].token, reserve[s].token # NoToken,
                      now < reserve[s].until, now < reserve[r].until,
                      reserve[s].token \notin raced \cup orphaned
               PROVE  FALSE
    BY DEF ReserveIsExclusive
  <2> DEFINE t == reserve[s].token
  <2>1. t \in Reserved
    BY DEF IInv, TypeOK
  <2>2. Round(t)
    BY <2>1 DEF IInv, CleanInv, Clean
  <2> HIDE DEF t
  <2>3. reserve[s].token = t /\ reserve[r].token = t
    BY DEF t
  <2>4. (\E x \in timers : x.of = s /\ x.token = t) /\ (\E x \in timers : x.of = r /\ x.token = t)
    BY <2>2, <2>3 DEF Round, HeldIsBooked
  <2> QED
    BY <2>2, <2>4 DEF Round, OneTimer
<1> QED
  BY <1>1, TokenInvariance, PTL

\* A booking no timer or update of which was lost, with a server or by a rejection, and the
\* use of reserved tokens by a server, have a timer to end them or their end is being
\* written (the two setTimeouts of TokenService).
THEOREM BookingsEnd == Spec => []TimersRunOut
<1>1. IInv => TimersRunOut
  BY DEF IInv, BookedInv, SpareInv, Ends, TimersRunOut
<1> QED
  BY <1>1, TokenInvariance, PTL

\* A booking a dead server has left is cleared by the next start of a server after its end
\* whose update is neither rejected nor dies with it (resetStrandedTokens).
THEOREM StrandedAreCleared == Spec => []StrandedEndAtStart
<1>1. IInv => StrandedEndAtStart
  BY DEF IInv, AskedInv, StrandedEndAtStart
<1> QED
  BY <1>1, TokenInvariance, PTL

(***************************************************************************)
(* The content of a site                                                   *)
(***************************************************************************)
\* The config is there, and names a room or none.
Folders == Rooms \cup Categories \cup Albums \cup {"_posts", "images", "pages", "_data"}
NamesRoom(text) == "room" \in DOMAIN text /\ text.room \in Rooms \cup {"none"}
ConfigOK(tree) ==
  /\ \A f \in DOMAIN tree : f.dir \in Seq(Folders)
  /\ Config \in DOMAIN tree /\ NamesRoom(tree[Config])

\* The room that the config names is there.
RoomThere(tree) ==
  tree[Config].room # "none" => Index(<<tree[Config].room>>) \in DOMAIN tree

Items(s) == {s[i] : i \in DOMAIN s}

\* A call changes the config by a write of what was read from it, and never its place.
CallOK(act) ==
  /\ act.op \in {"read", "noRoom", "titleHome", "create", "write", "update", "delete", "deleteMany",
                  "deleteDir", "renameDir", "renameFile", "moveFiles"}
  /\ act.op = "write" /\ act.file = Config =>
       /\ act.from = Config
       /\ "room" \in DOMAIN act.change => act.change.room \in Rooms \cup {"none"}
  /\ act.op \in {"update", "delete"} => act.file # Config
  /\ act.op = "deleteMany" => Config \notin act.files
  /\ act.op = "create" => act.file.dir \in Seq(Folders)
  /\ act.op = "deleteDir" => Len(act.dir) \in 1..2
  /\ act.op \in {"renameDir", "moveFiles"} =>
       Len(act.dir) \in 1..3 /\ act.new \in Seq(Folders) /\ Len(act.new) > 0
  /\ act.op = "renameFile" =>
       act.file # Config /\ act.new # Config /\ act.new.dir \in Seq(Folders)

\* A tree call comes first, reads apart, and after a deletion the config is all that changes.
Chain(s) ==
  /\ \A i \in DOMAIN s : CallOK(s[i])
  /\ \A i, j \in DOMAIN s : j < i /\ IsTreeCall(s[i]) => s[j].op = "read"
  /\ \A i, j \in DOMAIN s : i < j /\ s[i].op = "deleteDir" =>
       s[j].op \in {"read", "write"} /\ s[j].file = Config

WritesConfig(act) == act.op = "write" /\ act.file = Config

\* The config is read before it is written.
ReadFirst(s) ==
  \A i \in DOMAIN s : WritesConfig(s[i]) =>
    Config \in DOMAIN seen \/ \E j \in DOMAIN s : j < i /\ s[j].op = "read" /\ s[j].file = Config

\* No deletion has landed too late, nor can one that is still to land.
Calm == ~swept /\ \A d \in late : d.of = requests

\* What is to become of staging once the deletion of the request has landed.
InStep ==
  \/ late = {} /\ head = want
  \/ \E d \in late :
       /\ late = {d}
       /\ want = DeleteDirectory(head, d.dir).tree
       /\ \A i \in DOMAIN todo : todo[i].op \in {"read", "write"} /\ todo[i].file = Config

\* A call that neither takes a room away nor changes the one that the config names.
Roots == {Config} \cup {Index(<<r>>) : r \in Rooms}
Harmless(act) ==
  /\ act.op # "noRoom"
  /\ WritesConfig(act) => "room" \notin DOMAIN act.change
  /\ act.op = "delete" => act.file \notin Roots
  /\ act.op = "deleteMany" => act.files \cap Roots = {}
  /\ act.op = "deleteDir" => Len(act.dir) = 2
  /\ act.op = "renameDir" => Len(act.dir) = 2 /\ Len(act.new) = 2
  /\ act.op = "moveFiles" => (Len(act.dir) = 3 /\ Len(act.new) = 3) \/ "index.html" \notin act.names
  /\ act.op = "renameFile" => act.file \notin Roots /\ act.new \notin Roots

\* What a handler that makes, renames or deletes a room has still to do, and has done.
MakesRoom(r) ==
  LET w == write(Config, [room |-> r])
      c == create(Index(<<r>>), Titled(r))
  IN
  \/ todo = CreateRoom(r)
  \/ todo = <<[op |-> "noRoom"], w, c>>
  \/ todo = <<w, c>>
  \/ todo = <<c>> /\ want[Config].room = r
RenamesRoom(r, n) ==
  LET t == writeTo(Index(<<n>>), Index(<<r>>), Titled(n))
      w == write(Config, [room |-> n])
  IN
  \/ todo = RenameRoom(r, n)
  \/ todo = <<renameDir(<<r>>, <<n>>), t, read(Config), w>>
  \/ todo = <<t, read(Config), w>>
  \/ Index(<<n>>) \in DOMAIN want /\ (todo = <<read(Config), w>> \/ todo = <<w>>)
DeletesRoom(r) ==
  LET w == write(Config, [room |-> "none"])
  IN todo = DeleteRoom(r) \/ todo = <<read(Config), w>> \/ todo = <<w>>

RoomPending ==
  \/ RoomThere(want) /\ \A i \in DOMAIN todo : Harmless(todo[i])
  \/ \E r \in Rooms : MakesRoom(r) \/ DeletesRoom(r)
  \/ \E r, n \in Rooms : RenamesRoom(r, n)

ConfigInv ==
  /\ ConfigOK(head) /\ ConfigOK(want) /\ ConfigOK(snap)
  /\ Config \in DOMAIN seen => NamesRoom(seen[Config])
  /\ \A d \in late : ConfigOK(d.base) /\ Len(d.dir) \in 1..2 /\ d.of \in 1..requests

TodoInv ==
  /\ todo \in Seq(Items(todo)) /\ Len(todo) <= 8
  /\ (phase = "idle") <=> (requests = 0)
  /\ phase = "work" => Chain(todo) /\ ReadFirst(todo)

SyncInv ==
  /\ phase \in {"work", "ok"} /\ Calm => InStep
  /\ phase = "work" /\ Calm /\ (\E i \in DOMAIN todo : IsTreeCall(todo[i])) =>
       head = snap /\ want = snap /\ late = {}
  /\ phase = "failed" /\ ~swept /\ ~unreverted => head = snap

RoomInv ==
  Calm /\ ~unreverted =>
    /\ phase = "idle" => RoomThere(head)
    /\ phase \in {"work", "revert", "failed"} => RoomThere(snap)
    /\ phase = "work" => RoomPending
    /\ phase = "ok" => RoomThere(want)

ContentInv == ContentTypeOK /\ ConfigInv /\ TodoInv /\ SyncInv /\ RoomInv

-----------------------------------------------------------------------------
(* What a call does to the config and to the index files of rooms           *)

LEMMA ConfigApart ==
  /\ Config.dir = <<>> /\ Config.dir \in Seq(Folders)
  /\ \A r : Index(<<r>>) # Config /\ Index(<<r>>).dir = <<r>>
            /\ Index(<<r>>).name = "index.html"
  /\ Homepage # Config /\ Homepage.dir = <<>> /\ Homepage.name = "index.md"
BY DEF Config, Index, File, Homepage

\* What is in a folder is not the config, and what is deeper is not the index of a room.
LEMMA NotUnder ==
  ASSUME NEW d, NEW tree
  PROVE  /\ Len(d) \in 1..3 => Config \notin FilesUnder(tree, d)
         /\ Len(d) \in 2..3 => \A r : Index(<<r>>) \notin FilesUnder(tree, d)
<1>1. Len(Config.dir) = 0 /\ \A r : Len(Index(<<r>>).dir) = 1
  BY DEF Config, Index, File
<1> QED BY <1>1 DEF FilesUnder, IsUnder

\* A file that is not moved, and that no file is moved to, stays.
LEMMA MovedKeeps ==
  ASSUME NEW tree, NEW target, NEW f \in DOMAIN tree, f \notin DOMAIN target,
         \A g \in DOMAIN target : target[g] # f
  PROVE  f \in DOMAIN Moved(tree, target) /\ Moved(tree, target)[f] = tree[f]
BY DEF Moved

\* A move makes no other files than its targets.
LEMMA MovedFiles ==
  ASSUME NEW tree, NEW target, NEW S, \A f \in DOMAIN tree : f.dir \in S,
         \A g \in DOMAIN target : target[g].dir \in S
  PROVE  \A f \in DOMAIN Moved(tree, target) : f.dir \in S
BY DEF Moved

LEMMA NotEmpty == \A d : Len(d) \in 1..3 \/ Len(d) > 0 => d # <<>>
OBVIOUS

LEMMA NotSingle ==
  ASSUME NEW d, NEW r, Len(d) \in Nat, Len(d) >= 2
  PROVE  d # <<>> /\ d # <<r>>
<1>1. Len(<<r>>) = 1 /\ Len(<<>>) = 0
  OBVIOUS
<1>2. d = <<r>> => Len(d) = Len(<<r>>)
  OBVIOUS
<1>3. d = <<>> => Len(d) = Len(<<>>)
  OBVIOUS
<1> QED BY <1>1, <1>2, <1>3

\* Where files of a folder go when it is renamed.
LEMMA RenamedDirs ==
  ASSUME NEW tree, ConfigOK(tree), NEW old, NEW new, Len(old) \in 1..3,
         new \in Seq(Folders), Len(new) > 0,
         NEW f \in FilesUnder(tree, old)
  PROVE  LET d == new \o SubSeq(f.dir, Len(old) + 1, Len(f.dir))
         IN d \in Seq(Folders) /\ Len(d) >= Len(new)
<1>1. f.dir \in Seq(Folders) /\ Len(old) <= Len(f.dir) /\ Len(f.dir) \in Nat
  BY LenProperties DEF FilesUnder, IsUnder, ConfigOK
<1> DEFINE rest == SubSeq(f.dir, Len(old) + 1, Len(f.dir))
<1>2. rest \in Seq(Folders)
  <2>1. \A i \in (Len(old) + 1)..Len(f.dir) : f.dir[i] \in Folders
    BY <1>1, ElementOfSeq
  <2> QED BY <1>1, <2>1, SubSeqProperties
<1> HIDE DEF rest
<1>3. new \o rest \in Seq(Folders) /\ Len(new \o rest) = Len(new) + Len(rest)
  BY <1>2, ConcatProperties
<1>4. Len(new) \in Nat /\ Len(rest) \in Nat
  BY <1>2, LenProperties
<1>5. Len(new \o rest) >= Len(new)
  BY <1>3, <1>4
<1> QED BY <1>3, <1>5 DEF rest

\* Every call leaves the config in its place, with a room or none.
LEMMA ApplyKeepsConfig ==
  ASSUME NEW tree, NEW act, NEW texts, ConfigOK(tree), CallOK(act),
         act.op \notin {"noRoom", "titleHome"},
         WritesConfig(act) => NamesRoom(texts[Config])
  PROVE  ConfigOK(Apply(tree, act, texts).tree)
<1> DEFINE t == Apply(tree, act, texts).tree
<1>0. Config \in DOMAIN tree /\ NamesRoom(tree[Config]) /\ \A f \in DOMAIN tree : f.dir \in Seq(Folders)
  BY DEF ConfigOK
<1>1. CASE act.op = "read"
  BY <1>0, <1>1 DEF Apply, Unless, Refused, Done, ConfigOK
<1>2. CASE act.op = "create"
  <2>1. t = tree \/ (act.file \notin DOMAIN tree /\ t = With(tree, act.file, act.text))
    BY <1>2 DEF Apply, Create, Unless, Refused, Done
  <2>2. act.file.dir \in Seq(Folders)
    BY <1>2 DEF CallOK
  <2> HIDE DEF t
  <2>3. ConfigOK(t)
    BY <1>0, <2>1, <2>2 DEF With, ConfigOK
  <2> QED BY <2>3 DEF t
<1>3. CASE act.op = "write"
  <2> DEFINE text == Merged(texts[act.from], act.change)
  <2>1. t = tree \/ (act.file \in DOMAIN tree /\ t = With(tree, act.file, text))
    BY <1>3 DEF Apply, Update, ShaAgrees, Unless, Refused, Done
  <2>2. ASSUME act.file = Config
        PROVE  NamesRoom(text)
    <3>1. /\ NamesRoom(texts[Config]) /\ act.from = Config
          /\ "room" \in DOMAIN act.change => act.change.room \in Rooms \cup {"none"}
      BY <1>3, <2>2 DEF CallOK, WritesConfig
    <3> QED BY <3>1 DEF Merged, NamesRoom
  <2> HIDE DEF t, text
  <2>3. ConfigOK(t)
    BY <1>0, <2>1, <2>2 DEF With, ConfigOK
  <2> QED BY <2>3 DEF t
<1>4. CASE act.op = "update"
  <2>1. t = tree \/ (act.file \in DOMAIN tree /\ t = With(tree, act.file, act.text))
    BY <1>4 DEF Apply, Update, ShaAgrees, Unless, Refused, Done
  <2>2. act.file # Config
    BY <1>4 DEF CallOK
  <2> HIDE DEF t
  <2>3. ConfigOK(t)
    BY <1>0, <2>1, <2>2 DEF With, ConfigOK
  <2> QED BY <2>3 DEF t
<1>5. CASE act.op \in {"delete", "deleteMany", "deleteDir"}
  <2>1. t = tree \/ \E files : Config \notin files /\ t = Without(tree, files)
    <3>1. CASE act.op = "delete"
      <4>1. t = tree \/ t = Without(tree, {act.file})
        BY <3>1 DEF Apply, Delete, Unless, Refused, Done
      <4>2. Config \notin {act.file}
        BY <3>1 DEF CallOK
      <4> HIDE DEF t
      <4> QED BY <4>1, <4>2
    <3>2. CASE act.op = "deleteMany"
      <4>1. t = Without(tree, act.files)
        BY <3>2 DEF Apply, DeleteMany, Done
      <4>2. Config \notin act.files
        BY <3>2 DEF CallOK
      <4> HIDE DEF t
      <4> QED BY <4>1, <4>2
    <3>3. CASE act.op = "deleteDir"
      <4>1. t = Without(tree, FilesUnder(tree, act.dir))
        BY <3>3 DEF Apply, DeleteDirectory, Done
      <4>2. Config \notin FilesUnder(tree, act.dir)
        BY <3>3, NotUnder DEF CallOK
      <4> HIDE DEF t
      <4> QED BY <4>1, <4>2
    <3> QED BY <1>5, <3>1, <3>2, <3>3
  <2> HIDE DEF t
  <2>2. ConfigOK(t)
    BY <1>0, <2>1 DEF Without, ConfigOK
  <2> QED BY <2>2 DEF t
<1>6. CASE act.op \in {"moveFiles", "renameDir", "renameFile"}
  <2>1. t = tree \/ \E target : /\ t = Moved(tree, target)
                                /\ Config \notin DOMAIN target
                                /\ \A g \in DOMAIN target : target[g] # Config
                                                            /\ target[g].dir \in Seq(Folders)
    <3>1. CASE act.op = "moveFiles"
      <4> DEFINE files == {f \in DOMAIN tree : f.dir = act.dir /\ f.name \in act.names}
                 target == [f \in files |-> File(act.new, f.name)]
      <4>1. t = tree \/ t = Moved(tree, target)
        BY <3>1 DEF Apply, MoveFiles, Unless, Refused, Done
      <4>2. Len(act.dir) \in 1..3 /\ act.new \in Seq(Folders) /\ Len(act.new) > 0
        BY <3>1 DEF CallOK
      <4>3. Config.dir = <<>>
        BY ConfigApart
      <4>4. Config.dir # act.dir
        BY <4>2, <4>3, NotEmpty
      <4>5. DOMAIN target = files /\ \A g \in files : target[g].dir = act.new
        BY DEF File
      <4> HIDE DEF t, target, files
      <4>6. Config \notin files
        BY <4>4 DEF files
      <4>7. act.new # Config.dir
        BY <4>2, <4>3, NotEmpty
      <4> QED BY <4>1, <4>2, <4>5, <4>6, <4>7
    <3>2. CASE act.op = "renameDir"
      <4> DEFINE target == [f \in FilesUnder(tree, act.dir) |->
                   File(act.new \o SubSeq(f.dir, Len(act.dir) + 1, Len(f.dir)), f.name)]
      <4>1. t = tree \/ t = Moved(tree, target)
        BY <3>2 DEF Apply, RenameDir, Unless, Refused, Done
      <4>2. Len(act.dir) \in 1..3 /\ act.new \in Seq(Folders) /\ Len(act.new) > 0
        BY <3>2 DEF CallOK
      <4>3. Len(Config.dir) = 0
        BY ConfigApart
      <4>4. Config \notin FilesUnder(tree, act.dir)
        BY <4>2, NotUnder
      <4>5. ASSUME NEW g \in FilesUnder(tree, act.dir)
            PROVE  target[g].dir \in Seq(Folders) /\ target[g] # Config
        <5> DEFINE d == act.new \o SubSeq(g.dir, Len(act.dir) + 1, Len(g.dir))
        <5>1. d \in Seq(Folders) /\ Len(d) >= Len(act.new)
          BY <4>2, RenamedDirs
        <5>2. target[g].dir = d
          BY DEF File
        <5> HIDE DEF d, target
        <5>3. Len(d) \in Nat /\ Len(act.new) \in Nat
          BY <4>2, <5>1, LenProperties
        <5> QED BY <4>2, <4>3, <5>1, <5>2, <5>3
      <4>6. DOMAIN target = FilesUnder(tree, act.dir)
        OBVIOUS
      <4> HIDE DEF t, target
      <4> QED BY <4>1, <4>4, <4>5, <4>6
    <3>3. CASE act.op = "renameFile"
      <4> DEFINE target == [f \in {act.file} \cap DOMAIN tree |-> act.new]
      <4>1. t = tree \/ t = Moved(tree, target)
        BY <3>3 DEF Apply, RenameFile, Unless, Refused, Done
      <4>2. act.file # Config /\ act.new # Config /\ act.new.dir \in Seq(Folders)
        BY <3>3 DEF CallOK
      <4> HIDE DEF t
      <4> QED BY <4>1, <4>2
    <3> QED BY <1>6, <3>1, <3>2, <3>3
  <2> HIDE DEF t
  <2>2. t = tree => ConfigOK(t)
    OBVIOUS
  <2>3. ASSUME NEW target, t = Moved(tree, target), Config \notin DOMAIN target,
               \A g \in DOMAIN target : target[g] # Config /\ target[g].dir \in Seq(Folders)
        PROVE  ConfigOK(t)
    <3>1. Config \in DOMAIN t /\ t[Config] = tree[Config]
      BY <1>0, <2>3, MovedKeeps
    <3>2. \A f \in DOMAIN t : f.dir \in Seq(Folders)
      BY <1>0, <2>3, MovedFiles
    <3> QED BY <1>0, <3>1, <3>2 DEF ConfigOK
  <2>4. ConfigOK(t)
    BY <2>1, <2>2, <2>3
  <2> QED BY <2>4 DEF t
<1> QED BY <1>1, <1>2, <1>3, <1>4, <1>5, <1>6 DEF CallOK

\* A harmless call keeps the name of the room and the index files of rooms.
LEMMA HarmlessKeeps ==
  ASSUME NEW tree, NEW act, NEW texts, ConfigOK(tree), CallOK(act), Harmless(act),
         act.op # "titleHome", WritesConfig(act) => NamesRoom(texts[Config]), RoomThere(tree)
  PROVE  RoomThere(Apply(tree, act, texts).tree)
<1> DEFINE t == Apply(tree, act, texts).tree
<1>0. /\ Config \in DOMAIN tree /\ NamesRoom(tree[Config])
      /\ \A f \in DOMAIN tree : f.dir \in Seq(Folders)
      /\ \A f \in Roots : f = Config \/ (f.name = "index.html" /\ \E r : f.dir = <<r>>)
      /\ Config \in Roots
  BY ConfigApart DEF ConfigOK, Roots
<1>00. ASSUME NEW u, Config \in DOMAIN u, u[Config].room = tree[Config].room,
              \A f \in Roots : f \in DOMAIN tree => f \in DOMAIN u
       PROVE  RoomThere(u)
  <2> DEFINE r == tree[Config].room
  <2>1. r \in Rooms \cup {"none"} /\ (r # "none" => Index(<<r>>) \in DOMAIN tree)
    BY <1>0 DEF NamesRoom, RoomThere
  <2>2. r \in Rooms => Index(<<r>>) \in Roots
    BY DEF Roots
  <2> HIDE DEF r
  <2>3. u[Config].room = r
    BY <1>00 DEF r
  <2> QED BY <1>00, <2>1, <2>2, <2>3 DEF RoomThere
<1>1. CASE act.op = "read"
  BY <1>0, <1>1 DEF Apply, Unless, Refused, Done
<1>2. CASE act.op = "create"
  <2>1. t = tree \/ (act.file \notin DOMAIN tree /\ t = With(tree, act.file, act.text))
    BY <1>2 DEF Apply, Create, Unless, Refused, Done
  <2> HIDE DEF t
  <2>2. /\ Config \in DOMAIN t /\ t[Config] = tree[Config]
        /\ \A f \in DOMAIN tree : f \in DOMAIN t
    BY <1>0, <2>1 DEF With
  <2>3. RoomThere(t)
    BY <1>00, <2>2
  <2> QED BY <2>3 DEF t
<1>3. CASE act.op = "write"
  <2> DEFINE text == Merged(texts[act.from], act.change)
  <2>1. \/ t = tree
        \/ /\ act.file \in DOMAIN tree /\ t = With(tree, act.file, text)
           /\ texts[act.from] = NoSha \/ texts[act.from] = tree[act.file]
    BY <1>3 DEF Apply, Update, ShaAgrees, Unless, Refused, Done
  <2>2. ASSUME act.file = Config, t # tree
        PROVE  text.room = tree[Config].room
    <3>1. /\ NamesRoom(texts[Config]) /\ act.from = Config
          /\ "room" \notin DOMAIN act.change
      BY <1>3, <2>2 DEF CallOK, Harmless, WritesConfig
    <3>2. texts[Config] # NoSha
      BY <3>1 DEF NamesRoom, NoSha
    <3>3. texts[Config] = tree[Config]
      BY <2>1, <2>2, <3>1, <3>2
    <3>4. text.room = texts[Config].room
      BY <3>1 DEF Merged, NamesRoom
    <3> QED BY <3>3, <3>4
  <2> HIDE DEF t, text
  <2>3. /\ Config \in DOMAIN t /\ t[Config].room = tree[Config].room
        /\ \A f \in DOMAIN tree : f \in DOMAIN t
    BY <1>0, <2>1, <2>2 DEF With
  <2>4. RoomThere(t)
    BY <1>00, <2>3
  <2> QED BY <2>4 DEF t
<1>4. CASE act.op = "update"
  <2>1. t = tree \/ (act.file \in DOMAIN tree /\ t = With(tree, act.file, act.text))
    BY <1>4 DEF Apply, Update, ShaAgrees, Unless, Refused, Done
  <2>2. act.file # Config
    BY <1>4 DEF CallOK
  <2> HIDE DEF t
  <2>3. /\ Config \in DOMAIN t /\ t[Config] = tree[Config]
        /\ \A f \in DOMAIN tree : f \in DOMAIN t
    BY <1>0, <2>1, <2>2 DEF With
  <2>4. RoomThere(t)
    BY <1>00, <2>3
  <2> QED BY <2>4 DEF t
<1>5. CASE act.op \in {"delete", "deleteMany", "deleteDir"}
  <2>1. t = tree \/ \E files : files \cap Roots = {} /\ t = Without(tree, files)
    <3>1. CASE act.op = "delete"
      <4>1. t = tree \/ t = Without(tree, {act.file})
        BY <3>1 DEF Apply, Delete, Unless, Refused, Done
      <4>2. {act.file} \cap Roots = {}
        BY <3>1 DEF Harmless
      <4> HIDE DEF t
      <4> QED BY <4>1, <4>2
    <3>2. CASE act.op = "deleteMany"
      <4>1. t = Without(tree, act.files)
        BY <3>2 DEF Apply, DeleteMany, Done
      <4>2. act.files \cap Roots = {}
        BY <3>2 DEF Harmless
      <4> HIDE DEF t
      <4> QED BY <4>1, <4>2
    <3>3. CASE act.op = "deleteDir"
      <4>1. t = Without(tree, FilesUnder(tree, act.dir))
        BY <3>3 DEF Apply, DeleteDirectory, Done
      <4>2. Len(act.dir) \in 1..3 /\ Len(act.dir) \in 2..3
        BY <3>3 DEF Harmless
      <4>3. /\ Config \notin FilesUnder(tree, act.dir)
            /\ \A r : Index(<<r>>) \notin FilesUnder(tree, act.dir)
        BY <4>2, NotUnder
      <4>4. FilesUnder(tree, act.dir) \cap Roots = {}
        BY <4>3 DEF Roots
      <4> HIDE DEF t
      <4> QED BY <4>1, <4>4
    <3> QED BY <1>5, <3>1, <3>2, <3>3
  <2> HIDE DEF t
  <2>2. /\ Config \in DOMAIN t /\ t[Config] = tree[Config]
        /\ \A f \in Roots : f \in DOMAIN tree => f \in DOMAIN t
    BY <1>0, <2>1 DEF Without
  <2>3. RoomThere(t)
    BY <1>00, <2>2
  <2> QED BY <2>3 DEF t
<1>6. CASE act.op \in {"moveFiles", "renameDir", "renameFile"}
  <2>1. t = tree \/ \E target : /\ t = Moved(tree, target)
                                /\ DOMAIN target \cap Roots = {}
                                /\ \A g \in DOMAIN target : target[g] \notin Roots
    <3>1. CASE act.op = "moveFiles"
      <4> DEFINE files == {f \in DOMAIN tree : f.dir = act.dir /\ f.name \in act.names}
                 target == [f \in files |-> File(act.new, f.name)]
      <4>1. t = tree \/ t = Moved(tree, target)
        BY <3>1 DEF Apply, MoveFiles, Unless, Refused, Done
      <4>2. /\ Len(act.dir) \in 1..3 /\ Len(act.new) > 0
            /\ \/ Len(act.dir) = 3 /\ Len(act.new) = 3
               \/ "index.html" \notin act.names
        BY <3>1 DEF CallOK, Harmless
      <4>3. /\ DOMAIN target = files
            /\ \A g \in files : target[g].dir = act.new /\ target[g].name \in act.names
        BY DEF File
      <4>4. \A f \in files : f.dir = act.dir /\ f.name \in act.names
        OBVIOUS
      <4> HIDE DEF t, target, files
      <4>5. \A f : /\ f.dir \in {act.dir, act.new}
                   /\ f.name \in act.names
                   => f \notin Roots
        <5>1. act.dir # <<>> /\ act.new # <<>>
          BY <4>2, NotEmpty
        <5>2. \A d, r : Len(d) = 3 => d # <<r>>
          OBVIOUS
        <5> QED BY <1>0, <4>2, <5>1, <5>2, ConfigApart
      <4>6. DOMAIN target \cap Roots = {}
        BY <4>3, <4>4, <4>5
      <4>7. \A g \in DOMAIN target : target[g] \notin Roots
        BY <4>3, <4>5
      <4> QED BY <4>1, <4>6, <4>7
    <3>2. CASE act.op = "renameDir"
      <4> DEFINE target == [f \in FilesUnder(tree, act.dir) |->
                   File(act.new \o SubSeq(f.dir, Len(act.dir) + 1, Len(f.dir)), f.name)]
      <4>1. t = tree \/ t = Moved(tree, target)
        BY <3>2 DEF Apply, RenameDir, Unless, Refused, Done
      <4>2. /\ Len(act.dir) \in 1..3 /\ Len(act.dir) \in 2..3
            /\ act.new \in Seq(Folders) /\ Len(act.new) = 2 /\ Len(act.new) > 0
        BY <3>2 DEF CallOK, Harmless
      <4>6. /\ Config \notin FilesUnder(tree, act.dir)
            /\ \A r : Index(<<r>>) \notin FilesUnder(tree, act.dir)
        BY <4>2, NotUnder
      <4>3. FilesUnder(tree, act.dir) \cap Roots = {}
        BY <4>6 DEF Roots
      <4>4. ASSUME NEW g \in FilesUnder(tree, act.dir)
            PROVE  target[g] \notin Roots
        <5> DEFINE d == act.new \o SubSeq(g.dir, Len(act.dir) + 1, Len(g.dir))
        <5>1. d \in Seq(Folders) /\ Len(d) >= Len(act.new)
          BY <4>2, RenamedDirs
        <5>2. target[g].dir = d
          BY DEF File
        <5> HIDE DEF d, target
        <5>3. Len(d) \in Nat /\ Len(d) >= 2
          BY <4>2, <5>1, LenProperties
        <5>4. d # <<>> /\ \A r : d # <<r>>
          BY <5>3, NotSingle
        <5> QED BY <1>0, <5>2, <5>4, ConfigApart
      <4>5. DOMAIN target = FilesUnder(tree, act.dir)
        OBVIOUS
      <4> HIDE DEF t, target
      <4> QED BY <4>1, <4>3, <4>4, <4>5
    <3>3. CASE act.op = "renameFile"
      <4> DEFINE target == [f \in {act.file} \cap DOMAIN tree |-> act.new]
      <4>1. t = tree \/ t = Moved(tree, target)
        BY <3>3 DEF Apply, RenameFile, Unless, Refused, Done
      <4>2. act.file \notin Roots /\ act.new \notin Roots
        BY <3>3 DEF Harmless
      <4>3. DOMAIN target \cap Roots = {} /\ \A g \in DOMAIN target : target[g] \notin Roots
        BY <4>2
      <4> HIDE DEF t, target
      <4> QED BY <4>1, <4>3
    <3> QED BY <1>6, <3>1, <3>2, <3>3
  <2> HIDE DEF t
  <2>2. t = tree => RoomThere(t)
    OBVIOUS
  <2>3. ASSUME NEW target, t = Moved(tree, target), DOMAIN target \cap Roots = {},
               \A g \in DOMAIN target : target[g] \notin Roots
        PROVE  RoomThere(t)
    <3>1. \A f \in Roots : f \in DOMAIN tree => f \in DOMAIN t /\ t[f] = tree[f]
      BY <2>3, MovedKeeps
    <3> QED BY <1>0, <1>00, <3>1
  <2>4. RoomThere(t)
    BY <2>1, <2>2, <2>3
  <2> QED BY <2>4 DEF t
<1> QED BY <1>1, <1>2, <1>3, <1>4, <1>5, <1>6 DEF CallOK, Harmless

-----------------------------------------------------------------------------
(* The calls of the requests                                                *)

\* What the calls of a request are like when it begins.
Begun(c) ==
  /\ c \in Seq(Items(c)) /\ Len(c) <= 8 /\ Chain(c)
  /\ \A i \in DOMAIN c : WritesConfig(c[i]) =>
       \E j \in DOMAIN c : j < i /\ c[j].op = "read" /\ c[j].file = Config
  /\ \/ \A i \in DOMAIN c : Harmless(c[i])
     \/ \E r \in Rooms : c = CreateRoom(r) \/ c = DeleteRoom(r)
     \/ \E r, n \in Rooms : c = RenameRoom(r, n)

Fit(act) == CallOK(act) /\ Harmless(act) /\ ~WritesConfig(act)

\* A sequence is one of its items.
LEMMA SeqOfItems ==
  ASSUME NEW S, NEW c \in Seq(S)
  PROVE  c \in Seq(Items(c)) /\ Items(c) \subseteq S /\ DOMAIN c = 1..Len(c) /\ Len(c) \in Nat
<1>1. DOMAIN c = 1..Len(c) /\ Len(c) \in Nat /\ \A i \in 1..Len(c) : c[i] \in S
  BY LenProperties, ElementOfSeq
<1>2. c = [i \in 1..Len(c) |-> c[i]]
  BY <1>1
<1>3. c \in [1..Len(c) -> Items(c)]
  BY <1>1, <1>2 DEF Items
<1>4. c \in Seq(Items(c))
  BY <1>1, <1>3
<1> QED BY <1>1, <1>4 DEF Items

LEMMA OneCall ==
  ASSUME NEW x, Fit(x)
  PROVE  Begun(<<x>>)
<1> DEFINE c == <<x>>
<1>1. c \in Seq({x}) /\ Len(c) = 1 /\ DOMAIN c = 1..1 /\ c[1] = x
  OBVIOUS
<1>2. c \in Seq(Items(c))
  BY <1>1, SeqOfItems
<1> HIDE DEF c
<1>3. \A i \in DOMAIN c : c[i] = x /\ i = 1
  BY <1>1
<1>4. Begun(c)
  BY <1>1, <1>2, <1>3 DEF Begun, Chain, Fit
<1> QED BY <1>4 DEF c

LEMMA TwoCalls ==
  ASSUME NEW x, NEW y, Fit(x), Fit(y), ~IsTreeCall(y), x.op # "deleteDir"
  PROVE  Begun(<<x, y>>)
<1> DEFINE c == <<x, y>>
<1>1. c \in Seq({x, y}) /\ Len(c) = 2 /\ DOMAIN c = 1..2 /\ c[1] = x /\ c[2] = y
  OBVIOUS
<1>2. c \in Seq(Items(c))
  BY <1>1, SeqOfItems
<1>3. y.op # "deleteDir"
  BY DEF IsTreeCall
<1> HIDE DEF c
<1>4. \A i \in DOMAIN c : (i = 1 /\ c[i] = x) \/ (i = 2 /\ c[i] = y)
  BY <1>1
<1>5. Chain(c)
  BY <1>3, <1>4 DEF Chain, Fit
<1>6. Begun(c)
  BY <1>1, <1>2, <1>4, <1>5 DEF Begun, Fit
<1> QED BY <1>6 DEF c

\* No tree call, and the config read first: each call may stand anywhere.
LEMMA ManyCalls ==
  ASSUME NEW S, NEW c \in Seq(S), Len(c) \in 1..8, c[1] = read(Config),
         \A x \in S : CallOK(x) /\ Harmless(x) /\ ~IsTreeCall(x)
  PROVE  Begun(c)
<1>1. c \in Seq(Items(c)) /\ DOMAIN c = 1..Len(c) /\ \A i \in DOMAIN c : c[i] \in S
  BY SeqOfItems, ElementOfSeq
<1>2. Chain(c)
  BY <1>1 DEF Chain, IsTreeCall
<1>3. ASSUME NEW i \in DOMAIN c, WritesConfig(c[i])
      PROVE  1 < i /\ 1 \in DOMAIN c /\ c[1].op = "read" /\ c[1].file = Config
  BY <1>1, <1>3 DEF WritesConfig, read
<1>4. \A i \in DOMAIN c : Harmless(c[i])
  BY <1>1
<1>5. \A k \in 1..8 : k <= 8
  OBVIOUS
<1>6. Len(c) <= 8
  BY <1>5
<1> QED BY <1>1, <1>2, <1>3, <1>4, <1>6 DEF Begun

LEMMA ThreeCalls ==
  ASSUME NEW x, NEW y, NEW z, Fit(x), Fit(y), Fit(z), x.op \in {"read", "update"},
         x.op = "read" \/ ~IsTreeCall(y), y.op # "deleteDir", ~IsTreeCall(z)
  PROVE  Begun(<<x, y, z>>)
<1> DEFINE c == <<x, y, z>>
           S == {x, y, z}
<1>1. x \in S /\ y \in S /\ z \in S
  OBVIOUS
<1> HIDE DEF S
<1>2. c \in Seq(S) /\ Len(c) = 3 /\ DOMAIN c = 1..3 /\ c[1] = x /\ c[2] = y /\ c[3] = z
  BY <1>1
<1>3. c \in Seq(Items(c))
  BY <1>2, SeqOfItems
<1>4. z.op # "deleteDir"
  BY DEF IsTreeCall
<1> HIDE DEF c
<1>5. \A i \in DOMAIN c : (i = 1 /\ c[i] = x) \/ (i = 2 /\ c[i] = y) \/ (i = 3 /\ c[i] = z)
  BY <1>2
<1>6. Chain(c)
  BY <1>4, <1>5 DEF Chain, Fit
<1>7. Begun(c)
  BY <1>2, <1>3, <1>5, <1>6 DEF Begun, Fit
<1> QED BY <1>7 DEF c

\* The calls that make, rename and delete a room
LEMMA RoomCalls ==
  ASSUME NEW r \in Rooms, NEW n \in Rooms
  PROVE  /\ CallOK(read(Config)) /\ CallOK([op |-> "noRoom"])
         /\ CallOK(write(Config, [room |-> r])) /\ CallOK(write(Config, [room |-> "none"]))
         /\ CallOK(create(Index(<<r>>), Titled(r)))
         /\ CallOK(read(Index(<<r>>))) /\ CallOK(renameDir(<<r>>, <<n>>))
         /\ CallOK(writeTo(Index(<<n>>), Index(<<r>>), Titled(n)))
         /\ CallOK(deleteDir(<<r>>))
<1>1. <<r>> \in Seq(Folders) /\ <<n>> \in Seq(Folders) /\ Len(<<r>>) = 1 /\ Len(<<n>>) = 1
  BY DEF Folders
<1>2. Index(<<r>>).dir = <<r>> /\ Index(<<n>>) # Config
  BY ConfigApart
<1>3. CallOK(read(Config)) /\ CallOK(read(Index(<<r>>))) /\ CallOK([op |-> "noRoom"])
  BY DEF CallOK, read
<1>4. CallOK(write(Config, [room |-> r])) /\ CallOK(write(Config, [room |-> "none"]))
  BY DEF CallOK, write
<1>5. CallOK(create(Index(<<r>>), Titled(r)))
  BY <1>1, <1>2 DEF CallOK, create
<1>6. CallOK(renameDir(<<r>>, <<n>>))
  BY <1>1 DEF CallOK, renameDir
<1>7. CallOK(writeTo(Index(<<n>>), Index(<<r>>), Titled(n)))
  BY <1>2 DEF CallOK, writeTo
<1>8. CallOK(deleteDir(<<r>>))
  BY <1>1 DEF CallOK, deleteDir
<1> QED BY <1>3, <1>4, <1>5, <1>6, <1>7, <1>8

LEMMA CreateRoomBegun ==
  ASSUME NEW r \in Rooms
  PROVE  Begun(CreateRoom(r))
<1> DEFINE w == write(Config, [room |-> r])
           m == create(Index(<<r>>), Titled(r))
           p == [op |-> "noRoom"]
           q == read(Config)
           S == {q, p, w, m}
           c == <<q, p, w, m>>
<1>1. c = CreateRoom(r)
  BY DEF CreateRoom
<1>2. CallOK(q) /\ CallOK(p) /\ CallOK(w) /\ CallOK(m)
  BY RoomCalls
<1>3. /\ ~IsTreeCall(q) /\ ~IsTreeCall(p) /\ ~IsTreeCall(w) /\ ~IsTreeCall(m)
      /\ q.op = "read" /\ q.file = Config /\ ~WritesConfig(q) /\ ~WritesConfig(p)
      /\ q.op # "deleteDir" /\ p.op # "deleteDir" /\ w.op # "deleteDir" /\ m.op # "deleteDir"
      /\ ~WritesConfig(m)
  BY DEF IsTreeCall, read, write, create, WritesConfig
<1>4. q \in S /\ p \in S /\ w \in S /\ m \in S
  OBVIOUS
<1> HIDE DEF q, p, w, m, S
<1>5. /\ c \in Seq(S) /\ Len(c) = 4 /\ DOMAIN c = 1..4
      /\ c[1] = q /\ c[2] = p /\ c[3] = w /\ c[4] = m
  BY <1>4
<1>6. c \in Seq(Items(c))
  BY <1>5, SeqOfItems
<1> HIDE DEF c
<1>7. \A i \in DOMAIN c : \/ i = 1 /\ c[i] = q
                          \/ i = 2 /\ c[i] = p
                          \/ i = 3 /\ c[i] = w
                          \/ i = 4 /\ c[i] = m
  BY <1>5
<1>8. Chain(c)
  BY <1>2, <1>3, <1>7 DEF Chain
<1>9. Begun(c)
  BY <1>1, <1>3, <1>5, <1>6, <1>7, <1>8 DEF Begun
<1> QED BY <1>1, <1>9

LEMMA DeleteRoomBegun ==
  ASSUME NEW r \in Rooms
  PROVE  Begun(DeleteRoom(r))
<1> DEFINE d == deleteDir(<<r>>)
           q == read(Config)
           w == write(Config, [room |-> "none"])
           S == {d, q, w}
           c == <<d, q, w>>
<1>1. c = DeleteRoom(r)
  BY DEF DeleteRoom
<1>2. CallOK(d) /\ CallOK(q) /\ CallOK(w)
  BY RoomCalls
<1>3. /\ ~IsTreeCall(q) /\ ~IsTreeCall(w) /\ d.op = "deleteDir" /\ ~WritesConfig(d)
      /\ q.op = "read" /\ q.file = Config /\ w.op = "write" /\ w.file = Config
  BY DEF IsTreeCall, read, write, deleteDir, WritesConfig
<1>4. d \in S /\ q \in S /\ w \in S
  OBVIOUS
<1> HIDE DEF d, q, w, S
<1>5. c \in Seq(S) /\ Len(c) = 3 /\ DOMAIN c = 1..3 /\ c[1] = d /\ c[2] = q /\ c[3] = w
  BY <1>4
<1>6. c \in Seq(Items(c))
  BY <1>5, SeqOfItems
<1> HIDE DEF c
<1>7. \A i \in DOMAIN c : \/ i = 1 /\ c[i] = d
                          \/ i = 2 /\ c[i] = q
                          \/ i = 3 /\ c[i] = w
  BY <1>5
<1>8. Chain(c)
  BY <1>2, <1>3, <1>7 DEF Chain
<1>9. \A i \in DOMAIN c : WritesConfig(c[i]) => i = 3
  BY <1>3, <1>7 DEF WritesConfig
<1>10. Begun(c)
  BY <1>1, <1>3, <1>5, <1>6, <1>8, <1>9 DEF Begun
<1> QED BY <1>1, <1>10

LEMMA RenameRoomBegun ==
  ASSUME NEW r \in Rooms, NEW n \in Rooms
  PROVE  Begun(RenameRoom(r, n))
<1> DEFINE p == read(Index(<<r>>))
           d == renameDir(<<r>>, <<n>>)
           t == writeTo(Index(<<n>>), Index(<<r>>), Titled(n))
           q == read(Config)
           w == write(Config, [room |-> n])
           S == {p, d, t, q, w}
           c == <<p, d, t, q, w>>
<1>1. c = RenameRoom(r, n)
  BY DEF RenameRoom
<1>2. CallOK(p) /\ CallOK(d) /\ CallOK(t) /\ CallOK(q) /\ CallOK(w)
  BY RoomCalls
<1>3. /\ ~IsTreeCall(p) /\ ~IsTreeCall(t) /\ ~IsTreeCall(q) /\ ~IsTreeCall(w)
      /\ p.op = "read" /\ d.op = "renameDir" /\ t.op = "write" /\ w.op = "write"
      /\ ~WritesConfig(p) /\ ~WritesConfig(d) /\ ~WritesConfig(t)
      /\ q.op = "read" /\ q.file = Config
  BY ConfigApart DEF IsTreeCall, read, write, writeTo, renameDir, WritesConfig
<1>4. p \in S /\ d \in S /\ t \in S /\ q \in S /\ w \in S
  OBVIOUS
<1> HIDE DEF p, d, t, q, w, S
<1>5. /\ c \in Seq(S) /\ Len(c) = 5 /\ DOMAIN c = 1..5
      /\ c[1] = p /\ c[2] = d /\ c[3] = t /\ c[4] = q /\ c[5] = w
  BY <1>4
<1>6. c \in Seq(Items(c))
  BY <1>5, SeqOfItems
<1> HIDE DEF c
<1>7. \A i \in DOMAIN c : \/ i = 1 /\ c[i] = p
                          \/ i = 2 /\ c[i] = d
                          \/ i = 3 /\ c[i] = t
                          \/ i = 4 /\ c[i] = q
                          \/ i = 5 /\ c[i] = w
  BY <1>5
<1>8. Chain(c)
  BY <1>2, <1>3, <1>7 DEF Chain
<1>9. \A i \in DOMAIN c : WritesConfig(c[i]) => i = 5
  BY <1>3, <1>7 DEF WritesConfig
<1>10. Begun(c)
  BY <1>1, <1>3, <1>5, <1>6, <1>8, <1>9 DEF Begun
<1> QED BY <1>1, <1>10

\* Where a file may be, and the calls on it that fit anywhere.
LEMMA Places ==
  ASSUME NEW room, NEW cat, NEW a, NEW name, room \in Rooms, cat \in Categories, a \in Albums
  PROVE  /\ Category(room, cat) \in Seq(Folders) /\ Len(Category(room, cat)) = 2
         /\ PostsOf(room, cat) \in Seq(Folders) /\ Len(PostsOf(room, cat)) = 3
         /\ Album(a) \in Seq(Folders) /\ Len(Album(a)) = 2
         /\ <<"images">> \in Seq(Folders) /\ Len(<<"images">>) = 1
<1>1. /\ room \in Folders /\ cat \in Folders /\ a \in Folders /\ "_posts" \in Folders
      /\ "images" \in Folders
  BY DEF Folders
<1> HIDE DEF Folders
<1> QED BY <1>1 DEF Category, PostsOf, Album

\* A file in a folder is not the config; the index of a room is one level down.
LEMMA Elsewhere ==
  ASSUME NEW d, NEW name, Len(d) \in 1..3
  PROVE  /\ File(d, name) # Config
         /\ Len(d) \in 2..3 \/ name # "index.html" => File(d, name) \notin Roots
<1>1. File(d, name).dir = d /\ File(d, name).name = name
  BY DEF File
<1>2. Config.dir = <<>> /\ \A r : Index(<<r>>).dir = <<r>> /\ Index(<<r>>).name = "index.html"
  BY ConfigApart
<1>3. d # <<>>
  BY NotEmpty
<1>4. Len(d) \in 2..3 => \A r : d # <<r>>
  BY NotSingle
<1> QED BY <1>1, <1>2, <1>3, <1>4 DEF Roots

LEMMA FitCreate ==
  ASSUME NEW f, NEW text, f.dir \in Seq(Folders)
  PROVE  Fit(create(f, text)) /\ ~IsTreeCall(create(f, text)) /\ create(f, text).op = "create"
BY DEF Fit, CallOK, Harmless, WritesConfig, IsTreeCall, create

LEMMA FitRead ==
  ASSUME NEW f
  PROVE  Fit(read(f)) /\ ~IsTreeCall(read(f)) /\ read(f).op = "read"
BY DEF Fit, CallOK, Harmless, WritesConfig, IsTreeCall, read

LEMMA FitUpdate ==
  ASSUME NEW f, NEW sha, NEW text, f # Config
  PROVE  Fit(update(f, sha, text)) /\ update(f, sha, text).op = "update"
BY DEF Fit, CallOK, Harmless, WritesConfig, update

LEMMA FitWrite ==
  ASSUME NEW f, NEW from, NEW change, f # Config
  PROVE  Fit(writeTo(f, from, change)) /\ ~IsTreeCall(writeTo(f, from, change))
         /\ writeTo(f, from, change).op = "write"
BY DEF Fit, CallOK, Harmless, WritesConfig, IsTreeCall, writeTo

LEMMA FitDelete ==
  ASSUME NEW f, NEW sha, f # Config, f \notin Roots
  PROVE  Fit(delete(f, sha)) /\ delete(f, sha).op = "delete"
BY DEF Fit, CallOK, Harmless, WritesConfig, delete

LEMMA Lengths ==
  /\ 1 \in 1..3 /\ 2 \in 1..3 /\ 3 \in 1..3 /\ 2 \in 2..3 /\ 3 \in 2..3
  /\ 1 > 0 /\ 2 > 0 /\ 3 > 0 /\ 4 > 0 /\ 2 # 3
  /\ \A i \in {0, 2} : 4 + i \in 4..6
  /\ \A i \in 4..6, j \in {0, 1} : i + j \in 4..7 /\ i > 0
  /\ \A i \in 4..7, j \in {0, 1} : i + j \in 4..8 /\ i > 0
  /\ \A i \in 4..8 : i \in 1..8
OBVIOUS

LEMMA Strings ==
  ASSUME NEW x, NEW y
  PROVE  <<>> \o <<y>> = <<y>> /\ <<x>> \o <<y>> = <<x, y>>
<1>1. <<y>> \in Seq({y})
  OBVIOUS
<1>3. <<>> \o <<y>> = <<y>>
  BY <1>1, ConcatEmptySeq
<1>2. <<x>> \o <<y>> = <<x, y>>
  <2> DEFINE S == {x, y}
             a == <<x>>
             b == <<y>>
             c == <<x, y>>
  <2>1. a \in Seq(S) /\ b \in Seq(S) /\ c \in Seq(S)
    OBVIOUS
  <2>2. Len(a) = 1 /\ Len(b) = 1 /\ Len(c) = 2 /\ a[1] = x /\ b[1] = y /\ c[1] = x /\ c[2] = y
    OBVIOUS
  <2> HIDE DEF S, a, b, c
  <2>3. /\ a \o b \in Seq(S) /\ Len(a \o b) = 2
        /\ \A i \in 1..2 : (a \o b)[i] = IF i <= 1 THEN a[i] ELSE b[i - 1]
    BY <2>1, <2>2, ConcatProperties
  <2>4. (a \o b)[1] = x /\ (a \o b)[2] = y
    BY <2>2, <2>3
  <2>5. \A i \in 1..2 : (a \o b)[i] = c[i]
    BY <2>2, <2>4
  <2>6. a \o b = c
    BY <2>1, <2>2, <2>3, <2>5, SeqEqual
  <2> QED BY <2>6 DEF a, b, c
<1> QED BY <1>2, <1>3

LEMMA CategoryBegun ==
  ASSUME NEW calls \in CategoryRequests
  PROVE  Begun(calls)
<1>1. PICK r \in Rooms, c \in Categories, d \in Categories, p \in Posts :
         calls \in {CreateCategory(r, c), DeleteCategory(r, c), RenameCategory(r, c, d),
                    MoveResourcePages(r, c, d, {p})}
  <2> DEFINE four(r, c, d, p) == {CreateCategory(r, c), DeleteCategory(r, c),
                                  RenameCategory(r, c, d), MoveResourcePages(r, c, d, {p})}
  <2>1. CategoryRequests = UNION {four(r, c, d, p) : r \in Rooms, c \in Categories,
                                                     d \in Categories, p \in Posts}
    BY DEF CategoryRequests
  <2> HIDE DEF four
  <2>2. \E r \in Rooms, c \in Categories, d \in Categories, p \in Posts : calls \in four(r, c, d, p)
    BY <2>1
  <2> QED BY <2>2 DEF four
<1> DEFINE old == Category(r, c)
           new == Category(r, d)
<1>2. /\ old \in Seq(Folders) /\ Len(old) = 2 /\ new \in Seq(Folders) /\ Len(new) = 2
      /\ PostsOf(r, c) \in Seq(Folders) /\ Len(PostsOf(r, c)) = 3
      /\ PostsOf(r, d) \in Seq(Folders) /\ Len(PostsOf(r, d)) = 3
  BY Places, SiteContentAssumption
<1>3. CASE calls = CreateCategory(r, c)
  <2>1. Index(old).dir \in Seq(Folders)
    BY <1>2 DEF Index, File
  <2> QED BY <1>3, <2>1, FitCreate, OneCall DEF CreateCategory
<1>4. CASE calls = DeleteCategory(r, c)
  <2> HIDE DEF old
  <2>1. Fit(deleteDir(old))
    BY <1>2 DEF Fit, CallOK, Harmless, WritesConfig, deleteDir
  <2> QED BY <1>4, <2>1, OneCall DEF DeleteCategory, old
<1>5. CASE calls = RenameCategory(r, c, d)
  <2> DEFINE x == read(Index(old))
             y == renameDir(old, new)
             z == writeTo(Index(new), Index(old), Titled(d))
  <2>1. calls = <<x, y, z>>
    BY <1>5 DEF RenameCategory
  <2>2. Fit(x) /\ x.op = "read"
    BY FitRead
  <2>3. Fit(y) /\ y.op # "deleteDir"
    <3>1. y.op = "renameDir" /\ y.dir = old /\ y.new = new
      BY DEF renameDir
    <3> HIDE DEF old, new, y
    <3>2. Len(y.dir) \in 1..3 /\ Len(y.new) > 0
      BY <1>2, <3>1, Lengths, Zenon
    <3> QED BY <1>2, <3>1, <3>2 DEF Fit, CallOK, Harmless, WritesConfig
  <2>4. Index(new) # Config
    BY <1>2, Elsewhere DEF Index
  <2>5. Fit(z) /\ ~IsTreeCall(z)
    BY <2>4, FitWrite
  <2> HIDE DEF x, y, z
  <2> QED BY <2>1, <2>2, <2>3, <2>5, ThreeCalls
<1>6. CASE calls = MoveResourcePages(r, c, d, {p})
  <2> DEFINE from == PostsOf(r, c)
             to == PostsOf(r, d)
  <2> HIDE DEF from, to
  <2>1. Fit(moveFiles(from, to, {p}))
    BY <1>2 DEF Fit, CallOK, Harmless, WritesConfig, moveFiles, from, to
  <2> QED BY <1>6, <2>1, OneCall DEF MoveResourcePages, from, to
<1> QED BY <1>1, <1>3, <1>4, <1>5, <1>6

LEMMA PostBegun ==
  ASSUME NEW calls \in PostRequests
  PROVE  Begun(calls)
<1>1. PICK r \in Rooms, c \in Categories, p \in Posts, q \in Posts, h \in Shas, t \in Texts :
         calls \in {CreatePost(r, c, p, t), UpdatePost(r, c, p, h, t), DeletePost(r, c, p, h),
                    RenamePost(r, c, p, q, h, t)}
  BY DEF PostRequests
<1> DEFINE d == PostsOf(r, c)
<1>2. d \in Seq(Folders) /\ Len(d) = 3
  BY Places, SiteContentAssumption
<1>3. \A n : File(d, n).dir \in Seq(Folders) /\ File(d, n) # Config /\ File(d, n) \notin Roots
  BY <1>2, Elsewhere DEF File
<1> HIDE DEF d
<1>4. CASE calls = CreatePost(r, c, p, t)
  BY <1>3, <1>4, FitCreate, OneCall DEF CreatePost, d
<1>5. CASE calls = UpdatePost(r, c, p, h, t)
  BY <1>3, <1>5, FitUpdate, OneCall DEF UpdatePost, d
<1>6. CASE calls = DeletePost(r, c, p, h)
  BY <1>3, <1>6, FitDelete, OneCall DEF DeletePost, d
<1>7. CASE calls = RenamePost(r, c, p, q, h, t)
  BY <1>3, <1>7, FitDelete, FitCreate, TwoCalls DEF RenamePost, d
<1> QED BY <1>1, <1>4, <1>5, <1>6, <1>7

LEMMA AlbumBegun ==
  ASSUME NEW calls \in AlbumRequests
  PROVE  Begun(calls)
<1>1. PICK a \in Albums, b \in Albums, names \in SUBSET Pictures :
         calls \in {CreateAlbum(a, names), RenameAlbum(a, b), DeleteAlbum(a), MovePictures(a, b, names)}
  BY DEF AlbumRequests
<1> DEFINE old == Album(a)
           new == Album(b)
           top == <<"images">>
<1>2. /\ old \in Seq(Folders) /\ Len(old) = 2 /\ new \in Seq(Folders) /\ Len(new) = 2
      /\ top \in Seq(Folders) /\ Len(top) = 1
  BY Places, SiteContentAssumption
<1>3. "index.html" \notin names
  BY SiteContentAssumption
<1> HIDE DEF old, new, top
<1>4. CASE calls = CreateAlbum(a, names)
  <2> DEFINE x == moveFiles(top, old, names)
             y == create(File(old, ".keep"), Body(""))
  <2>1. Fit(x) /\ x.op # "deleteDir"
    BY <1>2, <1>3 DEF Fit, CallOK, Harmless, WritesConfig, moveFiles
  <2>2. File(old, ".keep").dir \in Seq(Folders)
    BY <1>2 DEF File
  <2>3. Fit(y) /\ ~IsTreeCall(y)
    BY <2>2, FitCreate
  <2> HIDE DEF x, y
  <2>4. calls = <<y>> \/ calls = <<x, y>>
    <3>1. calls = (IF names = {} THEN <<>> ELSE <<x>>) \o <<y>>
      BY <1>4 DEF CreateAlbum, x, y, old, top
    <3>2. CASE names = {}
      <4>1. calls = <<>> \o <<y>>
        BY <3>1, <3>2
      <4> QED BY <4>1, Strings
    <3>3. CASE names # {}
      <4>1. calls = <<x>> \o <<y>>
        BY <3>1, <3>3
      <4> QED BY <4>1, Strings
    <3> QED BY <3>2, <3>3
  <2> QED BY <2>1, <2>3, <2>4, OneCall, TwoCalls
<1>5. CASE calls = RenameAlbum(a, b)
  <2>1. Fit(renameDir(old, new))
    BY <1>2 DEF Fit, CallOK, Harmless, WritesConfig, renameDir
  <2> QED BY <1>5, <2>1, OneCall DEF RenameAlbum, old, new
<1>6. CASE calls = DeleteAlbum(a)
  <2>1. Fit(deleteDir(old))
    BY <1>2 DEF Fit, CallOK, Harmless, WritesConfig, deleteDir
  <2> QED BY <1>6, <2>1, OneCall DEF DeleteAlbum, old
<1>7. CASE calls = MovePictures(a, b, names)
  <2> DEFINE x == moveFiles(old, new, names)
  <2>2. x.op = "moveFiles" /\ x.dir = old /\ x.new = new /\ x.names = names
    BY DEF moveFiles
  <2> HIDE DEF x
  <2>3. Len(x.dir) \in 1..3 /\ Len(x.new) > 0
    BY <1>2, <2>2, Lengths, Zenon
  <2>1. Fit(x)
    BY <1>2, <1>3, <2>2, <2>3 DEF Fit, CallOK, Harmless, WritesConfig
  <2> QED BY <1>7, <2>1, OneCall DEF MovePictures, x, old, new
<1> QED BY <1>1, <1>4, <1>5, <1>6, <1>7

LEMMA PictureBegun ==
  ASSUME NEW calls \in PictureRequests
  PROVE  Begun(calls)
<1>1. PICK d \in MediaFolders, p \in Pictures, q \in Pictures, h \in Shas, t \in Texts :
         calls \in {CreatePicture(d, p, t), UpdatePicture(d, p, h, t), DeletePicture(d, p, h),
                    RenamePicture(d, p, q), DeletePictures({File(d, p), File(d, q)})}
  BY DEF PictureRequests
<1>2. d \in Seq(Folders) /\ Len(d) \in 1..3
  BY Places, SiteContentAssumption DEF MediaFolders
<1>3. p # "index.html" /\ q # "index.html"
  BY SiteContentAssumption
<1>4. \A n \in {p, q} : /\ File(d, n).dir \in Seq(Folders)
                        /\ File(d, n) # Config /\ File(d, n) \notin Roots
  BY <1>2, <1>3, Elsewhere DEF File
<1> DEFINE f == File(d, p)
           g == File(d, q)
<1>5. /\ f.dir \in Seq(Folders) /\ f # Config /\ f \notin Roots
      /\ g.dir \in Seq(Folders) /\ g # Config /\ g \notin Roots
  BY <1>4
<1> HIDE DEF f, g
<1>6. CASE calls = CreatePicture(d, p, t)
  BY <1>5, <1>6, FitCreate, OneCall DEF CreatePicture, f
<1>7. CASE calls = UpdatePicture(d, p, h, t)
  BY <1>5, <1>7, FitDelete, FitCreate, TwoCalls DEF UpdatePicture, f
<1>8. CASE calls = DeletePicture(d, p, h)
  BY <1>5, <1>8, FitDelete, OneCall DEF DeletePicture, f
<1>9. CASE calls = RenamePicture(d, p, q)
  <2>1. Fit(renameFile(f, g))
    BY <1>5 DEF Fit, CallOK, Harmless, WritesConfig, renameFile
  <2> QED BY <1>9, <2>1, OneCall DEF RenamePicture, f, g
<1>10. CASE calls = DeletePictures({File(d, p), File(d, q)})
  <2>1. Fit(deleteMany({f, g}))
    BY <1>5 DEF Fit, CallOK, Harmless, WritesConfig, deleteMany
  <2> QED BY <1>10, <2>1, OneCall DEF DeletePictures, f, g
<1> QED BY <1>1, <1>6, <1>7, <1>8, <1>9, <1>10

LEMMA FormsBegun ==
  ASSUME NEW calls \in HomepageRequests \cup ContactUsRequests
  PROVE  Begun(calls)
<1>1. Homepage # Config /\ ContactUs # Config /\ Footer # Config
  BY DEF Homepage, ContactUs, Footer, Config, File
<1>2. CASE calls \in HomepageRequests
  <2>1. PICK h, t : calls = UpdateHomepage(h, t)
    BY <1>2 DEF HomepageRequests
  <2> QED BY <1>1, <2>1, FitUpdate, OneCall DEF UpdateHomepage
<1>3. CASE calls \in ContactUsRequests
  <2>1. PICK h, t, f : calls = UpdateContactUs(h, t, f)
    BY <1>3 DEF ContactUsRequests
  <2> DEFINE x == update(ContactUs, h, Body(t))
             y == read(Footer)
             z == write(Footer, [feedback |-> f])
  <2>2. calls = <<x, y, z>>
    BY <2>1 DEF UpdateContactUs
  <2>3. Fit(x) /\ x.op = "update"
    BY <1>1, FitUpdate
  <2>4. Fit(y) /\ ~IsTreeCall(y) /\ y.op # "deleteDir"
    BY FitRead
  <2>5. z = writeTo(Footer, Footer, [feedback |-> f])
    BY DEF write, writeTo
  <2>6. Fit(z) /\ ~IsTreeCall(z)
    BY <1>1, <2>5, FitWrite
  <2> HIDE DEF x, y, z
  <2> QED BY <2>2, <2>3, <2>4, <2>6, ThreeCalls
<1> QED BY <1>2, <1>3

LEMMA Joined ==
  ASSUME NEW S, NEW a \in Seq(S), NEW b \in Seq(S), Len(a) > 0
  PROVE  a \o b \in Seq(S) /\ Len(a \o b) = Len(a) + Len(b) /\ (a \o b)[1] = a[1]
         /\ Len(a) \in Nat /\ Len(b) \in Nat
<1>1. Len(a) \in Nat /\ Len(b) \in Nat
  BY LenProperties
<1>2. /\ a \o b \in Seq(S) /\ Len(a \o b) = Len(a) + Len(b)
      /\ \A i \in 1..(Len(a) + Len(b)) :
           (a \o b)[i] = IF i <= Len(a) THEN a[i] ELSE b[i - Len(a)]
  BY ConcatProperties
<1>3. 1 \in 1..(Len(a) + Len(b)) /\ 1 <= Len(a)
  BY <1>1
<1> QED BY <1>1, <1>2, <1>3

LEMMA SettingsBegun ==
  ASSUME NEW calls \in SettingsRequests
  PROVE  Begun(calls)
<1>1. PICK title, feedback, logo : calls = UpdateSettings(title, feedback, logo)
  BY DEF SettingsRequests
<1> DEFINE c == read(Config)
           f == read(Footer)
           n == read(Nav)
           h == read(Homepage)
           u == write(Config, Titled(title))
           v == [op |-> "titleHome", title |-> title]
           w == write(Footer, [feedback |-> feedback])
           x == write(Nav, [logo |-> logo])
           S == {c, f, n, h, u, v, w, x}
           A == <<c, f, n, h>>
           B == IF title = "same" THEN <<>> ELSE <<u, v>>
           C == IF feedback = "same" THEN <<>> ELSE <<w>>
           D == IF logo = "same" THEN <<>> ELSE <<x>>
<1>2. calls = A \o B \o C \o D
  BY <1>1 DEF UpdateSettings, SettingsFiles
<1>3. Fit(c) /\ Fit(f) /\ Fit(n) /\ Fit(h) /\ ~IsTreeCall(c) /\ ~IsTreeCall(f)
      /\ ~IsTreeCall(n) /\ ~IsTreeCall(h)
  BY FitRead
<1>4. CallOK(u) /\ Harmless(u) /\ ~IsTreeCall(u)
  BY DEF CallOK, Harmless, IsTreeCall, WritesConfig, write, Titled
<1>5. CallOK(v) /\ Harmless(v) /\ ~IsTreeCall(v)
  BY DEF CallOK, Harmless, IsTreeCall, WritesConfig
<1>6. Footer # Config /\ Nav # Config
  BY DEF Footer, Nav, Config, File
<1>7. w = writeTo(Footer, Footer, [feedback |-> feedback]) /\ x = writeTo(Nav, Nav, [logo |-> logo])
  BY DEF write, writeTo
<1>8. Fit(w) /\ Fit(x) /\ ~IsTreeCall(w) /\ ~IsTreeCall(x)
  BY <1>6, <1>7, FitWrite
<1>9. c \in S /\ f \in S /\ n \in S /\ h \in S /\ u \in S /\ v \in S /\ w \in S /\ x \in S
  OBVIOUS
<1>10. \A y \in S : CallOK(y) /\ Harmless(y) /\ ~IsTreeCall(y)
  <2> HIDE DEF c, f, n, h, u, v, w, x
  <2> QED BY <1>3, <1>4, <1>5, <1>8 DEF Fit
<1>11. c = read(Config)
  OBVIOUS
<1> HIDE DEF c, f, n, h, u, v, w, x, S
<1>12. A \in Seq(S) /\ Len(A) = 4 /\ A[1] = c
  BY <1>9
<1>13. B \in Seq(S) /\ Len(B) \in {0, 2} /\ C \in Seq(S) /\ Len(C) \in {0, 1}
       /\ D \in Seq(S) /\ Len(D) \in {0, 1}
  BY <1>9
<1> HIDE DEF A, B, C, D
<1> DEFINE P == A \o B
           Q == P \o C
<1>14. Len(A) > 0 /\ A \in Seq(S) /\ B \in Seq(S)
  BY <1>12, <1>13, Lengths, Zenon
<1>15. P \in Seq(S) /\ Len(P) = Len(A) + Len(B) /\ P[1] = A[1]
  <2>1. \A a, b \in Seq(S) : Len(a) > 0 => /\ a \o b \in Seq(S)
                                            /\ Len(a \o b) = Len(a) + Len(b)
                                            /\ (a \o b)[1] = a[1]
    BY Joined
  <2> QED BY <1>14, <2>1
<1>16. Len(P) \in 4..6 /\ Len(P) > 0
  BY <1>12, <1>13, <1>15, Lengths, Zenon
<1> HIDE DEF P
<1>17. Q \in Seq(S) /\ Len(Q) = Len(P) + Len(C) /\ Q[1] = P[1]
  BY <1>13, <1>15, <1>16, Joined
<1>18. Len(Q) \in 4..7 /\ Len(Q) > 0
  BY <1>13, <1>16, <1>17, Lengths, Zenon
<1> HIDE DEF Q
<1> DEFINE R == Q \o D
<1>19. R \in Seq(S) /\ Len(R) = Len(Q) + Len(D) /\ R[1] = Q[1]
  BY <1>13, <1>17, <1>18, Joined
<1>20. Len(R) \in 4..8 /\ Len(R) \in 1..8
  BY <1>13, <1>18, <1>19, Lengths, Zenon
<1>21. calls = R
  BY <1>2 DEF P, Q
<1>22. calls \in Seq(S) /\ Len(calls) \in 1..8 /\ calls[1] = c
  BY <1>12, <1>15, <1>17, <1>19, <1>20, <1>21, Zenon
<1> QED BY <1>10, <1>11, <1>22, ManyCalls

LEMMA RequestsBegun ==
  ASSUME NEW calls \in Requests
  PROVE  Begun(calls)
<1>1. CASE calls \in RoomRequests
  BY <1>1, CreateRoomBegun, RenameRoomBegun, DeleteRoomBegun DEF RoomRequests
<1> QED BY <1>1, CategoryBegun, PostBegun, AlbumBegun, PictureBegun, SettingsBegun, FormsBegun
        DEF Requests

-----------------------------------------------------------------------------
(* The sites at the beginning                                               *)

LEMMA FirstTreeOK == ConfigOK(FirstTree) /\ RoomThere(FirstTree)
<1> DEFINE files == {Config, Homepage, ContactUs, Footer, Nav, File(<<"images">>, "logo.png")}
<1>0. Homepage # Config /\ Footer # Config /\ Nav # Config
  BY DEF Config, Homepage, Footer, Nav, File
<1>1. DOMAIN FirstTree = files /\ FirstTree[Config].room = "none"
      /\ "room" \in DOMAIN FirstTree[Config]
  <2> DEFINE c == [title |-> CHOOSE t \in Texts : TRUE, room |-> "none"]
  <2>1. DOMAIN FirstTree = files /\ Config \in files
    BY DEF FirstTree
  <2>2. FirstTree[Config] = c
    BY <1>0, <2>1 DEF FirstTree
  <2> QED BY <2>1, <2>2
<1>2. "images" \in Folders /\ "pages" \in Folders /\ "_data" \in Folders
  BY DEF Folders
<1>3. \A f \in files : f.dir \in Seq(Folders)
  <2>1. /\ <<>> \in Seq(Folders) /\ <<"images">> \in Seq(Folders)
        /\ <<"pages">> \in Seq(Folders) /\ <<"_data">> \in Seq(Folders)
    <3> HIDE DEF Folders
    <3>1. <<>> \in Seq(Folders)
      OBVIOUS
    <3>2. \A x \in Folders : <<x>> \in Seq(Folders)
      OBVIOUS
    <3> QED BY <1>2, <3>1, <3>2
  <2>2. \A d, n : File(d, n).dir = d
    BY DEF File
  <2> QED BY <2>1, <2>2 DEF Config, Homepage, ContactUs, Footer, Nav
<1> QED BY <1>1, <1>3 DEF ConfigOK, NamesRoom, RoomThere

LEMMA GrownTreeOK == ConfigOK(GrownTree) /\ RoomThere(GrownTree)
<1> DEFINE room == CHOOSE r \in Rooms : TRUE
           cat == CHOOSE c \in Categories : TRUE
           album == CHOOSE a \in Albums : TRUE
           more == {Index(<<room>>), Index(Category(room, cat)), File(Album(album), ".keep")}
                     \cup {File(PostsOf(room, cat), p) : p \in Posts}
                     \cup {File(Album(album), p) : p \in Pictures}
           t == CHOOSE t \in Texts : TRUE
<1>1. room \in Rooms /\ cat \in Categories /\ album \in Albums
  BY SiteContentAssumption
<1>3. Config \in DOMAIN FirstTree
  BY FirstTreeOK DEF ConfigOK
<1>2. /\ DOMAIN GrownTree = more \cup DOMAIN FirstTree
      /\ GrownTree[Config] = [title |-> t, room |-> room]
  <2> DEFINE c == [title |-> t, room |-> room]
  <2>1. PICK grown : DOMAIN grown = more \cup DOMAIN FirstTree /\ GrownTree = With(grown, Config, c)
    BY DEF GrownTree
  <2> HIDE DEF c, more
  <2>2. /\ DOMAIN GrownTree = more \cup DOMAIN FirstTree
        /\ GrownTree[Config] = c
    BY <1>3, <2>1 DEF With
  <2> QED BY <2>2 DEF c
<1>5. \A f \in more : f.dir \in Seq(Folders)
  <2>1. <<room>> \in Seq(Folders)
    BY <1>1 DEF Folders
  <2>2. /\ Category(room, cat) \in Seq(Folders)
        /\ PostsOf(room, cat) \in Seq(Folders) /\ Album(album) \in Seq(Folders)
    BY <1>1, Places
  <2>3. \A d, n : File(d, n).dir = d
    BY DEF File
  <2> HIDE DEF room, cat, album
  <2> QED BY <2>1, <2>2, <2>3 DEF Index
<1>6. Index(<<room>>) \in more
  OBVIOUS
<1> HIDE DEF room, more
<1>7. \A f \in DOMAIN GrownTree : f.dir \in Seq(Folders)
  BY <1>2, <1>5, FirstTreeOK DEF ConfigOK
<1> QED BY <1>1, <1>2, <1>3, <1>6, <1>7 DEF ConfigOK, NamesRoom, RoomThere

LEMMA NothingToDo == <<>> \in Seq(Items(<<>>)) /\ Len(<<>>) = 0 /\ DOMAIN <<>> = {}
OBVIOUS

LEMMA ContentBegins == ContentInit => ContentInv
<1> SUFFICES ASSUME ContentInit PROVE ContentInv
  OBVIOUS
<1> USE DEF ContentInit
<1>1. ConfigOK(head) /\ RoomThere(head)
  BY FirstTreeOK, GrownTreeOK
<1>2. ContentTypeOK
  <2>1. Len(todo) <= 8
    BY NothingToDo
  <2>2. requests \in 0..MaxRequests /\ faults \in 0..MaxFaults
    BY SiteContentAssumption
  <2> QED BY <1>1, <2>1, <2>2 DEF ContentTypeOK, ConfigOK, NamesRoom
<1>3. ConfigInv
  BY <1>1, NothingToDo DEF ConfigInv
<1>4. TodoInv
  BY NothingToDo DEF TodoInv
<1>5. SyncInv
  BY DEF SyncInv
<1>6. RoomInv
  BY <1>1 DEF RoomInv
<1> QED BY <1>2, <1>3, <1>4, <1>5, <1>6 DEF ContentInv

-----------------------------------------------------------------------------
(* One call after the other                                                 *)

LEMMA TailOf ==
  ASSUME NEW s, s \in Seq(Items(s)), s # <<>>
  PROVE  /\ Len(s) \in Nat /\ Len(s) > 0 /\ DOMAIN s = 1..Len(s) /\ 1 \in DOMAIN s
         /\ Head(s) = s[1]
         /\ Tail(s) \in Seq(Items(Tail(s))) /\ Len(Tail(s)) = Len(s) - 1
         /\ DOMAIN Tail(s) = 1..(Len(s) - 1)
         /\ \A i \in DOMAIN Tail(s) : i + 1 \in DOMAIN s /\ Tail(s)[i] = s[i + 1]
         /\ \A i \in DOMAIN s : i = 1 \/ i - 1 \in DOMAIN Tail(s)
         /\ \A i \in DOMAIN s : i # 1 => Tail(s)[i - 1] = s[i]
<1> DEFINE S == Items(s)
<1> HIDE DEF S
<1>1. s \in Seq(S)
  BY DEF S
<1>2. Len(s) \in Nat /\ DOMAIN s = 1..Len(s)
  BY <1>1, LenProperties
<1>3. Len(s) > 0
  BY <1>1, <1>2, EmptySeq
<1>4. Head(s) = s[1] /\ Tail(s) \in Seq(S)
  BY <1>1, HeadTailProperties
<1>5. Len(Tail(s)) = Len(s) - 1 /\ \A i \in 1..Len(Tail(s)) : Tail(s)[i] = s[i + 1]
  BY <1>1, HeadTailProperties
<1>6. DOMAIN Tail(s) = 1..(Len(s) - 1) /\ Tail(s) \in Seq(Items(Tail(s)))
  BY <1>4, <1>5, SeqOfItems, LenProperties
<1>7. 1 \in DOMAIN s
  BY <1>2, <1>3
<1>8. \A i \in DOMAIN Tail(s) : i + 1 \in DOMAIN s /\ Tail(s)[i] = s[i + 1]
  BY <1>2, <1>3, <1>5, <1>6
<1>9. ASSUME NEW i \in DOMAIN s, i # 1
      PROVE  i - 1 \in DOMAIN Tail(s) /\ Tail(s)[i - 1] = s[i]
  <2>1. i \in Nat /\ i - 1 \in 1..(Len(s) - 1) /\ (i - 1) + 1 = i
    BY <1>2, <1>3, <1>9
  <2> QED BY <1>6, <1>8, <2>1
<1> QED BY <1>2, <1>3, <1>4, <1>5, <1>6, <1>7, <1>8, <1>9

LEMMA Tails ==
  ASSUME NEW a, NEW b, NEW c, NEW d, NEW e
  PROVE  /\ Head(<<a>>) = a /\ Tail(<<a>>) = <<>>
         /\ Head(<<a, b>>) = a /\ Tail(<<a, b>>) = <<b>>
         /\ Head(<<a, b, c>>) = a /\ Tail(<<a, b, c>>) = <<b, c>>
         /\ Head(<<a, b, c, d>>) = a /\ Tail(<<a, b, c, d>>) = <<b, c, d>>
         /\ Head(<<a, b, c, d, e>>) = a /\ Tail(<<a, b, c, d, e>>) = <<b, c, d, e>>
OBVIOUS

\* What is left of the calls is a chain too, of calls that have been there.
LEMMA ChainTail ==
  ASSUME NEW s, s \in Seq(Items(s)), s # <<>>, Chain(s)
  PROVE  Chain(Tail(s))
<1> DEFINE t == Tail(s)
<1>1. \A i \in DOMAIN t : i \in Nat /\ i + 1 \in DOMAIN s /\ t[i] = s[i + 1]
  BY TailOf
<1>2. \A i, j \in DOMAIN t : j < i => j + 1 < i + 1
  BY <1>1
<1> HIDE DEF t
<1>3. \A i \in DOMAIN t : CallOK(t[i])
  BY <1>1 DEF Chain
<1>4. \A i, j \in DOMAIN t : j < i /\ IsTreeCall(t[i]) => t[j].op = "read"
  BY <1>1, <1>2 DEF Chain
<1>5. \A i, j \in DOMAIN t : i < j /\ t[i].op = "deleteDir" =>
        t[j].op \in {"read", "write"} /\ t[j].file = Config
  BY <1>1, <1>2 DEF Chain
<1>6. Chain(t)
  BY <1>3, <1>4, <1>5 DEF Chain
<1> QED BY <1>6 DEF t

\* What is read stays read.
LEMMA ReadFirstTail ==
  ASSUME todo \in Seq(Items(todo)), todo # <<>>, ReadFirst(todo), todo' = Tail(todo),
         Config \in DOMAIN seen => Config \in DOMAIN seen',
         Head(todo).op = "read" /\ Head(todo).file = Config => Config \in DOMAIN seen'
  PROVE  ReadFirst(todo)'
<1> DEFINE t == Tail(todo)
<1>1. /\ 1 \in DOMAIN todo /\ Head(todo) = todo[1]
      /\ \A i \in DOMAIN t : i \in Nat /\ i + 1 \in DOMAIN todo /\ t[i] = todo[i + 1]
      /\ \A i \in DOMAIN todo : i \in Nat /\ (i = 1 \/ (i - 1 \in DOMAIN t /\ t[i - 1] = todo[i]))
  BY TailOf
<1> HIDE DEF t
<1>2. ASSUME NEW i \in DOMAIN t, WritesConfig(t[i]), Config \notin DOMAIN seen'
      PROVE  \E j \in DOMAIN t : j < i /\ t[j].op = "read" /\ t[j].file = Config
  <2>1. PICK j \in DOMAIN todo : j < i + 1 /\ todo[j].op = "read" /\ todo[j].file = Config
    BY <1>1, <1>2 DEF ReadFirst
  <2>2. j # 1
    BY <1>1, <1>2, <2>1
  <2>3. j - 1 \in DOMAIN t /\ t[j - 1] = todo[j] /\ j - 1 < i
    BY <1>1, <2>1, <2>2
  <2> QED BY <2>1, <2>3
<1>3. todo' = t
  BY DEF t
<1> QED BY <1>2, <1>3 DEF ReadFirst

\* The title of the home page is one call or another.
LEMMA MeantIs ==
  ASSUME NEW act, CallOK(act)
  PROVE  LET m == Meant(act) IN
         /\ CallOK(m) /\ m.op # "titleHome"
         /\ IsTreeCall(m) <=> IsTreeCall(act)
         /\ WritesConfig(m) <=> WritesConfig(act)
         /\ Harmless(act) => Harmless(m)
         /\ act.op # "titleHome" => m = act
         /\ act.op = "titleHome" => m.op \in {"read", "write"} /\ m.file = Homepage
<1> DEFINE a == read(Homepage)
           b == writeTo(Homepage, Homepage, Titled(act.title))
<1>1. CASE act.op # "titleHome"
  BY <1>1 DEF Meant
<1>2. CASE act.op = "titleHome"
  <2>1. Homepage # Config
    BY ConfigApart
  <2>2. Fit(a) /\ Fit(b) /\ a.op = "read" /\ b.op = "write" /\ ~IsTreeCall(a) /\ ~IsTreeCall(b)
    BY <2>1, FitRead, FitWrite
  <2>3. a.file = Homepage /\ b.file = Homepage
    BY DEF read, writeTo
  <2>4. Meant(act) = a \/ Meant(act) = b
    BY <1>2 DEF Meant
  <2>5. ~IsTreeCall(act) /\ ~WritesConfig(act)
    BY <1>2 DEF IsTreeCall, WritesConfig
  <2> HIDE DEF a, b
  <2> QED BY <1>2, <2>2, <2>3, <2>4, <2>5 DEF Fit
<1> QED BY <1>1, <1>2

\* A call that succeeds on the config does the same with the deletion and without it.
LEMMA UnderDeletion ==
  ASSUME NEW tree, NEW d, NEW act, NEW texts, ConfigOK(tree), Len(d) \in 1..3,
         CallOK(act), act.op \in {"read", "write"}, act.file = Config,
         Apply(tree, act, texts).ok
  PROVE  /\ Apply(DeleteDirectory(tree, d).tree, act, texts).ok
         /\ Apply(DeleteDirectory(tree, d).tree, act, texts).tree
              = DeleteDirectory(Apply(tree, act, texts).tree, d).tree
<1> DEFINE F == FilesUnder(tree, d)
           u == Without(tree, F)
           text == Merged(texts[act.from], act.change)
           w == With(tree, Config, text)
<1>1. DeleteDirectory(tree, d).tree = u
  BY DEF DeleteDirectory, Done
<1>2. Config \in DOMAIN tree /\ Config \notin F
  BY NotUnder DEF ConfigOK
<1>3. Config \in DOMAIN u /\ u[Config] = tree[Config] /\ DOMAIN u = DOMAIN tree \ F
  BY <1>2 DEF Without
<1>4. CASE act.op = "read"
  <2>1. Apply(tree, act, texts).tree = tree
    BY <1>4 DEF Apply, Unless, Refused, Done
  <2>2. Apply(u, act, texts).tree = u /\ Apply(u, act, texts).ok
    <3> HIDE DEF u
    <3> QED BY <1>3, <1>4 DEF Apply, Unless, Refused, Done
  <2> QED BY <1>1, <2>1, <2>2
<1>5. CASE act.op = "write"
  <2> HIDE DEF text
  <2>1. Apply(tree, act, texts) = Update(tree, Config, texts[act.from], text)
    BY <1>5 DEF Apply, text
  <2>2. ShaAgrees(tree, Config, texts[act.from]) /\ Apply(tree, act, texts).tree = w
    BY <2>1 DEF Update, Unless, Refused, Done
  <2>3. ShaAgrees(u, Config, texts[act.from])
    <3> HIDE DEF u
    <3> QED BY <1>2, <1>3, <2>2 DEF ShaAgrees
  <2>4. Apply(u, act, texts) = Update(u, Config, texts[act.from], text)
    <3> HIDE DEF u
    <3> QED BY <1>5 DEF Apply, text
  <2>5. Config.dir = <<>>
    BY ConfigApart
  <2>6. Apply(u, act, texts).ok /\ Apply(u, act, texts).tree = With(u, Config, text)
    <3> HIDE DEF u
    <3> QED BY <2>3, <2>4, <2>5 DEF Update, Unless, Refused, Done, DirExists
  <2>7. FilesUnder(w, d) = F
    BY <1>2 DEF FilesUnder, With
  <2>8. With(u, Config, text) = Without(w, F)
    <3> HIDE DEF F
    <3>1. DOMAIN With(u, Config, text) = DOMAIN tree \ F /\ DOMAIN Without(w, F) = DOMAIN tree \ F
      BY <1>2 DEF With, Without
    <3>2. \A f \in DOMAIN tree \ F : With(u, Config, text)[f] = Without(w, F)[f]
      BY <1>2 DEF With, Without
    <3> QED BY <3>1, <3>2 DEF With, Without
  <2>9. DeleteDirectory(w, d).tree = Without(w, F)
    BY <2>7 DEF DeleteDirectory, Done
  <2> QED BY <1>1, <2>2, <2>6, <2>8, <2>9
<1> QED BY <1>4, <1>5

\* The step that a call takes.
LEMMA StepIs ==
  ASSUME ContentInv, Step
  PROVE  LET c == Head(todo)
             act == Meant(c)
             was == Apply(Base(act), act, seen)
         IN
         /\ phase = "work" /\ todo # <<>> /\ todo \in Seq(Items(todo))
         /\ Chain(todo) /\ ReadFirst(todo)
         /\ CallOK(c) /\ CallOK(act)
         /\ WritesConfig(act) => NamesRoom(seen[Config])
         /\ UNCHANGED <<snap, swept, unreverted, requests>>
         /\ faults' \in 0..MaxFaults
         /\ \/ phase' = "revert" /\ UNCHANGED <<head, todo, seen, late, want>>
            \/ /\ c.op = "noRoom" /\ seen[Config].room = "none"
               /\ todo' = Tail(todo) /\ UNCHANGED <<head, seen, phase, late, want>>
            \/ /\ c.op = "deleteDir" /\ act = c
               /\ late' = late \cup {[base |-> snap, dir |-> c.dir, of |-> requests]}
               /\ want' = Apply(want, c, seen).tree
               /\ todo' = Tail(todo) /\ UNCHANGED <<head, seen, phase>>
            \/ /\ act.op \notin {"noRoom", "deleteDir", "titleHome"}
               /\ c.op \notin {"noRoom", "deleteDir"}
               /\ was.ok
               /\ head' = was.tree
               /\ want' = Apply(want, act, seen).tree
               /\ seen' = IF act.op = "read" THEN With(seen, act.file, head[act.file]) ELSE seen
               /\ todo' = Tail(todo)
               /\ UNCHANGED <<phase, late>>
<1> DEFINE c == Head(todo)
           act == Meant(c)
           was == Apply(Base(act), act, seen)
<1>1. phase = "work" /\ todo # <<>>
  BY DEF Step
<1>2. todo \in Seq(Items(todo)) /\ Chain(todo) /\ ReadFirst(todo)
  BY <1>1 DEF ContentInv, TodoInv
<1>3. 1 \in DOMAIN todo /\ c = todo[1] /\ \A i \in DOMAIN todo : ~(i < 1)
  BY <1>1, <1>2, TailOf
<1> HIDE DEF c
<1>4. CallOK(c)
  BY <1>2, <1>3 DEF Chain
<1>5. /\ CallOK(act) /\ act.op # "titleHome" /\ (WritesConfig(act) <=> WritesConfig(c))
      /\ c.op # "titleHome" => act = c
      /\ c.op = "titleHome" => act.op \in {"read", "write"}
  BY <1>4, MeantIs
<1>6. WritesConfig(act) => Config \in DOMAIN seen
  BY <1>2, <1>3, <1>5 DEF ReadFirst
<1>7. WritesConfig(act) => NamesRoom(seen[Config])
  BY <1>6 DEF ContentInv, ConfigInv
<1>8. UNCHANGED <<snap, swept, unreverted, requests>>
  BY DEF Step
<1> HIDE DEF act
<1>9. act = Meant(Head(todo)) /\ faults \in 0..MaxFaults /\ MaxFaults \in Nat
  BY SiteContentAssumption DEF act, c, ContentInv, ContentTypeOK
<1> DEFINE body ==
     \/ Fails /\ Fault
     \/ Throws(act) /\ Fails /\ UNCHANGED faults
     \/ /\ act.op = "noRoom" /\ ~Throws(act)
        /\ todo' = Tail(todo)
        /\ UNCHANGED <<head, seen, phase, late, want, faults>>
     \/ /\ act.op = "deleteDir"
        /\ late' = late \cup {[base |-> snap, dir |-> act.dir, of |-> requests]}
        /\ want' = Apply(want, act, seen).tree
        /\ todo' = Tail(todo)
        /\ UNCHANGED <<head, seen, phase, faults>>
     \/ /\ act.op \notin {"noRoom", "deleteDir"}
        /\ UNCHANGED faults
        /\ \/ Fails
           \/ /\ was.ok
              /\ head' = was.tree
              /\ want' = Apply(want, act, seen).tree
              /\ seen' = IF act.op = "read" THEN With(seen, act.file, head[act.file]) ELSE seen
              /\ todo' = Tail(todo)
              /\ UNCHANGED <<phase, late>>
<1>10. body
  BY <1>9 DEF Step
<1>11. faults' \in 0..MaxFaults
  BY <1>9, <1>10 DEF Fault
<1>12. /\ act.op = "noRoom" => c.op = "noRoom"
       /\ act.op = "deleteDir" => c.op = "deleteDir" /\ act = c
       /\ act.op \notin {"noRoom", "deleteDir"} => c.op \notin {"noRoom", "deleteDir"}
  BY <1>5
<1> HIDE DEF was
<1>13. \/ phase' = "revert" /\ UNCHANGED <<head, todo, seen, late, want>>
       \/ /\ c.op = "noRoom" /\ seen[Config].room = "none"
          /\ todo' = Tail(todo) /\ UNCHANGED <<head, seen, phase, late, want>>
       \/ /\ c.op = "deleteDir" /\ act = c
          /\ late' = late \cup {[base |-> snap, dir |-> c.dir, of |-> requests]}
          /\ want' = Apply(want, c, seen).tree
          /\ todo' = Tail(todo) /\ UNCHANGED <<head, seen, phase>>
       \/ /\ act.op \notin {"noRoom", "deleteDir", "titleHome"}
          /\ c.op \notin {"noRoom", "deleteDir"}
          /\ was.ok
          /\ head' = was.tree
          /\ want' = Apply(want, act, seen).tree
          /\ seen' = IF act.op = "read" THEN With(seen, act.file, head[act.file]) ELSE seen
          /\ todo' = Tail(todo)
          /\ UNCHANGED <<phase, late>>
  BY <1>5, <1>10, <1>12 DEF Fails, Throws
<1> QED BY <1>1, <1>2, <1>4, <1>5, <1>7, <1>8, <1>11, <1>13 DEF c, act, was

\* The config stays in its place.
LEMMA StepKeepsConfig ==
  ASSUME ContentInv, Step
  PROVE  ConfigInv' /\ ContentTypeOK'
<1> DEFINE c == Head(todo)
           act == Meant(c)
<1>1. /\ ConfigOK(head) /\ ConfigOK(want) /\ ConfigOK(snap)
      /\ Config \in DOMAIN seen => NamesRoom(seen[Config])
      /\ \A d \in late : ConfigOK(d.base) /\ Len(d.dir) \in 1..2 /\ d.of \in 1..requests
  BY DEF ContentInv, ConfigInv
<1>2. requests \in Nat /\ requests >= 1
  BY SiteContentAssumption, StepIs DEF ContentInv, ContentTypeOK, TodoInv
<1>3. ConfigOK(Base(act))
  BY <1>1 DEF Base
<1>4. CallOK(c) /\ CallOK(act) /\ (WritesConfig(act) => NamesRoom(seen[Config]))
  BY StepIs
<1>5. act.op \notin {"noRoom", "titleHome"} =>
        ConfigOK(Apply(Base(act), act, seen).tree) /\ ConfigOK(Apply(want, act, seen).tree)
  BY <1>1, <1>3, <1>4, ApplyKeepsConfig
<1>6. ConfigOK(head') /\ ConfigOK(want') /\ ConfigOK(snap')
  BY <1>1, <1>5, StepIs
<1>7. Config \in DOMAIN seen' => NamesRoom(seen'[Config])
  <2>1. seen' = seen \/ (act.op = "read" /\ seen' = With(seen, act.file, head[act.file]))
    BY StepIs
  <2>2. NamesRoom(head[Config])
    BY <1>1 DEF ConfigOK
  <2> HIDE DEF act
  <2> QED BY <1>1, <2>1, <2>2 DEF With
<1>8. \A d \in late' : ConfigOK(d.base) /\ Len(d.dir) \in 1..2 /\ d.of \in 1..requests
  <2> DEFINE new == [base |-> snap, dir |-> c.dir, of |-> requests]
  <2>1. late' = late \/ (c.op = "deleteDir" /\ late' = late \cup {new})
    BY StepIs
  <2>2. new.base = snap /\ new.dir = c.dir /\ new.of = requests
    OBVIOUS
  <2>3. requests \in 1..requests
    BY <1>2
  <2>4. c.op = "deleteDir" => Len(c.dir) \in 1..2
    BY <1>4 DEF CallOK
  <2> HIDE DEF new, c
  <2>5. c.op = "deleteDir" => ConfigOK(new.base) /\ Len(new.dir) \in 1..2 /\ new.of \in 1..requests
    BY <1>1, <2>2, <2>3, <2>4
  <2> QED BY <1>1, <2>1, <2>5
<1>9. requests' = requests /\ snap' = snap
  BY StepIs
<1>10. ConfigInv'
  BY <1>6, <1>7, <1>8, <1>9 DEF ConfigInv
<1>11. ContentTypeOK'
  <2>1. Config \in DOMAIN head' /\ head'[Config].room \in Rooms \cup {"none"}
    BY <1>6 DEF ConfigOK, NamesRoom
  <2>2. /\ faults' \in 0..MaxFaults
        /\ UNCHANGED <<swept, unreverted, requests>>
        /\ phase' \in {"revert", "work"}
        /\ todo' = todo \/ todo' = Tail(todo)
    BY StepIs
  <2>3. Len(todo) \in Nat /\ Len(todo) <= 8 /\ Len(Tail(todo)) = Len(todo) - 1
    BY StepIs, TailOf DEF ContentInv, ContentTypeOK
  <2>4. Len(todo') <= 8
    <3>1. Len(todo) - 1 <= 8
      BY <2>3
    <3> QED BY <2>2, <2>3, <3>1
  <2>5. swept \in BOOLEAN /\ unreverted \in BOOLEAN /\ requests \in 0..MaxRequests
    BY DEF ContentInv, ContentTypeOK
  <2> QED BY <2>1, <2>2, <2>4, <2>5 DEF ContentTypeOK
<1> QED BY <1>10, <1>11

LEMMA StepKeepsTodo ==
  ASSUME ContentInv, Step
  PROVE  TodoInv'
<1>1. /\ phase = "work" /\ todo # <<>> /\ todo \in Seq(Items(todo))
      /\ Chain(todo) /\ ReadFirst(todo) /\ phase' \in {"revert", "work"}
      /\ \/ phase' = "revert" /\ todo' = todo
         \/ todo' = Tail(todo)
      /\ requests' = requests
  BY StepIs
<1>2. (phase = "idle" <=> requests = 0) /\ Len(todo) <= 8
  BY DEF ContentInv, TodoInv
<1>3. CASE phase' = "revert" /\ todo' = todo
  BY <1>1, <1>2, <1>3 DEF TodoInv, Items
<1>4. CASE todo' = Tail(todo)
  <2>1. /\ Tail(todo) \in Seq(Items(Tail(todo))) /\ Len(Tail(todo)) = Len(todo) - 1
        /\ Len(todo) \in Nat
    BY <1>1, TailOf
  <2>2. Len(Tail(todo)) <= 8
    BY <1>2, <2>1
  <2>3. Chain(Tail(todo))
    BY <1>1, ChainTail
  <2>4. phase' = "work" => ReadFirst(todo)'
    <3> SUFFICES ASSUME phase' = "work" PROVE ReadFirst(todo)'
      OBVIOUS
    <3> DEFINE c == Head(todo)
               act == Meant(c)
    <3>1. \/ c.op = "noRoom" /\ seen' = seen
          \/ c.op = "deleteDir" /\ seen' = seen
          \/ seen' = IF act.op = "read" THEN With(seen, act.file, head[act.file]) ELSE seen
      BY StepIs
    <3>2. c.op = "read" => act = c
      BY StepIs, MeantIs
    <3> HIDE DEF c, act
    <3>3. Config \in DOMAIN seen => Config \in DOMAIN seen'
      BY <3>1 DEF With
    <3>4. c.op = "read" /\ c.file = Config => Config \in DOMAIN seen'
      BY <3>1, <3>2 DEF With
    <3> QED BY <1>1, <1>4, <3>3, <3>4, ReadFirstTail DEF c
  <2>5. todo' \in Seq(Items(todo')) /\ Len(todo') <= 8 /\ Chain(todo')
    BY <1>4, <2>1, <2>2, <2>3
  <2>6. Items(todo)' = Items(todo')
    BY DEF Items
  <2> QED BY <1>1, <1>2, <2>4, <2>5, <2>6 DEF TodoInv
<1> QED BY <1>1, <1>3, <1>4

\* The tree calls that are left keep apart from a deletion, and staging from what is wanted.
LEMMA StepKeepsSync ==
  ASSUME ContentInv, Step
  PROVE  SyncInv'
<1> DEFINE c == Head(todo)
           act == Meant(c)
           was == Apply(Base(act), act, seen)
           t == Tail(todo)
           trees == \E i \in DOMAIN todo : IsTreeCall(todo[i])
<1>1. /\ phase = "work" /\ phase' \in {"revert", "work"} /\ CallOK(c) /\ CallOK(act)
      /\ UNCHANGED <<snap, swept, requests>> /\ Chain(todo)
  BY StepIs
<1>2. /\ 1 \in DOMAIN todo /\ c = todo[1]
      /\ \A i \in DOMAIN t : i \in Nat /\ i > 0 /\ i + 1 \in DOMAIN todo /\ t[i] = todo[i + 1]
                             /\ 1 < i + 1
  BY StepIs, TailOf
<1>3. Calm => InStep /\ (trees => head = snap /\ want = snap /\ late = {})
  BY <1>1 DEF ContentInv, SyncInv
<1>4. (IsTreeCall(act) <=> IsTreeCall(c)) /\ (c.op # "titleHome" => act = c)
      /\ (c.op = "titleHome" => act.file = Homepage)
  BY <1>1, MeantIs
<1>5. IsTreeCall(c) => trees
  BY <1>2
<1>6. (\E i \in DOMAIN t : IsTreeCall(t[i])) => trees /\ c.op = "read"
  BY <1>1, <1>2 DEF Chain
<1>7. ASSUME phase' = "work", Calm'
      PROVE  /\ InStep'
             /\ (\E i \in DOMAIN todo' : IsTreeCall(todo'[i])) =>
                  head' = snap' /\ want' = snap' /\ late' = {}
  <2>1. todo' = t
    BY <1>7, StepIs
  <2>2. Calm
    <3>1. late \subseteq late'
      BY StepIs
    <3> QED BY <1>1, <1>7, <3>1 DEF Calm
  <2>3. CASE UNCHANGED <<head, late, want>>
    <3>1. (\E i \in DOMAIN t : IsTreeCall(t[i])) => head = snap /\ want = snap /\ late = {}
      BY <1>3, <1>6, <2>2
    <3>2. late = {} /\ head = want => InStep'
      BY <2>3 DEF InStep
    <3>3. ASSUME NEW d \in late, late = {d}, want = DeleteDirectory(head, d.dir).tree,
                 \A i \in DOMAIN todo : todo[i].op \in {"read", "write"} /\ todo[i].file = Config
          PROVE  InStep'
      <4> HIDE DEF t
      <4>1. \A i \in DOMAIN todo' : todo'[i].op \in {"read", "write"} /\ todo'[i].file = Config
        BY <1>2, <2>1, <3>3
      <4> QED BY <2>3, <3>3, <4>1 DEF InStep
    <3>4. InStep'
      BY <1>3, <2>2, <3>2, <3>3 DEF InStep
    <3> QED BY <1>1, <2>1, <2>3, <3>1, <3>4
  <2>4. CASE c.op = "deleteDir" /\ late' # late
    <3> DEFINE d == [base |-> snap, dir |-> c.dir, of |-> requests]
    <3>1. /\ late' = late \cup {d} /\ want' = Apply(want, c, seen).tree /\ head' = head
      BY <2>4, StepIs
    <3>2. head = snap /\ want = snap /\ late = {}
      BY <1>3, <1>5, <2>2, <2>4 DEF IsTreeCall
    <3>3. want' = DeleteDirectory(head', d.dir).tree
      BY <2>4, <3>1, <3>2 DEF Apply
    <3> HIDE DEF t, c, d
    <3>4. \A i \in DOMAIN t : t[i].op \in {"read", "write"} /\ t[i].file = Config
      BY <1>1, <1>2, <2>4 DEF Chain
    <3>5. InStep'
      BY <2>1, <3>1, <3>2, <3>3, <3>4 DEF InStep
    <3>6. ~\E i \in DOMAIN t : IsTreeCall(t[i])
      BY <3>4 DEF IsTreeCall
    <3> QED BY <2>1, <3>5, <3>6
  <2>5. CASE /\ was.ok /\ head' = was.tree /\ want' = Apply(want, act, seen).tree
             /\ late' = late /\ act.op # "titleHome"
    <3>1. CASE act.op = "read"
      <4>1. was.tree = Base(act) /\ Apply(want, act, seen).tree = want /\ Base(act) = head
        BY <3>1 DEF Apply, Unless, Refused, Done, Base, IsTreeCall
      <4> QED BY <2>3, <2>5, <4>1
    <3>2. CASE act.op # "read" /\ IsTreeCall(act)
      <4>1. head = snap /\ want = snap /\ late = {}
        BY <1>3, <1>4, <1>5, <2>2, <3>2
      <4>2. head' = want' /\ late' = {}
        BY <2>5, <3>2, <4>1 DEF Base
      <4>3. c.op # "read"
        BY <1>4, <3>2 DEF IsTreeCall
      <4> QED BY <1>6, <2>1, <4>2, <4>3 DEF InStep
    <3>3. CASE act.op # "read" /\ ~IsTreeCall(act)
      <4>1. Base(act) = head
        BY <3>3 DEF Base
      <4>2. c.op # "read"
        BY <1>4, <3>3
      <4>3. CASE late = {} /\ head = want
        <5>1. head' = want' /\ late' = {}
          BY <2>5, <4>1, <4>3
        <5> QED BY <1>6, <2>1, <4>2, <5>1 DEF InStep
      <4>4. ASSUME NEW d \in late, late = {d}, want = DeleteDirectory(head, d.dir).tree,
                   \A i \in DOMAIN todo : todo[i].op \in {"read", "write"} /\ todo[i].file = Config
            PROVE  InStep'
        <5>1. c.op \in {"read", "write"} /\ c.file = Config /\ act = c
          BY <1>2, <1>4, <4>4
        <5>2. ConfigOK(head) /\ Len(d.dir) \in 1..3
          <6>1. Len(d.dir) \in 1..2
            BY <4>4 DEF ContentInv, ConfigInv
          <6>2. \A i \in 1..2 : i \in 1..3
            OBVIOUS
          <6> QED BY <6>1, <6>2 DEF ContentInv, ConfigInv
        <5>3. want' = DeleteDirectory(head', d.dir).tree
          BY <1>1, <2>5, <4>1, <4>4, <5>1, <5>2, UnderDeletion
        <5> HIDE DEF t
        <5>4. \A i \in DOMAIN todo' : todo'[i].op \in {"read", "write"} /\ todo'[i].file = Config
          BY <1>2, <2>1, <4>4
        <5> QED BY <2>5, <4>4, <5>3, <5>4 DEF InStep
      <4>5. InStep'
        BY <1>3, <2>2, <4>3, <4>4 DEF InStep
      <4> QED BY <1>6, <2>1, <4>2, <4>5
    <3> QED BY <3>1, <3>2, <3>3
  <2>6. \/ UNCHANGED <<head, late, want>>
        \/ c.op = "deleteDir" /\ late' # late
        \/ c.op = "deleteDir" /\ late' = late
        \/ /\ was.ok /\ head' = was.tree /\ want' = Apply(want, act, seen).tree
           /\ late' = late /\ act.op # "titleHome"
    BY <1>7, StepIs
  <2>7. CASE c.op = "deleteDir" /\ late' = late
    <3>1. late = {}
      BY <1>3, <1>5, <2>2, <2>7 DEF IsTreeCall
    <3>2. late' # {}
      BY <1>7, <2>7, StepIs
    <3> QED BY <2>7, <3>1, <3>2
  <2> QED BY <2>3, <2>4, <2>5, <2>6, <2>7
<1>8. SyncInv'
  BY <1>1, <1>7 DEF SyncInv
<1> QED BY <1>8

\* A call of the contents API that succeeds on staging would on what is wanted.
LEMMA PlainStep ==
  ASSUME ContentInv, Step, phase' = "work", Calm',
         Head(todo).op \in {"read", "create", "write"}
  PROVE  /\ Calm /\ todo' = Tail(todo)
         /\ want' = Apply(want, Head(todo), seen).tree
         /\ Apply(want, Head(todo), seen).ok
         /\ WritesConfig(Head(todo)) => NamesRoom(seen[Config])
<1> DEFINE c == Head(todo)
           was == Apply(Base(c), c, seen)
<1>1. /\ CallOK(c) /\ UNCHANGED <<swept, requests>> /\ phase = "work"
      /\ 1 \in DOMAIN todo /\ c = todo[1]
  BY StepIs, TailOf
<1>2. Meant(c) = c
  BY <1>1, MeantIs
<1>3. /\ todo' = Tail(todo) /\ was.ok /\ want' = Apply(want, c, seen).tree /\ late' = late
      /\ WritesConfig(c) => NamesRoom(seen[Config])
  BY <1>2, StepIs
<1>4. Calm
  BY <1>1, <1>3 DEF Calm
<1>5. Base(c) = head
  BY DEF Base, IsTreeCall
<1>6. InStep
  BY <1>1, <1>4 DEF ContentInv, SyncInv
<1>7. CASE late = {} /\ head = want
  BY <1>3, <1>4, <1>5, <1>7
<1>8. ASSUME NEW d \in late, want = DeleteDirectory(head, d.dir).tree,
             \A i \in DOMAIN todo : todo[i].op \in {"read", "write"} /\ todo[i].file = Config
      PROVE  Apply(want, c, seen).ok
  <2>1. c.op \in {"read", "write"} /\ c.file = Config
    BY <1>1, <1>8
  <2>2. ConfigOK(head) /\ Len(d.dir) \in 1..3
    <3>1. Len(d.dir) \in 1..2
      BY <1>8 DEF ContentInv, ConfigInv
    <3>2. \A i \in 1..2 : i \in 1..3
      OBVIOUS
    <3> QED BY <3>1, <3>2 DEF ContentInv, ConfigInv
  <2> HIDE DEF c
  <2> QED BY <1>1, <1>3, <1>5, <1>8, <2>1, <2>2, UnderDeletion
<1> QED BY <1>3, <1>4, <1>6, <1>7, <1>8 DEF InStep

LEMMA RoomWritten ==
  ASSUME NEW tree, NEW texts, NEW x, NamesRoom(texts[Config]),
         Apply(tree, write(Config, [room |-> x]), texts).ok
  PROVE  LET after == Apply(tree, write(Config, [room |-> x]), texts).tree
         IN after[Config].room = x /\ DOMAIN after = DOMAIN tree
<1> DEFINE c == write(Config, [room |-> x])
           text == Merged(texts[Config], [room |-> x])
<1>1. c.op = "write" /\ c.file = Config /\ c.from = Config /\ c.change = [room |-> x]
  BY DEF write
<1>2. text.room = x
  BY DEF Merged, NamesRoom
<1> HIDE DEF c, text
<1>3. Apply(tree, c, texts) = Update(tree, Config, texts[Config], text)
  BY <1>1 DEF Apply, text
<1>4. Config \in DOMAIN tree /\ Apply(tree, c, texts).tree = With(tree, Config, text)
  BY <1>3 DEF c, Update, ShaAgrees, Unless, Refused, Done
<1>5. /\ Apply(tree, c, texts).tree[Config].room = x
      /\ DOMAIN Apply(tree, c, texts).tree = DOMAIN tree
  BY <1>2, <1>4 DEF With
<1> QED BY <1>5 DEF c

LEMMA FileMade ==
  ASSUME NEW tree, NEW texts, NEW act, act.op \in {"create", "write"}, Config \in DOMAIN tree,
         act.file # Config, Apply(tree, act, texts).ok
  PROVE  LET after == Apply(tree, act, texts).tree
         IN act.file \in DOMAIN after /\ after[Config] = tree[Config]
<1>1. \E text : Apply(tree, act, texts).tree = With(tree, act.file, text)
  <2>1. CASE act.op = "create"
    BY <2>1 DEF Apply, Create, Unless, Refused, Done
  <2>2. CASE act.op = "write"
    <3> DEFINE text == Merged(texts[act.from], act.change)
    <3>1. Apply(tree, act, texts).tree = With(tree, act.file, text)
      <4> HIDE DEF text
      <4>1. Apply(tree, act, texts) = Update(tree, act.file, texts[act.from], text)
        BY <2>2 DEF Apply, text
      <4> QED BY <4>1 DEF Update, Unless, Refused, Done
    <3> QED BY <3>1
  <2> QED BY <2>1, <2>2
<1> QED BY <1>1 DEF With

\* What the room that the config names is owed.
LEMMA RoomStep ==
  ASSUME ContentInv, Step, phase' = "work", Calm', ~unreverted'
  PROVE  RoomPending'
<1> DEFINE c == Head(todo)
           act == Meant(c)
           t == Tail(todo)
<1>1. /\ phase = "work" /\ CallOK(c) /\ CallOK(act) /\ todo' = t
      /\ WritesConfig(act) => NamesRoom(seen[Config])
      /\ UNCHANGED <<swept, unreverted, requests>> /\ late \subseteq late'
      /\ \/ c.op = "noRoom" /\ want' = want
         \/ c.op # "noRoom" /\ act.op # "noRoom" /\ want' = Apply(want, act, seen).tree
  BY StepIs
<1>2. Calm
  BY <1>1 DEF Calm
<1>3. RoomPending /\ ConfigOK(want)
  BY <1>1, <1>2 DEF ContentInv, RoomInv, ConfigInv
<1>4. CASE RoomThere(want) /\ \A i \in DOMAIN todo : Harmless(todo[i])
  <2>1. /\ 1 \in DOMAIN todo /\ c = todo[1]
        /\ \A i \in DOMAIN t : i + 1 \in DOMAIN todo /\ t[i] = todo[i + 1]
    BY StepIs, TailOf
  <2>2. Harmless(c) /\ \A i \in DOMAIN t : Harmless(t[i])
    BY <1>4, <2>1
  <2>3. Harmless(act) /\ act.op # "titleHome" /\ c.op # "noRoom"
    BY <1>1, <2>2, MeantIs DEF Harmless
  <2> HIDE DEF c, act, t
  <2>4. RoomThere(want')
    BY <1>1, <1>3, <1>4, <2>3, HarmlessKeeps
  <2> QED BY <1>1, <2>2, <2>4 DEF RoomPending
<1>5. ASSUME NEW r \in Rooms, MakesRoom(r)
      PROVE  RoomPending'
  <2> DEFINE q == read(Config)
             p == [op |-> "noRoom"]
             w == write(Config, [room |-> r])
             m == create(Index(<<r>>), Titled(r))
  <2>1. \/ todo = <<q, p, w, m>>
        \/ todo = <<p, w, m>>
        \/ todo = <<w, m>>
        \/ todo = <<m>> /\ want[Config].room = r
    BY <1>5 DEF MakesRoom, CreateRoom
  <2>2. todo' = <<p, w, m>> \/ todo' = <<w, m>> \/ (todo' = <<m>> /\ want'[Config].room = r)
          => RoomPending'
    BY DEF MakesRoom, RoomPending
  <2>3. /\ w.op = "write" /\ WritesConfig(w)
        /\ m.op = "create" /\ m.file = Index(<<r>>)
    BY DEF write, create, WritesConfig
  <2> HIDE DEF q, p, m
  <2>4. CASE todo = <<q, p, w, m>>
    BY <1>1, <2>2, <2>4, Tails
  <2>5. CASE todo = <<p, w, m>>
    BY <1>1, <2>2, <2>5, Tails
  <2>6. CASE todo = <<w, m>>
    <3>1. c = w /\ t = <<m>>
      BY <2>6, Tails
    <3>2. want' = Apply(want, w, seen).tree /\ Apply(want, w, seen).ok /\ NamesRoom(seen[Config])
      BY <2>3, <3>1, PlainStep
    <3>3. want'[Config].room = r
      BY <3>2, RoomWritten
    <3> QED BY <1>1, <2>2, <3>1, <3>3
  <2>7. CASE todo = <<m>> /\ want[Config].room = r
    <3>1. c = m /\ t = <<>>
      BY <2>7, Tails
    <3>2. want' = Apply(want, m, seen).tree /\ Apply(want, m, seen).ok
      BY <2>3, <3>1, PlainStep
    <3>3. Index(<<r>>) # Config /\ Config \in DOMAIN want
      BY <1>3, ConfigApart DEF ConfigOK
    <3>4. Index(<<r>>) \in DOMAIN want' /\ want'[Config] = want[Config]
      BY <2>3, <3>2, <3>3, FileMade
    <3>5. RoomThere(want')
      BY <2>7, <3>4 DEF RoomThere
    <3> QED BY <1>1, <3>1, <3>5, NothingToDo DEF RoomPending
  <2> QED BY <2>1, <2>4, <2>5, <2>6, <2>7
<1>6. ASSUME NEW r \in Rooms, DeletesRoom(r)
      PROVE  RoomPending'
  <2> DEFINE d == deleteDir(<<r>>)
             q == read(Config)
             w == write(Config, [room |-> "none"])
  <2>1. todo = <<d, q, w>> \/ todo = <<q, w>> \/ todo = <<w>>
    BY <1>6 DEF DeletesRoom, DeleteRoom
  <2>2. todo' = <<q, w>> \/ todo' = <<w>> => RoomPending'
    BY DEF DeletesRoom, RoomPending
  <2>3. w.op = "write" /\ WritesConfig(w)
    BY DEF write, WritesConfig
  <2> HIDE DEF d, q
  <2>4. CASE todo = <<w>>
    <3>1. c = w /\ t = <<>>
      BY <2>4, Tails
    <3>2. want' = Apply(want, w, seen).tree /\ Apply(want, w, seen).ok /\ NamesRoom(seen[Config])
      BY <2>3, <3>1, PlainStep
    <3>3. want'[Config].room = "none"
      BY <3>2, RoomWritten
    <3>4. RoomThere(want')
      BY <3>3 DEF RoomThere
    <3> QED BY <1>1, <3>1, <3>4, NothingToDo DEF RoomPending
  <2> HIDE DEF w
  <2>5. CASE todo = <<d, q, w>>
    <3>1. t = <<q, w>>
      BY <2>5, Tails
    <3> HIDE DEF t
    <3> QED BY <1>1, <2>2, <3>1
  <2>6. CASE todo = <<q, w>>
    <3>1. t = <<w>>
      BY <2>6, Tails
    <3> HIDE DEF t
    <3> QED BY <1>1, <2>2, <3>1
  <2> QED BY <2>1, <2>4, <2>5, <2>6
<1>7. ASSUME NEW r \in Rooms, NEW n \in Rooms, RenamesRoom(r, n)
      PROVE  RoomPending'
  <2> DEFINE p == read(Index(<<r>>))
             d == renameDir(<<r>>, <<n>>)
             x == writeTo(Index(<<n>>), Index(<<r>>), Titled(n))
             q == read(Config)
             w == write(Config, [room |-> n])
  <2>1. \/ todo = <<p, d, x, q, w>>
        \/ todo = <<d, x, q, w>>
        \/ todo = <<x, q, w>>
        \/ Index(<<n>>) \in DOMAIN want /\ (todo = <<q, w>> \/ todo = <<w>>)
    BY <1>7 DEF RenamesRoom, RenameRoom
  <2>2. /\ todo' = <<d, x, q, w>> => RoomPending'
        /\ todo' = <<x, q, w>> => RoomPending'
        /\ Index(<<n>>) \in DOMAIN want' /\ (todo' = <<q, w>> \/ todo' = <<w>>) => RoomPending'
    BY DEF RenamesRoom, RoomPending
  <2>3. /\ x.op = "write" /\ x.file = Index(<<n>>)
        /\ q.op = "read" /\ w.op = "write" /\ WritesConfig(w)
    BY DEF read, write, writeTo, WritesConfig
  <2> HIDE DEF p, d, x, q
  <2>4. CASE todo = <<x, q, w>>
    <3>1. c = x /\ t = <<q, w>>
      BY <2>4, Tails
    <3>2. want' = Apply(want, x, seen).tree /\ Apply(want, x, seen).ok
      BY <2>3, <3>1, PlainStep
    <3>3. Index(<<n>>) # Config /\ Config \in DOMAIN want
      BY <1>3, ConfigApart DEF ConfigOK
    <3>4. Index(<<n>>) \in DOMAIN want'
      BY <2>3, <3>2, <3>3, FileMade
    <3>5. todo' = <<q, w>>
      BY <1>1, <3>1
    <3> HIDE DEF w, t
    <3> QED BY <2>2, <3>4, <3>5
  <2>5. CASE Index(<<n>>) \in DOMAIN want /\ todo = <<q, w>>
    <3>1. c = q /\ t = <<w>>
      BY <2>5, Tails
    <3>2. want' = Apply(want, q, seen).tree
      BY <2>3, <3>1, PlainStep
    <3>3. want' = want
      BY <2>3, <3>2 DEF Apply, Unless, Refused, Done
    <3> QED BY <1>1, <2>2, <2>5, <3>1, <3>3
  <2>6. CASE Index(<<n>>) \in DOMAIN want /\ todo = <<w>>
    <3>1. c = w /\ t = <<>>
      BY <2>6, Tails
    <3>2. want' = Apply(want, w, seen).tree /\ Apply(want, w, seen).ok /\ NamesRoom(seen[Config])
      BY <2>3, <3>1, PlainStep
    <3>3. want'[Config].room = n /\ DOMAIN want' = DOMAIN want
      BY <3>2, RoomWritten
    <3>4. RoomThere(want')
      BY <2>6, <3>3 DEF RoomThere
    <3> QED BY <1>1, <3>1, <3>4, NothingToDo DEF RoomPending
  <2> HIDE DEF w
  <2>7. CASE todo = <<p, d, x, q, w>>
    <3>1. todo' = <<d, x, q, w>>
      BY <1>1, <2>7, Tails
    <3> QED BY <2>2, <3>1
  <2>8. CASE todo = <<d, x, q, w>>
    <3>1. todo' = <<x, q, w>>
      BY <1>1, <2>8, Tails
    <3> QED BY <2>2, <3>1
  <2> QED BY <2>1, <2>4, <2>5, <2>6, <2>7, <2>8
<1> QED BY <1>3, <1>4, <1>5, <1>6, <1>7 DEF RoomPending

LEMMA StepKeeps ==
  ASSUME ContentInv, Step
  PROVE  ContentInv'
<1>1. /\ phase = "work" /\ phase' \in {"work", "revert"} /\ late \subseteq late'
      /\ UNCHANGED <<snap, swept, unreverted, requests>>
  BY StepIs
<1>2. RoomInv'
  <2> SUFFICES ASSUME Calm', ~unreverted'
               PROVE  RoomThere(snap') /\ (phase' = "work" => RoomPending')
    <3>1. phase' # "idle" /\ phase' # "ok"
      BY <1>1
    <3> QED BY <3>1 DEF RoomInv
  <2>1. Calm /\ ~unreverted
    BY <1>1 DEF Calm
  <2>2. RoomThere(snap')
    BY <1>1, <2>1 DEF ContentInv, RoomInv
  <2> QED BY <2>2, RoomStep
<1> QED BY <1>2, StepKeepsConfig, StepKeepsTodo, StepKeepsSync DEF ContentInv

\* Nothing is pending, so nothing that a request finds is still to change.
LEMMA BeginKeeps ==
  ASSUME ContentInv, NEW calls \in Requests, Begin(calls)
  PROVE  ContentInv'
<1> USE DEF Begin
<1>1. Begun(calls)
  BY RequestsBegun
<1>2. phase \in {"idle", "ok", "failed"} /\ requests \in Nat /\ requests < MaxRequests
  BY SiteContentAssumption DEF ContentInv, ContentTypeOK, AtWork
<1>3. ContentTypeOK'
  <2>1. requests + 1 \in 0..MaxRequests
    BY <1>2, SiteContentAssumption
  <2>2. Len(calls) <= 8
    BY <1>1 DEF Begun
  <2> QED BY <2>1, <2>2 DEF ContentInv, ContentTypeOK
<1>4. ConfigInv'
  <2>1. \A d \in late : d.of \in 1..(requests + 1)
    BY <1>2 DEF ContentInv, ConfigInv
  <2> QED BY <2>1 DEF ContentInv, ConfigInv
<1>5. TodoInv'
  <2>1. ReadFirst(todo)'
    BY <1>1 DEF Begun, ReadFirst
  <2>2. Items(todo)' = Items(calls)
    BY DEF Items
  <2>3. requests + 1 # 0
    BY <1>2
  <2> QED BY <1>1, <2>1, <2>2, <2>3 DEF TodoInv, Begun
<1>6. Calm' => Calm /\ late = {}
  <2>1. \A d \in late : d.of # requests + 1
    BY <1>2 DEF ContentInv, ConfigInv
  <2> QED BY <2>1 DEF Calm
<1>7. SyncInv'
  BY <1>6 DEF SyncInv, InStep
<1>8. RoomInv'
  <2> SUFFICES ASSUME Calm', ~unreverted' PROVE RoomThere(snap') /\ RoomPending'
    BY DEF RoomInv
  <2>1. Calm /\ ~unreverted /\ late = {} /\ ~swept
    BY <1>6 DEF Calm
  <2>2. RoomThere(head)
    <3>1. CASE phase = "idle"
      BY <2>1, <3>1 DEF ContentInv, RoomInv
    <3>2. CASE phase = "ok"
      BY <2>1, <3>2 DEF ContentInv, RoomInv, SyncInv, InStep
    <3>3. CASE phase = "failed"
      BY <2>1, <3>3 DEF ContentInv, RoomInv, SyncInv
    <3> QED BY <1>2, <3>1, <3>2, <3>3
  <2>3. RoomThere(want') /\ RoomThere(snap')
    BY <2>2
  <2>4. RoomPending'
    <3>1. CASE \A i \in DOMAIN calls : Harmless(calls[i])
      BY <2>3, <3>1 DEF RoomPending
    <3>2. CASE \E r \in Rooms : calls = CreateRoom(r) \/ calls = DeleteRoom(r)
      BY <3>2 DEF RoomPending, MakesRoom, DeletesRoom
    <3>3. CASE \E r, n \in Rooms : calls = RenameRoom(r, n)
      BY <3>3 DEF RoomPending, RenamesRoom
    <3> QED BY <1>1, <3>1, <3>2, <3>3 DEF Begun
  <2> QED BY <2>3, <2>4
<1> QED BY <1>3, <1>4, <1>5, <1>7, <1>8 DEF ContentInv

LEMMA FinishKeeps ==
  ASSUME ContentInv, Finish
  PROVE  ContentInv'
<1> USE DEF Finish
<1>1. ContentTypeOK' /\ ConfigInv'
  BY DEF ContentInv, ContentTypeOK, ConfigInv
<1>2. TodoInv'
  BY DEF ContentInv, TodoInv, Items
<1>3. Calm' <=> Calm
  BY DEF Calm
<1>4. SyncInv'
  BY <1>3 DEF ContentInv, SyncInv, InStep
<1>5. RoomInv'
  <2>1. RoomPending => RoomThere(want)
    BY Tails DEF RoomPending, MakesRoom, DeletesRoom, RenamesRoom, CreateRoom, DeleteRoom, RenameRoom
  <2> QED BY <1>3, <2>1 DEF ContentInv, RoomInv
<1> QED BY <1>1, <1>2, <1>4, <1>5 DEF ContentInv

LEMMA RevertKeeps ==
  ASSUME ContentInv, Revert
  PROVE  ContentInv'
<1> USE DEF Revert
<1>1. /\ phase = "revert" /\ phase' = "failed" /\ todo' = <<>>
      /\ UNCHANGED <<snap, seen, late, want, swept, requests>>
      /\ \/ head' = snap /\ UNCHANGED <<unreverted, faults>>
         \/ unreverted' = TRUE /\ UNCHANGED head /\ faults' \in 0..MaxFaults
  BY SiteContentAssumption DEF Fault, ContentInv, ContentTypeOK
<1>2. ConfigOK(head')
  BY <1>1 DEF ContentInv, ConfigInv
<1>3. ContentTypeOK'
  <2>1. Len(todo') <= 8
    BY <1>1, NothingToDo
  <2>2. faults' \in 0..MaxFaults /\ unreverted' \in BOOLEAN
    BY <1>1 DEF ContentInv, ContentTypeOK
  <2> QED BY <1>1, <1>2, <2>1, <2>2 DEF ContentInv, ContentTypeOK, ConfigOK, NamesRoom
<1>4. ConfigInv'
  BY <1>1, <1>2 DEF ContentInv, ConfigInv
<1>5. TodoInv'
  BY <1>1, NothingToDo DEF ContentInv, TodoInv, Items
<1>6. SyncInv'
  BY <1>1 DEF SyncInv
<1>7. RoomInv'
  BY <1>1 DEF ContentInv, RoomInv, Calm
<1> QED BY <1>3, <1>4, <1>5, <1>6, <1>7 DEF ContentInv

\* A deletion that is in time is the one that the request is waiting to see.
LEMMA DeletionLandsKeeps ==
  ASSUME ContentInv, NEW d \in late, DeletionLands(d)
  PROVE  ContentInv'
<1> USE DEF DeletionLands
<1>1. ConfigOK(d.base) /\ Len(d.dir) \in 1..2 /\ d.of \in 1..requests
  BY DEF ContentInv, ConfigInv
<1>2. Len(d.dir) \in 1..3
  <2>1. \A i \in 1..2 : i \in 1..3
    OBVIOUS
  <2> QED BY <1>1, <2>1
<1>3. ConfigOK(head')
  <2>1. Config \notin FilesUnder(d.base, d.dir)
    BY <1>2, NotUnder
  <2> QED BY <1>1, <2>1 DEF DeleteDirectory, Done, Without, ConfigOK
<1>4. ContentTypeOK'
  <2>1. swept' \in BOOLEAN
    BY DEF ContentInv, ContentTypeOK, InTime
  <2> QED BY <1>3, <2>1 DEF ContentInv, ContentTypeOK, ConfigOK, NamesRoom
<1>5. ConfigInv'
  BY <1>3 DEF ContentInv, ConfigInv
<1>6. TodoInv'
  BY DEF ContentInv, TodoInv, Items, ReadFirst
<1>7. ~swept' => ~swept /\ d.base = head /\ d.of = requests /\ phase # "failed"
  BY DEF InTime
<1>8. Calm' => Calm
  BY <1>7 DEF Calm
<1>9. SyncInv'
  <2>1. ASSUME Calm', phase \in {"work", "ok"}
        PROVE  InStep'
    <3>1. InStep /\ d.base = head
      BY <1>7, <1>8, <2>1 DEF ContentInv, SyncInv, Calm
    <3>2. late = {d} /\ want = DeleteDirectory(head, d.dir).tree
      BY <3>1 DEF InStep
    <3>3. late' = {} /\ head' = want'
      BY <3>1, <3>2
    <3> QED BY <3>3 DEF InStep
  <2>2. ASSUME phase = "work", Calm', \E i \in DOMAIN todo : IsTreeCall(todo[i])
        PROVE  FALSE
    BY <1>8, <2>2 DEF ContentInv, SyncInv
  <2> QED BY <1>7, <2>1, <2>2 DEF SyncInv
<1>10. RoomInv'
  <2>1. phase # "idle"
    <3>1. requests # 0
      BY <1>1, SiteContentAssumption DEF ContentInv, ContentTypeOK
    <3> QED BY <3>1 DEF ContentInv, TodoInv
  <2>2. RoomPending => RoomPending'
    BY DEF RoomPending, MakesRoom, DeletesRoom, RenamesRoom
  <2> QED BY <1>8, <2>1, <2>2 DEF ContentInv, RoomInv
<1> QED BY <1>4, <1>5, <1>6, <1>9, <1>10 DEF ContentInv

LEMMA DeletionFailsKeeps ==
  ASSUME ContentInv, NEW d \in late, DeletionFails(d)
  PROVE  ContentInv'
<1>1. /\ UNCHANGED <<head, snap, todo, seen, want, unreverted, requests>>
      /\ late' \subseteq late /\ swept' = TRUE /\ faults' \in 0..MaxFaults
      /\ phase' = phase \/ (phase \in {"work", "revert"} /\ phase' = "dead")
  BY SiteContentAssumption DEF DeletionFails, Fault, AtWork, ContentInv, ContentTypeOK
<1>2. ContentTypeOK' /\ ConfigInv'
  BY <1>1 DEF ContentInv, ContentTypeOK, ConfigInv
<1>3. TodoInv'
  BY <1>1 DEF ContentInv, TodoInv, Items, ReadFirst
<1>4. SyncInv' /\ RoomInv'
  BY <1>1 DEF SyncInv, RoomInv, Calm
<1> QED BY <1>2, <1>3, <1>4 DEF ContentInv

(* The requests on the content of a site keep the invariant whatever the rooms, categories, *)
(* posts, albums, pictures and texts, and however many requests and faults there are.       *)
THEOREM ContentInvariance == ContentSpec => []ContentInv
<1>1. ContentInv /\ [ContentNext]_contentVars => ContentInv'
  <2> SUFFICES ASSUME ContentInv, [ContentNext]_contentVars PROVE ContentInv'
    OBVIOUS
  <2>1. CASE UNCHANGED contentVars
    BY <2>1 DEF contentVars, ContentInv, ContentTypeOK, ConfigInv, TodoInv, SyncInv, RoomInv,
       Items, ReadFirst, InStep, Calm, RoomPending, MakesRoom, RenamesRoom, DeletesRoom
  <2> QED BY <2>1, BeginKeeps, StepKeeps, FinishKeeps, RevertKeeps, DeletionLandsKeeps,
             DeletionFailsKeeps DEF ContentNext
<1> QED BY <1>1, ContentBegins, PTL DEF ContentSpec

\* The variables keep their types.
THEOREM ContentTypes == ContentSpec => []ContentTypeOK
<1>1. ContentInv => ContentTypeOK
  BY DEF ContentInv
<1> QED BY <1>1, ContentInvariance, PTL

(* A request that is answered with success has done all that its calls do one after the     *)
(* other (GitHubService and RepoService build tree calls on the head as it was at the lock).*)
THEOREM SuccessIsWhole == ContentSpec => []OkDidAll
<1>1. ContentInv => OkDidAll
  BY DEF ContentInv, SyncInv, InStep, Calm, Undisturbed, OkDidAll
<1> QED BY <1>1, ContentInvariance, PTL

(* A request that is answered with an error leaves staging as it found it: the rollback of  *)
(* attachRollbackRouteHandlerWrapper puts it back to the commit it had at the lock.         *)
THEOREM FailureIsUndone == ContentSpec => []FailedLeavesNothing
<1>1. ContentInv => FailedLeavesNothing
  BY DEF ContentInv, SyncInv, Undisturbed, FailedLeavesNothing
<1> QED BY <1>1, ContentInvariance, PTL

(* Between requests, the room that _config.yml names has its index file                     *)
(* (ResourceRoomDirectoryService).                                                          *)
THEOREM NamedRoomIsThere == ContentSpec => []RoomIsThere
<1>1. ContentInv => RoomIsThere
  <2> SUFFICES ASSUME ContentInv, ~AtWork, phase # "dead", Undisturbed, ~unreverted
               PROVE  RoomThere(head)
    BY DEF RoomIsThere, RoomThere
  <2>1. phase \in {"idle", "ok", "failed"} /\ Calm /\ ~swept /\ late = {}
    BY DEF ContentInv, ContentTypeOK, AtWork, Undisturbed, Calm
  <2>2. phase \in {"ok"} => head = want
    BY <2>1 DEF ContentInv, SyncInv, InStep
  <2>3. phase = "failed" => head = snap
    BY <2>1 DEF ContentInv, SyncInv
  <2> QED BY <2>1, <2>2, <2>3 DEF ContentInv, RoomInv
<1> QED BY <1>1, ContentInvariance, PTL
=============================================================================
