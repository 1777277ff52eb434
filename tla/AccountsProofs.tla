--------------------------- MODULE AccountsProofs ---------------------------
(***************************************************************************)
(* Proofs about the services of the accounts: the lock and the password,   *)
(* registration, two-factor and API keys, for any number of users,         *)
(* requests, keys and forms.                                               *)
(***************************************************************************)
EXTENDS UserLogin, Registration, TwoFactor, ApiKeys, TLAPS

-----------------------------------------------------------------------------
(* The lock and the password                                               *)

\* A user whose lock is in step, with no more failures than there were.
GoodUser(u, n, last) ==
  /\ u \in [attempts : Nat, locked : BOOLEAN, until : Nat, pass : Nat]
  /\ u.attempts <= n
  /\ u.until <= MaxNow + 4
  /\ u.pass <= last
  /\ u.locked <=> u.attempts >= LockAt
  /\ u.until # 0 <=> u.locked

LoginPcs == {"idle", "lock", "profile", "change", "confirm"}

\* What a call has loaded, and whether it is out of date.
GoodCall(c, u, n, last) ==
  /\ c = [pc |-> c.pc, u |-> c.u, stale |-> c.stale]
  /\ c.pc \in LoginPcs
  /\ c.stale \in BOOLEAN
  /\ GoodUser(c.u, n, last)
  /\ c.pc \in {"profile", "change", "confirm"} /\ ~c.stale => c.u = u

LoginSimple ==
  /\ now \in 0..MaxNow
  /\ fails \in 0..MaxFails
  /\ lastPass \in 0..MaxPass
  /\ used \subseteq 0..lastPass
  /\ again \subseteq 0..lastPass
  /\ back \subseteq 0..lastPass
  /\ user.pass \in used => user.pass \in back
  /\ again \subseteq back

LoginInv ==
  /\ LoginSimple
  /\ GoodUser(user, fails, lastPass)
  /\ DOMAIN call = Requests
  /\ call = [r \in Requests |-> call[r]]
  /\ \A r \in Requests : GoodCall(call[r], user, fails, lastPass)

\* More failures and later passwords keep a user good.
LEMMA GoodGrows ==
  ASSUME NEW u, NEW n \in Nat, NEW m \in Nat, NEW p \in Nat, NEW q \in Nat,
         n <= m, p <= q, GoodUser(u, n, p)
  PROVE  GoodUser(u, m, q)
BY BoundsAssumption DEF GoodUser

\* A new call is good if what it has loaded is.
LEMMA RecordIsGood ==
  ASSUME NEW pc \in LoginPcs, NEW u, NEW st \in BOOLEAN, NEW v, NEW n, NEW last,
         GoodUser(u, n, last),
         pc \in {"profile", "change", "confirm"} /\ ~st => u = v
  PROVE  GoodCall([pc |-> pc, u |-> u, stale |-> st], v, n, last)
<1> DEFINE c == [pc |-> pc, u |-> u, stale |-> st]
<1>1. c.pc = pc /\ c.u = u /\ c.stale = st
  OBVIOUS
<1> HIDE DEF c
<1>2. c = [pc |-> c.pc, u |-> c.u, stale |-> c.stale]
  BY <1>1 DEF c
<1>3. GoodCall(c, v, n, last)
  BY <1>1, <1>2 DEF GoodCall
<1> QED BY <1>3 DEF c

LEMMA CallIsGood ==
  ASSUME NEW pc \in LoginPcs, NEW u, NEW v, NEW n, NEW last, GoodUser(u, n, last),
         pc \in {"profile", "change", "confirm"} => u = v
  PROVE  GoodCall(Call(pc, u), v, n, last)
BY RecordIsGood DEF Call

LEMMA IdleIsGood ==
  ASSUME NEW v, NEW n, NEW last, GoodUser(NewUser, n, last)
  PROVE  GoodCall(Idle, v, n, last)
<1>1. "idle" \in LoginPcs /\ "idle" \notin {"profile", "change", "confirm"}
  BY DEF LoginPcs
<1>2. GoodCall(Call("idle", NewUser), v, n, last)
  BY <1>1, CallIsGood
<1> QED BY <1>2 DEF Idle

\* A user with no failures and no lock is good.
LEMMA CleanIsGood ==
  ASSUME NEW n \in Nat, NEW last \in Nat, NEW p \in Nat, p <= last
  PROVE  GoodUser(User(0, FALSE, 0, p), n, last)
BY BoundsAssumption DEF GoodUser, User

\* Counting one more failure gives a good user.
LEMMA FailedIsGood ==
  ASSUME NEW u, NEW n \in Nat, NEW last \in Nat, GoodUser(u, n, last), now \in 0..MaxNow
  PROVE  GoodUser(Failed(u), n + 1, last) /\ Failed(u).pass = u.pass
<1>1. CASE u.attempts + 1 < LockAt
  <2>1. Failed(u) = [u EXCEPT !.attempts = @ + 1]
    BY <1>1 DEF Failed
  <2>2. u \in [attempts : Nat, locked : BOOLEAN, until : Nat, pass : Nat]
    BY DEF GoodUser
  <2> QED BY <1>1, <2>1, <2>2, BoundsAssumption DEF GoodUser
<1>2. CASE ~(u.attempts + 1 < LockAt)
  <2> DEFINE k == LockUnits(u.attempts + 1)
  <2>1. k \in 1..4
    BY DEF LockUnits
  <2>2. Failed(u) = [attempts |-> u.attempts + 1, locked |-> TRUE, until |-> now + k, pass |-> u.pass]
    BY <1>2 DEF Failed, User
  <2>3. u.attempts \in Nat /\ u.pass \in Nat /\ u.attempts <= n /\ u.pass <= last
    BY DEF GoodUser
  <2> HIDE DEF k
  <2>4. now + k \in Nat /\ now + k <= MaxNow + 4 /\ now + k # 0
    BY <2>1, BoundsAssumption
  <2> QED BY <1>2, <2>2, <2>3, <2>4, BoundsAssumption DEF GoodUser
<1> QED BY <1>1, <1>2

\* The lock of one user with the password of another.
LEMMA MixedIsGood ==
  ASSUME NEW u, NEW v, NEW n \in Nat, NEW last \in Nat,
         GoodUser(u, n, last), v \in Nat, v <= last
  PROVE  /\ GoodUser([u EXCEPT !.pass = v], n, last)
         /\ [u EXCEPT !.pass = v].pass = v
         /\ [u EXCEPT !.pass = v].locked = u.locked
BY DEF GoodUser

LEMMA LoginInitEstablishes == LoginInit => LoginInv
<1> SUFFICES ASSUME LoginInit PROVE LoginInv
  OBVIOUS
<1>1. LoginSimple
  BY BoundsAssumption DEF LoginInit, LoginSimple
<1>2. GoodUser(NewUser, 0, 0)
  BY CleanIsGood DEF NewUser, User
<1>3. GoodCall(Idle, NewUser, 0, 0)
  BY <1>2, IdleIsGood
<1> QED BY <1>1, <1>2, <1>3 DEF LoginInit, LoginInv

\* A call begins.
LEMMA BeginKeeps ==
  ASSUME LoginInv, NEW r \in Requests, NEW pc \in LoginPcs, NEW u,
         Begin(r, pc, u), UNCHANGED <<user, lastPass>>, fails' \in Nat, fails <= fails',
         GoodUser(u, fails', lastPass),
         pc \in {"profile", "change", "confirm"} => u = user
  PROVE  /\ GoodUser(user', fails', lastPass')
         /\ DOMAIN call' = Requests
         /\ call' = [s \in Requests |-> call'[s]]
         /\ \A s \in Requests : GoodCall(call'[s], user', fails', lastPass')
<1>1. fails \in Nat /\ lastPass \in Nat
  BY BoundsAssumption DEF LoginInv, LoginSimple
<1>2. call' = [s \in Requests |-> IF s = r THEN Call(pc, u) ELSE call[s]]
  BY DEF Begin, LoginInv
<1>3. GoodCall(Call(pc, u), user, fails', lastPass)
  BY CallIsGood
<1>4. ASSUME NEW s \in Requests PROVE GoodCall(call[s], user, fails', lastPass)
  BY <1>1, GoodGrows DEF LoginInv, GoodCall
<1>5. GoodUser(user, fails', lastPass)
  BY <1>1, GoodGrows DEF LoginInv
<1> QED BY <1>2, <1>3, <1>4, <1>5

\* A call saves a good user.
LEMMA SavesKeep ==
  ASSUME LoginInv, NEW r \in Requests, NEW u, Saves(r, u), fails' = fails,
         lastPass' \in Nat, lastPass <= lastPass', GoodUser(u, fails, lastPass')
  PROVE  /\ GoodUser(user', fails', lastPass')
         /\ DOMAIN call' = Requests
         /\ call' = [s \in Requests |-> call'[s]]
         /\ \A s \in Requests : GoodCall(call'[s], user', fails', lastPass')
<1>1. fails \in Nat /\ lastPass \in Nat
  BY BoundsAssumption DEF LoginInv, LoginSimple
<1>2. call' = [s \in Requests |-> IF s = r THEN Idle ELSE OutOfDate(call[s])]
  BY DEF Saves
<1>3. user' = u
  BY DEF Saves
<1>4. GoodUser(NewUser, fails, lastPass')
  BY <1>1, CleanIsGood DEF NewUser, User
<1>5. GoodCall(Idle, u, fails, lastPass')
  BY <1>4, IdleIsGood
<1>6. ASSUME NEW s \in Requests
      PROVE  GoodCall(OutOfDate(call[s]), u, fails, lastPass')
  <2>1. GoodCall(call[s], user, fails, lastPass)
    BY DEF LoginInv
  <2>3. GoodUser(call[s].u, fails, lastPass')
    BY <1>1, <2>1, GoodGrows DEF GoodCall
  <2>4. call[s].pc \in LoginPcs
    BY <2>1 DEF GoodCall
  <2>5. TRUE \in BOOLEAN
    OBVIOUS
  <2>6. GoodCall([pc |-> call[s].pc, u |-> call[s].u, stale |-> TRUE], u, fails, lastPass')
    BY <2>3, <2>4, <2>5, RecordIsGood
  <2> QED BY <2>6 DEF OutOfDate
<1> QED BY <1>2, <1>3, <1>5, <1>6

\* Every step keeps the invariant: the clock, a call that begins, one that
\* saves, one that fails.
LEMMA LoginStepKeeps == LoginInv /\ [LoginNext]_loginVars => LoginInv'
<1> SUFFICES ASSUME LoginInv, [LoginNext]_loginVars PROVE LoginInv'
  OBVIOUS
<1> USE BoundsAssumption
<1>0. /\ now \in 0..MaxNow /\ fails \in 0..MaxFails /\ lastPass \in 0..MaxPass
      /\ fails \in Nat /\ lastPass \in Nat
  BY DEF LoginInv, LoginSimple
<1>1. CASE UNCHANGED loginVars
  BY <1>1 DEF loginVars, LoginInv, LoginSimple, GoodUser, GoodCall
<1>2. CASE Tick
  BY <1>2 DEF Tick, LoginInv, LoginSimple, GoodUser, GoodCall
<1>3. ASSUME NEW r \in Requests, Fail(r) PROVE LoginInv'
  <2>1. LoginSimple'
    BY <1>3 DEF Fail, LoginInv, LoginSimple
  <2>2. GoodUser(Failed(user), fails + 1, lastPass)
    BY <1>0, FailedIsGood DEF LoginInv
  <2>3. Begin(r, "lock", Failed(user)) /\ UNCHANGED <<user, lastPass>> /\ fails' = fails + 1
    BY <1>3 DEF Fail
  <2>4. fails' \in Nat /\ fails <= fails'
    BY <1>0, <2>3
  <2>5. "lock" \in LoginPcs /\ "lock" \notin {"profile", "change", "confirm"}
    BY DEF LoginPcs
  <2> QED BY <2>1, <2>2, <2>3, <2>4, <2>5, BeginKeeps DEF LoginInv
<1>4. ASSUME NEW r \in Requests, Reset(r) PROVE LoginInv'
  <2> DEFINE u == User(0, FALSE, 0, user.pass)
  <2>1. LoginSimple'
    BY <1>4 DEF Reset, LoginInv, LoginSimple
  <2>2. GoodUser(u, fails, lastPass)
    <3>1. /\ user \in [attempts : Nat, locked : BOOLEAN, until : Nat, pass : Nat]
          /\ user.pass \in Nat /\ user.pass <= lastPass
      BY DEF LoginInv, GoodUser
    <3> QED BY <1>0, <3>1, CleanIsGood DEF User
  <2>3. Begin(r, "lock", u) /\ UNCHANGED <<user, lastPass, fails>>
    BY <1>4 DEF Reset
  <2> HIDE DEF u
  <2>4. fails' \in Nat /\ fails <= fails'
    BY <1>0, <2>3
  <2>5. "lock" \in LoginPcs /\ "lock" \notin {"profile", "change", "confirm"}
    BY DEF LoginPcs
  <2> QED BY <2>1, <2>2, <2>3, <2>4, <2>5, BeginKeeps DEF LoginInv
<1>5. ASSUME NEW r \in Requests, EditProfile(r) \/ Change(r) \/ Confirm(r) PROVE LoginInv'
  <2>1. LoginSimple'
    BY <1>5 DEF EditProfile, Change, Confirm, LoginInv, LoginSimple
  <2>2. PICK pc \in LoginPcs : Begin(r, pc, user)
    BY <1>5 DEF EditProfile, Change, Confirm, LoginPcs
  <2>3. UNCHANGED <<user, lastPass, fails>>
    BY <1>5 DEF EditProfile, Change, Confirm
  <2>4. fails' \in Nat /\ fails <= fails' /\ GoodUser(user, fails', lastPass)
    BY <1>0, <2>3 DEF LoginInv
  <2> QED BY <2>1, <2>2, <2>3, <2>4, BeginKeeps DEF LoginInv
<1>6. ASSUME NEW r \in Requests, SaveUser(r) PROVE LoginInv'
  <2>0. GoodCall(call[r], user, fails, lastPass) /\ GoodUser(call[r].u, fails, lastPass)
    BY DEF LoginInv, GoodCall
  <2>1. CASE SaveLock(r)
    <3> DEFINE u == [call[r].u EXCEPT !.pass = user.pass]
    <3>1. Saves(r, u) /\ UNCHANGED <<now, fails, lastPass, used, again>>
      BY <2>1 DEF SaveLock
    <3>2. user.pass \in Nat /\ user.pass <= lastPass
      BY DEF LoginInv, GoodUser
    <3>3. GoodUser(u, fails, lastPass) /\ u.pass = user.pass
      BY <1>0, <2>0, <3>2, MixedIsGood
    <3> HIDE DEF u
    <3>4. LoginSimple'
      BY <1>0, <3>1, <3>3 DEF Saves, LoginInv, LoginSimple
    <3>5. lastPass' \in Nat /\ lastPass <= lastPass' /\ GoodUser(u, fails, lastPass') /\ fails' = fails
      BY <1>0, <3>1, <3>3
    <3> QED BY <3>1, <3>4, <3>5, SavesKeep DEF LoginInv
  <2>2. CASE SaveProfile(r)
    <3> DEFINE u == call[r].u
    <3>1. Saves(r, u) /\ UNCHANGED <<now, fails, lastPass, used, again>>
      BY <2>2 DEF SaveProfile
    <3>2. u.pass \in 0..lastPass
      BY <1>0, <2>0 DEF GoodUser
    <3>3. user' = u
      BY <3>1 DEF Saves
    <3> HIDE DEF u
    <3>4. LoginSimple'
      BY <1>0, <3>1, <3>2, <3>3 DEF Saves, LoginInv, LoginSimple
    <3>5. lastPass' \in Nat /\ lastPass <= lastPass' /\ GoodUser(u, fails, lastPass') /\ fails' = fails
      BY <1>0, <2>0, <3>1 DEF u
    <3> QED BY <3>1, <3>4, <3>5, SavesKeep DEF LoginInv
  <2>3. CASE SavePassword(r)
    <3> DEFINE u == [call[r].u EXCEPT !.pass = lastPass + 1]
    <3>1. Saves(r, u) /\ UNCHANGED <<now, fails>> /\ lastPass' = lastPass + 1 /\ lastPass < MaxPass
      BY <2>3 DEF SavePassword
    <3>2. lastPass' \in Nat /\ lastPass <= lastPass' /\ fails' = fails /\ lastPass' \in 0..MaxPass
      BY <1>0, <3>1
    <3>3. GoodUser(call[r].u, fails, lastPass')
      BY <1>0, <2>0, <3>2, GoodGrows
    <3>4. GoodUser(u, fails, lastPass') /\ u.pass = lastPass + 1
      BY <1>0, <3>1, <3>2, <3>3, MixedIsGood
    <3>5. call[r].u.pass \in 0..lastPass
      BY <1>0, <2>0 DEF GoodUser
    <3>6. call[r].pc = "confirm" /\ ~call[r].stale => call[r].u = user
      BY <2>0 DEF GoodCall
    <3>7. user' = u /\ back' = back
      BY <1>0, <3>1, <3>4 DEF Saves
    <3> HIDE DEF u
    <3>8. used' \subseteq 0..lastPass
      BY <2>3, <3>5 DEF SavePassword, LoginInv, LoginSimple
    <3>9. again' \subseteq back /\ back \subseteq 0..lastPass
      BY <2>3, <3>6 DEF SavePassword, LoginInv, LoginSimple
    <3>10. LoginSimple'
      BY <1>0, <3>1, <3>2, <3>4, <3>7, <3>8, <3>9 DEF LoginInv, LoginSimple
    <3> QED BY <3>1, <3>2, <3>4, <3>10, SavesKeep DEF LoginInv
  <2>4. CASE SaveUserFails(r)
    <3>1. UNCHANGED <<now, user, fails, lastPass, used, again, back>>
      BY <2>4 DEF SaveUserFails
    <3>2. call' = [s \in Requests |-> IF s = r THEN Idle ELSE call[s]]
      BY <2>4 DEF SaveUserFails, LoginInv
    <3>3. GoodUser(NewUser, fails, lastPass)
      BY <1>0, CleanIsGood DEF NewUser, User
    <3>4. GoodCall(Idle, user, fails, lastPass)
      BY <3>3, IdleIsGood
    <3>5. LoginSimple'
      BY <3>1 DEF LoginInv, LoginSimple
    <3> QED BY <3>1, <3>2, <3>4, <3>5 DEF LoginInv
  <2> QED BY <1>6, <2>1, <2>2, <2>3, <2>4 DEF SaveUser
<1> QED BY <1>1, <1>2, <1>3, <1>4, <1>5, <1>6 DEF LoginNext

LEMMA LoginInvariant == LoginSpec => []LoginInv
BY LoginInitEstablishes, LoginStepKeeps, PTL DEF LoginSpec

\* Every variable keeps its type, whatever requests overlap.
THEOREM LoginTypeCorrect == LoginSpec => []LoginTypeOK
<1>1. LoginInv => LoginTypeOK
  <2> SUFFICES ASSUME LoginInv PROVE LoginTypeOK
    OBVIOUS
  <2>1. ASSUME NEW u, GoodUser(u, fails, lastPass) PROVE u \in UserRows
    BY <2>1, BoundsAssumption DEF LoginInv, LoginSimple, GoodUser, UserRows
  <2>2. ASSUME NEW r \in Requests PROVE call[r] \in CallStates
    <3>1. /\ call[r] = [pc |-> call[r].pc, u |-> call[r].u, stale |-> call[r].stale]
          /\ call[r].pc \in LoginPcs /\ call[r].stale \in BOOLEAN
          /\ GoodUser(call[r].u, fails, lastPass)
      BY DEF LoginInv, GoodCall
    <3>2. call[r].u \in UserRows
      BY <2>1, <3>1
    <3> QED BY <3>1, <3>2 DEF CallStates, LoginPcs
  <2> QED BY <2>1, <2>2, BoundsAssumption DEF LoginInv, LoginSimple, LoginTypeOK
<1> QED BY <1>1, LoginInvariant, PTL

\* Whatever requests overlap, a user's lock is in step with the count of
\* failures, which is never more than there were (models.py:126-148).
THEOREM LocksAreEarned == LoginSpec => []LockIsEarned
<1>1. LoginInv => LockIsEarned
  BY DEF LoginInv, GoodUser, LockIsEarned
<1> QED BY <1>1, LoginInvariant, PTL

\* Whatever requests overlap, a reset token is used twice by stale calls only,
\* or once a stale save has brought its password back (views.py:349-353).
THEOREM TokensAreUsedOnce == LoginSpec => []TokenIsUsedOnce
<1>1. LoginInv => TokenIsUsedOnce
  BY DEF LoginInv, LoginSimple, TokenIsUsedOnce
<1> QED BY <1>1, LoginInvariant, PTL

\* Whatever requests overlap, a lock is lifted by a reset or a stale save of
\* the whole user, and an older password put back by such a save only
\* (models.py:126-148, views.py:162, 353, 381).
THEOREM StaleSavesUndo == LoginSpec => UndoneByStaleSave
<1> DEFINE ends(r) == call[r].pc # "idle" /\ call'[r].pc = "idle"
           whole(r) == call[r].pc # "lock" /\ call[r].stale
           A == /\ user.locked /\ ~user'.locked =>
                     \E r \in Requests : ends(r) /\ (call[r].pc = "lock" \/ whole(r))
                /\ user'.pass < user.pass => \E r \in Requests : ends(r) /\ whole(r)
<1>1. LoginInv /\ [LoginNext]_loginVars => [A]_loginVars
  <2> SUFFICES ASSUME LoginInv, LoginNext, user' # user PROVE A
    <3>1. user' = user /\ LoginInv => A
      BY BoundsAssumption DEF LoginInv, GoodUser
    <3> HIDE DEF A
    <3> QED BY <3>1
  <2> USE BoundsAssumption
  <2>0. fails \in Nat /\ lastPass \in Nat /\ user.pass \in Nat /\ user.pass <= lastPass
    BY DEF LoginInv, LoginSimple, GoodUser
  <2>1. PICK r \in Requests : SaveLock(r) \/ SaveProfile(r) \/ SavePassword(r)
    BY DEF LoginNext, Tick, Fail, Reset, EditProfile, Change, Confirm, SaveUser, SaveUserFails
  <2>2. PICK u : Saves(r, u)
    BY <2>1 DEF SaveLock, SaveProfile, SavePassword
  <2>3. ends(r)
    <3>1. call[r].pc # "idle"
      BY <2>1 DEF SaveLock, SaveProfile, SavePassword
    <3>2. call'[r] = Idle
      BY <2>2 DEF Saves
    <3> QED BY <3>1, <3>2 DEF Idle, Call
  <2>4. GoodCall(call[r], user, fails, lastPass)
    BY DEF LoginInv
  <2>5. CASE SaveLock(r)
    <3>1. call[r].pc = "lock" /\ user' = [call[r].u EXCEPT !.pass = user.pass]
      BY <2>5 DEF SaveLock, Saves
    <3>2. GoodUser(call[r].u, fails, lastPass)
      BY <2>4 DEF GoodCall
    <3>3. user'.pass = user.pass
      BY <2>0, <3>1, <3>2, MixedIsGood
    <3>4. ~(user'.pass < user.pass)
      BY <2>0, <3>3
    <3> QED BY <2>3, <3>1, <3>4
  <2>6. CASE SaveProfile(r)
    <3>1. call[r].pc = "profile" /\ user' = call[r].u
      BY <2>6 DEF SaveProfile, Saves
    <3>2. call[r].stale
      BY <2>4, <3>1 DEF GoodCall
    <3> QED BY <2>3, <3>1, <3>2
  <2>7. CASE SavePassword(r)
    <3>1. /\ call[r].pc \in {"change", "confirm"}
          /\ user' = [call[r].u EXCEPT !.pass = lastPass + 1]
      BY <2>7 DEF SavePassword, Saves
    <3>2. GoodUser(call[r].u, fails, lastPass + 1)
      BY <2>0, <2>4, GoodGrows DEF GoodCall
    <3>3. user'.pass = lastPass + 1 /\ user'.locked = call[r].u.locked
      BY <2>0, <3>1, <3>2, MixedIsGood
    <3>4. ~(user'.pass < user.pass)
      BY <2>0, <3>3
    <3>5. user.locked /\ ~user'.locked => call[r].stale
      BY <2>4, <3>1, <3>3 DEF GoodCall
    <3> QED BY <2>3, <3>1, <3>4, <3>5
  <2> QED BY <2>1, <2>5, <2>6, <2>7
<1> QED BY <1>1, LoginInvariant, PTL DEF LoginSpec, UndoneByStaleSave

-----------------------------------------------------------------------------
(* Registration                                                            *)

\* A user is there from its INSERT on; the receiver leaves a profile or its
\* user in bare; a registration that was checked had begun without users.
RegInv ==
  /\ RegistrationTypeOK
  /\ ProfilesAreExplained
  /\ \A r \in Registrations :
       /\ reg[r] \in {"inserted", "received"} => Spelling[r] \in users
       /\ reg[r] = "received" => Spelling[r] \in profiles \cup bare
       /\ reg[r] = "checked" => r \in apart
  /\ \A s \in users : \E r \in apart : Spelling[r] = s

LEMMA RegInitEstablishes == RegistrationInit => RegInv
BY DEF RegistrationInit, RegInv, RegistrationTypeOK, RegStates, ProfilesAreExplained

LEMMA RegStepKeeps == RegInv /\ [RegistrationNext]_registrationVars => RegInv'
<1> SUFFICES ASSUME RegInv, [RegistrationNext]_registrationVars
             PROVE  RegInv'
  OBVIOUS
<1> USE SpellingAssumption DEF RegInv, RegistrationTypeOK, RegStates, ProfilesAreExplained, Proceeds
<1>1. CASE UNCHANGED registrationVars
  BY <1>1 DEF registrationVars
<1>2. ASSUME NEW r \in Registrations, Validate(r) PROVE RegInv'
  BY <1>2 DEF Validate
<1>3. ASSUME NEW r \in Registrations, InsertUser(r) PROVE RegInv'
  BY <1>3 DEF InsertUser
<1>4. ASSUME NEW r \in Registrations, InsertUserFails(r) PROVE RegInv'
  BY <1>4 DEF InsertUserFails
<1>5. ASSUME NEW r \in Registrations, Receive(r) PROVE RegInv'
  BY <1>5 DEF Receive
<1>6. ASSUME NEW r \in Registrations, ReceiveFails(r) PROVE RegInv'
  BY <1>6 DEF ReceiveFails
<1>7. ASSUME NEW r \in Registrations, MakeProfile(r) PROVE RegInv'
  BY <1>7 DEF MakeProfile
<1>8. ASSUME NEW r \in Registrations, MakeProfileFails(r) PROVE RegInv'
  BY <1>8 DEF MakeProfileFails
<1>9. ASSUME NEW r \in Registrations, Dies(r) PROVE RegInv'
  BY <1>9 DEF Dies
<1> QED
  BY <1>1, <1>2, <1>3, <1>4, <1>5, <1>6, <1>7, <1>8, <1>9 DEF RegistrationNext

LEMMA RegInvariant == RegistrationSpec => []RegInv
BY RegInitEstablishes, RegStepKeeps, PTL DEF RegistrationSpec

\* However registrations interleave, fail and die, one succeeds only where
\* the receiver has failed, and a user without a profile is one whose
\* receiver failed or has yet to run (signals.py:22-27, serializers.py:138-147).
THEOREM ProfilesExplained == RegistrationSpec => []ProfilesAreExplained
<1>1. RegInv => ProfilesAreExplained
  BY DEF RegInv
<1> QED BY <1>1, RegInvariant, PTL

\* An address has two users only by registrations each of which began when it
\* had none (serializers.py:118).
THEOREM TwinsOverlap == RegistrationSpec => []TwinsOverlapped
<1>1. RegInv => TwinsOverlapped
  BY DEF RegInv, TwinsOverlapped
<1> QED BY <1>1, RegInvariant, PTL

-----------------------------------------------------------------------------
(* Two-factor                                                              *)

\* A profile that is enabled and has codes.
Unspent(p) == p.enabled /\ p.codes # 0

\* A call that would save such a profile says why, or has loaded one.
TwoFactorInv ==
  /\ TwoFactorTypeOK
  /\ CodesAreSpent
  /\ \A r \in Clients :
       held[r].pc # "idle" /\ Unspent(held[r].p) => held[r].sets \/ held[r].stale \/ why # {}

LEMMA HeldIs ==
  ASSUME NEW pc \in {"idle", "whole", "columns"}, NEW p \in Profiles
  PROVE  /\ Held(pc, p) \in Calls /\ Held(pc, p).pc = pc /\ Held(pc, p).p = p
         /\ ~Held(pc, p).stale /\ ~Held(pc, p).sets
BY DEF Held, Calls

LEMMA RowIs ==
  ASSUME NEW codes \in 0..MaxSets
  PROVE  /\ ProfileRow(FALSE, codes) \in Profiles /\ ~ProfileRow(FALSE, codes).enabled
         /\ ProfileRow(TRUE, codes) \in Profiles
         /\ ProfileRow(FALSE, codes).codes = codes /\ ProfileRow(TRUE, codes).codes = codes
BY DEF ProfileRow, Profiles

LEMMA ZeroIs == 0 \in 0..MaxSets
BY SetsAssumption

LEMMA NotCalledIs == NotCalled \in Calls /\ NotCalled.pc = "idle"
<1>1. ProfileRow(FALSE, 0) \in Profiles
  BY RowIs, ZeroIs
<1> QED BY <1>1, HeldIs DEF NotCalled

\* A profile made with no codes, or not enabled, has none to spend.
LEMMA SpentIs ==
  ASSUME NEW codes \in 0..MaxSets
  PROVE  ~Unspent(ProfileRow(FALSE, codes)) /\ ~Unspent(ProfileRow(TRUE, 0))
BY RowIs, ZeroIs DEF Unspent

LEMMA TwoFactorInitEstablishes == TwoFactorInit => TwoFactorInv
<1> SUFFICES ASSUME TwoFactorInit PROVE TwoFactorInv
  OBVIOUS
<1>1. ProfileRow(FALSE, 0) \in Profiles /\ ~Unspent(ProfileRow(FALSE, 0))
  BY RowIs, SpentIs, ZeroIs
<1>2. TwoFactorTypeOK
  BY <1>1, NotCalledIs, ZeroIs DEF TwoFactorInit, TwoFactorTypeOK
<1>3. CodesAreSpent
  BY <1>1 DEF TwoFactorInit, CodesAreSpent, Unspent
<1>4. \A r \in Clients : held[r].pc = "idle"
  BY NotCalledIs DEF TwoFactorInit
<1> QED BY <1>2, <1>3, <1>4 DEF TwoFactorInv

\* A call that starts with a profile it may save.
LEMMA StartKeeps ==
  ASSUME TwoFactorInv, NEW r \in Clients, NEW c \in Calls, Starts(r, c), sets' \in 0..MaxSets,
         Unspent(c.p) => c.sets \/ why # {}
  PROVE  TwoFactorInv'
<1>1. TwoFactorTypeOK'
  BY DEF TwoFactorInv, TwoFactorTypeOK, Starts
<1>2. \A s \in Clients : held'[s] = IF s = r THEN c ELSE held[s]
  BY DEF TwoFactorInv, TwoFactorTypeOK, Starts
<1>3. profile' = profile /\ why' = why
  BY DEF Starts
<1> QED BY <1>1, <1>2, <1>3 DEF TwoFactorInv, CodesAreSpent

LEMMA TwoFactorStepKeeps == TwoFactorInv /\ [TwoFactorNext]_twoFactorVars => TwoFactorInv'
<1> SUFFICES ASSUME TwoFactorInv, [TwoFactorNext]_twoFactorVars
             PROVE  TwoFactorInv'
  OBVIOUS
<1>0. /\ profile \in Profiles /\ sets \in 0..MaxSets /\ profile.codes \in 0..MaxSets
      /\ sets + 1 \in Nat
  BY SetsAssumption DEF TwoFactorInv, TwoFactorTypeOK, Profiles
<1>1. CASE UNCHANGED twoFactorVars
  BY <1>1 DEF twoFactorVars, TwoFactorInv, TwoFactorTypeOK, CodesAreSpent
<1>2. ASSUME NEW r \in Clients, Setup(r) PROVE TwoFactorInv'
  <2>1. sets + 1 \in 0..MaxSets /\ sets' = sets + 1
    BY <1>0, <1>2, SetsAssumption DEF Setup
  <2>2. ProfileRow(FALSE, sets + 1) \in Profiles /\ ~Unspent(ProfileRow(FALSE, sets + 1))
    BY <2>1, RowIs, SpentIs
  <2>3. /\ Held("whole", ProfileRow(FALSE, sets + 1)) \in Calls
        /\ ~Unspent(Held("whole", ProfileRow(FALSE, sets + 1)).p)
    BY <2>2, HeldIs
  <2> QED BY <1>2, <2>1, <2>3, StartKeeps DEF Setup
<1>3. ASSUME NEW r \in Clients, Enable(r) PROVE TwoFactorInv'
  <2>1. ProfileRow(TRUE, 0) \in Profiles /\ ~Unspent(ProfileRow(TRUE, 0))
    BY RowIs, SpentIs, ZeroIs
  <2>2. sets' \in 0..MaxSets /\ Starts(r, Held("columns", ProfileRow(TRUE, 0)))
    BY <1>0, <1>3 DEF Enable
  <2>3. Held("columns", ProfileRow(TRUE, 0)) \in Calls /\ ~Unspent(Held("columns", ProfileRow(TRUE, 0)).p)
    BY <2>1, HeldIs
  <2> QED BY <2>2, <2>3, StartKeeps
<1>4. ASSUME NEW r \in Clients, Disable(r) PROVE TwoFactorInv'
  <2>1. ProfileRow(FALSE, 0) \in Profiles /\ ~Unspent(ProfileRow(FALSE, 0))
    BY RowIs, SpentIs, ZeroIs
  <2>2. sets' \in 0..MaxSets /\ Starts(r, Held("columns", ProfileRow(FALSE, 0)))
    BY <1>0, <1>4 DEF Disable
  <2>3. Held("columns", ProfileRow(FALSE, 0)) \in Calls /\ ~Unspent(Held("columns", ProfileRow(FALSE, 0)).p)
    BY <2>1, HeldIs
  <2> QED BY <2>2, <2>3, StartKeeps
<1>5. ASSUME NEW r \in Clients, Update(r) PROVE TwoFactorInv'
  <2>0. sets' \in 0..MaxSets
    BY <1>0, <1>5 DEF Update
  <2>1. CASE Starts(r, Held("whole", profile))
    BY <1>0, <2>0, <2>1, HeldIs, StartKeeps DEF TwoFactorInv, CodesAreSpent, Unspent
  <2>2. ASSUME NEW on \in BOOLEAN,
               Starts(r, [Held("whole", ProfileRow(on, profile.codes)) EXCEPT !.sets = on])
        PROVE  TwoFactorInv'
    <3> DEFINE p == ProfileRow(on, profile.codes)
               c == [Held("whole", p) EXCEPT !.sets = on]
    <3>1. p \in Profiles /\ (~on => ~Unspent(p))
      BY <1>0, RowIs, SpentIs
    <3>2. c \in Calls /\ c.p = p /\ c.sets = on
      BY <3>1 DEF Held, Calls
    <3> HIDE DEF p, c
    <3>3. Starts(r, c)
      BY <2>2 DEF p, c
    <3> QED BY <2>0, <3>1, <3>2, <3>3, StartKeeps
  <2> QED BY <1>5, <2>1, <2>2 DEF Update
<1>8. ASSUME NEW r \in Clients, AdminForm(r) PROVE TwoFactorInv'
  <2>0. sets' \in 0..MaxSets
    BY <1>0, <1>8 DEF AdminForm
  <2>1. PICK on \in BOOLEAN, codes \in 0..sets :
          Starts(r, [Held("whole", ProfileRow(on, codes)) EXCEPT !.sets = on])
    BY <1>8 DEF AdminForm
  <2> DEFINE p == ProfileRow(on, codes)
             c == [Held("whole", p) EXCEPT !.sets = on]
  <2>2. codes \in 0..MaxSets
    BY <1>0, <2>1, SetsAssumption
  <2>3. p \in Profiles /\ (~on => ~Unspent(p))
    BY <2>2, RowIs, SpentIs
  <2>4. c \in Calls /\ c.p = p /\ c.sets = on
    BY <2>3 DEF Held, Calls
  <2>5. Starts(r, c)
    BY <2>1
  <2> HIDE DEF p, c
  <2> QED BY <2>0, <2>3, <2>4, <2>5, StartKeeps
<1>6. ASSUME NEW r \in Clients, SaveTwoFactor(r) PROVE TwoFactorInv'
  <2>1. /\ held[r] \in Calls /\ held[r].p \in Profiles
        /\ \A s \in Clients : [held[s] EXCEPT !.stale = TRUE] \in Calls
    BY DEF TwoFactorInv, TwoFactorTypeOK, Calls
  <2>2. TwoFactorTypeOK'
    BY <1>6, <2>1, NotCalledIs DEF SaveTwoFactor, TwoFactorInv, TwoFactorTypeOK, Reasons
  <2>3. Unspent(held[r].p) => why' # {}
    BY <1>6 DEF SaveTwoFactor, TwoFactorInv, Unspent
  <2>4. CodesAreSpent'
    BY <1>6, <2>3 DEF SaveTwoFactor, CodesAreSpent, Unspent
  <2>5. ASSUME NEW s \in Clients, held'[s].pc # "idle" PROVE held'[s].stale
    <3>1. s # r /\ held'[s] = [held[s] EXCEPT !.stale = TRUE]
      BY <1>6, <2>5, NotCalledIs DEF SaveTwoFactor
    <3> QED BY <3>1 DEF TwoFactorInv, TwoFactorTypeOK, Calls
  <2> QED BY <2>2, <2>4, <2>5 DEF TwoFactorInv
<1>7. ASSUME NEW r \in Clients, SaveTwoFactorFails(r) PROVE TwoFactorInv'
  <2>1. TwoFactorTypeOK'
    BY <1>7, NotCalledIs DEF SaveTwoFactorFails, TwoFactorInv, TwoFactorTypeOK
  <2>2. \A s \in Clients : held'[s] = IF s = r THEN NotCalled ELSE held[s]
    BY <1>7 DEF SaveTwoFactorFails, TwoFactorInv, TwoFactorTypeOK
  <2>3. profile' = profile /\ why' = why
    BY <1>7 DEF SaveTwoFactorFails
  <2> QED BY <2>1, <2>2, <2>3, NotCalledIs DEF TwoFactorInv, CodesAreSpent
<1> QED
  BY <1>1, <1>2, <1>3, <1>4, <1>5, <1>6, <1>7, <1>8 DEF TwoFactorNext

LEMMA TwoFactorInvariant == TwoFactorSpec => []TwoFactorInv
BY TwoFactorInitEstablishes, TwoFactorStepKeeps, PTL DEF TwoFactorSpec

\* However calls overlap, backup codes are left in an enabled profile only by
\* an update or a form that says it is on, or by a stale save (services.py:241-244).
THEOREM CodesSpent == TwoFactorSpec => []CodesAreSpent
<1>1. TwoFactorInv => CodesAreSpent
  BY DEF TwoFactorInv
<1> QED BY <1>1, TwoFactorInvariant, PTL

-----------------------------------------------------------------------------
(* API keys                                                                *)

\* The form of a key that is gone was posted before it went.
KeysInv ==
  /\ KeysTypeOK
  /\ \A a \in Admins :
       edit[a].pc = "posted" /\ row[edit[a].key] = "deleted" => a \in loaded[edit[a].key]

LEMMA KeysInitEstablishes == KeysInit => KeysInv
BY DEF KeysInit, KeysInv, KeysTypeOK, KeyRows, Live, Edits, NoForm

\* A form that is posted.
LEMMA PostedIs ==
  ASSUME NEW f \in [pc : {"open", "posted"}, key : Keys, is : Live], NEW is \in Live
  PROVE  [f EXCEPT !.pc = "posted", !.is = is] = [pc |-> "posted", key |-> f.key, is |-> is]
<1>1. [f EXCEPT !.pc = "posted"] = [pc |-> "posted", key |-> f.key, is |-> f.is]
  OBVIOUS
<1>2. [[pc |-> "posted", key |-> f.key, is |-> f.is] EXCEPT !.is = is]
        = [pc |-> "posted", key |-> f.key, is |-> is]
  OBVIOUS
<1> QED BY <1>1, <1>2

LEMMA KeysStepKeeps == KeysInv /\ [KeysNext]_keysVars => KeysInv'
<1> SUFFICES ASSUME KeysInv, [KeysNext]_keysVars
             PROVE  KeysInv'
  OBVIOUS
<1> USE DEF KeysInv, KeysTypeOK, KeyRows, Live, Edits, NoForm
<1>1. CASE UNCHANGED keysVars
  BY <1>1 DEF keysVars
<1>2. ASSUME NEW k \in Keys, CreateKey(k) PROVE KeysInv'
  BY <1>2 DEF CreateKey
<1>3. ASSUME NEW k \in Keys, Expires(k) PROVE KeysInv'
  BY <1>3 DEF Expires
<1>4. ASSUME NEW k \in Keys, Revoke(k) PROVE KeysInv'
  BY <1>4 DEF Revoke
<1>5. CASE Cleanup
  BY <1>5 DEF Cleanup
<1>6. ASSUME NEW a \in Admins, OpenForm(a) PROVE KeysInv'
  BY <1>6 DEF OpenForm
<1>7. ASSUME NEW a \in Admins, PostForm(a) PROVE KeysInv'
  <2>1. PICK is \in Live : edit' = [edit EXCEPT ![a] = [edit[a] EXCEPT !.pc = "posted", !.is = is]]
    BY <1>7 DEF PostForm
  <2> DEFINE e == [edit[a] EXCEPT !.pc = "posted", !.is = is]
  <2>0. /\ edit[a] \in [pc : {"open", "posted"}, key : Keys, is : Live]
        /\ row[edit[a].key] \in Live
    BY <1>7 DEF PostForm
  <2>2. e = [pc |-> "posted", key |-> edit[a].key, is |-> is]
    BY <2>0, PostedIs
  <2>3. UNCHANGED <<row, expired, loaded>>
    BY <1>7 DEF PostForm
  <2>4. \A b \in Admins : edit'[b] = IF b = a THEN e ELSE edit[b]
    BY <2>1
  <2>5. KeysTypeOK'
    BY <2>1, <2>2, <2>3, <2>0
  <2>6. row[e.key] # "deleted"
    BY <2>0, <2>2
  <2> HIDE DEF e
  <2> QED BY <2>2, <2>3, <2>4, <2>5, <2>6
<1>8. ASSUME NEW a \in Admins, SaveForm(a) PROVE KeysInv'
  BY <1>8 DEF SaveForm
<1>9. ASSUME NEW a \in Admins, Leave(a) PROVE KeysInv'
  BY <1>9 DEF Leave
<1> QED
  BY <1>1, <1>2, <1>3, <1>4, <1>5, <1>6, <1>7, <1>8, <1>9 DEF KeysNext

LEMMA KeysInvariant == KeysSpec => []KeysInv
BY KeysInitEstablishes, KeysStepKeeps, PTL DEF KeysSpec

\* Whatever forms are open, a deleted key comes back only by one that had
\* loaded it when it was deleted (services.py:183-184, admin.py:93-109).
THEOREM RevokedStays == KeysSpec => RevokedStaysGone
<1>1. ASSUME KeysInv, [KeysNext]_keysVars, NEW k \in Keys, row[k] = "deleted", row'[k] # "deleted"
      PROVE  \E a \in loaded[k] : edit[a].pc = "posted" /\ edit[a].key = k /\ edit'[a] = NoForm
  <2>1. CASE \E a \in Admins : SaveForm(a)
    <3>1. PICK a \in Admins : SaveForm(a)
      BY <2>1
    <3>2. edit[a].pc = "posted" /\ edit[a].key = k
      BY <1>1, <3>1 DEF SaveForm, KeysInv, KeysTypeOK
    <3>3. edit'[a] = NoForm
      BY <1>1, <3>1 DEF SaveForm, KeysInv, KeysTypeOK
    <3> QED BY <1>1, <3>2, <3>3 DEF KeysInv
  <2>2. CASE ~\E a \in Admins : SaveForm(a)
    <3>1. row'[k] = "deleted"
      BY <1>1, <2>2 DEF KeysNext, CreateKey, Expires, Revoke, Cleanup, OpenForm, PostForm, Leave,
                        KeysInv, KeysTypeOK, Live, keysVars
    <3> QED BY <1>1, <3>1
  <2> QED BY <2>1, <2>2
<1>2. KeysInv /\ [KeysNext]_keysVars =>
        [\A k \in Keys :
           row[k] = "deleted" /\ row'[k] # "deleted" =>
             \E a \in loaded[k] : edit[a].pc = "posted" /\ edit[a].key = k /\ edit'[a] = NoForm]_keysVars
  BY <1>1
<1> QED BY <1>2, KeysInvariant, PTL DEF KeysSpec, RevokedStaysGone

=============================================================================
