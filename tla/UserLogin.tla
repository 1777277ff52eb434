----------------------------- MODULE UserLogin ------------------------------
(***************************************************************************)
(* The CustomUser row of the accounts app: the lock that failed logins set *)
(* and the password.  increment_failed_login_attempts and                  *)
(* reset_failed_login_attempts save the three columns of the lock from an  *)
(* object they loaded; the profile view, the password change and the       *)
(* confirmation of a password reset load a user and save every column.     *)
(*                                                                         *)
(* Times are in units of 30 minutes, passwords are numbered.  A reset      *)
(* token is bound to the password it was made for.                         *)
(***************************************************************************)
EXTENDS Naturals

CONSTANTS
  Requests,    \* calls under way at a time
  LockAt,      \* attempts that lock: 5 in the code
  MaxNow,      \* bound: the clock
  MaxFails,    \* bound: failed logins
  MaxPass      \* bound: passwords

ASSUME BoundsAssumption ==
  LockAt \in Nat \ {0} /\ MaxNow \in Nat /\ MaxFails \in Nat /\ MaxPass \in Nat

VARIABLES
  now,       \* timezone.now()
  user,      \* the row
  call,      \* each call, with the user it has loaded
  fails,     \* history: failed logins recorded so far
  lastPass,  \* the password that was set last
  used,      \* history: passwords whose token has been used
  again,     \* history: those whose token was used again, not overlapping a save
  back       \* history: passwords that have come back

loginVars == <<now, user, call, fails, lastPass, used, again, back>>

User(attempts, locked, until, pass) ==
  [attempts |-> attempts, locked |-> locked, until |-> until, pass |-> pass]
UserRows == [attempts : 0..MaxFails, locked : BOOLEAN, until : 0..(MaxNow + 4), pass : 0..MaxPass]
NewUser == User(0, FALSE, 0, 0)

\* "lock" saves the lock only; "profile", "change" and "confirm" every column.
\* stale: some other call has saved the row since this one loaded it.
Call(pc, u) == [pc |-> pc, u |-> u, stale |-> FALSE]
Idle == Call("idle", NewUser)
OutOfDate(c) == [pc |-> c.pc, u |-> c.u, stale |-> TRUE]
CallStates == [pc : {"idle", "lock", "profile", "change", "confirm"}, u : UserRows, stale : BOOLEAN]

LoginTypeOK ==
  /\ now \in 0..MaxNow
  /\ user \in UserRows
  /\ call \in [Requests -> CallStates]
  /\ fails \in 0..MaxFails
  /\ lastPass \in 0..MaxPass
  /\ used \subseteq 0..MaxPass
  /\ again \subseteq 0..MaxPass
  /\ back \subseteq 0..MaxPass

LoginInit ==
  /\ now = 0
  /\ user = NewUser
  /\ call = [r \in Requests |-> Idle]
  /\ fails = 0
  /\ lastPass = 0
  /\ used = {}
  /\ again = {}
  /\ back = {}

Tick == now < MaxNow /\ now' = now + 1 /\ UNCHANGED <<user, call, fails, lastPass, used, again, back>>

-----------------------------------------------------------------------------
(* The lock                                                                *)

\* 30 * 2^(attempts - 5) minutes, two hours at most.
LockUnits(attempts) == IF attempts = LockAt THEN 1 ELSE IF attempts = LockAt + 1 THEN 2 ELSE 4

\* One more attempt; from LockAt on each of them locks anew.
Failed(u) ==
  IF u.attempts + 1 < LockAt
  THEN [u EXCEPT !.attempts = @ + 1]
  ELSE User(u.attempts + 1, TRUE, now + LockUnits(u.attempts + 1), u.pass)

\* check_account_lock
Locked(u) == u.locked /\ u.until > now

Begin(r, pc, u) ==
  /\ call[r].pc = "idle"
  /\ call' = [call EXCEPT ![r] = Call(pc, u)]

\* increment_failed_login_attempts, on a user that was just loaded.
Fail(r) ==
  /\ fails < MaxFails
  /\ Begin(r, "lock", Failed(user))
  /\ fails' = fails + 1
  /\ UNCHANGED <<now, user, lastPass, used, again, back>>

\* reset_failed_login_attempts
Reset(r) ==
  /\ Begin(r, "lock", User(0, FALSE, 0, user.pass))
  /\ UNCHANGED <<now, user, fails, lastPass, used, again, back>>

\* What call r's UPDATE makes of the row, and of the calls under way.
Saves(r, u) ==
  /\ user' = u
  /\ call' = [s \in Requests |-> IF s = r THEN Idle ELSE OutOfDate(call[s])]
  /\ back' = IF u.pass # user.pass /\ u.pass <= lastPass THEN back \cup {u.pass} ELSE back

SaveAttempts(r) ==                \* mutant: update_fields forgets is_locked
  /\ call[r].pc = "lock"
  /\ Saves(r, User(call[r].u.attempts, user.locked, call[r].u.until, user.pass))
  /\ UNCHANGED <<now, fails, lastPass, used, again>>

SaveLockWhole(r) ==               \* mutant: save() without update_fields
  /\ call[r].pc = "lock"
  /\ Saves(r, call[r].u)
  /\ UNCHANGED <<now, fails, lastPass, used, again>>

\* save(update_fields=[failed_login_attempts, is_locked, locked_until])
SaveLock(r) ==
  /\ call[r].pc = "lock"
  /\ Saves(r, [call[r].u EXCEPT !.pass = user.pass])
  /\ UNCHANGED <<now, fails, lastPass, used, again>>

-----------------------------------------------------------------------------
(* Requests that save the whole user                                       *)

\* The profile view has loaded the user, and will change columns not modelled.
EditProfile(r) ==
  /\ Begin(r, "profile", user)
  /\ UNCHANGED <<now, user, fails, lastPass, used, again, back>>

\* ChangePasswordView has checked the current password.
Change(r) ==
  /\ Begin(r, "change", user)
  /\ UNCHANGED <<now, user, fails, lastPass, used, again, back>>

\* PasswordResetConfirmView has checked a token: it must be for the password
\* the user has.
ConfirmUnchecked(r) ==            \* mutant: check_token is not asked
  /\ \E p \in 0..lastPass : Begin(r, "confirm", [user EXCEPT !.pass = p])
  /\ UNCHANGED <<now, user, fails, lastPass, used, again, back>>

Confirm(r) ==
  /\ Begin(r, "confirm", user)
  /\ UNCHANGED <<now, user, fails, lastPass, used, again, back>>

SaveProfile(r) ==
  /\ call[r].pc = "profile"
  /\ Saves(r, call[r].u)
  /\ UNCHANGED <<now, fails, lastPass, used, again>>

\* set_password, then save(): with the lock the user had when it was loaded.
SavePassword(r) ==
  /\ call[r].pc \in {"change", "confirm"}
  /\ lastPass < MaxPass
  /\ lastPass' = lastPass + 1
  /\ Saves(r, [call[r].u EXCEPT !.pass = lastPass + 1])
  /\ used' = IF call[r].pc = "confirm" THEN used \cup {call[r].u.pass} ELSE used
  /\ again' = IF call[r].pc = "confirm" /\ call[r].u.pass \in used /\ ~call[r].stale
              THEN again \cup {call[r].u.pass} ELSE again
  /\ UNCHANGED <<now, fails>>

\* The UPDATE raises: the row stays, the request fails.
SaveUserFails(r) ==
  /\ call[r].pc # "idle"
  /\ call' = [call EXCEPT ![r] = Idle]
  /\ UNCHANGED <<now, user, fails, lastPass, used, again, back>>

-----------------------------------------------------------------------------
SaveUser(r) == SaveLock(r) \/ SaveProfile(r) \/ SavePassword(r) \/ SaveUserFails(r)

LoginNext ==
  \/ Tick
  \/ \E r \in Requests : Fail(r) \/ Reset(r) \/ EditProfile(r) \/ Change(r) \/ Confirm(r) \/ SaveUser(r)

LoginSpec == LoginInit /\ [][LoginNext]_loginVars

-----------------------------------------------------------------------------
(* Properties                                                              *)

\* The three columns of the lock stay in step whatever saves interleave, and
\* no user is locked who has not failed LockAt times: lost updates count
\* failures late, never early (models.py:126-148).
LockIsEarned ==
  /\ user.locked <=> user.attempts >= LockAt
  /\ user.until # 0 <=> user.locked
  /\ user.attempts <= fails

\* A lock goes by a reset, and else, like a password that gives way to an
\* older one, only by a save of the whole user that was loaded before some
\* other save: neither the counting of logins nor a password change or a
\* profile edit on its own does that (models.py:126-148, views.py:162, 353, 381).
UndoneByStaleSave ==
  [][LET ends(r) == call[r].pc # "idle" /\ call'[r].pc = "idle"
         whole(r) == call[r].pc # "lock" /\ call[r].stale
     IN  /\ user.locked /\ ~user'.locked =>
              \E r \in Requests : ends(r) /\ (call[r].pc = "lock" \/ whole(r))
         /\ user'.pass < user.pass => \E r \in Requests : ends(r) /\ whole(r)]_loginVars

\* A reset token sets a password once; twice only if two confirmations
\* overlapped, or a stale save has brought its password back
\* (views.py:349-353).
TokenIsUsedOnce == again \subseteq back

=============================================================================
