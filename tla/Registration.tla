---------------------------- MODULE Registration ----------------------------
(***************************************************************************)
(* The registration of one address of the accounts app.  The serializer    *)
(* looks for a user with the address in any spelling, creates the user in  *)
(* autocommit mode, the post_save receiver makes a profile and swallows    *)
(* its errors, and the serializer makes the profile once more.             *)
(***************************************************************************)
EXTENDS Naturals, FiniteSets

CONSTANTS
  Registrations,   \* those that are posted
  Spellings,       \* spellings of the address: e-mails are compared as they are
  Spelling         \* the one each registration posts

ASSUME SpellingAssumption == Spelling \in [Registrations -> Spellings]

VARIABLES
  users,      \* spellings that have a user
  profiles,   \* those whose user has a profile
  reg,        \* how far each registration has come
  apart,      \* history: registrations that began when there was no user
  bare        \* history: users whose receiver made no profile

registrationVars == <<users, profiles, reg, apart, bare>>

RegStates == {"new", "checked", "inserted", "received", "created", "failed", "refused"}

RegistrationTypeOK ==
  /\ users \subseteq Spellings
  /\ profiles \subseteq users
  /\ reg \in [Registrations -> RegStates]
  /\ apart \subseteq Registrations
  /\ bare \subseteq Spellings

RegistrationInit ==
  /\ users = {}
  /\ profiles = {}
  /\ reg = [r \in Registrations |-> "new"]
  /\ apart = {}
  /\ bare = {}

Proceeds(r, from, to) == reg[r] = from /\ reg' = [reg EXCEPT ![r] = to]

-----------------------------------------------------------------------------
\* validate(): no user may have the address in any spelling.
ValidateExact(r) ==               \* mutant: the spellings are told apart
  /\ Proceeds(r, "new", IF Spelling[r] \notin users THEN "checked" ELSE "refused")
  /\ apart' = IF users = {} THEN apart \cup {r} ELSE apart
  /\ UNCHANGED <<users, profiles, bare>>

Validate(r) ==
  /\ Proceeds(r, "new", IF users = {} THEN "checked" ELSE "refused")
  /\ apart' = IF users = {} THEN apart \cup {r} ELSE apart
  /\ UNCHANGED <<users, profiles, bare>>

\* create_user: the e-mail is unique as it is spelled.
InsertUser(r) ==
  /\ Spelling[r] \notin users
  /\ Proceeds(r, "checked", "inserted")
  /\ users' = users \cup {Spelling[r]}
  /\ UNCHANGED <<profiles, apart, bare>>

InsertUserFails(r) == Proceeds(r, "checked", "failed") /\ UNCHANGED <<users, profiles, apart, bare>>

\* The receiver makes the profile, or logs that it could not.
Receive(r) ==
  /\ Proceeds(r, "inserted", "received")
  /\ profiles' = profiles \cup {Spelling[r]}
  /\ UNCHANGED <<users, apart, bare>>

ReceiveFails(r) ==
  /\ Proceeds(r, "inserted", "received")
  /\ bare' = bare \cup {Spelling[r]}
  /\ UNCHANGED <<users, profiles, apart>>

\* UserProfile.objects.create: a user has one profile.
MakeOrGetProfile(r) ==            \* mutant: get_or_create
  /\ Proceeds(r, "received", "created")
  /\ profiles' = profiles \cup {Spelling[r]}
  /\ UNCHANGED <<users, apart, bare>>

MakeProfile(r) ==
  /\ Spelling[r] \notin profiles
  /\ Proceeds(r, "received", "created")
  /\ profiles' = profiles \cup {Spelling[r]}
  /\ UNCHANGED <<users, apart, bare>>

MakeProfileFails(r) == Proceeds(r, "received", "failed") /\ UNCHANGED <<users, profiles, apart, bare>>

\* The process dies.
Dies(r) ==
  /\ reg[r] \in {"checked", "inserted", "received"}
  /\ reg' = [reg EXCEPT ![r] = "failed"]
  /\ bare' = IF reg[r] = "inserted" THEN bare \cup {Spelling[r]} ELSE bare
  /\ UNCHANGED <<users, profiles, apart>>

-----------------------------------------------------------------------------
RegistrationNext ==
  \E r \in Registrations :
    \/ Validate(r) \/ InsertUser(r) \/ InsertUserFails(r) \/ Receive(r) \/ ReceiveFails(r)
    \/ MakeProfile(r) \/ MakeProfileFails(r) \/ Dies(r)

RegistrationSpec == RegistrationInit /\ [][RegistrationNext]_registrationVars

-----------------------------------------------------------------------------
(* Properties                                                              *)

\* A registration succeeds only if the receiver failed to make the profile:
\* otherwise it raises, and the user stays.  A user without a profile is one
\* whose receiver has not run yet or has failed: nothing repairs it, since the
\* address is refused from then on (signals.py:22-27, serializers.py:118, 138-147).
ProfilesAreExplained ==
  /\ \A r \in Registrations : reg[r] = "created" => Spelling[r] \in bare
  /\ \A s \in users \ profiles :
       s \in bare \/ \E r \in Registrations : Spelling[r] = s /\ reg[r] = "inserted"

\* One address gets two users only if their registrations overlapped: each
\* was checked before there was any (serializers.py:118, models.py:60).
TwinsOverlapped ==
  Cardinality(users) > 1 =>
    \A s \in users : \E r \in apart : Spelling[r] = s

=============================================================================
