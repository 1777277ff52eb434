------------------------------ MODULE TwoFactor ------------------------------
(***************************************************************************)
(* The two-factor columns of a UserProfile row.  Setting up and updating   *)
(* the profile and its admin form save every column of a profile loaded    *)
(* before; verifying and disabling save these two only.  The serializer of *)
(* the profile can write two_factor_enabled, and not backup_codes; the     *)
(* form writes both.                                                       *)
(***************************************************************************)
EXTENDS Naturals

CONSTANTS
  Clients,   \* calls under way at a time
  MaxSets    \* bound: sets of backup codes made

ASSUME SetsAssumption == MaxSets \in Nat

VARIABLES
  profile,   \* the row: enabled, and the set of codes, numbered, 0 if empty
  held,      \* each call, with the profile it has loaded
  sets,      \* sets of codes made so far
  why        \* history: why codes may be there while enabled

twoFactorVars == <<profile, held, sets, why>>

ProfileRow(enabled, codes) == [enabled |-> enabled, codes |-> codes]
Profiles == [enabled : BOOLEAN, codes : 0..MaxSets]
Held(pc, p) == [pc |-> pc, p |-> p, stale |-> FALSE, sets |-> FALSE]
NotCalled == Held("idle", ProfileRow(FALSE, 0))
Calls == [pc : {"idle", "whole", "columns"}, p : Profiles, stale : BOOLEAN, sets : BOOLEAN]
Reasons == {"posted", "stale save"}

TwoFactorTypeOK ==
  /\ profile \in Profiles
  /\ held \in [Clients -> Calls]
  /\ sets \in 0..MaxSets
  /\ why \subseteq Reasons

TwoFactorInit ==
  /\ profile = ProfileRow(FALSE, 0)
  /\ held = [r \in Clients |-> NotCalled]
  /\ sets = 0
  /\ why = {}

Starts(r, c) ==
  /\ held[r].pc = "idle"
  /\ held' = [held EXCEPT ![r] = c]
  /\ UNCHANGED <<profile, why>>

\* TwoFactorSetupView.post: new codes, in a profile that is not enabled.
Setup(r) ==
  /\ ~profile.enabled
  /\ sets < MaxSets
  /\ sets' = sets + 1
  /\ Starts(r, Held("whole", ProfileRow(FALSE, sets + 1)))

\* enable_2fa: a code was given that is in the profile's list.
EnableKeepsCodes(r) ==            \* mutant: the codes are not cleared
  /\ profile.codes # 0
  /\ Starts(r, Held("columns", ProfileRow(TRUE, profile.codes)))
  /\ UNCHANGED sets

Enable(r) ==
  /\ profile.codes # 0
  /\ Starts(r, Held("columns", ProfileRow(TRUE, 0)))
  /\ UNCHANGED sets

\* disable_2fa
Disable(r) ==
  /\ profile.enabled
  /\ Starts(r, Held("columns", ProfileRow(FALSE, 0)))
  /\ UNCHANGED sets

\* update_user_profile: the request may name two_factor_enabled.
Update(r) ==
  /\ \/ Starts(r, Held("whole", profile))
     \/ \E on \in BOOLEAN : Starts(r, [Held("whole", ProfileRow(on, profile.codes)) EXCEPT !.sets = on])
  /\ UNCHANGED sets

\* The admin's form posts both columns, whatever it was shown of them.
AdminForm(r) ==
  /\ \E on \in BOOLEAN, c \in 0..sets : Starts(r, [Held("whole", ProfileRow(on, c)) EXCEPT !.sets = on])
  /\ UNCHANGED sets

\* The UPDATE of call r; the others' profiles are out of date from now on.
SaveTwoFactor(r) ==
  /\ held[r].pc # "idle"
  /\ profile' = held[r].p
  /\ held' = [s \in Clients |-> IF s = r THEN NotCalled ELSE [held[s] EXCEPT !.stale = TRUE]]
  /\ why' = (IF held[r].p.enabled /\ held[r].p.codes # 0 THEN why ELSE {})
            \cup (IF held[r].sets THEN {"posted"} ELSE {})
            \cup (IF held[r].stale THEN {"stale save"} ELSE {})
  /\ UNCHANGED sets

SaveTwoFactorFails(r) ==
  /\ held[r].pc # "idle"
  /\ held' = [held EXCEPT ![r] = NotCalled]
  /\ UNCHANGED <<profile, sets, why>>

TwoFactorNext ==
  \E r \in Clients :
    \/ Setup(r) \/ Enable(r) \/ Disable(r) \/ Update(r) \/ AdminForm(r)
    \/ SaveTwoFactor(r) \/ SaveTwoFactorFails(r)

TwoFactorSpec == TwoFactorInit /\ [][TwoFactorNext]_twoFactorVars

\* Once two-factor authentication is on, the codes that could turn it on are
\* gone, unless an update of the profile or its form says that it is on, or a
\* save of a profile that was out of date has put one of the columns back
\* (services.py:241-244, 265-266; views.py:421-422; serializers.py:40; admin.py:55).
CodesAreSpent == profile.enabled /\ profile.codes # 0 => why # {}

=============================================================================
