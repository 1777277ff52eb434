----------------------------- MODULE MCServices -----------------------------
(***************************************************************************)
(* The small services, each a module of its own, for TLC.  They share no   *)
(* state, so nothing is learnt from interleaving one with another: the one *)
(* that is chosen at the start takes all the steps.                        *)
(***************************************************************************)
EXTENDS UserLogin, Registration, TwoFactor, ApiKeys, SignalAlerts,
        RateLimits, TopicBus, SocketGroups, Instruments, TLC

CONSTANTS
  Parts,                       \* the services to check
  r1, r2, r3, lower, upper     \* registrations, and spellings of their address

VARIABLE part                  \* the chosen one

\* The tasks about instruments are alike.
TaskSymmetry == Permutations(Updates) \cup Permutations(Syncs)

\* Two registrations with one spelling of the address, one with another.
OneApart == (r1 :> lower) @@ (r2 :> lower) @@ (r3 :> upper)

vars == <<part, loginVars, registrationVars, twoFactorVars, keysVars, alertVars,
          limitsVars, busVars, socketsVars, instrumentsVars>>

Init ==
  /\ part \in Parts
  /\ LoginInit /\ RegistrationInit /\ TwoFactorInit /\ KeysInit /\ AlertsInit
  /\ LimitsInit /\ (part = "limits" \/ weight = 1)
  /\ BusInit /\ SocketsInit /\ InstrumentsInit

Next ==
  /\ UNCHANGED part
  /\ IF part = "login" THEN LoginNext ELSE UNCHANGED loginVars
  /\ IF part = "registration" THEN RegistrationNext ELSE UNCHANGED registrationVars
  /\ IF part = "two factor" THEN TwoFactorNext ELSE UNCHANGED twoFactorVars
  /\ IF part = "keys" THEN KeysNext ELSE UNCHANGED keysVars
  /\ IF part = "alerts" THEN AlertsNext ELSE UNCHANGED alertVars
  /\ IF part = "limits" THEN LimitsNext ELSE UNCHANGED limitsVars
  /\ IF part = "bus" THEN BusNext ELSE UNCHANGED busVars
  /\ IF part = "sockets" THEN SocketsNext ELSE UNCHANGED socketsVars
  /\ IF part = "instruments" THEN InstrumentsNext ELSE UNCHANGED instrumentsVars

Spec == Init /\ [][Next]_vars

\* Every variable of every service keeps its type.
TypeOK ==
  /\ LoginTypeOK /\ RegistrationTypeOK /\ TwoFactorTypeOK /\ KeysTypeOK /\ AlertsTypeOK
  /\ LimitsTypeOK /\ BusTypeOK /\ SocketsTypeOK /\ InstrumentsTypeOK

=============================================================================
