--------------------------- MODULE MCSettingsCache --------------------------
(***************************************************************************)
(* SettingsCache for TLC.                                                  *)
(***************************************************************************)
EXTENDS SettingsCache, TLC

CONSTANTS p1, p2, t1, t2, t3, v1

\* Two threads of a process, and one of another.
TwoAndOne == (t1 :> p1) @@ (t2 :> p1) @@ (t3 :> p2)

\* A caller without a default, and one whose default is a value.
SomeDefaults == {Nothing, v1}

=============================================================================
