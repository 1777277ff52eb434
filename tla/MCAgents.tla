------------------------------ MODULE MCAgents ------------------------------
(***************************************************************************)
(* Agents for TLC.                                                         *)
(***************************************************************************)
EXTENDS Agents, TLC

CONSTANTS o1, t1, t2

\* Two threads of one object; it is made anew after each crash.
TwoOfOne == (t1 :> o1) @@ (t2 :> o1)

\* Two messages of one conversation.
SameTag == [m \in Messages |-> "a"]

=============================================================================
