------------------------------ MODULE Delivery ------------------------------
(***************************************************************************)
(* What a publish/subscribe channel promises its listeners: each is handed *)
(* messages in the order they were sent, none twice, and none sent before  *)
(* it joined.  Nothing says that it is handed every message.               *)
(***************************************************************************)
EXTENDS Naturals, Sequences

CONSTANTS Messages, Listeners

VARIABLES
  sent,    \* what was published, in order
  upTo     \* for each listener, where on it the last message it was handed is
           \* (at first, where it joined), and how many it was handed (n)

vars == <<sent, upTo>>

TypeOK == sent \in Seq(Messages) /\ upTo \in [Listeners -> [at : Nat, n : Nat]]

Init == sent = <<>> /\ upTo = [t \in Listeners |-> [at |-> 0, n |-> 0]]

Publish(m) == sent' = Append(sent, m) /\ UNCHANGED upTo

Join(t) ==
  /\ upTo' = [upTo EXCEPT ![t] = [at |-> Len(sent), n |-> 0]]
  /\ UNCHANGED sent

Hand(t) ==
  /\ \E i \in (upTo[t].at + 1)..Len(sent) :
       upTo' = [upTo EXCEPT ![t] = [at |-> i, n |-> upTo[t].n + 1]]
  /\ UNCHANGED sent

Next == \/ \E m \in Messages : Publish(m)
        \/ \E t \in Listeners : Join(t) \/ Hand(t)

Spec == Init /\ [][Next]_vars

=============================================================================
