------------------------------ MODULE TopicBus ------------------------------
(***************************************************************************)
(* One topic of the in-memory broker of core/messaging.py: a list in a     *)
(* dict that publishers and subscribers, each a thread, work on without a  *)
(* lock.  A statement of Python may come between any two others; that one   *)
(* statement looks the list up and then changes it is left out.            *)
(***************************************************************************)
EXTENDS Naturals, Sequences, FiniteSets, SequencesExt

CONSTANTS
  Publishers,
  Subscribers,
  MaxMsg       \* bound: messages published

ASSUME MaxMsgAssumption == MaxMsg \in Nat
ASSUME SubscribersAssumption == Subscribers # {}

VARIABLES
  topics,     \* the dict: empty, or with the list of this topic
  appended,   \* messages appended so far, numbered in that order
  pub,        \* where each publisher is
  sub,        \* where each subscriber is, and the message it handles
  handled,    \* messages handled
  replaced    \* history: messages in a list that was replaced

busVars == <<topics, appended, pub, sub, handled, replaced>>

Messages == 1..MaxMsg
At(pc, msg) == [pc |-> pc, msg |-> msg]
Waiting == IF topics = <<>> THEN <<>> ELSE topics[1]

BusTypeOK ==
  /\ Len(topics) <= 1
  /\ Waiting \in Seq(Messages)
  /\ appended \in 0..MaxMsg
  /\ pub \in [Publishers -> {"idle", "create", "append"}]
  /\ sub \in [Subscribers -> [pc : {"look", "pop", "handle", "ended", "rejected"}, msg : 0..MaxMsg]]
  /\ handled \subseteq Messages
  /\ replaced \subseteq Messages

BusInit ==
  /\ topics = <<>>
  /\ appended = 0
  /\ pub = [p \in Publishers |-> "idle"]
  /\ sub = [s \in Subscribers |-> At("look", 0)]
  /\ handled = {}
  /\ replaced = {}

-----------------------------------------------------------------------------
\* publish: if the topic is not in the dict ...
PubLook(p) ==
  /\ pub[p] = "idle"
  /\ pub' = [pub EXCEPT ![p] = IF topics = <<>> THEN "create" ELSE "append"]
  /\ UNCHANGED <<topics, appended, sub, handled, replaced>>

\* ... it gets a new list, whatever is there by now;
CreateList(p) ==
  /\ pub[p] = "create"
  /\ topics' = <<<<>>>>
  /\ pub' = [pub EXCEPT ![p] = "append"]
  /\ replaced' = replaced \cup ToSet(Waiting)
  /\ UNCHANGED <<appended, sub, handled>>

\* the message is appended.
PubAppend(p) ==
  /\ pub[p] = "append"
  /\ appended < MaxMsg
  /\ appended' = appended + 1
  /\ topics' = <<Append(Waiting, appended + 1)>>
  /\ pub' = [pub EXCEPT ![p] = "idle"]
  /\ UNCHANGED <<sub, handled, replaced>>

\* subscribe: if the topic's list is not empty ...
SubLook(s) ==
  /\ sub[s].pc = "look"
  /\ Waiting # <<>>
  /\ sub' = [sub EXCEPT ![s] = At("pop", 0)]
  /\ UNCHANGED <<topics, appended, pub, handled, replaced>>

\* ... pop(0) takes the first message,
Pop(s) ==
  /\ sub[s].pc = "pop"
  /\ Waiting # <<>>
  /\ topics' = <<Tail(Waiting)>>
  /\ sub' = [sub EXCEPT ![s] = At("handle", Head(Waiting))]
  /\ UNCHANGED <<appended, pub, handled, replaced>>

\* or raises IndexError and the loop ends.
PopRaises(s) ==
  /\ sub[s].pc = "pop"
  /\ Waiting = <<>>
  /\ sub' = [sub EXCEPT ![s] = At("ended", 0)]
  /\ UNCHANGED <<topics, appended, pub, handled, replaced>>

\* The handler returns or raises: the loop goes on ...
HandleRaises(s) ==                \* mutant: an exception of the handler ends the loop
  /\ sub[s].pc = "handle"
  /\ handled' = handled \cup {sub[s].msg}
  /\ \E next \in {"look", "ended"} : sub' = [sub EXCEPT ![s] = At(next, 0)]
  /\ UNCHANGED <<topics, appended, pub, replaced>>

Handle(s) ==
  /\ sub[s].pc = "handle"
  /\ handled' = handled \cup {sub[s].msg}
  /\ sub' = [sub EXCEPT ![s] = At("look", 0)]
  /\ UNCHANGED <<topics, appended, pub, replaced>>

\* ... unless what it raises is a JSONDecodeError, of whatever it has parsed.
Rejects(s) ==
  /\ sub[s].pc = "handle"
  /\ handled' = handled \cup {sub[s].msg}
  /\ sub' = [sub EXCEPT ![s] = At("rejected", 0)]
  /\ UNCHANGED <<topics, appended, pub, replaced>>

-----------------------------------------------------------------------------
BusNext ==
  \/ \E p \in Publishers : PubLook(p) \/ CreateList(p) \/ PubAppend(p)
  \/ \E s \in Subscribers : SubLook(s) \/ Pop(s) \/ PopRaises(s) \/ Handle(s) \/ Rejects(s)

BusSpec == BusInit /\ [][BusNext]_busVars

-----------------------------------------------------------------------------
\* A message that was appended is waiting, with a subscriber, handled, or in
\* a list that a publisher has replaced; and of several subscribers one
\* listens on, or its handler has ended it, unless it was such a list that
\* took its message away: pop(0) raises only when another has the message
\* that was seen (messaging.py:134-136, 197-207).
OnlyReplacingLoses ==
  /\ \A m \in 1..appended :
       \/ m \in ToSet(Waiting) \cup handled \cup replaced
       \/ \E s \in Subscribers : sub[s].pc = "handle" /\ sub[s].msg = m
  /\ (\A s \in Subscribers : sub[s].pc = "ended") => replaced # {}

\* The subscribers of a topic together are one listener of a channel: what they
\* take out of the list is handed over in the order it was appended, and no
\* message is taken twice, whatever lists are replaced (messaging.py:134-136,
\* 197-201).
Taken == handled \cup {sub[s].msg : s \in {t \in Subscribers : sub[t].pc = "handle"}}
Channel == INSTANCE Delivery WITH
             Listeners <- {"topic"},
             sent <- [i \in 1..appended |-> i],
             upTo <- [t \in {"topic"} |-> [at |-> Max(Taken \cup {0}), n |-> Cardinality(Taken)]]
BusDelivery == Channel!Spec

=============================================================================
