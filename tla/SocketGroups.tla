---------------------------- MODULE SocketGroups ----------------------------
(***************************************************************************)
(* The WebSocket consumers of core/consumers.py: which groups of the       *)
(* channel layer a connection is in, and which it remembers in             *)
(* self.channels.  A consumer handles one event at a time; at an await of  *)
(* the channel layer the call may fail, with or without having done its    *)
(* work, and the server may cancel the consumer.                           *)
(***************************************************************************)
EXTENDS FiniteSets

CONSTANTS
  Consumers,   \* connections
  Groups       \* channel names that clients may ask for

VARIABLES
  state,       \* what each consumer is doing
  groups,      \* the groups of the channel layer that each is in
  channels,    \* self.channels
  unsure       \* history: groups for which a call of the channel layer failed

socketsVars == <<state, groups, channels, unsure>>

Handling(pc, g) == [pc |-> pc, group |-> g]
New == [pc |-> "new"]
Refused == [pc |-> "refused"]
Open == [pc |-> "open"]
Closing == [pc |-> "closing"]
Closed == [pc |-> "closed"]
Cancelled == [pc |-> "cancelled"]
SocketStates ==
  {New, Refused, Open, Closing, Closed, Cancelled} \cup [pc : {"subscribe", "unsubscribe"}, group : Groups]

SocketsTypeOK ==
  /\ state \in [Consumers -> SocketStates]
  /\ groups \in [Consumers -> SUBSET Groups]
  /\ channels \in [Consumers -> SUBSET Groups]
  /\ unsure \in [Consumers -> SUBSET Groups]

SocketsInit ==
  /\ state = [c \in Consumers |-> New]
  /\ groups = [c \in Consumers |-> {}]
  /\ channels = [c \in Consumers |-> {}]
  /\ unsure = [c \in Consumers |-> {}]

Goes(c, from, to) == state[c] = from /\ state' = [state EXCEPT ![c] = to]

-----------------------------------------------------------------------------
\* connect: a client that is not authenticated, or whose address is not
\* allowed, is refused before self.channels is there; its disconnect raises.
Connect(c) ==
  /\ \/ Goes(c, New, Open)
     \/ Goes(c, New, Refused)
  /\ UNCHANGED <<groups, channels, unsure>>

\* handle_subscribe, up to group_add
Subscribe(c) ==
  /\ \E g \in Groups : Goes(c, Open, Handling("subscribe", g))
  /\ UNCHANGED <<groups, channels, unsure>>

\* group_add returns, and the group is remembered.
AddedForgets(c) ==                \* mutant: it is not
  /\ \E g \in Groups :
       /\ Goes(c, Handling("subscribe", g), Open)
       /\ groups' = [groups EXCEPT ![c] = @ \cup {g}]
  /\ UNCHANGED <<channels, unsure>>

Added(c) ==
  /\ \E g \in Groups :
       /\ Goes(c, Handling("subscribe", g), Open)
       /\ groups' = [groups EXCEPT ![c] = @ \cup {g}]
       /\ channels' = [channels EXCEPT ![c] = @ \cup {g}]
  /\ UNCHANGED unsure

\* handle_unsubscribe, up to group_discard
Unsubscribe(c) ==
  /\ \E g \in channels[c] : Goes(c, Open, Handling("unsubscribe", g))
  /\ UNCHANGED <<groups, channels, unsure>>

Discarded(c) ==
  /\ \E g \in Groups :
       /\ Goes(c, Handling("unsubscribe", g), Open)
       /\ groups' = [groups EXCEPT ![c] = @ \ {g}]
       /\ channels' = [channels EXCEPT ![c] = @ \ {g}]
  /\ UNCHANGED unsure

\* The channel layer's call raises, or the consumer is cancelled in it: it
\* may have done its work.  receive() swallows an exception.
Cut(c) ==
  /\ \E g \in Groups :
       /\ state[c] \in {Handling("subscribe", g), Handling("unsubscribe", g)}
       /\ groups' \in {groups,
                       [groups EXCEPT ![c] = IF state[c].pc = "subscribe" THEN @ \cup {g} ELSE @ \ {g}]}
       /\ unsure' = [unsure EXCEPT ![c] = @ \cup {g}]
       /\ \E to \in {Open, Cancelled} : state' = [state EXCEPT ![c] = to]
  /\ UNCHANGED channels

\* The client has gone.
Disconnect(c) ==
  /\ Goes(c, Open, Closing)
  /\ UNCHANGED <<groups, channels, unsure>>

\* disconnect: one group_discard after the other; self.channels is cleared
\* after the last.
Discard(c) ==
  /\ state[c] = Closing
  /\ \E g \in channels[c] \cap groups[c] : groups' = [groups EXCEPT ![c] = @ \ {g}]
  /\ UNCHANGED <<state, channels, unsure>>

Clear(c) ==
  /\ channels[c] \cap groups[c] = {}
  /\ Goes(c, Closing, Closed)
  /\ channels' = [channels EXCEPT ![c] = {}]
  /\ UNCHANGED <<groups, unsure>>

\* A group_discard raises, or the consumer is cancelled: the rest stays.
Leaves(c) ==
  /\ Goes(c, Closing, Cancelled)
  /\ UNCHANGED <<groups, channels, unsure>>

\* A membership expires (group_expiry of the channel layer).
Expire(c) ==
  /\ state[c] \in {Closed, Cancelled}
  /\ groups[c] # {}
  /\ groups' = [groups EXCEPT ![c] = {}]
  /\ UNCHANGED <<state, channels, unsure>>

-----------------------------------------------------------------------------
SocketsNext ==
  \E c \in Consumers :
    \/ Connect(c) \/ Subscribe(c) \/ Added(c) \/ Unsubscribe(c) \/ Discarded(c)
    \/ Cut(c) \/ Disconnect(c) \/ Discard(c) \/ Clear(c) \/ Leaves(c) \/ Expire(c)

SocketsSpec == SocketsInit /\ [][SocketsNext]_socketsVars

-----------------------------------------------------------------------------
\* While a connection is open it is in the groups it remembers, and in no
\* others, and one that has closed is in none, but for groups where a call of
\* the channel layer was cut short (consumers.py:58-69, 131-135, 155-159).
GroupsAreRemembered ==
  \A c \in Consumers :
    /\ state[c] = Open => \A g \in Groups \ unsure[c] : g \in groups[c] <=> g \in channels[c]
    /\ state[c] = Closed => groups[c] \subseteq unsure[c]

=============================================================================
