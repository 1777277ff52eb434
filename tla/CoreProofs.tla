----------------------------- MODULE CoreProofs -----------------------------
(***************************************************************************)
(* Proofs about the in-memory topic and the WebSocket groups of apps/core, *)
(* for any number of publishers, subscribers, messages and connections.    *)
(***************************************************************************)
EXTENDS TopicBus, SocketGroups, FiniteSetTheorems, TLAPS

-----------------------------------------------------------------------------
(* The topic                                                               *)

Pcs == {"look", "pop", "handle", "ended", "rejected"}

\* TypeOK, with the dict as one of two things.
Typed ==
  /\ topics = <<>> \/ \E w \in Seq(Messages) : topics = <<w>>
  /\ appended \in 0..MaxMsg
  /\ pub \in [Publishers -> {"idle", "create", "append"}]
  /\ sub \in [Subscribers -> [pc : Pcs, msg : 0..MaxMsg]]
  /\ \A s \in Subscribers : sub[s].pc = "handle" => sub[s].msg \in Messages
  /\ handled \subseteq Messages
  /\ replaced \subseteq Messages

\* While no list was replaced, someone is about to look, was ended by a handler,
\* or will pop a message that is there.
SomeoneListens ==
  \/ replaced # {}
  \/ \E s \in Subscribers : sub[s].pc \in {"look", "handle", "rejected"}
  \/ Waiting # <<>> /\ \E s \in Subscribers : sub[s].pc = "pop"

\* Message m is somewhere.
Accounted(m) ==
  \/ m \in ToSet(Waiting) \cup handled \cup replaced
  \/ \E s \in Subscribers : sub[s].pc = "handle" /\ sub[s].msg = m

AllAccounted == \A m \in 1..appended : Accounted(m)

BusInv == Typed /\ SomeoneListens /\ AllAccounted

-----------------------------------------------------------------------------
LEMMA WaitingIsSeq == Typed => Waiting \in Seq(Messages)
BY DEF Typed, Waiting

\* The type invariant that the run checks.
LEMMA TypedIs == Typed => BusTypeOK
<1> SUFFICES ASSUME Typed PROVE BusTypeOK
  OBVIOUS
<1>1. Len(topics) <= 1
  <2>1. CASE topics = <<>>
    BY <2>1
  <2>2. ASSUME NEW w \in Seq(Messages), topics = <<w>> PROVE Len(topics) <= 1
    BY <2>2
  <2> QED BY <2>1, <2>2 DEF Typed
<1> QED BY <1>1, WaitingIsSeq DEF Typed, Pcs, BusTypeOK

\* What moving one subscriber does to where they are.
LEMMA OneSubscriberMoves ==
  ASSUME NEW s \in Subscribers, sub \in [Subscribers -> [pc : Pcs, msg : 0..MaxMsg]],
         NEW pc \in Pcs, NEW m \in 0..MaxMsg, sub' = [sub EXCEPT ![s] = At(pc, m)]
  PROVE  /\ sub' \in [Subscribers -> [pc : Pcs, msg : 0..MaxMsg]]
         /\ sub'[s].pc = pc /\ sub'[s].msg = m
         /\ \A t \in Subscribers \ {s} : sub'[t] = sub[t]
<1>1. At(pc, m) \in [pc : Pcs, msg : 0..MaxMsg] /\ At(pc, m).pc = pc /\ At(pc, m).msg = m
  BY DEF At
<1> QED BY <1>1

\* A subscriber that is not handling leaves the others where they are.
LEMMA OthersHandle ==
  ASSUME NEW s \in Subscribers, sub[s].pc # "handle",
         \A t \in Subscribers \ {s} : sub'[t] = sub[t],
         NEW m, \E t \in Subscribers : sub[t].pc = "handle" /\ sub[t].msg = m
  PROVE  \E t \in Subscribers : sub'[t].pc = "handle" /\ sub'[t].msg = m
OBVIOUS

LEMMA ToSetOfWaiting ==
  ASSUME NEW w \in Seq(Messages)
  PROVE  ToSet(w) \subseteq Messages /\ (w # <<>> => ToSet(w) # {})
<1>1. \A i \in DOMAIN w : w[i] \in Messages
  OBVIOUS
<1>2. w # <<>> => 1 \in DOMAIN w
  OBVIOUS
<1> QED BY <1>1, <1>2 DEF ToSet

LEMMA AppendIsSeq ==
  ASSUME NEW w \in Seq(Messages), NEW m \in Messages
  PROVE  Append(w, m) \in Seq(Messages) /\ Append(w, m) # <<>>
<1>1. Len(Append(w, m)) = Len(w) + 1 /\ Len(w) \in Nat
  OBVIOUS
<1> QED BY <1>1

LEMMA ToSetOfTail ==
  ASSUME NEW w \in Seq(Messages), w # <<>>
  PROVE  ToSet(w) \subseteq {Head(w)} \cup ToSet(Tail(w))
<1> SUFFICES ASSUME NEW i \in DOMAIN w PROVE w[i] \in {Head(w)} \cup ToSet(Tail(w))
  BY DEF ToSet
<1>1. CASE i = 1
  BY <1>1
<1>2. CASE i # 1
  <2>1. i - 1 \in DOMAIN Tail(w) /\ Tail(w)[i - 1] = w[i]
    BY <1>2
  <2> QED BY <2>1 DEF ToSet
<1> QED BY <1>1, <1>2

LEMMA ToSetOfAppend ==
  ASSUME NEW w \in Seq(Messages), NEW m \in Messages
  PROVE  ToSet(w) \cup {m} \subseteq ToSet(Append(w, m))
<1>1. \A i \in DOMAIN w : i \in DOMAIN Append(w, m) /\ Append(w, m)[i] = w[i]
  OBVIOUS
<1>2. Len(w) + 1 \in DOMAIN Append(w, m) /\ Append(w, m)[Len(w) + 1] = m
  OBVIOUS
<1> QED BY <1>1, <1>2 DEF ToSet

THEOREM BusInitEstablishes == BusInit => BusInv
<1> SUFFICES ASSUME BusInit PROVE BusInv
  OBVIOUS
<1>1. At("look", 0) \in [pc : Pcs, msg : 0..MaxMsg] /\ At("look", 0).pc = "look"
  BY MaxMsgAssumption DEF At, Pcs
<1>2. Typed
  BY <1>1, MaxMsgAssumption DEF BusInit, Typed
<1>3. SomeoneListens
  BY <1>1, SubscribersAssumption DEF BusInit, SomeoneListens
<1>4. AllAccounted
  BY DEF BusInit, AllAccounted
<1> QED BY <1>2, <1>3, <1>4 DEF BusInv

THEOREM BusStepKeeps == BusInv /\ [BusNext]_busVars => BusInv'
<1> SUFFICES ASSUME BusInv, [BusNext]_busVars PROVE BusInv'
  OBVIOUS
<1> USE MaxMsgAssumption
<1>0. Waiting \in Seq(Messages) /\ Typed /\ SomeoneListens /\ AllAccounted
  BY WaitingIsSeq DEF BusInv
<1>1. CASE UNCHANGED busVars
  BY <1>1 DEF busVars, BusInv, Typed, SomeoneListens, Waiting, AllAccounted, Accounted
<1>2. ASSUME NEW p \in Publishers, PubLook(p) PROVE BusInv'
  BY <1>0, <1>2 DEF PubLook, BusInv, Typed, SomeoneListens, Waiting, AllAccounted, Accounted
<1>3. ASSUME NEW p \in Publishers, CreateList(p) PROVE BusInv'
  <2>1. topics' = <<<<>>>> /\ Waiting' = <<>>
    BY <1>3 DEF CreateList, Waiting
  <2>2. ToSet(Waiting) \subseteq Messages /\ (Waiting # <<>> => ToSet(Waiting) # {})
    BY <1>0, ToSetOfWaiting
  <2>3. Typed'
    <3>1. <<>> \in Seq(Messages)
      OBVIOUS
    <3>2. \E w \in Seq(Messages) : topics' = <<w>>
      BY <2>1, <3>1
    <3>3. replaced' \subseteq Messages /\ UNCHANGED <<appended, sub, handled>>
      BY <1>0, <1>3, <2>2 DEF CreateList, Typed
    <3>4. pub' \in [Publishers -> {"idle", "create", "append"}]
      BY <1>0, <1>3 DEF CreateList, Typed
    <3> QED BY <1>0, <3>2, <3>3, <3>4 DEF Typed
  <2>4. SomeoneListens'
    BY <1>0, <1>3, <2>1, <2>2 DEF CreateList, SomeoneListens
  <2>5. AllAccounted'
    BY <1>0, <1>3 DEF CreateList, AllAccounted, Accounted
  <2> QED BY <2>3, <2>4, <2>5 DEF BusInv
<1>4. ASSUME NEW p \in Publishers, PubAppend(p) PROVE BusInv'
  <2>1. appended + 1 \in Messages
    BY <1>0, <1>4 DEF PubAppend, Typed, Messages
  <2> DEFINE w == Append(Waiting, appended + 1)
  <2>2. w \in Seq(Messages) /\ w # <<>>
    BY <1>0, <2>1, AppendIsSeq
  <2>3. topics' = <<w>>
    BY <1>4 DEF PubAppend
  <2> HIDE DEF w
  <2>4. Waiting' = w
    BY <2>3 DEF Waiting
  <2>5. Typed'
    BY <1>0, <1>4, <2>1, <2>2, <2>3 DEF PubAppend, Typed, Messages
  <2>6. SomeoneListens'
    BY <1>0, <1>4, <2>2, <2>4 DEF PubAppend, SomeoneListens
  <2>7. ToSet(Waiting) \cup {appended + 1} \subseteq ToSet(w)
    BY <1>0, <2>1, ToSetOfAppend DEF w
  <2>8. AllAccounted'
    <3>1. appended' = appended + 1 /\ UNCHANGED <<sub, handled, replaced>>
      BY <1>4 DEF PubAppend
    <3> SUFFICES ASSUME NEW m \in 1..(appended + 1) PROVE Accounted(m)'
      BY <3>1 DEF AllAccounted
    <3>2. m = appended + 1 \/ Accounted(m)
      BY <1>0 DEF AllAccounted, Typed
    <3> QED BY <2>4, <2>7, <3>1, <3>2 DEF Accounted
  <2> QED BY <2>5, <2>6, <2>8 DEF BusInv
<1>5. ASSUME NEW s \in Subscribers, SubLook(s) PROVE BusInv'
  <2>1. /\ Waiting # <<>> /\ sub' = [sub EXCEPT ![s] = At("pop", 0)]
        /\ UNCHANGED <<topics, appended, pub, handled, replaced>>
    BY <1>5 DEF SubLook
  <2>2. "pop" \in Pcs /\ 0 \in 0..MaxMsg
    BY DEF Pcs
  <2>3. /\ sub' \in [Subscribers -> [pc : Pcs, msg : 0..MaxMsg]] /\ sub'[s].pc = "pop"
    BY <1>0, <2>1, <2>2, OneSubscriberMoves DEF Typed
  <2>4. Waiting' = Waiting
    BY <2>1 DEF Waiting
  <2>5. Typed'
    BY <1>0, <2>1, <2>3 DEF Typed
  <2>6. SomeoneListens'
    BY <2>1, <2>3, <2>4 DEF SomeoneListens
  <2>7. AllAccounted'
    <3>1. sub[s].pc # "handle" /\ \A t \in Subscribers \ {s} : sub'[t] = sub[t]
      BY <1>0, <1>5, <2>1, <2>2, OneSubscriberMoves DEF SubLook, Typed
    <3>2. ASSUME NEW m \in 1..appended PROVE Accounted(m)'
      BY <1>0, <2>1, <2>4, <3>1, OthersHandle DEF AllAccounted, Accounted
    <3> QED BY <2>1, <3>2 DEF AllAccounted
  <2> QED BY <2>5, <2>6, <2>7 DEF BusInv
<1>6. ASSUME NEW s \in Subscribers, Pop(s) PROVE BusInv'
  <2>1. /\ Waiting # <<>> /\ sub' = [sub EXCEPT ![s] = At("handle", Head(Waiting))]
        /\ topics' = <<Tail(Waiting)>>
        /\ UNCHANGED <<appended, pub, handled, replaced>>
    BY <1>6 DEF Pop
  <2>2. Tail(Waiting) \in Seq(Messages) /\ Head(Waiting) \in Messages
    BY <1>0, <2>1
  <2>3. "handle" \in Pcs /\ Head(Waiting) \in 0..MaxMsg
    BY <2>2 DEF Pcs, Messages
  <2>4. /\ sub' \in [Subscribers -> [pc : Pcs, msg : 0..MaxMsg]] /\ sub'[s].pc = "handle" /\ sub'[s].msg = Head(Waiting)
        /\ \A t \in Subscribers \ {s} : sub'[t] = sub[t]
    BY <1>0, <2>1, <2>3, OneSubscriberMoves DEF Typed
  <2>5. Typed'
    BY <1>0, <2>1, <2>2, <2>4 DEF Typed
  <2>6. SomeoneListens'
    BY <2>4 DEF SomeoneListens
  <2>7. AllAccounted'
    <3>1. /\ sub[s].pc # "handle" /\ sub'[s].pc = "handle" /\ sub'[s].msg = Head(Waiting)
          /\ \A t \in Subscribers \ {s} : sub'[t] = sub[t]
      BY <1>0, <1>6, <2>1, <2>3, OneSubscriberMoves DEF Pop, Typed
    <3>2. Waiting' = Tail(Waiting)
      BY <2>1 DEF Waiting
    <3>3. ASSUME NEW m \in 1..appended PROVE Accounted(m)'
      <4>1. CASE m \in ToSet(Waiting)
        BY <1>0, <2>1, <3>1, <3>2, <4>1, ToSetOfTail DEF Accounted
      <4>2. CASE m \in handled \cup replaced
        BY <2>1, <4>2 DEF Accounted
      <4>3. CASE \E t \in Subscribers : sub[t].pc = "handle" /\ sub[t].msg = m
        BY <3>1, <4>3, OthersHandle DEF Accounted
      <4> QED BY <1>0, <4>1, <4>2, <4>3 DEF AllAccounted, Accounted
    <3> QED BY <2>1, <3>3 DEF AllAccounted
  <2> QED BY <2>5, <2>6, <2>7 DEF BusInv
<1>7. ASSUME NEW s \in Subscribers, PopRaises(s) PROVE BusInv'
  <2>1. /\ Waiting = <<>> /\ sub[s].pc = "pop" /\ sub' = [sub EXCEPT ![s] = At("ended", 0)]
        /\ UNCHANGED <<topics, appended, pub, handled, replaced>>
    BY <1>7 DEF PopRaises
  <2>2. "ended" \in Pcs /\ 0 \in 0..MaxMsg
    BY DEF Pcs
  <2>3. /\ sub' \in [Subscribers -> [pc : Pcs, msg : 0..MaxMsg]] /\ sub'[s].pc = "ended"
        /\ \A t \in Subscribers \ {s} : sub'[t] = sub[t]
    BY <1>0, <2>1, <2>2, OneSubscriberMoves DEF Typed
  <2>4. Typed'
    BY <1>0, <2>1, <2>3 DEF Typed
  <2>5. SomeoneListens'
    BY <1>0, <2>1, <2>3 DEF SomeoneListens
  <2>6. AllAccounted'
    <3>1. Waiting' = Waiting
      BY <2>1 DEF Waiting
    <3>2. ASSUME NEW m \in 1..appended PROVE Accounted(m)'
      BY <1>0, <2>1, <2>3, <3>1, OthersHandle DEF AllAccounted, Accounted
    <3> QED BY <2>1, <3>2 DEF AllAccounted
  <2> QED BY <2>4, <2>5, <2>6 DEF BusInv
<1>8. ASSUME NEW s \in Subscribers, Handle(s) PROVE BusInv'
  <2>1. /\ sub[s].pc = "handle" /\ sub' = [sub EXCEPT ![s] = At("look", 0)]
        /\ handled' = handled \cup {sub[s].msg}
        /\ UNCHANGED <<topics, appended, pub, replaced>>
    BY <1>8 DEF Handle
  <2>2. "look" \in Pcs /\ 0 \in 0..MaxMsg
    BY DEF Pcs
  <2>3. /\ sub' \in [Subscribers -> [pc : Pcs, msg : 0..MaxMsg]] /\ sub'[s].pc = "look"
    BY <1>0, <2>1, <2>2, OneSubscriberMoves DEF Typed
  <2>4. Typed'
    BY <1>0, <2>1, <2>3 DEF Typed
  <2>5. SomeoneListens'
    BY <2>3 DEF SomeoneListens
  <2>6. AllAccounted'
    <3>1. Waiting' = Waiting /\ \A t \in Subscribers \ {s} : sub'[t] = sub[t]
      BY <1>0, <2>1, <2>2, OneSubscriberMoves DEF Waiting, Typed
    <3>2. ASSUME NEW m \in 1..appended PROVE Accounted(m)'
      <4>1. CASE m = sub[s].msg
        BY <2>1, <4>1 DEF Accounted
      <4>2. CASE m # sub[s].msg
        BY <1>0, <2>1, <3>1, <4>2 DEF AllAccounted, Accounted
      <4> QED BY <4>1, <4>2
    <3> QED BY <2>1, <3>2 DEF AllAccounted
  <2> QED BY <2>4, <2>5, <2>6 DEF BusInv
<1>9. ASSUME NEW s \in Subscribers, Rejects(s) PROVE BusInv'
  <2>1. /\ sub[s].pc = "handle" /\ sub' = [sub EXCEPT ![s] = At("rejected", 0)]
        /\ handled' = handled \cup {sub[s].msg}
        /\ UNCHANGED <<topics, appended, pub, replaced>>
    BY <1>9 DEF Rejects
  <2>2. "rejected" \in Pcs /\ 0 \in 0..MaxMsg
    BY DEF Pcs
  <2>3. /\ sub' \in [Subscribers -> [pc : Pcs, msg : 0..MaxMsg]] /\ sub'[s].pc = "rejected"
    BY <1>0, <2>1, <2>2, OneSubscriberMoves DEF Typed
  <2>4. Typed'
    BY <1>0, <2>1, <2>3 DEF Typed
  <2>5. SomeoneListens'
    BY <2>3 DEF SomeoneListens
  <2>6. AllAccounted'
    <3>1. Waiting' = Waiting /\ \A t \in Subscribers \ {s} : sub'[t] = sub[t]
      BY <1>0, <2>1, <2>2, OneSubscriberMoves DEF Waiting, Typed
    <3>2. ASSUME NEW m \in 1..appended PROVE Accounted(m)'
      <4>1. CASE m = sub[s].msg
        BY <2>1, <4>1 DEF Accounted
      <4>2. CASE m # sub[s].msg
        BY <1>0, <2>1, <3>1, <4>2 DEF AllAccounted, Accounted
      <4> QED BY <4>1, <4>2
    <3> QED BY <2>1, <3>2 DEF AllAccounted
  <2> QED BY <2>4, <2>5, <2>6 DEF BusInv
<1> QED BY <1>1, <1>2, <1>3, <1>4, <1>5, <1>6, <1>7, <1>8, <1>9 DEF BusNext

LEMMA BusInvariant == BusSpec => []BusInv
BY BusInitEstablishes, BusStepKeeps, PTL DEF BusSpec

\* Whatever publishers and subscribers do, a message is lost, and pop(0)
\* ends the loop of every subscriber, only by a publisher that replaces a list that held
\* messages (messaging.py:134-136, 197-207).
THEOREM ReplacingLoses == BusSpec => []OnlyReplacingLoses
<1>1. BusInv => OnlyReplacingLoses
  BY DEF BusInv, SomeoneListens, AllAccounted, Accounted, OnlyReplacingLoses
<1> QED BY <1>1, BusInvariant, PTL

-----------------------------------------------------------------------------
(* The topic is a channel                                                  *)

\* What waits was appended in this order and after all that was taken, of
\* which there is a last one.
Ordered(w, T, n) ==
  /\ T \subseteq 1..n
  /\ \A i \in DOMAIN w : w[i] \in 1..n /\ \A m \in T : m < w[i]
  /\ \A i, j \in DOMAIN w : i < j => w[i] < w[j]
  /\ \E x \in T \cup {0} : \A y \in T \cup {0} : y <= x

InOrder == Ordered(Waiting, Taken, appended)

LEMMA OrderedEmpty ==
  ASSUME NEW w, NEW T, NEW n, Ordered(w, T, n) PROVE Ordered(<<>>, T, n)
BY DEF Ordered

LEMMA OrderedAppend ==
  ASSUME NEW w \in Seq(Messages), NEW T, NEW n \in Nat, Ordered(w, T, n)
  PROVE  Ordered(Append(w, n + 1), T, n + 1)
<1> DEFINE v == Append(w, n + 1)
<1>1. \A i \in DOMAIN v : \/ i \in DOMAIN w /\ v[i] = w[i]
                          \/ i = Len(w) + 1 /\ v[i] = n + 1
  OBVIOUS
<1>2. \A i \in DOMAIN w : i \in 1..Len(w)
  OBVIOUS
<1> HIDE DEF v
<1>3. \A i \in DOMAIN v : v[i] \in 1..(n + 1) /\ \A m \in T : m < v[i]
  BY <1>1 DEF Ordered
<1>4. \A i, j \in DOMAIN v : i < j => v[i] < v[j]
  <2> SUFFICES ASSUME NEW i \in DOMAIN v, NEW j \in DOMAIN v, i < j PROVE v[i] < v[j]
    OBVIOUS
  <2>1. i \in DOMAIN w /\ v[i] = w[i]
    BY <1>1, <1>2
  <2> QED BY <1>1, <2>1 DEF Ordered
<1> QED BY <1>3, <1>4 DEF Ordered, v

LEMMA OrderedTail ==
  ASSUME NEW w \in Seq(Messages), w # <<>>, NEW T, NEW n \in Nat, Ordered(w, T, n)
  PROVE  /\ Head(w) \in 1..n /\ \A m \in T : m < Head(w)
         /\ Ordered(Tail(w), T \cup {Head(w)}, n)
<1>1. 1 \in DOMAIN w /\ Head(w) = w[1]
  OBVIOUS
<1>2. \A i \in DOMAIN Tail(w) : i + 1 \in DOMAIN w /\ Tail(w)[i] = w[i + 1] /\ i \in Nat \ {0}
  OBVIOUS
<1>3. Head(w) \in 1..n /\ \A m \in T : m < Head(w)
  BY <1>1 DEF Ordered
<1>4. \A i \in DOMAIN Tail(w) : Tail(w)[i] \in 1..n /\ \A m \in T \cup {Head(w)} : m < Tail(w)[i]
  BY <1>1, <1>2 DEF Ordered
<1>5. \A i, j \in DOMAIN Tail(w) : i < j => Tail(w)[i] < Tail(w)[j]
  BY <1>2 DEF Ordered
<1>6. T \subseteq 1..n /\ \A y \in T \cup {Head(w)} \cup {0} : y <= Head(w)
  BY <1>3 DEF Ordered
<1> QED BY <1>3, <1>4, <1>5, <1>6 DEF Ordered

\* A set with a last number has it as its maximum.
LEMMA LastIsMax ==
  ASSUME NEW S, S \subseteq Nat, NEW x \in S, \A y \in S : y <= x PROVE Max(S) = x
<1>1. Max(S) \in S /\ \A y \in S : Max(S) >= y
  BY DEF Max
<1>2. Max(S) >= x /\ Max(S) <= x /\ Max(S) \in Nat /\ x \in Nat
  BY <1>1
<1> QED BY <1>2

\* Sequences with the same elements are one.
LEMMA SameElements ==
  ASSUME NEW s \in Seq(Nat), NEW v \in Seq(Nat), Len(s) = Len(v), \A i \in 1..Len(s) : s[i] = v[i]
  PROVE  s = v
OBVIOUS

\* Handing over message h after k others moves the listener there.
LEMMA HandMoves ==
  ASSUME NEW a, NEW k, NEW h
  PROVE  [t \in {"topic"} |-> [at |-> h, n |-> k + 1]]
           = [[t \in {"topic"} |-> [at |-> a, n |-> k]] EXCEPT !["topic"] =
                [at |-> h, n |-> [t \in {"topic"} |-> [at |-> a, n |-> k]]["topic"].n + 1]]
OBVIOUS

\* What a subscriber's move changes in what was taken.
LEMMA TakenMoves ==
  ASSUME Typed, NEW s \in Subscribers, NEW pc \in Pcs, NEW m \in 0..MaxMsg,
         sub' = [sub EXCEPT ![s] = At(pc, m)],
         handled' = IF sub[s].pc = "handle" THEN handled \cup {sub[s].msg} ELSE handled
  PROVE  Taken' = IF pc = "handle" THEN Taken \cup {m} ELSE Taken
<1>1. /\ sub'[s].pc = pc /\ sub'[s].msg = m
      /\ \A t \in Subscribers \ {s} : sub'[t] = sub[t]
  BY OneSubscriberMoves DEF Typed
<1>2. \A x : x \in Taken' <=> \/ x \in handled'
                              \/ \E t \in Subscribers : sub'[t].pc = "handle" /\ x = sub'[t].msg
  BY DEF Taken
<1>3. \A x : x \in Taken <=> \/ x \in handled
                             \/ \E t \in Subscribers : sub[t].pc = "handle" /\ x = sub[t].msg
  BY DEF Taken
<1>4. ASSUME NEW x PROVE x \in Taken' <=> x \in Taken \/ (pc = "handle" /\ x = m)
  BY <1>1, <1>2, <1>3
<1> QED BY <1>4

\* The step that appends is the one that publishes.
LEMMA AppendPublishes ==
  ASSUME Typed, NEW p \in Publishers, PubAppend(p)
  PROVE  Taken' = Taken /\ Channel!Next
<1>1. appended' = appended + 1 /\ appended \in Nat /\ appended + 1 \in Messages
  BY MaxMsgAssumption DEF PubAppend, Typed, Messages
<1>2. Taken' = Taken
  BY DEF PubAppend, Taken
<1>3. [i \in 1..appended' |-> i] = Append([i \in 1..appended |-> i], appended + 1)
  <2> DEFINE s == [i \in 1..appended |-> i]
             v == [i \in 1..(appended + 1) |-> i]
  <2>1. s \in Seq(Nat) /\ Len(s) = appended
    BY <1>1
  <2>2. v \in Seq(Nat) /\ Len(v) = appended + 1
    BY <1>1
  <2>3. Append(s, appended + 1) \in Seq(Nat) /\ Len(Append(s, appended + 1)) = appended + 1
    BY <1>1, <2>1
  <2>4. \A i \in 1..(appended + 1) : Append(s, appended + 1)[i] = v[i]
    BY <1>1, <2>1
  <2> HIDE DEF s, v
  <2>5. Append(s, appended + 1) = v
    BY <2>2, <2>3, <2>4, SameElements
  <2> QED BY <1>1, <2>5 DEF s, v
<1>4. \E m \in Messages : Channel!Publish(m)
  BY <1>1, <1>2, <1>3 DEF Channel!Publish
<1> QED BY <1>2, <1>4 DEF Channel!Next

\* The step that takes a message hands it over.
LEMMA PopHands ==
  ASSUME Typed, InOrder, NEW s \in Subscribers, Pop(s)
  PROVE  InOrder' /\ Channel!Next
<1>1. /\ Waiting \in Seq(Messages) /\ Waiting # <<>> /\ topics' = <<Tail(Waiting)>>
      /\ sub' = [sub EXCEPT ![s] = At("handle", Head(Waiting))] /\ sub[s].pc = "pop"
      /\ UNCHANGED <<appended, handled>>
  BY WaitingIsSeq DEF Pop
<1>2. appended \in Nat
  BY DEF Typed
<1>3. Head(Waiting) \in 0..MaxMsg /\ "handle" \in Pcs
  <2>1. Head(Waiting) \in Messages
    BY <1>1
  <2> QED BY <2>1 DEF Messages, Pcs
<1>4. Taken' = Taken \cup {Head(Waiting)}
  BY <1>1, <1>3, TakenMoves
<1>5. /\ Head(Waiting) \in 1..appended /\ \A m \in Taken : m < Head(Waiting)
      /\ Ordered(Tail(Waiting), Taken \cup {Head(Waiting)}, appended)
  BY <1>1, <1>2, OrderedTail DEF InOrder
<1>6. Waiting' = Tail(Waiting)
  BY <1>1 DEF Waiting
<1>7. InOrder'
  BY <1>1, <1>4, <1>5, <1>6 DEF InOrder
<1>8. Taken \subseteq 1..appended /\ \E x \in Taken \cup {0} : \A y \in Taken \cup {0} : y <= x
  BY DEF InOrder, Ordered
<1>9. PICK x \in Taken \cup {0} : \A y \in Taken \cup {0} : y <= x
  BY <1>8
<1>10. Max(Taken \cup {0}) = x /\ x \in Nat /\ x < Head(Waiting)
  <2>1. Taken \cup {0} \subseteq Nat
    BY <1>8
  <2> QED BY <1>5, <1>9, <2>1, LastIsMax
<1>11. Max(Taken' \cup {0}) = Head(Waiting)
  <2>1. ASSUME NEW y \in Taken' \cup {0} PROVE y \in Nat /\ y <= Head(Waiting)
    <3>1. Head(Waiting) \in Nat /\ Taken \subseteq Nat /\ \A m \in Taken : m < Head(Waiting)
      BY <1>2, <1>5, <1>8
    <3>2. y \in Taken \/ y = Head(Waiting) \/ y = 0
      BY <1>4
    <3>3. CASE y \in Taken
      BY <3>1, <3>3
    <3>4. CASE y = Head(Waiting)
      BY <3>1, <3>4
    <3>5. CASE y = 0
      BY <3>1, <3>5
    <3> QED BY <3>2, <3>3, <3>4, <3>5
  <2> QED BY <1>4, <2>1, LastIsMax
<1>12. Cardinality(Taken') = Cardinality(Taken) + 1
  <2>1. IsFiniteSet(Taken)
    <3>1. IsFiniteSet(1..appended)
      BY <1>2, FS_Interval
    <3> QED BY <1>8, <3>1, FS_Subset
  <2>2. Head(Waiting) \notin Taken
    BY <1>5, <1>8
  <2> QED BY <1>4, <2>1, <2>2, FS_AddElement
<1>13. Len([i \in 1..appended |-> i]) = appended
  BY <1>2
<1>14. Channel!Hand("topic")
  <2> DEFINE At0 == [t \in {"topic"} |-> [at |-> Max(Taken \cup {0}), n |-> Cardinality(Taken)]]
  <2>1. At0' = [At0 EXCEPT !["topic"] = [at |-> Head(Waiting), n |-> At0["topic"].n + 1]]
    BY <1>11, <1>12, HandMoves
  <2>2. At0["topic"].at = x /\ Head(Waiting) \in (x + 1)..appended
    BY <1>2, <1>5, <1>10
  <2>3. UNCHANGED [i \in 1..appended |-> i]
    BY <1>1
  <2>4. Head(Waiting) \in (At0["topic"].at + 1)..Len([i \in 1..appended |-> i])
    BY <1>13, <2>2
  <2> HIDE DEF At0
  <2>5. \E i \in (At0["topic"].at + 1)..Len([i \in 1..appended |-> i]) :
          At0' = [At0 EXCEPT !["topic"] = [at |-> i, n |-> At0["topic"].n + 1]]
    BY <2>1, <2>4
  <2> QED BY <2>3, <2>5 DEF Channel!Hand, At0
<1> QED BY <1>7, <1>14 DEF Channel!Next

\* Every other step leaves the channel as it is.
LEMMA BusChannelStep ==
  ASSUME Typed, InOrder, [BusNext]_busVars
  PROVE  InOrder' /\ [Channel!Next]_(Channel!vars)
<1> USE MaxMsgAssumption
<1>0. ASSUME UNCHANGED <<appended, Taken>> PROVE UNCHANGED Channel!vars
  BY <1>0 DEF Channel!vars
<1>1. CASE UNCHANGED busVars
  <2>1. UNCHANGED <<appended, Taken, Waiting>>
    BY <1>1 DEF busVars, Taken, Waiting
  <2> QED BY <1>0, <2>1 DEF InOrder
<1>2. ASSUME NEW p \in Publishers, PubLook(p) PROVE InOrder' /\ UNCHANGED Channel!vars
  <2>1. UNCHANGED <<appended, Taken, Waiting>>
    BY <1>2 DEF PubLook, Taken, Waiting
  <2> QED BY <1>0, <2>1 DEF InOrder
<1>3. ASSUME NEW p \in Publishers, CreateList(p) PROVE InOrder' /\ UNCHANGED Channel!vars
  <2>1. UNCHANGED <<appended, Taken>> /\ Waiting' = <<>>
    BY <1>3 DEF CreateList, Taken, Waiting
  <2> QED BY <1>0, <2>1, OrderedEmpty DEF InOrder
<1>4. ASSUME NEW p \in Publishers, PubAppend(p) PROVE InOrder' /\ Channel!Next
  <2>1. Taken' = Taken /\ Channel!Next
    BY <1>4, AppendPublishes
  <2>2. appended' = appended + 1 /\ appended \in Nat /\ Waiting' = Append(Waiting, appended + 1)
    BY <1>4 DEF PubAppend, Waiting, Typed
  <2> QED BY <2>1, <2>2, WaitingIsSeq, OrderedAppend DEF InOrder
<1>5. ASSUME NEW s \in Subscribers, SubLook(s) \/ PopRaises(s) \/ Handle(s) \/ Rejects(s)
      PROVE  InOrder' /\ UNCHANGED Channel!vars
  <2>1. PICK pc \in Pcs \ {"handle"} : sub' = [sub EXCEPT ![s] = At(pc, 0)]
    BY <1>5 DEF SubLook, PopRaises, Handle, Rejects, Pcs
  <2>2. handled' = IF sub[s].pc = "handle" THEN handled \cup {sub[s].msg} ELSE handled
    BY <1>5 DEF SubLook, PopRaises, Handle, Rejects
  <2>3. Taken' = Taken
    <3>1. pc \in Pcs /\ pc # "handle" /\ 0 \in 0..MaxMsg
      OBVIOUS
    <3> QED BY <2>1, <2>2, <3>1, TakenMoves
  <2>4. UNCHANGED <<appended, Waiting>>
    BY <1>5 DEF SubLook, PopRaises, Handle, Rejects, Waiting
  <2> QED BY <1>0, <2>3, <2>4 DEF InOrder
<1>6. ASSUME NEW s \in Subscribers, Pop(s) PROVE InOrder' /\ Channel!Next
  BY <1>6, PopHands
<1> QED BY <1>1, <1>2, <1>3, <1>4, <1>5, <1>6 DEF BusNext

LEMMA BusChannelInit == BusInit => InOrder /\ Channel!Init
<1> SUFFICES ASSUME BusInit PROVE InOrder /\ Channel!Init
  OBVIOUS
<1>1. Taken = {} /\ Waiting = <<>> /\ appended = 0
  BY DEF BusInit, Taken, Waiting, At
<1>2. Max(Taken \cup {0}) = 0 /\ Cardinality(Taken) = 0
  BY <1>1, LastIsMax, FS_EmptySet
<1>3. [i \in 1..appended |-> i] = <<>>
  BY <1>1
<1> QED BY <1>1, <1>2, <1>3 DEF InOrder, Ordered, Channel!Init

\* Whatever publishers and subscribers do, and whatever lists are replaced:
\* the topic hands over messages in the order they were appended, and each to
\* one subscriber at most (messaging.py:134-136, 197-201).
THEOREM BusImplementsDelivery == BusSpec => BusDelivery
<1>1. BusInv => Typed
  BY DEF BusInv
<1> QED BY <1>1, BusChannelInit, BusChannelStep, BusInvariant, PTL
        DEF BusSpec, BusDelivery, Channel!Spec

-----------------------------------------------------------------------------
(* The groups                                                              *)

\* Before a connection is open there is nothing; while it is, what it
\* remembers and what it is in differ on unsure groups only; while it closes,
\* it is in no group it would not leave.
Agrees(s, g, c, u) ==
  /\ s \in {New, Refused} => g = {} /\ c = {}
  /\ s \notin {New, Refused, Closing, Closed, Cancelled} => \A x \in Groups \ u : x \in g <=> x \in c
  /\ s = Closing => g \subseteq c \cup u
  /\ s = Closed => g \subseteq u

SocketsInv ==
  /\ SocketsTypeOK
  /\ \A c \in Consumers : Agrees(state[c], groups[c], channels[c], unsure[c])

\* The states of a consumer are what their names say.
LEMMA StatesDiffer ==
  /\ New.pc = "new" /\ Refused.pc = "refused" /\ Open.pc = "open"
  /\ Closing.pc = "closing" /\ Closed.pc = "closed" /\ Cancelled.pc = "cancelled"
  /\ \A pc, g : Handling(pc, g).pc = pc
BY DEF New, Refused, Open, Closing, Closed, Cancelled, Handling

\* A consumer in a call of the channel layer, or open, is none of the others.
LEMMA Working ==
  ASSUME NEW s, NEW g, s \in {Open, Handling("subscribe", g), Handling("unsubscribe", g)}
  PROVE  s \notin {New, Refused, Closing, Closed, Cancelled}
BY StatesDiffer

\* The states a consumer gets are states.
LEMMA StatesAreStates ==
  ASSUME NEW g \in Groups
  PROVE  /\ {New, Refused, Open, Closing, Closed, Cancelled} \subseteq SocketStates
         /\ Handling("subscribe", g) \in SocketStates /\ Handling("unsubscribe", g) \in SocketStates
BY DEF SocketStates, Handling

LEMMA PlainStates == {New, Refused, Open, Closing, Closed, Cancelled} \subseteq SocketStates
BY DEF SocketStates

-----------------------------------------------------------------------------
\* What one consumer does leaves the others as they were.
LEMMA OneConsumerMoves ==
  ASSUME SocketsInv, NEW c \in Consumers,
         NEW s \in SocketStates, NEW g \in SUBSET Groups, NEW h \in SUBSET Groups, NEW u \in SUBSET Groups,
         state' = [state EXCEPT ![c] = s], groups' = [groups EXCEPT ![c] = g],
         channels' = [channels EXCEPT ![c] = h], unsure' = [unsure EXCEPT ![c] = u],
         Agrees(s, g, h, u)
  PROVE  SocketsInv'
<1>1. SocketsTypeOK'
  BY DEF SocketsInv, SocketsTypeOK
<1>2. \A d \in Consumers : Agrees(state'[d], groups'[d], channels'[d], unsure'[d])
  BY DEF SocketsInv, SocketsTypeOK
<1> QED BY <1>1, <1>2 DEF SocketsInv, Agrees

\* A function is itself with any of its values put back.
LEMMA SameAgain ==
  ASSUME NEW S, NEW T, NEW f \in [S -> T], NEW x \in S
  PROVE  f = [f EXCEPT ![x] = f[x]]
OBVIOUS

THEOREM SocketsInitEstablish == SocketsInit => SocketsInv
BY PlainStates, StatesDiffer DEF SocketsInit, SocketsInv, SocketsTypeOK, Agrees

THEOREM SocketsStepKeeps == SocketsInv /\ [SocketsNext]_socketsVars => SocketsInv'
<1> SUFFICES ASSUME SocketsInv, [SocketsNext]_socketsVars PROVE SocketsInv'
  OBVIOUS
<1>1. CASE UNCHANGED socketsVars
  BY <1>1 DEF socketsVars, SocketsInv, SocketsTypeOK, Agrees
<1>2. ASSUME NEW c \in Consumers,
             \/ Connect(c) \/ Subscribe(c) \/ Added(c) \/ Unsubscribe(c) \/ Discarded(c)
             \/ Cut(c) \/ Disconnect(c) \/ Discard(c) \/ Clear(c) \/ Leaves(c) \/ Expire(c)
      PROVE  SocketsInv'
  <2>0. /\ Agrees(state[c], groups[c], channels[c], unsure[c])
        /\ state[c] \in SocketStates /\ groups[c] \in SUBSET Groups
        /\ channels[c] \in SUBSET Groups /\ unsure[c] \in SUBSET Groups
        /\ state = [state EXCEPT ![c] = state[c]] /\ groups = [groups EXCEPT ![c] = groups[c]]
        /\ channels = [channels EXCEPT ![c] = channels[c]] /\ unsure = [unsure EXCEPT ![c] = unsure[c]]
    BY SameAgain DEF SocketsInv, SocketsTypeOK
  <2>1. CASE Connect(c)
    <3>1. PICK s \in {Open, Refused} : state[c] = New /\ state' = [state EXCEPT ![c] = s]
      BY <2>1 DEF Connect, Goes
    <3>2. UNCHANGED <<groups, channels, unsure>>
      BY <2>1 DEF Connect
    <3>3. Agrees(s, groups[c], channels[c], unsure[c])
      BY <2>0, <3>1, StatesDiffer DEF Agrees
    <3> QED BY <2>0, <3>1, <3>2, <3>3, OneConsumerMoves, PlainStates
  <2>2. CASE Subscribe(c) \/ Unsubscribe(c)
    <3>1. PICK g \in Groups : \E t \in {Handling("subscribe", g), Handling("unsubscribe", g)} :
            state[c] = Open /\ state' = [state EXCEPT ![c] = t]
      BY <2>0, <2>2 DEF Subscribe, Unsubscribe, Goes
    <3>0. PICK s \in {Handling("subscribe", g), Handling("unsubscribe", g)} :
            state[c] = Open /\ state' = [state EXCEPT ![c] = s]
      BY <3>1
    <3>2. UNCHANGED <<groups, channels, unsure>>
      BY <2>2 DEF Subscribe, Unsubscribe
    <3>3. s \notin {New, Refused, Closing, Closed, Cancelled}
      BY <3>0, Working
    <3>4. Open \notin {New, Refused, Closing, Closed, Cancelled}
      BY StatesDiffer
    <3>5. Agrees(s, groups[c], channels[c], unsure[c])
      BY <2>0, <3>0, <3>3, <3>4 DEF Agrees
    <3>6. s \in SocketStates
      BY <3>0, StatesAreStates
    <3> QED BY <2>0, <3>0, <3>2, <3>5, <3>6, OneConsumerMoves
  <2>3. CASE Added(c)
    <3>1. PICK g \in Groups : /\ state[c] = Handling("subscribe", g)
                              /\ state' = [state EXCEPT ![c] = Open]
                              /\ groups' = [groups EXCEPT ![c] = groups[c] \cup {g}]
                              /\ channels' = [channels EXCEPT ![c] = channels[c] \cup {g}]
                              /\ UNCHANGED unsure
      BY <2>3 DEF Added, Goes
    <3>2. state[c] \notin {New, Refused, Closing, Closed, Cancelled}
      BY <3>1, Working
    <3>3. Open \notin {New, Refused, Closing, Closed, Cancelled}
      BY StatesDiffer
    <3>4. Agrees(Open, groups[c] \cup {g}, channels[c] \cup {g}, unsure[c])
      BY <2>0, <3>2, <3>3 DEF Agrees
    <3>5. groups[c] \cup {g} \in SUBSET Groups /\ channels[c] \cup {g} \in SUBSET Groups
      BY <2>0
    <3> QED BY <2>0, <3>1, <3>4, <3>5, OneConsumerMoves, PlainStates
  <2>4. CASE Discarded(c)
    <3>1. PICK g \in Groups : /\ state[c] = Handling("unsubscribe", g)
                              /\ state' = [state EXCEPT ![c] = Open]
                              /\ groups' = [groups EXCEPT ![c] = groups[c] \ {g}]
                              /\ channels' = [channels EXCEPT ![c] = channels[c] \ {g}]
                              /\ UNCHANGED unsure
      BY <2>4 DEF Discarded, Goes
    <3>2. state[c] \notin {New, Refused, Closing, Closed, Cancelled}
      BY <3>1, Working
    <3>3. Open \notin {New, Refused, Closing, Closed, Cancelled}
      BY StatesDiffer
    <3>4. Agrees(Open, groups[c] \ {g}, channels[c] \ {g}, unsure[c])
      BY <2>0, <3>2, <3>3 DEF Agrees
    <3>5. groups[c] \ {g} \in SUBSET Groups /\ channels[c] \ {g} \in SUBSET Groups
      BY <2>0
    <3> QED BY <2>0, <3>1, <3>4, <3>5, OneConsumerMoves, PlainStates
  <2>5. CASE Cut(c)
    <3>1. PICK g \in Groups, to \in {Open, Cancelled} :
            /\ state[c] \in {Handling("subscribe", g), Handling("unsubscribe", g)}
            /\ groups' \in {groups, [groups EXCEPT ![c] = IF state[c].pc = "subscribe"
                                                          THEN @ \cup {g} ELSE @ \ {g}]}
            /\ unsure' = [unsure EXCEPT ![c] = unsure[c] \cup {g}]
            /\ state' = [state EXCEPT ![c] = to]
            /\ UNCHANGED channels
      BY <2>5 DEF Cut
    <3>2. PICK h \in {groups[c], groups[c] \cup {g}, groups[c] \ {g}} :
            groups' = [groups EXCEPT ![c] = h]
      BY <2>0, <3>1
    <3>3. state[c] \notin {New, Refused, Closing, Closed, Cancelled}
      BY <3>1, Working
    <3>4. to \notin {New, Refused, Closing, Closed}
      BY <3>1, StatesDiffer
    <3>5. Agrees(to, h, channels[c], unsure[c] \cup {g})
      BY <2>0, <3>2, <3>3, <3>4 DEF Agrees
    <3>6. h \in SUBSET Groups /\ unsure[c] \cup {g} \in SUBSET Groups /\ to \in SocketStates
      BY <2>0, <3>1, <3>2, PlainStates
    <3> QED BY <2>0, <3>1, <3>2, <3>5, <3>6, OneConsumerMoves
  <2>6. CASE Disconnect(c)
    <3>1. state[c] = Open /\ state' = [state EXCEPT ![c] = Closing] /\ UNCHANGED <<groups, channels, unsure>>
      BY <2>6 DEF Disconnect, Goes
    <3>2. Open \notin {New, Refused, Closing, Closed, Cancelled}
          /\ Closing \notin {New, Refused, Closed, Cancelled}
      BY StatesDiffer
    <3>3. Agrees(Closing, groups[c], channels[c], unsure[c])
      BY <2>0, <3>1, <3>2 DEF Agrees
    <3> QED BY <2>0, <3>1, <3>3, OneConsumerMoves, PlainStates
  <2>7. CASE Discard(c)
    <3>1. PICK g \in Groups : /\ state[c] = Closing
                              /\ groups' = [groups EXCEPT ![c] = groups[c] \ {g}]
                              /\ UNCHANGED <<state, channels, unsure>>
      BY <2>0, <2>7 DEF Discard
    <3>2. Closing \notin {New, Refused, Closed, Cancelled}
      BY StatesDiffer
    <3>3. Agrees(Closing, groups[c] \ {g}, channels[c], unsure[c])
      BY <2>0, <3>1, <3>2 DEF Agrees
    <3>4. groups[c] \ {g} \in SUBSET Groups
      BY <2>0
    <3> QED BY <2>0, <3>1, <3>3, <3>4, OneConsumerMoves
  <2>8. CASE Clear(c)
    <3>1. /\ channels[c] \cap groups[c] = {}
          /\ state[c] = Closing /\ state' = [state EXCEPT ![c] = Closed]
          /\ channels' = [channels EXCEPT ![c] = {}]
          /\ UNCHANGED <<groups, unsure>>
      BY <2>8 DEF Clear, Goes
    <3>2. Closed \notin {New, Refused, Closing, Cancelled}
      BY StatesDiffer
    <3>3. groups[c] \subseteq channels[c] \cup unsure[c]
      BY <2>0, <3>1 DEF Agrees
    <3>4. Agrees(Closed, groups[c], {}, unsure[c])
      BY <3>1, <3>2, <3>3 DEF Agrees
    <3> QED BY <2>0, <3>1, <3>4, OneConsumerMoves, PlainStates
  <2>9. CASE Leaves(c)
    <3>1. state' = [state EXCEPT ![c] = Cancelled] /\ UNCHANGED <<groups, channels, unsure>>
      BY <2>9 DEF Leaves, Goes
    <3>2. Agrees(Cancelled, groups[c], channels[c], unsure[c])
      BY StatesDiffer DEF Agrees
    <3> QED BY <2>0, <3>1, <3>2, OneConsumerMoves, PlainStates
  <2>10. CASE Expire(c)
    <3>1. /\ state[c] \in {Closed, Cancelled}
          /\ groups' = [groups EXCEPT ![c] = {}] /\ UNCHANGED <<state, channels, unsure>>
      BY <2>10 DEF Expire
    <3>2. Agrees(state[c], {}, channels[c], unsure[c])
      BY <2>0, <3>1, StatesDiffer DEF Agrees
    <3> QED BY <2>0, <3>1, <3>2, OneConsumerMoves
  <2> QED BY <1>2, <2>1, <2>2, <2>3, <2>4, <2>5, <2>6, <2>7, <2>8, <2>9, <2>10
<1> QED BY <1>1, <1>2 DEF SocketsNext

LEMMA SocketsInvariant == SocketsSpec => []SocketsInv
BY SocketsInitEstablish, SocketsStepKeeps, PTL DEF SocketsSpec

\* Every variable keeps its type, for any number of connections.
THEOREM SocketsTypeCorrect == SocketsSpec => []SocketsTypeOK
<1>1. SocketsInv => SocketsTypeOK
  BY DEF SocketsInv
<1> QED BY <1>1, SocketsInvariant, PTL

\* However events, failures and cancellations interleave, an open connection
\* is in the groups it remembers and a closed one in none, but for groups
\* whose call was cut short (consumers.py:58-69, 131-135, 155-159).
THEOREM GroupsRemembered == SocketsSpec => []GroupsAreRemembered
<1>1. SocketsInv => GroupsAreRemembered
  <2>1. Open \notin {New, Refused, Closing, Closed, Cancelled}
    BY StatesDiffer
  <2> QED BY <2>1 DEF SocketsInv, Agrees, GroupsAreRemembered
<1> QED BY <1>1, SocketsInvariant, PTL

=============================================================================
