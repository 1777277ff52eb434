---------------------------- MODULE AgentsProofs ----------------------------
(***************************************************************************)
(* Proofs about Agents, for any objects, threads and messages.             *)
(***************************************************************************)
EXTENDS Agents, TLAPS

-----------------------------------------------------------------------------
(* Types                                                                   *)

\* What a thread and an object may become.
LEMMA Shapes ==
  /\ \A s \in States, r \in BOOLEAN, n \in 0..MaxCalls : Object(s, r, n) \in ObjectStates
  /\ NoObject \in ObjectStates
  /\ \A pc \in {"idle", "subscribe", "listen", "handle", "run"} : At(pc) \in ThreadStates
  /\ \A g \in {"idle", "subscribe", "listen", "run"}, v \in States :
       /\ Saves(g, v) \in ThreadStates
       /\ [pc |-> "save", goes |-> g, v |-> "IDLE"] \in ThreadStates
BY CallsAssumption DEF Object, ObjectStates, NoObject, At, Saves, ThreadStates, States

\* Where a thread is.
LEMMA AtFields ==
  /\ \A pc : At(pc).pc = pc
  /\ \A g, v : Saves(g, v).pc = "write" /\ Saves(g, v).goes = g
BY DEF At, Saves

\* A call keeps the types of the objects and threads it changes.
LEMMA CallTypes ==
  ASSUME TypeOK, NEW t \in Threads, NEW s \in States, NEW r \in BOOLEAN,
         NEW g \in {"idle", "subscribe", "run"}, Calls(t, s, r, g)
  PROVE  /\ obj' \in [Objects -> ObjectStates]
         /\ thr' \in [Threads -> ThreadStates]
         /\ UNCHANGED <<row, channel, read, done, handled, cut>>
<1>1. Host[t] \in Objects BY HostAssumption
<1>2. obj[Host[t]].calls + 1 \in 0..MaxCalls
  BY <1>1, CallsAssumption DEF TypeOK, ObjectStates, Calls
<1>3. Object(s, r, obj[Host[t]].calls + 1) \in ObjectStates BY <1>2, Shapes
<1>4. [pc |-> "save", goes |-> g, v |-> "IDLE"] \in ThreadStates BY Shapes DEF States
<1> QED BY <1>1, <1>3, <1>4 DEF Calls, TypeOK

\* A listener never reads past the channel, and has not yet given to the
\* callback the message it has in hand.
Reads(t) ==
  /\ done[t].at <= read[t] /\ read[t] <= Len(sent)
  /\ thr[t].pc = "handle" => done[t].at < read[t]
ReadsInv == \A t \in Threads : Reads(t)

\* The message in hand is one of the channel's.
LEMMA HandTypes ==
  ASSUME TypeOK, NEW t \in Threads, Reads(t), thr[t].pc = "handle"
  PROVE  read[t] \in 1..Len(sent) /\ InHand(t) \in Messages
BY DEF TypeOK, Reads, InHand

\* What happens to the channel when a message is sent.
LEMMA SendExtends ==
  ASSUME TypeOK, NEW m \in Messages, Send(m)
  PROVE  /\ sent' \in Seq(Messages) /\ Len(sent') = Len(sent) + 1
         /\ \A i \in 1..Len(sent) : sent'[i] = sent[i]
         /\ sent'[Len(sent) + 1] = m
BY DEF TypeOK, Send

\* Type correctness, step by step.
LEMMA TypeStep == ASSUME TypeOK, ReadsInv, [Next]_vars PROVE TypeOK'
<1>1. CASE UNCHANGED vars BY <1>1 DEF vars, channel, TypeOK
<1>2. CASE Next
  <2>1. ASSUME NEW o \in Objects, Create(o) PROVE TypeOK'
    <3>1. Object(row, FALSE, 0) \in ObjectStates BY CallsAssumption DEF TypeOK, Object, ObjectStates
    <3> QED BY <2>1, <3>1 DEF Create, TypeOK, channel, Reasons
  <2>2. ASSUME NEW o \in Objects, Crash(o) PROVE TypeOK'
    <3>1. {InHand(t) : t \in {u \in Threads : Host[u] = o /\ thr[u].pc = "handle"}} \subseteq Messages
      BY HandTypes DEF ReadsInv
    <3> QED BY <2>2, <3>1, Shapes DEF Crash, TypeOK, channel
  <2>3. ASSUME NEW t \in Threads, Start(t) PROVE TypeOK'
    <3>1. Host[t] \in Objects /\ obj[Host[t]].running \in BOOLEAN
      BY HostAssumption DEF TypeOK, ObjectStates
    <3> QED BY <2>3, <3>1, CallTypes DEF Start, TypeOK, channel, States
  <2>4. ASSUME NEW t \in Threads, Stop(t) \/ Pause(t) \/ Resume(t) PROVE TypeOK'
    <3>1. Host[t] \in Objects BY HostAssumption
    <3>2. CASE Stop(t) BY <3>2, CallTypes DEF Stop, TypeOK, channel, States
    <3>3. CASE Pause(t) BY <3>3, CallTypes DEF Pause, TypeOK, channel, States
    <3>4. CASE Resume(t)
      <4>1. why' \in [Objects -> SUBSET Reasons] BY <3>1, <3>4 DEF Resume, TypeOK, Reasons
      <4> QED BY <3>4, <4>1, CallTypes DEF Resume, TypeOK, channel, States
    <3> QED BY <2>4, <3>2, <3>3, <3>4
  <2>5. ASSUME NEW t \in Threads, SaveRead(t) PROVE TypeOK'
    <3>1. obj[Host[t]].state \in States BY HostAssumption DEF TypeOK, ObjectStates
    <3>2. thr[t].goes \in {"idle", "subscribe", "listen", "run"} BY DEF TypeOK, ThreadStates
    <3> QED BY <2>5, <3>1, <3>2, Shapes DEF SaveRead, TypeOK, channel
  <2>6. ASSUME NEW t \in Threads, SaveWrite(t) \/ SaveFails(t) \/ RunEnds(t) PROVE TypeOK'
    <3>1. thr[t].goes \in {"idle", "subscribe", "listen", "run"} /\ thr[t].v \in States
      BY DEF TypeOK, ThreadStates
    <3>2. Host[t] \in Objects BY HostAssumption
    <3>3. At(thr[t].goes) \in ThreadStates /\ At("idle") \in ThreadStates BY <3>1, Shapes
    <3>4. CASE SaveWrite(t) BY <3>4, <3>1, <3>3 DEF SaveWrite, TypeOK, channel
    <3>5. CASE SaveFails(t) BY <3>5, <3>2, <3>3 DEF SaveFails, TypeOK, channel, Reasons
    <3>6. CASE RunEnds(t) BY <3>6, <3>3 DEF RunEnds, TypeOK, channel
    <3> QED BY <2>6, <3>4, <3>5, <3>6
  <2>7. ASSUME NEW t \in Threads, Subscribe(t) PROVE TypeOK'
    <3>0. Host[t] \in Objects /\ obj[Host[t]] \in ObjectStates BY HostAssumption DEF TypeOK
    <3>1. [obj[Host[t]] EXCEPT !.running = TRUE] \in ObjectStates BY <3>0 DEF ObjectStates
    <3>2. Len(sent) \in Nat BY DEF TypeOK
    <3> QED BY <2>7, <3>0, <3>1, <3>2, Shapes DEF Subscribe, TypeOK, channel
  <2>8. ASSUME NEW t \in Threads, Take(t) PROVE TypeOK'
    <3>1. \A m \in Messages : processed'[m] \in BOOLEAN BY <2>8 DEF Take, TypeOK
    <3>2. processed' \in [Messages -> BOOLEAN] BY <2>8, <3>1 DEF Take
    <3> QED BY <2>8, <3>2, Shapes DEF Take, TypeOK
  <2>9. ASSUME NEW t \in Threads, Handle(t) PROVE TypeOK'
    BY <2>9, Shapes, HandTypes DEF Handle, TypeOK, channel, ReadsInv
  <2>10. ASSUME NEW t \in Threads, HandleRaises(t) PROVE TypeOK'
    <3>0. Host[t] \in Objects /\ obj[Host[t]] \in ObjectStates BY HostAssumption DEF TypeOK
    <3>1. [obj[Host[t]] EXCEPT !.state = "ERROR"] \in ObjectStates BY <3>0 DEF ObjectStates, States
    <3>2. InHand(t) \in Messages BY <2>10, HandTypes DEF HandleRaises, ReadsInv
    <3>3. [pc |-> "save", goes |-> "listen", v |-> "IDLE"] \in ThreadStates BY Shapes DEF States
    <3> QED BY <2>10, <3>0, <3>1, <3>2, <3>3 DEF HandleRaises, TypeOK, channel
  <2>11. ASSUME NEW t \in Threads, ListenFails(t) PROVE TypeOK'
    BY <2>11, HostAssumption, Shapes DEF ListenFails, TypeOK, channel, Reasons
  <2>12. ASSUME NEW m \in Messages, Log(m) \/ Send(m) \/ SendFails(m) PROVE TypeOK'
    BY <2>12, SendExtends DEF Log, Send, SendFails, TypeOK, Posts
  <2> QED BY <1>2, <2>1, <2>2, <2>3, <2>4, <2>5, <2>6, <2>7, <2>8, <2>9, <2>10, <2>11, <2>12
          DEF Next, Saving, Listening
<1> QED BY <1>1, <1>2

\* Listeners stay within the channel.
LEMMA ReadsStep == ASSUME TypeOK, ReadsInv, [Next]_vars PROVE ReadsInv'
<1> SUFFICES ASSUME NEW u \in Threads PROVE Reads(u)' BY DEF ReadsInv
<1>0. Reads(u) /\ read[u] \in Nat /\ done[u].at \in Nat /\ Len(sent) \in Nat
  BY DEF ReadsInv, TypeOK
<1>1. CASE UNCHANGED vars BY <1>0, <1>1 DEF vars, channel, Reads
<1>2. CASE Next
  <2>1. ASSUME NEW o \in Objects, Create(o) \/ Crash(o) PROVE Reads(u)'
    <3>1. thr'[u].pc = "handle" => thr[u].pc = "handle"
      <4>1. CASE Create(o)
        <5>1. thr' = thr BY <4>1 DEF Create
        <5> QED BY <5>1
      <4>2. CASE Crash(o)
        <5>1. thr'[u] = IF Host[u] = o THEN At("idle") ELSE thr[u] BY <4>2 DEF Crash
        <5>2. At("idle").pc = "idle" BY DEF At
        <5> QED BY <5>1, <5>2
      <4> QED BY <2>1, <4>1, <4>2
    <3> QED BY <2>1, <3>1, <1>0 DEF Create, Crash, Reads, channel
  <2>2. ASSUME NEW t \in Threads, Start(t) \/ Stop(t) \/ Pause(t) \/ Resume(t) PROVE Reads(u)'
    <3>1. thr'[u].pc = "handle" => thr[u].pc = "handle"
      <4>1. \A g : [pc |-> "save", goes |-> g, v |-> "IDLE"].pc = "save" OBVIOUS
      <4>2. \E g : thr' = [thr EXCEPT ![t] = [pc |-> "save", goes |-> g, v |-> "IDLE"]]
        BY <2>2 DEF Start, Stop, Pause, Resume, Calls
      <4> QED BY <4>1, <4>2 DEF TypeOK
    <3> QED BY <2>2, <3>1, <1>0 DEF Start, Stop, Pause, Resume, Calls, Reads, channel
  <2>3. ASSUME NEW t \in Threads, Saving(t) \/ RunEnds(t) PROVE Reads(u)'
    <3>1. thr[t].goes # "handle" BY DEF TypeOK, ThreadStates
    <3>2. thr'[u].pc = "handle" => thr[u].pc = "handle"
      <4>1. CASE SaveRead(t) BY <4>1, AtFields DEF SaveRead, TypeOK
      <4>2. CASE SaveWrite(t) BY <4>2, <3>1, AtFields DEF SaveWrite, TypeOK
      <4>3. CASE SaveFails(t) \/ RunEnds(t)
        <5>1. thr' = [thr EXCEPT ![t] = At("idle")] BY <4>3 DEF SaveFails, RunEnds
        <5> QED BY <5>1, AtFields DEF TypeOK
      <4> QED BY <2>3, <4>1, <4>2, <4>3 DEF Saving
    <3> QED BY <2>3, <3>2, <1>0 DEF Saving, SaveRead, SaveWrite, SaveFails, RunEnds, Reads, channel
  <2>4. ASSUME NEW t \in Threads, Subscribe(t) PROVE Reads(u)'
    <3>1. thr'[u].pc = "handle" => thr[u].pc = "handle" /\ u # t
      BY <2>4, AtFields DEF Subscribe, TypeOK
    <3>2. read'[u] = (IF u = t THEN Len(sent) ELSE read[u]) /\ sent' = sent
          /\ done'[u].at = (IF u = t THEN Len(sent) ELSE done[u].at)
      BY <2>4 DEF Subscribe, TypeOK, channel
    <3> QED BY <3>1, <3>2, <1>0 DEF Reads
  <2>5. ASSUME NEW t \in Threads, Take(t) PROVE Reads(u)'
    <3>1. u # t => thr'[u] = thr[u] BY <2>5 DEF Take, TypeOK
    <3>2. read'[u] = (IF u = t THEN read[u] + 1 ELSE read[u]) /\ done' = done /\ sent' = sent
      BY <2>5 DEF Take, TypeOK
    <3> QED BY <2>5, <3>1, <3>2, <1>0 DEF Reads, Take
  <2>7. ASSUME NEW t \in Threads, Handle(t) \/ HandleRaises(t) PROVE Reads(u)'
    <3>1. thr'[u].pc = "handle" => thr[u].pc = "handle" /\ u # t
      BY <2>7, AtFields DEF Handle, HandleRaises, TypeOK
    <3>2. done'[u].at = (IF u = t THEN read[u] ELSE done[u].at) /\ read' = read /\ sent' = sent
      BY <2>7 DEF Handle, HandleRaises, TypeOK, channel
    <3> QED BY <3>1, <3>2, <1>0 DEF Reads
  <2>8. ASSUME NEW t \in Threads, ListenFails(t) PROVE Reads(u)'
    <3>1. thr'[u].pc = "handle" => thr[u].pc = "handle" BY <2>8, AtFields DEF ListenFails, TypeOK
    <3> QED BY <2>8, <3>1, <1>0 DEF ListenFails, Reads, channel
  <2>6. ASSUME NEW m \in Messages, Log(m) \/ Send(m) \/ SendFails(m) PROVE Reads(u)'
    BY <2>6, <1>0, SendExtends DEF Log, Send, SendFails, Reads
  <2> QED BY <1>2, <2>1, <2>2, <2>3, <2>4, <2>5, <2>6, <2>7, <2>8 DEF Next, Listening
<1> QED BY <1>1, <1>2

\* TypeOK with the bounds it needs.
LEMMA TypeInit == Init => TypeOK /\ ReadsInv
BY Shapes DEF Init, TypeOK, ReadsInv, Reads, At, Posts

\* Type correctness of Agents.
THEOREM TypeCorrect == Spec => []TypeOK
<1>1. TypeOK /\ ReadsInv /\ [Next]_vars => (TypeOK /\ ReadsInv)' BY TypeStep, ReadsStep
<1> QED BY <1>1, TypeInit, PTL DEF Spec

-----------------------------------------------------------------------------
(* Messages                                                                *)

\* Every message on the channel has its row; what is in hand is marked; so
\* is what was handled.
Posted == \A i \in 1..Len(sent) : post[sent[i]] # "new"
InHandMarked == \A t \in Threads : thr[t].pc = "handle" => processed[InHand(t)]
Marked == Posted /\ InHandMarked /\ HandledIsMarked

TypedInv == TypeOK /\ ReadsInv

\* A step that leaves the messages alone, and puts none in a thread's hand.
Aside ==
  /\ UNCHANGED <<channel, handled>>
  /\ cut \subseteq cut'
  /\ \A t \in Threads : thr'[t].pc = "handle" => thr[t].pc = "handle" /\ read'[t] = read[t]

\* The life cycle, and a listener that begins or ends, is such a step.
LEMMA LifeCycleAside ==
  ASSUME TypedInv,
         \/ \E o \in Objects : Create(o)
         \/ \E t \in Threads : \/ Start(t) \/ Stop(t) \/ Pause(t) \/ Resume(t)
                               \/ Saving(t) \/ RunEnds(t) \/ Subscribe(t) \/ ListenFails(t)
  PROVE  Aside
<1> USE DEF TypedInv
<1>1. CASE \E o \in Objects : Create(o) BY <1>1 DEF Create, Aside
<1>2. ASSUME NEW t \in Threads, Start(t) \/ Stop(t) \/ Pause(t) \/ Resume(t) PROVE Aside
  <2>1. \A g : [pc |-> "save", goes |-> g, v |-> "IDLE"].pc = "save" OBVIOUS
  <2>2. \E g : thr' = [thr EXCEPT ![t] = [pc |-> "save", goes |-> g, v |-> "IDLE"]]
    BY <1>2 DEF Start, Stop, Pause, Resume, Calls
  <2>3. \A u \in Threads : thr'[u].pc = "handle" => thr[u].pc = "handle"
    BY <2>1, <2>2 DEF TypeOK
  <2> QED BY <1>2, <2>3 DEF Start, Stop, Pause, Resume, Calls, Aside
<1>3. ASSUME NEW t \in Threads, Saving(t) \/ RunEnds(t) PROVE Aside
  <2>1. thr[t].goes # "handle" BY DEF TypeOK, ThreadStates
  <2>2. CASE SaveRead(t) BY <2>2, AtFields DEF SaveRead, TypeOK, Aside
  <2>3. CASE SaveWrite(t) BY <2>3, <2>1, AtFields DEF SaveWrite, TypeOK, Aside
  <2>4. CASE SaveFails(t) \/ RunEnds(t)
    <3>1. thr' = [thr EXCEPT ![t] = At("idle")] BY <2>4 DEF SaveFails, RunEnds
    <3>2. \A u \in Threads : thr'[u].pc = "handle" => thr[u].pc = "handle"
      BY <3>1, AtFields DEF TypeOK
    <3> QED BY <2>4, <3>2 DEF SaveFails, RunEnds, Aside
  <2> QED BY <1>3, <2>2, <2>3, <2>4 DEF Saving
<1>4. ASSUME NEW t \in Threads, Subscribe(t) PROVE Aside
  BY <1>4, AtFields DEF Subscribe, TypeOK, Aside
<1>5. ASSUME NEW t \in Threads, ListenFails(t) PROVE Aside
  BY <1>5, AtFields DEF ListenFails, TypeOK, Aside
<1> QED BY <1>1, <1>2, <1>3, <1>4, <1>5

\* Marks survive every step.
LEMMA MarkedStep == ASSUME TypedInv, Marked, [Next]_vars PROVE Marked'
<1> USE DEF TypedInv
<1>1. ASSUME Aside PROVE Marked'
  BY <1>1 DEF Aside, channel, Marked, Posted, InHandMarked, HandledIsMarked, InHand
<1>2. CASE UNCHANGED vars
  <2>1. Aside BY <1>2 DEF vars, channel, Aside
  <2> QED BY <1>1, <2>1
<1>3. ASSUME NEW o \in Objects, Crash(o) PROVE Marked'
  BY <1>3, AtFields DEF Crash, channel, Marked, Posted, InHandMarked, HandledIsMarked, InHand, TypeOK
<1>4. ASSUME NEW t \in Threads, Take(t) PROVE Marked'
  <2>1. read[t] + 1 \in 1..Len(sent) /\ sent[read[t] + 1] \in Messages
    BY <1>4 DEF Take, TypeOK
  <2>2. \A m \in Messages : processed[m] => processed'[m] BY <1>4 DEF Take, TypeOK
  <2>3. processed'[sent[read[t] + 1]]
    BY <1>4, <2>1 DEF Take, TypeOK, Marked, Posted
  <2>4. ASSUME NEW u \in Threads, thr'[u].pc = "handle" PROVE processed'[InHand(u)']
    <3>1. CASE u = t BY <1>4, <2>3, <3>1 DEF Take, InHand, TypeOK
    <3>2. CASE u # t
      <4>1. thr'[u] = thr[u] /\ read'[u] = read[u] /\ sent' = sent BY <1>4, <3>2 DEF Take, TypeOK
      <4>2. InHand(u) \in Messages BY <2>4, <4>1, HandTypes DEF ReadsInv
      <4> QED BY <2>2, <2>4, <4>1, <4>2 DEF Marked, InHandMarked, InHand
    <3> QED BY <3>1, <3>2
  <2>5. Posted' BY <1>4 DEF Take, Marked, Posted
  <2>6. HandledIsMarked' BY <1>4, <2>2 DEF Take, Marked, HandledIsMarked, TypeOK
  <2> QED BY <2>4, <2>5, <2>6 DEF Marked, InHandMarked
<1>5. ASSUME NEW t \in Threads, Handle(t) \/ HandleRaises(t) PROVE Marked'
  <2>1. thr[t].pc = "handle" /\ handled' = handled \cup {InHand(t)} BY <1>5 DEF Handle, HandleRaises
  <2>2. UNCHANGED <<channel, read>> BY <1>5 DEF Handle, HandleRaises
  <2>3. \A u \in Threads : thr'[u].pc = "handle" => thr[u].pc = "handle"
    BY <1>5, AtFields DEF Handle, HandleRaises, TypeOK
  <2> QED BY <2>1, <2>2, <2>3 DEF channel, Marked, Posted, InHandMarked, HandledIsMarked, InHand
<1>6. ASSUME NEW m \in Messages, Log(m) \/ SendFails(m) PROVE Marked'
  BY <1>6 DEF Log, SendFails, Marked, Posted, InHandMarked, HandledIsMarked, InHand, TypeOK
<1>7. ASSUME NEW m \in Messages, Send(m) PROVE Marked'
  <2>1. Posted'
    <3>1. \A i \in 1..Len(sent) : sent[i] \in Messages /\ post'[sent[i]] # "new"
      BY <1>7 DEF Send, Marked, Posted, TypeOK
    <3> QED BY <1>7, <3>1, SendExtends DEF Send, Posted, TypeOK
  <2>2. \A t \in Threads : thr[t].pc = "handle" => InHand(t)' = InHand(t)
    BY <1>7, HandTypes, SendExtends DEF ReadsInv, InHand, Send
  <2> QED BY <1>7, <2>1, <2>2 DEF Send, Marked, InHandMarked, HandledIsMarked
<1> QED BY <1>1, <1>2, <1>3, <1>4, <1>5, <1>6, <1>7, LifeCycleAside DEF Next, Saving, Listening

\* Whatever is handled has its row marked.
THEOREM HandledMarked == Spec => []HandledIsMarked
<1>1. Init => TypedInv /\ Marked
  BY TypeInit, AtFields DEF Init, TypedInv, Marked, Posted, InHandMarked, HandledIsMarked
<1>2. TypedInv /\ Marked /\ [Next]_vars => (TypedInv /\ Marked)'
  BY TypeStep, ReadsStep, MarkedStep DEF TypedInv
<1>3. Marked => HandledIsMarked BY DEF Marked
<1> QED BY <1>1, <1>2, <1>3, PTL DEF Spec

\* A message that explains the mark of another's row.
Explains(n) ==
  n \in handled \cup cut \/ \E t \in Threads : thr[t].pc = "handle" /\ InHand(t) = n

\* An explanation lasts: from a thread's hand a message goes to the handled
\* ones, or is cut off.
LEMMA ExplanationLasts ==
  ASSUME TypedInv, [Next]_vars, NEW n \in Messages, Explains(n)
  PROVE  Explains(n)'
<1> USE DEF TypedInv
<1>0. SUFFICES ASSUME n \notin handled \cup cut, NEW t \in Threads,
                      thr[t].pc = "handle", InHand(t) = n
               PROVE Explains(n)'
  <2>1. handled \subseteq handled' /\ cut \subseteq cut'
    BY DEF Next, vars, Create, Crash, Start, Stop, Pause, Resume, Calls, Saving, SaveRead,
           SaveWrite, SaveFails, RunEnds, Listening, Subscribe, Take, Handle, HandleRaises,
           ListenFails, Log, Send, SendFails
  <2> QED BY <2>1 DEF Explains
<1>1. ASSUME thr'[t] = thr[t], read'[t] = read[t], sent' = sent PROVE Explains(n)'
  BY <1>0, <1>1 DEF Explains, InHand
<1>2. CASE UNCHANGED vars BY <1>1, <1>2 DEF vars, channel
<1>3. ASSUME NEW o \in Objects, Create(o) PROVE Explains(n)'
  BY <1>1, <1>3 DEF Create, channel
<1>4. ASSUME NEW o \in Objects, Crash(o) PROVE Explains(n)'
  <2>1. CASE Host[t] = o BY <1>0, <1>4, <2>1 DEF Crash, Explains
  <2>2. CASE Host[t] # o BY <1>1, <1>4, <2>2 DEF Crash, channel
  <2> QED BY <2>1, <2>2
<1>5. ASSUME NEW u \in Threads, Start(u) \/ Stop(u) \/ Pause(u) \/ Resume(u) PROVE Explains(n)'
  <2>1. u # t BY <1>0, <1>5 DEF Start, Stop, Pause, Resume, Calls
  <2>2. thr'[t] = thr[t] BY <1>5, <2>1 DEF Start, Stop, Pause, Resume, Calls, TypeOK
  <2> QED BY <1>1, <1>5, <2>2 DEF Start, Stop, Pause, Resume, Calls, channel
<1>6. ASSUME NEW u \in Threads, Saving(u) \/ RunEnds(u) PROVE Explains(n)'
  BY <1>0, <1>1, <1>6 DEF Saving, SaveRead, SaveWrite, SaveFails, RunEnds, channel, TypeOK
<1>7. ASSUME NEW u \in Threads, Subscribe(u) \/ Take(u) \/ ListenFails(u) PROVE Explains(n)'
  <2>1. u # t BY <1>0, <1>7 DEF Subscribe, Take, ListenFails
  <2>2. thr'[t] = thr[t] /\ read'[t] = read[t] /\ sent' = sent
    BY <1>7, <2>1 DEF Subscribe, Take, ListenFails, channel, TypeOK
  <2> QED BY <1>1, <2>2
<1>8. ASSUME NEW u \in Threads, Handle(u) \/ HandleRaises(u) PROVE Explains(n)'
  <2>1. CASE u = t BY <1>0, <1>8, <2>1 DEF Handle, HandleRaises, Explains
  <2>2. CASE u # t
    <3>1. thr'[t] = thr[t] /\ read'[t] = read[t] /\ sent' = sent
      BY <1>8, <2>2 DEF Handle, HandleRaises, channel, TypeOK
    <3> QED BY <1>1, <3>1
  <2> QED BY <2>1, <2>2
<1>9. ASSUME NEW m \in Messages, Log(m) \/ SendFails(m) PROVE Explains(n)'
  BY <1>1, <1>9 DEF Log, SendFails
<1>10. ASSUME NEW m \in Messages, Send(m) PROVE Explains(n)'
  <2>1. InHand(t)' = n
    BY <1>0, <1>10, HandTypes, SendExtends DEF Send, InHand, ReadsInv
  <2> QED BY <1>0, <1>10, <2>1 DEF Send, Explains
<1> QED BY <1>2, <1>3, <1>4, <1>5, <1>6, <1>7, <1>8, <1>9, <1>10 DEF Next, Listening

\* Only a listener that takes a message marks rows.
LEMMA OnlyTakeMarks ==
  ASSUME [Next]_vars, processed' # processed
  PROVE  \E t \in Threads : Take(t)
BY DEF Next, vars, channel, Create, Crash, Start, Stop, Pause, Resume, Calls, Saving, SaveRead,
       SaveWrite, SaveFails, RunEnds, Listening, Subscribe, Handle, HandleRaises, ListenFails,
       Log, Send, SendFails

\* Marks are accounted for, step by step.
LEMMA AccountedStep ==
  ASSUME TypedInv, ProcessedIsAccounted, [Next]_vars
  PROVE  ProcessedIsAccounted'
<1> USE DEF TypedInv
<1> SUFFICES ASSUME NEW m \in Messages, processed'[m]
             PROVE \E n \in Messages : Tag[n] = Tag[m] /\ Explains(n)'
  BY DEF ProcessedIsAccounted, Explains
<1>1. CASE processed[m]
  <2>1. PICK n \in Messages : Tag[n] = Tag[m] /\ Explains(n)
    BY <1>1 DEF ProcessedIsAccounted, Explains
  <2> QED BY <2>1, ExplanationLasts
<1>2. CASE ~processed[m]
  <2>1. PICK t \in Threads : Take(t) BY <1>2, OnlyTakeMarks
  <2>2. sent[read[t] + 1] \in Messages BY <2>1 DEF Take, TypeOK
  <2>3. Tag[sent[read[t] + 1]] = Tag[m] BY <1>2, <2>1 DEF Take, TypeOK
  <2>4. thr'[t].pc = "handle" /\ InHand(t)' = sent[read[t] + 1]
    BY <2>1, AtFields DEF Take, InHand, TypeOK
  <2> QED BY <2>2, <2>3, <2>4 DEF Explains
<1> QED BY <1>1, <1>2

\* processed says that some message of the conversation was handled, is in
\* hand, or was cut off.
THEOREM ProcessedAccounted == Spec => []ProcessedIsAccounted
<1>1. Init => TypedInv /\ ProcessedIsAccounted
  BY TypeInit DEF Init, TypedInv, ProcessedIsAccounted
<1>2. TypedInv /\ ProcessedIsAccounted /\ [Next]_vars => (TypedInv /\ ProcessedIsAccounted)'
  BY TypeStep, ReadsStep, AccountedStep DEF TypedInv
<1> QED BY <1>1, <1>2, PTL DEF Spec

-----------------------------------------------------------------------------
(* The life cycle, and the channel                                         *)

\* What DeafIsExplained says of one object.
Hears(o) ==
  obj[o].alive /\ obj[o].state = "RUNNING" =>
    why[o] # {} \/ \E t \in Threads : Host[t] = o /\ Listens(t)

\* The steps of a thread of another object do not matter; those of its own
\* keep a listener, or say why they do not.
LEMMA HearsStep ==
  ASSUME TypedInv, NEW o \in Objects, Hears(o), [Next]_vars
  PROVE  Hears(o)'
<1> USE DEF TypedInv
<1>1. ASSUME obj'[o] = obj[o], why[o] \subseteq why'[o],
             \A t \in Threads : Host[t] = o /\ Listens(t) => Listens(t)' \/ why'[o] # {}
      PROVE Hears(o)'
  BY <1>1 DEF Hears
<1>2. CASE UNCHANGED vars BY <1>1, <1>2 DEF vars, Listens
<1>3. ASSUME NEW p \in Objects, Create(p) PROVE Hears(o)'
  <2>1. CASE p = o BY <1>3, <2>1 DEF Create, Hears, Object, TypeOK
  <2>2. CASE p # o BY <1>1, <1>3, <2>2 DEF Create, Listens, TypeOK
  <2> QED BY <2>1, <2>2
<1>4. ASSUME NEW p \in Objects, Crash(p) PROVE Hears(o)'
  <2>1. CASE p = o BY <1>4, <2>1 DEF Crash, Hears, NoObject, TypeOK
  <2>2. CASE p # o BY <1>1, <1>4, <2>2 DEF Crash, Listens, TypeOK
  <2> QED BY <2>1, <2>2
<1>5. ASSUME NEW t \in Threads, Start(t) PROVE Hears(o)'
  <2>1. CASE Host[t] = o
    <3>1. Listens(t)' BY <1>5 DEF Start, Calls, Listens, TypeOK
    <3> QED BY <2>1, <3>1 DEF Hears
  <2>2. CASE Host[t] # o
    <3>1. obj'[o] = obj[o] /\ why'[o] = why[o]
          /\ \A u \in Threads : Host[u] = o => thr'[u] = thr[u]
      BY <1>5, <2>2 DEF Start, Calls, TypeOK
    <3> QED BY <1>1, <3>1 DEF Listens
  <2> QED BY <2>1, <2>2
<1>6. ASSUME NEW t \in Threads, Stop(t) \/ Pause(t) \/ Resume(t) PROVE Hears(o)'
  <2>1. CASE Host[t] = o
    <3>1. CASE Stop(t) \/ Pause(t)
      <4>1. obj'[o].state # "RUNNING" BY <2>1, <3>1 DEF Stop, Pause, Calls, Object, TypeOK
      <4> QED BY <4>1 DEF Hears
    <3>2. CASE Resume(t) BY <2>1, <3>2 DEF Resume, Hears, TypeOK
    <3> QED BY <1>6, <3>1, <3>2
  <2>2. CASE Host[t] # o
    <3>1. obj'[o] = obj[o] /\ why'[o] = why[o]
          /\ \A u \in Threads : Host[u] = o => thr'[u] = thr[u]
      BY <1>6, <2>2 DEF Stop, Pause, Resume, Calls, TypeOK
    <3> QED BY <1>1, <3>1 DEF Listens
  <2> QED BY <2>1, <2>2
<1>7. ASSUME NEW t \in Threads, SaveRead(t) PROVE Hears(o)'
  BY <1>1, <1>7, AtFields DEF SaveRead, Listens, TypeOK
<1>8. ASSUME NEW t \in Threads, SaveWrite(t) PROVE Hears(o)'
  <2>1. Listens(t) => Listens(t)' BY <1>8, AtFields DEF SaveWrite, Listens, TypeOK
  <2> QED BY <1>1, <1>8, <2>1 DEF SaveWrite, Listens, TypeOK
<1>9. ASSUME NEW t \in Threads, SaveFails(t) \/ ListenFails(t) PROVE Hears(o)'
  <2>1. \A u \in Threads : u # t => thr'[u] = thr[u]
    BY <1>9 DEF SaveFails, ListenFails, TypeOK
  <2>2. obj' = obj /\ \E x : why' = [why EXCEPT ![Host[t]] = why[Host[t]] \cup {x}]
    BY <1>9 DEF SaveFails, ListenFails
  <2>3. PICK x : why' = [why EXCEPT ![Host[t]] = why[Host[t]] \cup {x}]
    BY <2>2
  <2>4. why'[o] = IF Host[t] = o THEN why[o] \cup {x} ELSE why[o]
    BY <2>3 DEF TypeOK
  <2> QED BY <1>1, <2>1, <2>2, <2>4 DEF Listens
<1>10. ASSUME NEW t \in Threads, RunEnds(t) PROVE Hears(o)'
  BY <1>1, <1>10 DEF RunEnds, Listens, TypeOK
<1>11. ASSUME NEW t \in Threads, Subscribe(t) \/ Take(t) \/ Handle(t) \/ HandleRaises(t)
       PROVE Hears(o)'
  <2>1. Listens(t)'
    BY <1>11, AtFields DEF Subscribe, Take, Handle, HandleRaises, Listens, TypeOK
  <2>2. \A u \in Threads : u # t => thr'[u] = thr[u]
    BY <1>11 DEF Subscribe, Take, Handle, HandleRaises, TypeOK
  <2>3. obj'[o] = obj[o] \/ Host[t] = o
    BY <1>11 DEF Subscribe, Take, Handle, HandleRaises, TypeOK
  <2>4. why' = why BY <1>11 DEF Subscribe, Take, Handle, HandleRaises
  <2>5. CASE Host[t] = o BY <2>1, <2>5 DEF Hears
  <2>6. CASE Host[t] # o BY <1>1, <2>2, <2>3, <2>4, <2>6 DEF Listens
  <2> QED BY <2>5, <2>6
<1>12. ASSUME NEW m \in Messages, Log(m) \/ Send(m) \/ SendFails(m) PROVE Hears(o)'
  BY <1>1, <1>12 DEF Log, Send, SendFails, Listens
<1> QED BY <1>2, <1>3, <1>4, <1>5, <1>6, <1>7, <1>8, <1>9, <1>10, <1>11, <1>12
        DEF Next, Saving, Listening

\* An object that says RUNNING and does not listen has one of the reasons.
THEOREM DeafExplained == Spec => []DeafIsExplained
<1>1. Init => TypedInv /\ DeafIsExplained
  BY TypeInit DEF Init, TypedInv, DeafIsExplained, NoObject
<1>2. DeafIsExplained <=> \A o \in Objects : Hears(o) BY DEF DeafIsExplained, Hears
<1>3. TypedInv /\ DeafIsExplained /\ [Next]_vars => (TypedInv /\ DeafIsExplained)'
  <2>1. ASSUME TypedInv, \A o \in Objects : Hears(o), [Next]_vars
        PROVE \A o \in Objects : Hears(o)'
    BY <2>1, HearsStep
  <2> QED BY <1>2, <2>1, TypeStep, ReadsStep DEF TypedInv, DeafIsExplained, Hears
<1> QED BY <1>1, <1>3, PTL DEF Spec

\* Every step is one of the channel's, or leaves it as it is.
LEMMA ChannelStep == ASSUME TypedInv, [Next]_vars PROVE [Channel!Next]_(Channel!vars)
<1> USE DEF TypedInv
<1>1. ASSUME UNCHANGED <<sent, done>> PROVE [Channel!Next]_(Channel!vars)
  BY <1>1 DEF Channel!vars
<1>2. ASSUME NEW t \in Threads, Subscribe(t) PROVE [Channel!Next]_(Channel!vars)
  <2>1. Channel!Join(t) BY <1>2 DEF Subscribe, channel, Channel!Join
  <2> QED BY <2>1 DEF Channel!Next
<1>3. ASSUME NEW t \in Threads, Handle(t) \/ HandleRaises(t) PROVE [Channel!Next]_(Channel!vars)
  <2>1. read[t] \in (done[t].at + 1)..Len(sent)
    BY <1>3 DEF Handle, HandleRaises, ReadsInv, Reads, TypeOK
  <2>2. Channel!Hand(t)
    BY <1>3, <2>1 DEF Handle, HandleRaises, channel, Channel!Hand
  <2> QED BY <2>2 DEF Channel!Next
<1>4. ASSUME NEW m \in Messages, Send(m) PROVE [Channel!Next]_(Channel!vars)
  <2>1. Channel!Publish(m) BY <1>4 DEF Send, Channel!Publish
  <2> QED BY <2>1 DEF Channel!Next
<1> QED BY <1>1, <1>2, <1>3, <1>4
        DEF Next, vars, channel, Create, Crash, Start, Stop, Pause, Resume, Calls, Saving,
            SaveRead, SaveWrite, SaveFails, RunEnds, Listening, Take, ListenFails, Log, SendFails

\* The bus delivers as Delivery says.
THEOREM ImplementsDelivery == Spec => DeliverySpec
<1>1. Init => TypedInv /\ Channel!Init BY TypeInit DEF Init, TypedInv, Channel!Init
<1>2. TypedInv /\ [Next]_vars => TypedInv' BY TypeStep, ReadsStep DEF TypedInv
<1>3. TypedInv /\ [Next]_vars => [Channel!Next]_(Channel!vars) BY ChannelStep
<1> QED BY <1>1, <1>2, <1>3, PTL DEF Spec, DeliverySpec, Channel!Spec

\* What Delivery says implies that no subscription is handed more messages
\* than were sent, nor one that was not: true of this bus, and of any channel
\* that implements Delivery (messaging.py:46-67).
THEOREM NoneTwice ==
  DeliverySpec => [](\A t \in Threads : done[t].n <= done[t].at /\ done[t].at <= Len(sent))
<1> DEFINE Counts == \A t \in Threads : done[t].n <= done[t].at /\ done[t].at <= Len(sent)
           Inv == Channel!TypeOK /\ Counts
<1>1. Channel!Init => Inv
  BY DEF Channel!Init, Channel!TypeOK
<1>2. Inv /\ [Channel!Next]_(Channel!vars) => Inv'
  <2> SUFFICES ASSUME Inv, [Channel!Next]_(Channel!vars) PROVE Inv'
    OBVIOUS
  <2>1. CASE UNCHANGED Channel!vars
    BY <2>1 DEF Channel!vars, Channel!TypeOK
  <2>2. ASSUME NEW m \in Messages, Channel!Publish(m) PROVE Inv'
    <3>1. sent' \in Seq(Messages) /\ Len(sent') = Len(sent) + 1 /\ Len(sent) \in Nat
      BY <2>2 DEF Channel!Publish, Channel!TypeOK
    <3>2. done' = done
      BY <2>2 DEF Channel!Publish
    <3> QED BY <3>1, <3>2 DEF Channel!TypeOK
  <2>3. ASSUME NEW t \in Threads, Channel!Join(t) \/ Channel!Hand(t) PROVE Inv'
    <3>1. Len(sent) \in Nat /\ sent' = sent
      BY <2>3 DEF Channel!Join, Channel!Hand, Channel!TypeOK
    <3>2. PICK at \in Nat, n \in Nat :
            n <= at /\ at <= Len(sent) /\ done' = [done EXCEPT ![t] = [at |-> at, n |-> n]]
      <4>1. CASE Channel!Join(t)
        <5>1. done' = [done EXCEPT ![t] = [at |-> Len(sent), n |-> 0]]
          BY <4>1 DEF Channel!Join
        <5>2. 0 \in Nat /\ 0 <= Len(sent) /\ Len(sent) <= Len(sent)
          BY <3>1
        <5> QED BY <3>1, <5>1, <5>2
      <4>2. CASE Channel!Hand(t)
        <5>1. done[t].at \in Nat /\ done[t].n \in Nat /\ done[t].n <= done[t].at
          BY DEF Channel!TypeOK
        <5>2. PICK i \in (done[t].at + 1)..Len(sent) :
                done' = [done EXCEPT ![t] = [at |-> i, n |-> done[t].n + 1]]
          BY <4>2 DEF Channel!Hand
        <5>3. i \in Nat /\ done[t].n + 1 \in Nat /\ done[t].n + 1 <= i /\ i <= Len(sent)
          BY <3>1, <5>1
        <5> QED BY <5>2, <5>3
      <4> QED BY <2>3, <4>1, <4>2
    <3> QED BY <3>1, <3>2 DEF Channel!TypeOK
  <2> QED BY <2>1, <2>2, <2>3 DEF Channel!Next
<1> QED BY <1>1, <1>2, PTL DEF DeliverySpec, Channel!Spec

=============================================================================
