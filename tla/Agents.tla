------------------------------- MODULE Agents -------------------------------
(***************************************************************************)
(* One agent of src/agents: its AgentStatus row, the BaseAgent objects     *)
(* that run it, the threads that call them, and the messages other agents  *)
(* publish for it through the MessageBus (a row, then a Redis channel).    *)
(*                                                                         *)
(* subscribe() listens in the caller's thread for ever, so start() never   *)
(* reaches its heartbeat and run(): they are not steps here.  The error    *)
(* text that goes with the state, and the log, are left out.               *)
(***************************************************************************)
EXTENDS Naturals, Sequences

CONSTANTS
  Objects,    \* BaseAgent objects of the agent, one in a process
  Threads,    \* threads that call them
  Host,       \* the object each thread calls
  Messages,   \* messages published for the agent
  Tags,       \* senders with their correlation ids
  Tag,        \* that of each message: those of one conversation share it
  MaxCalls    \* bound: calls made to an object between its making and its end

ASSUME HostAssumption == Host \in [Threads -> Objects]
ASSUME TagAssumption == Tag \in [Messages -> Tags]
ASSUME CallsAssumption == MaxCalls \in Nat

VARIABLES
  row,        \* AgentStatus.state
  obj,        \* each object's status.state and _running, and calls so far
  thr,        \* the call each thread is in
  post,       \* how far each message has come
  processed,  \* AgentMessage.processed of its row
  sent,       \* the messages on the channel, in order
  read,       \* position on the channel of the last one a listener took
  done,       \* history: position of the last one its callback was given, and
              \* how many it was given since it subscribed
  handled,    \* history: messages some callback was given
  cut,        \* history: messages in hand when their process died
  why         \* history: why an object that says RUNNING may not listen

vars == <<row, obj, thr, post, processed, sent, read, done, handled, cut, why>>
channel == <<post, processed, sent>>

States == {"IDLE", "RUNNING", "PAUSED", "ERROR", "STOPPED"}
NoObject == [state |-> "IDLE", running |-> FALSE, calls |-> 0, alive |-> FALSE]
Object(state, running, calls) ==
  [state |-> state, running |-> running, calls |-> calls, alive |-> TRUE]
ObjectStates == [state : States, running : BOOLEAN, calls : 0..MaxCalls, alive : BOOLEAN]

\* "write": save() has read the state it is about to write; then the thread
\* goes on to "goes": back, to subscribe, to listen, or to the run() loop.
Saves(goes, v) == [pc |-> "write", goes |-> goes, v |-> v]
At(pc) == [pc |-> pc, goes |-> "idle", v |-> "IDLE"]
ThreadStates == [pc : {"idle", "save", "write", "subscribe", "listen", "handle", "run"},
                 goes : {"idle", "subscribe", "listen", "run"}, v : States]

Posts == {"new", "logged", "sent", "failed"}
Reasons == {"created so", "save failed", "listener died", "resumed"}

TypeOK ==
  /\ row \in States
  /\ obj \in [Objects -> ObjectStates]
  /\ thr \in [Threads -> ThreadStates]
  /\ post \in [Messages -> Posts]
  /\ processed \in [Messages -> BOOLEAN]
  /\ sent \in Seq(Messages)
  /\ read \in [Threads -> Nat]
  /\ done \in [Threads -> [at : Nat, n : Nat]]
  /\ handled \subseteq Messages
  /\ cut \subseteq Messages
  /\ why \in [Objects -> SUBSET Reasons]

Init ==
  /\ row \in States
  /\ obj = [o \in Objects |-> NoObject]
  /\ thr = [t \in Threads |-> At("idle")]
  /\ post = [m \in Messages |-> "new"]
  /\ processed = [m \in Messages |-> FALSE]
  /\ sent = <<>>
  /\ read = [t \in Threads |-> 0]
  /\ done = [t \in Threads |-> [at |-> 0, n |-> 0]]
  /\ handled = {}
  /\ cut = {}
  /\ why = [o \in Objects |-> {}]

-----------------------------------------------------------------------------
(* The life cycle                                                          *)

\* BaseAgent(): the object has the state the row has now.
Create(o) ==
  /\ ~obj[o].alive
  /\ obj' = [obj EXCEPT ![o] = Object(row, FALSE, 0)]
  /\ why' = [why EXCEPT ![o] = IF row = "RUNNING" THEN {"created so"} ELSE {}]
  /\ UNCHANGED <<row, thr, channel, read, done, handled, cut>>

\* A call by an idle thread sets the object's state, then saves it.
Calls(t, state, running, goes) ==
  LET o == Host[t] IN
  /\ obj[o].alive
  /\ obj[o].calls < MaxCalls
  /\ thr[t].pc = "idle"
  /\ obj' = [obj EXCEPT ![o] = Object(state, running, obj[o].calls + 1)]
  /\ thr' = [thr EXCEPT ![t] = [pc |-> "save", goes |-> goes, v |-> "IDLE"]]
  /\ UNCHANGED <<row, channel, read, done, handled, cut>>

\* start() does nothing when the object says RUNNING; _running is set later.
Start(t) ==
  /\ obj[Host[t]].state # "RUNNING"
  /\ Calls(t, "RUNNING", obj[Host[t]].running, "subscribe")
  /\ why' = [why EXCEPT ![Host[t]] = {}]

\* stop() and pause(): neither ends a subscription.
Stop(t) == Calls(t, "STOPPED", FALSE, "idle") /\ UNCHANGED why
Pause(t) == Calls(t, "PAUSED", FALSE, "idle") /\ UNCHANGED why

\* resume() runs the run() loop, and subscribes nothing.
Resume(t) ==
  /\ Calls(t, "RUNNING", TRUE, "run")
  /\ why' = [why EXCEPT ![Host[t]] = @ \cup {"resumed"}]

\* save() reads the state of the shared object, then updates the row with it.
SaveRead(t) ==
  /\ thr[t].pc = "save"
  /\ thr' = [thr EXCEPT ![t] = Saves(thr[t].goes, obj[Host[t]].state)]
  /\ UNCHANGED <<row, obj, channel, read, done, handled, cut, why>>

SaveWrite(t) ==
  /\ thr[t].pc = "write"
  /\ row' = thr[t].v
  /\ thr' = [thr EXCEPT ![t] = At(thr[t].goes)]
  /\ UNCHANGED <<obj, channel, read, done, handled, cut, why>>

\* It may raise: the call is over, the object keeps the state it was given.
SaveFails(t) ==
  /\ thr[t].pc = "write"
  /\ thr' = [thr EXCEPT ![t] = At("idle")]
  /\ why' = [why EXCEPT ![Host[t]] = @ \cup {"save failed"}]
  /\ UNCHANGED <<row, obj, channel, read, done, handled, cut>>

RunEndsByRow(t) ==                \* mutant: the loop reads the row instead
  /\ thr[t].pc = "run"
  /\ row # "RUNNING"
  /\ thr' = [thr EXCEPT ![t] = At("idle")]
  /\ UNCHANGED <<row, obj, channel, read, done, handled, cut, why>>

\* The loop of every run(): it sleeps while _running.
RunEnds(t) ==
  /\ thr[t].pc = "run"
  /\ ~obj[Host[t]].running
  /\ thr' = [thr EXCEPT ![t] = At("idle")]
  /\ UNCHANGED <<row, obj, channel, read, done, handled, cut, why>>

InHand(t) == sent[read[t]]

\* The process of an object dies.
Crash(o) ==
  /\ obj[o].alive
  /\ obj' = [obj EXCEPT ![o] = NoObject]
  /\ thr' = [t \in Threads |-> IF Host[t] = o THEN At("idle") ELSE thr[t]]
  /\ cut' = cut \cup {InHand(t) : t \in {u \in Threads : Host[u] = o /\ thr[u].pc = "handle"}}
  /\ UNCHANGED <<row, channel, read, done, handled, why>>

-----------------------------------------------------------------------------
(* Messages                                                                *)

LogProcessed(m) ==                \* mutant: the row starts as processed
  /\ post[m] = "new"
  /\ post' = [post EXCEPT ![m] = "logged"]
  /\ processed' = [processed EXCEPT ![m] = TRUE]
  /\ UNCHANGED <<row, obj, thr, sent, read, done, handled, cut, why>>

\* publish(): the row of the message first, then the channel.
Log(m) ==
  /\ post[m] = "new"
  /\ post' = [post EXCEPT ![m] = "logged"]
  /\ UNCHANGED <<row, obj, thr, processed, sent, read, done, handled, cut, why>>

SendUnlogged(m) ==                \* mutant: the channel first, then the row
  /\ post[m] \in {"new", "logged"}
  /\ post' = [post EXCEPT ![m] = IF @ = "new" THEN "new" ELSE "sent"]
  /\ sent' = IF \E i \in DOMAIN sent : sent[i] = m THEN sent ELSE Append(sent, m)
  /\ UNCHANGED <<row, obj, thr, processed, read, done, handled, cut, why>>

\* Redis hands it to those who listen now, and keeps nothing.
Send(m) ==
  /\ post[m] = "logged"
  /\ post' = [post EXCEPT ![m] = "sent"]
  /\ sent' = Append(sent, m)
  /\ UNCHANGED <<row, obj, thr, processed, read, done, handled, cut, why>>

\* Redis cannot be reached, or the sender dies: the row stays.
SendFails(m) ==
  /\ post[m] = "logged"
  /\ post' = [post EXCEPT ![m] = "failed"]
  /\ UNCHANGED <<row, obj, thr, processed, sent, read, done, handled, cut, why>>

SubscribeOnce(t) ==               \* mutant: it polls the channel once, and returns
  /\ thr[t].pc = "subscribe"
  /\ obj' = [obj EXCEPT ![Host[t]].running = TRUE]
  /\ thr' = [thr EXCEPT ![t] = At("idle")]
  /\ UNCHANGED <<row, channel, read, done, handled, cut, why>>

\* start() again: _running, and a subscription that begins here.
Subscribe(t) ==
  /\ thr[t].pc = "subscribe"
  /\ obj' = [obj EXCEPT ![Host[t]].running = TRUE]
  /\ thr' = [thr EXCEPT ![t] = At("listen")]
  /\ read' = [read EXCEPT ![t] = Len(sent)]
  /\ done' = [done EXCEPT ![t] = [at |-> Len(sent), n |-> 0]]
  /\ UNCHANGED <<row, channel, handled, cut, why>>

\* The listener takes the next message and marks every row that has its
\* sender and correlation id, before the callback.
Take(t) ==
  /\ thr[t].pc = "listen"
  /\ read[t] < Len(sent)
  /\ read' = [read EXCEPT ![t] = @ + 1]
  /\ processed' = [m \in Messages |->
       processed[m] \/ (post[m] # "new" /\ Tag[m] = Tag[sent[read[t] + 1]])]
  /\ thr' = [thr EXCEPT ![t] = At("handle")]
  /\ UNCHANGED <<row, obj, post, sent, done, handled, cut, why>>

\* handle_message: the callback ends, and the thread listens again.
Handle(t) ==
  /\ thr[t].pc = "handle"
  /\ done' = [done EXCEPT ![t] = [at |-> read[t], n |-> done[t].n + 1]]
  /\ handled' = handled \cup {InHand(t)}
  /\ thr' = [thr EXCEPT ![t] = At("listen")]
  /\ UNCHANGED <<row, obj, channel, read, cut, why>>

HandleRequeued(t) ==              \* mutant: a message that raises is put back
  /\ thr[t].pc = "handle"
  /\ done' = [done EXCEPT ![t] = [at |-> read[t], n |-> done[t].n + 1]]
  /\ handled' = handled \cup {InHand(t)}
  /\ obj' = [obj EXCEPT ![Host[t]].state = "ERROR"]
  /\ read' = [read EXCEPT ![t] = @ - 1]
  /\ thr' = [thr EXCEPT ![t] = [pc |-> "save", goes |-> "listen", v |-> "IDLE"]]
  /\ UNCHANGED <<row, channel, cut, why>>

HandlePutBack(t) ==               \* mutant: the same, and it does not count
  /\ thr[t].pc = "handle"
  /\ obj' = [obj EXCEPT ![Host[t]].state = "ERROR"]
  /\ read' = [read EXCEPT ![t] = @ - 1]
  /\ thr' = [thr EXCEPT ![t] = [pc |-> "save", goes |-> "listen", v |-> "IDLE"]]
  /\ UNCHANGED <<row, channel, done, handled, cut, why>>

HandleRaisesUnlisted(t) ==        \* mutant: a state that is none of AgentStatus's choices
  /\ thr[t].pc = "handle"
  /\ done' = [done EXCEPT ![t] = [at |-> read[t], n |-> done[t].n + 1]]
  /\ handled' = handled \cup {InHand(t)}
  /\ obj' = [obj EXCEPT ![Host[t]].state = "FAILED"]
  /\ thr' = [thr EXCEPT ![t] = [pc |-> "save", goes |-> "listen", v |-> "IDLE"]]
  /\ UNCHANGED <<row, channel, read, cut, why>>

\* Its exception becomes the object's state.
HandleRaises(t) ==
  /\ thr[t].pc = "handle"
  /\ done' = [done EXCEPT ![t] = [at |-> read[t], n |-> done[t].n + 1]]
  /\ handled' = handled \cup {InHand(t)}
  /\ obj' = [obj EXCEPT ![Host[t]].state = "ERROR"]
  /\ thr' = [thr EXCEPT ![t] = [pc |-> "save", goes |-> "listen", v |-> "IDLE"]]
  /\ UNCHANGED <<row, channel, read, cut, why>>

\* The connection breaks, or the UPDATE raises: subscribe() raises.
ListenFails(t) ==
  /\ thr[t].pc = "listen"
  /\ thr' = [thr EXCEPT ![t] = At("idle")]
  /\ why' = [why EXCEPT ![Host[t]] = @ \cup {"listener died"}]
  /\ UNCHANGED <<row, obj, channel, read, done, handled, cut>>

-----------------------------------------------------------------------------
Saving(t) == SaveRead(t) \/ SaveWrite(t) \/ SaveFails(t)
Listening(t) == Subscribe(t) \/ Take(t) \/ Handle(t) \/ HandleRaises(t) \/ ListenFails(t)

Next ==
  \/ \E o \in Objects : Create(o) \/ Crash(o)
  \/ \E t \in Threads : \/ Start(t) \/ Stop(t) \/ Pause(t) \/ Resume(t)
                        \/ Saving(t) \/ RunEnds(t) \/ Listening(t)
  \/ \E m \in Messages : Log(m) \/ Send(m) \/ SendFails(m)

\* A thread goes on; nobody has to call, to publish, or to crash.
Fairness == \A t \in Threads : WF_vars(Saving(t)) /\ WF_vars(RunEnds(t)) /\ WF_vars(Listening(t))

Spec == Init /\ [][Next]_vars /\ Fairness

-----------------------------------------------------------------------------
(* Properties                                                              *)

\* A row is marked processed only for a message that has its tag
\* and was given to a callback, is about to be, or was in hand when its
\* process died (messaging.py:59-67): processed does not say that the message
\* itself was handled, and this is all that it says.
ProcessedIsAccounted ==
  \A m \in Messages : processed[m] =>
    \E n \in Messages :
      /\ Tag[n] = Tag[m]
      /\ \/ n \in handled \cup cut
         \/ \E t \in Threads : thr[t].pc = "handle" /\ InHand(t) = n

\* A message that was given to a callback is marked, whoever published it
\* and whatever died: its row was there before the channel had it
\* (messaging.py:27-46).
HandledIsMarked == \A m \in handled : processed[m]

\* Thread t is, or is about to be, in subscribe().
Listens(t) ==
  \/ thr[t].pc \in {"subscribe", "listen", "handle"}
  \/ thr[t].pc \in {"save", "write"} /\ thr[t].goes \in {"subscribe", "listen"}

\* An object says RUNNING, so that start() does nothing, and no thread of it
\* listens or is about to: only because it was created so (the row of an
\* agent whose process died says RUNNING for ever), a save or the listener
\* failed, or it was resumed (base_agent.py:22-35, 54-59).
DeafIsExplained ==
  \A o \in Objects : obj[o].alive /\ obj[o].state = "RUNNING" =>
    why[o] # {} \/ \E t \in Threads : Host[t] = o /\ Listens(t)

\* The channel delivers as a channel should, whatever threads subscribe,
\* fail and die: in order, no message twice to one subscription, none that
\* is older than it (messaging.py:46-67).
Channel == INSTANCE Delivery WITH Listeners <- Threads, sent <- sent, upTo <- done
DeliverySpec == Channel!Spec

\* Once nobody resumes an object that was stopped or paused, its run() loop
\* ends, even if the save that should say so fails (base_agent.py:40-51).
StoppedLoopsEnd ==
  \A t \in Threads :
    thr[t].pc = "run" /\ ~obj[Host[t]].running ~> thr[t].pc # "run" \/ obj[Host[t]].running

\* A listener comes to the end of what is on its channel, or ends, whatever
\* its callbacks do (messaging.py:56-67, base_agent.py:76-84).
ListenersKeepUp ==
  \A t \in Threads : thr[t].pc = "listen" ~> thr[t].pc = "idle" \/ read[t] = Len(sent)

\* stop() is documented to stop the agent (base_agent.py:41): it would take
\* no message then.
StoppedTakesNothing ==
  [][\A t \in Threads : Take(t) => obj[Host[t]].running]_vars

=============================================================================
