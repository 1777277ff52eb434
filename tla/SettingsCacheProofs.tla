------------------------- MODULE SettingsCacheProofs -------------------------
(***************************************************************************)
(* Proofs about SettingsCache, for any processes, threads and values.      *)
(***************************************************************************)
EXTENDS SettingsCache, TLAPS

\* What a reader is about to cache is current, or it was overtaken; what an
\* update is about to save again is a value.
CallInv(t) ==
  /\ op[t].pc = "fill" => Current(op[t].val) \/ op[t].why # "none"
  /\ op[t].pc = "again" => op[t].val \in Values
CallsInv == \A t \in Threads : CallInv(t)

\* The same once the row has been written: no reader's value may be current.
Warned(t) ==
  /\ op[t].pc = "fill" => op[t].why # "none"
  /\ op[t].pc = "again" => op[t].val \in Values

\* What StaleIsExplained says of one process.
Explained(p) ==
  cache[p] # Empty => Current(cache[p].val) \/ cache[p].why # "none" \/ Pending(p)

Inv == TypeOK /\ CallsInv /\ StaleIsExplained

-----------------------------------------------------------------------------
(* Typing                                                                  *)

\* The fields of a call that has just begun.
LEMMA CallFields ==
  ASSUME NEW pc, NEW val, NEW keep
  PROVE  /\ Call(pc, val, keep).pc = pc /\ Call(pc, val, keep).val = val
         /\ Call(pc, val, keep).why = "none"
  BY DEF Call

LEMMA CallType ==
  ASSUME NEW pc \in {"idle", "query", "fill", "again", "clear"},
         NEW val \in Values \cup {Nothing}, NEW keep \in BOOLEAN
  PROVE  Call(pc, val, keep) \in Calls
  BY DEF Call, Calls

\* A thread that is done.
LEMMA IdleType == Idle \in Calls /\ Idle.pc = "idle"
  BY DEF Idle, Call, Calls

\* An entry is empty, or has a value and an excuse.
LEMMA EntryFields ==
  ASSUME NEW e \in Entries
  PROVE  /\ e = Empty \/ (e.val \in Values /\ e.why \in Excuses \cup {"none"})
         /\ e # Empty => \A why \in Excuses : [e EXCEPT !.why = why] \in Entries
  BY DEF Entries, Empty

\* What readers have in hand when the row is written.
LEMMA OvertakenType ==
  ASSUME TypeOK
  PROVE  /\ Overtaken \in [Threads -> Calls]
         /\ \A t \in Threads : /\ Overtaken[t].pc = op[t].pc
                               /\ op[t].pc = "fill" => Overtaken[t].why = "overlap"
             /\ Overtaken[t].val = op[t].val
                               /\ Overtaken[t].val = op[t].val
<1>1. ASSUME NEW t \in Threads
      PROVE  /\ Overtaken[t] \in Calls
             /\ Overtaken[t].pc = op[t].pc
             /\ op[t].pc = "fill" => Overtaken[t].why = "overlap"
             /\ Overtaken[t].val = op[t].val
  <2>1. op[t] \in Calls
    BY DEF TypeOK
  <2>2. "overlap" \in Excuses \cup {"none"}
    BY DEF Excuses
  <2>3. Overtaken[t] = IF op[t].pc = "fill" THEN [op[t] EXCEPT !.why = "overlap"] ELSE op[t]
    BY DEF Overtaken
  <2>4. QED
    BY <2>1, <2>2, <2>3 DEF Calls
<1>2. Overtaken \in [Threads -> Calls]
  BY <1>1 DEF Overtaken
<1>3. QED
  BY <1>1, <1>2

\* A write of the row keeps the types, and touches the entries it should.
LEMMA WritesEntries ==
  ASSUME TypeOK, NEW new \in Rows, NEW apart, NEW why \in Excuses, Writes(new, apart, why)
  PROVE  /\ row' \in Rows /\ cache' \in [Procs -> Entries]
         /\ \A p \in Procs : p \in apart /\ cache'[p] # Empty => cache'[p].why = why
         /\ \A p \in Procs \ apart : cache'[p] = cache[p]
<1>1. ASSUME NEW p \in Procs
      PROVE  /\ cache'[p] \in Entries
             /\ p \in apart /\ cache'[p] # Empty => cache'[p].why = why
             /\ p \notin apart => cache'[p] = cache[p]
  <2>1. cache[p] \in Entries
    BY DEF TypeOK
  <2>2. cache'[p] = IF p \in apart /\ cache[p] # Empty
                    THEN [cache[p] EXCEPT !.why = why] ELSE cache[p]
    BY DEF Writes
  <2>3. cache[p] # Empty => [cache[p] EXCEPT !.why = why].why = why
    BY <2>1 DEF Entries
  <2>4. QED
    BY <2>1, <2>2, <2>3, EntryFields
<1>2. QED
  BY <1>1 DEF Writes

\* The rows that updates write.
LEMMA UpdatedRow ==
  ASSUME TypeOK, NEW v \in Values
  PROVE  /\ [val |-> v, active |-> row = NoRow \/ row.active] \in Rows
         /\ row # NoRow => [row EXCEPT !.val = v] \in Rows
<1>1. row = NoRow \/ row \in [val : Values, active : BOOLEAN]
  BY DEF TypeOK, Rows
<1>2. (row = NoRow \/ row.active) \in BOOLEAN
  OBVIOUS
<1>3. [val |-> v, active |-> row = NoRow \/ row.active] \in [val : Values, active : BOOLEAN]
  BY <1>2
<1>4. row # NoRow => [row EXCEPT !.val = v] \in [val : Values, active : BOOLEAN]
  BY <1>1
<1>5. QED
  BY <1>3, <1>4 DEF Rows

-----------------------------------------------------------------------------
(* Steps that write the row                                                *)

\* Whoever writes the row overtakes the readers, excuses the entries it does
\* not delete, and will delete the one it should.
LEMMA WriteKeepsInv ==
  ASSUME Inv, NEW new \in Rows, NEW apart, NEW why \in Excuses, Writes(new, apart, why),
         op' \in [Threads -> Calls],
         \A u \in Threads : Warned(u)',
         \A p \in Procs \ apart : Pending(p)'
  PROVE  Inv'
<1>0. TypeOK
  BY DEF Inv
<1>1. TypeOK'
  BY <1>0, WritesEntries DEF TypeOK
<1>2. CallsInv'
  BY DEF CallsInv, CallInv, Warned
<1>3. ASSUME NEW p \in Procs, cache'[p] # Empty, p \in apart PROVE cache'[p].why # "none"
  BY <1>0, <1>3, WritesEntries DEF Excuses
<1>4. StaleIsExplained'
  BY <1>3 DEF StaleIsExplained
<1>5. QED
  BY <1>1, <1>2, <1>4 DEF Inv

LEMMA SetFirstKeepsInv ==
  ASSUME Inv, NEW t \in Threads, NEW v \in Values, SetFirst(t, v)
  PROVE  Inv'
<1> DEFINE pc == IF row = NoRow THEN "clear" ELSE "again"
           new == [val |-> v, active |-> row = NoRow \/ row.active]
<1>0. TypeOK
  BY DEF Inv
<1>1. op' = [Overtaken EXCEPT ![t] = Call(pc, v, FALSE)] /\ Writes(new, Others(t), "elsewhere")
  BY DEF SetFirst
<1>2. /\ Call(pc, v, FALSE) \in Calls /\ Call(pc, v, FALSE).pc \in {"again", "clear"}
      /\ Call(pc, v, FALSE).val = v
  BY DEF Call, Calls
<1>3. op' \in [Threads -> Calls] /\ op'[t].pc \in {"again", "clear"}
  BY <1>0, <1>1, <1>2, OvertakenType
<1>4. \A u \in Threads : Warned(u)'
  BY <1>0, <1>1, <1>2, <1>3, OvertakenType DEF Inv, CallsInv, CallInv, Warned
<1>5. \A p \in Procs \ Others(t) : Pending(p)'
  BY <1>3 DEF Others, Pending
<1>6. new \in Rows /\ "elsewhere" \in Excuses
  BY <1>0, UpdatedRow DEF Excuses
<1> HIDE DEF new
<1>7. QED
  BY <1>1, <1>3, <1>4, <1>5, <1>6, WriteKeepsInv

LEMMA SetAgainKeepsInv ==
  ASSUME Inv, NEW t \in Threads, SetAgain(t)
  PROVE  Inv'
<1> DEFINE new == [row EXCEPT !.val = op[t].val]
<1>0. TypeOK
  BY DEF Inv
<1>a. op[t].val \in Values
  BY DEF SetAgain, Inv, CallsInv, CallInv
<1>1. /\ op' = [Overtaken EXCEPT ![t].pc = "clear"]
      /\ Writes(new, Others(t), "elsewhere")
      /\ row # NoRow
  BY DEF SetAgain
<1>2. Overtaken[t] \in Calls
  BY <1>0, OvertakenType
<1>3. /\ [Overtaken[t] EXCEPT !.pc = "clear"] \in Calls
      /\ [Overtaken[t] EXCEPT !.pc = "clear"].pc = "clear"
  BY <1>2 DEF Calls
<1>4. op' = [Overtaken EXCEPT ![t] = [Overtaken[t] EXCEPT !.pc = "clear"]]
  BY <1>0, <1>1, OvertakenType
<1>5. op' \in [Threads -> Calls] /\ op'[t].pc = "clear"
  BY <1>0, <1>3, <1>4, OvertakenType
<1>6. \A u \in Threads : Warned(u)'
  BY <1>0, <1>4, <1>5, OvertakenType DEF Inv, CallsInv, CallInv, Warned
<1>7. \A p \in Procs \ Others(t) : Pending(p)'
  BY <1>5 DEF Others, Pending
<1>8. new \in Rows /\ "elsewhere" \in Excuses
  BY <1>0, <1>1, <1>a, UpdatedRow DEF Excuses
<1> HIDE DEF new
<1>9. QED
  BY <1>1, <1>5, <1>6, <1>7, <1>8, WriteKeepsInv

LEMMA AroundKeepsInv == Inv /\ Around => Inv'
<1> SUFFICES ASSUME Inv, Around PROVE Inv'
  OBVIOUS
<1>0. TypeOK
  BY DEF Inv
<1>1. PICK new \in Rows \ {row} : Writes(new, Procs, "around")
  BY DEF Around
<1>2. op' = Overtaken
  BY DEF Around
<1>3. \A u \in Threads : Warned(u)'
  BY <1>0, <1>2, OvertakenType DEF Inv, CallsInv, CallInv, Warned
<1>4. op' \in [Threads -> Calls] /\ "around" \in Excuses
  BY <1>0, <1>2, OvertakenType DEF Excuses
<1>5. QED
  BY <1>1, <1>3, <1>4, WriteKeepsInv

-----------------------------------------------------------------------------
(* Steps that leave the row as it is                                       *)

\* An entry that was explained stays so while its process has its updates.
LEMMA EntryStays ==
  ASSUME StaleIsExplained, NEW p \in Procs, row' = row, cache'[p] = cache[p],
         Pending(p) => Pending(p)'
  PROVE  Explained(p)'
  BY DEF StaleIsExplained, Explained, Current

\* A step of a thread that is not in an update takes no update away.
LEMMA PendingStays ==
  ASSUME NEW t \in Threads, op[t].pc \notin {"again", "clear"},
         \A u \in Threads \ {t} : op'[u] = op[u], NEW p \in Procs, Pending(p)
  PROVE  Pending(p)'
  BY DEF Pending

\* One thread's step, seen from the calls of all.
LEMMA CallsKept ==
  ASSUME TypeOK, CallsInv, row' = row, NEW t \in Threads, NEW me \in Calls,
         op' = [op EXCEPT ![t] = me],
         me.pc = "fill" => Current(me.val), me.pc # "again"
  PROVE  op' \in [Threads -> Calls] /\ CallsInv'
<1>1. \A u \in Threads : op'[u] = IF u = t THEN me ELSE op[u]
  BY DEF TypeOK
<1>2. \A u \in Threads : CallInv(u)'
  BY <1>1 DEF CallsInv, CallInv, Current
<1>3. QED
  BY <1>2 DEF TypeOK, CallsInv

\* A read, up to its answer.
LEMMA GetKeepsInv ==
  ASSUME Inv, NEW t \in Threads, NEW me \in Calls, op' = [op EXCEPT ![t] = me],
         op[t].pc \in {"idle", "query"}, me.pc = "fill" => Current(me.val),
         me.pc # "again", UNCHANGED <<row, cache>>
  PROVE  Inv'
<1>0. TypeOK /\ CallsInv /\ StaleIsExplained
  BY DEF Inv
<1>1. TypeOK' /\ CallsInv'
  BY <1>0, CallsKept DEF TypeOK
<1>2. \A u \in Threads \ {t} : op'[u] = op[u]
  BY <1>0 DEF TypeOK
<1>3. ASSUME NEW p \in Procs
      PROVE  Explained(p)'
  <2>1. Pending(p) => Pending(p)'
    BY <1>2, PendingStays
  <2>2. QED
    BY <1>0, <2>1, EntryStays
<1>4. QED
  BY <1>1, <1>3 DEF Inv, StaleIsExplained, Explained

LEMMA GetStepsKeepInv ==
  ASSUME Inv, NEW t \in Threads, NEW keep \in BOOLEAN,
         GetStart(t, keep) \/ GetRow(t) \/ GetDefault(t)
  PROVE  Inv'
<1>0. TypeOK /\ op[t] \in Calls
  BY DEF Inv, TypeOK
<1>1. CASE GetStart(t, keep)
  <2>1. Call("query", Nothing, keep) \in Calls /\ Call("query", Nothing, keep).pc = "query"
    BY CallType, CallFields
  <2>2. QED
    BY <1>1, <2>1, GetKeepsInv DEF GetStart
<1>2. CASE GetRow(t)
  <2> DEFINE me == IF op[t].keep THEN [op[t] EXCEPT !.pc = "fill", !.val = row.val] ELSE Idle
  <2>1. row.val \in Values \cup {Nothing}
    BY <1>0 DEF TypeOK, Rows, NoRow
  <2>2. me \in Calls
    BY <1>0, <2>1, IdleType DEF Calls
  <2>3. (me.pc = "fill" => Current(me.val)) /\ me.pc # "again"
    BY <1>0, <1>2, IdleType DEF GetRow, Calls, Current
  <2>4. op' = [op EXCEPT ![t] = me] /\ op[t].pc = "query" /\ UNCHANGED <<row, cache>>
    BY <1>2 DEF GetRow
  <2> HIDE DEF me
  <2>5. QED
    BY <2>2, <2>3, <2>4, GetKeepsInv
<1>3. CASE GetDefault(t)
  <2>1. PICK d \in Defaults : op' = [op EXCEPT ![t].pc = "fill", ![t].val = d]
    BY <1>3 DEF GetDefault
  <2> DEFINE me == [op[t] EXCEPT !.pc = "fill", !.val = d]
  <2>2. d \in Values \cup {Nothing}
    BY ValueAssumption
  <2>3. me \in Calls /\ me.pc = "fill" /\ me.val = d
    BY <1>0, <2>2 DEF Calls
  <2>4. Current(d)
    BY <1>3 DEF GetDefault, Current
  <2>5. op' = [op EXCEPT ![t] = me] /\ op[t].pc = "query" /\ UNCHANGED <<row, cache>>
    BY <1>0, <1>3, <2>1 DEF GetDefault, TypeOK
  <2> HIDE DEF me
  <2>6. QED
    BY <2>3, <2>4, <2>5, GetKeepsInv
<1>4. QED
  BY <1>1, <1>2, <1>3

\* A step that ends a call and changes the entry of its process at most.
LEMMA EndKeepsInv ==
  ASSUME Inv, NEW t \in Threads, NEW e \in Entries, row' = row,
         op' = [op EXCEPT ![t] = Idle], cache' = [cache EXCEPT ![Home[t]] = e],
         e # Empty => Current(e.val) \/ e.why # "none"
  PROVE  Inv'
<1>0. TypeOK /\ CallsInv /\ StaleIsExplained /\ Home[t] \in Procs
  BY HomeAssumption DEF Inv
<1>1. op' \in [Threads -> Calls] /\ CallsInv'
  BY <1>0, IdleType, CallsKept
<1>2. TypeOK'
  BY <1>0, <1>1 DEF TypeOK
<1>3. ASSUME NEW p \in Procs
      PROVE  Explained(p)'
  <2>1. CASE p = Home[t]
    <3>1. cache'[p] = e
      BY <1>0, <2>1 DEF TypeOK
    <3>2. QED
      BY <3>1 DEF Current, Explained
  <2>2. CASE p # Home[t]
    <3>1. cache'[p] = cache[p]
      BY <1>0, <2>2 DEF TypeOK
    <3>2. Pending(p) => Pending(p)'
      BY <1>0, <2>2 DEF Pending, TypeOK
    <3>3. QED
      BY <1>0, <3>1, <3>2, EntryStays
  <2>3. QED
    BY <2>1, <2>2
<1>4. QED
  BY <1>1, <1>2, <1>3 DEF Inv, StaleIsExplained, Explained

LEMMA EndStepsKeepInv ==
  ASSUME Inv, NEW t \in Threads, Fill(t) \/ SetFails(t) \/ Clear(t)
  PROVE  Inv'
<1>0. TypeOK /\ op[t] \in Calls /\ Home[t] \in Procs /\ Empty \in Entries
  BY HomeAssumption DEF Inv, TypeOK, Entries
<1>1. CASE Fill(t)
  <2> DEFINE e == IF op[t].val = Nothing THEN Empty ELSE [val |-> op[t].val, why |-> op[t].why]
  <2>1. e \in Entries
    BY <1>0 DEF Calls, Entries
  <2>2. e # Empty => e.val = op[t].val /\ e.why = op[t].why
    OBVIOUS
  <2>3. Current(op[t].val) \/ op[t].why # "none"
    BY <1>1 DEF Fill, Inv, CallsInv, CallInv
  <2>4. /\ row' = row /\ op' = [op EXCEPT ![t] = Idle]
        /\ cache' = [cache EXCEPT ![Home[t]] = e]
    BY <1>1 DEF Fill
  <2> HIDE DEF e
  <2>5. e # Empty => Current(e.val) \/ e.why # "none"
    BY <2>2, <2>3
  <2>6. QED
    BY <2>1, <2>4, <2>5, EndKeepsInv
<1>2. CASE SetFails(t)
  <2> DEFINE e == IF cache[Home[t]] # Empty THEN [cache[Home[t]] EXCEPT !.why = "failed"] ELSE Empty
  <2>1. cache[Home[t]] \in Entries /\ "failed" \in Excuses
    BY <1>0 DEF TypeOK, Excuses
  <2>2. e \in Entries
    BY <1>0, <2>1, EntryFields
  <2>3. e # Empty => e.why # "none"
    BY <2>1 DEF Entries
  <2>4. cache' = [cache EXCEPT ![Home[t]] = e]
    BY <1>0, <1>2 DEF SetFails, Writes, TypeOK
  <2>5. row' = row /\ op' = [op EXCEPT ![t] = Idle]
    BY <1>2 DEF SetFails, Writes
  <2> HIDE DEF e
  <2>6. QED
    BY <2>2, <2>3, <2>4, <2>5, EndKeepsInv
<1>3. CASE Clear(t)
  BY <1>0, <1>3, EndKeepsInv DEF Clear
<1>4. QED
  BY <1>1, <1>2, <1>3

\* A timeout empties one entry, a restart one process.
LEMMA ProcessKeepsInv ==
  ASSUME Inv, NEW p \in Procs, Expire(p) \/ Restart(p)
  PROVE  Inv'
<1>0. TypeOK /\ CallsInv /\ StaleIsExplained
  BY DEF Inv
<1>1. row' = row /\ cache' = [cache EXCEPT ![p] = Empty]
  BY DEF Expire, Restart
<1>2. \A t \in Threads : op'[t] = op[t] \/ (op'[t] = Idle /\ Home[t] = p)
  BY DEF Expire, Restart
<1>3. op' \in [Threads -> Calls]
  BY <1>0, IdleType DEF TypeOK, Expire, Restart
<1>4. TypeOK'
  BY <1>0, <1>1, <1>3 DEF TypeOK, Entries
<1>5. CallsInv'
  BY <1>0, <1>1, <1>2, IdleType DEF CallsInv, CallInv, Current
<1>6. ASSUME NEW q \in Procs
      PROVE  Explained(q)'
  <2>1. CASE q = p
    BY <1>0, <1>1, <2>1 DEF TypeOK, Explained
  <2>2. CASE q # p
    <3>1. cache'[q] = cache[q]
      BY <1>0, <1>1, <2>2 DEF TypeOK
    <3>2. Pending(q) => Pending(q)'
      BY <1>2, <2>2 DEF Pending
    <3>3. QED
      BY <1>0, <1>1, <3>1, <3>2, EntryStays
  <2>3. QED
    BY <2>1, <2>2
<1>7. QED
  BY <1>4, <1>5, <1>6 DEF Inv, StaleIsExplained, Explained

-----------------------------------------------------------------------------
(* Theorems                                                                *)

\* The inductive invariant holds for ever.
THEOREM InvAlways == Spec => []Inv
<1>1. Init => Inv
  <2> SUFFICES ASSUME Init PROVE Inv
    OBVIOUS
  <2>1. TypeOK
    BY IdleType DEF Init, TypeOK, Entries
  <2>2. CallsInv
    BY IdleType DEF Init, CallsInv, CallInv
  <2>3. QED
    BY <2>1, <2>2 DEF Init, Inv, StaleIsExplained
<1>2. Inv /\ [Next]_vars => Inv'
  <2> SUFFICES ASSUME Inv, [Next]_vars PROVE Inv'
    OBVIOUS
  <2>1. ASSUME NEW t \in Threads, NEW keep \in BOOLEAN, GetStart(t, keep) PROVE Inv'
    BY <2>1, GetStepsKeepInv
  <2>2. ASSUME NEW t \in Threads, NEW v \in Values, SetFirst(t, v) PROVE Inv'
    BY <2>2, SetFirstKeepsInv
  <2>3. ASSUME NEW t \in Threads, Continue(t) PROVE Inv'
    <3>1. CASE GetRow(t) \/ GetDefault(t)
      BY <3>1, GetStepsKeepInv
    <3>2. CASE Fill(t) \/ SetFails(t) \/ Clear(t)
      BY <3>2, EndStepsKeepInv
    <3>3. QED
      BY <2>3, <3>1, <3>2, SetAgainKeepsInv DEF Continue
  <2>4. CASE Around
    BY <2>4, AroundKeepsInv
  <2>5. ASSUME NEW p \in Procs, Expire(p) \/ Restart(p) PROVE Inv'
    BY <2>5, ProcessKeepsInv
  <2>6. CASE UNCHANGED vars
    BY <2>6 DEF vars, Inv, TypeOK, CallsInv, CallInv, StaleIsExplained, Current, Pending
  <2>7. QED
    BY <2>1, <2>2, <2>3, <2>4, <2>5, <2>6 DEF Next
<1>3. QED
  BY <1>1, <1>2, PTL DEF Spec

\* Every variable keeps its type; in particular None is never an entry.
THEOREM TypeCorrect == Spec => []TypeOK
<1>1. Inv => TypeOK
  BY DEF Inv
<1>2. QED
  BY <1>1, InvAlways, PTL

\* Whatever processes and threads there are, an entry is out of date for one
\* of the four reasons only, or about to be deleted (services.py:102-160).
THEOREM StaleEntriesExplained == Spec => []StaleIsExplained
<1>1. Inv => StaleIsExplained
  BY DEF Inv
<1>2. QED
  BY <1>1, InvAlways, PTL

=============================================================================
