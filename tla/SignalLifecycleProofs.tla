----------------------- MODULE SignalLifecycleProofs -----------------------
(***************************************************************************)
(* Proofs about SignalLifecycle, for any set of edits, any choices in the  *)
(* form and either kind of key.                                            *)
(*                                                                         *)
(* NoStageSkipped and LogTruthful are not inductive alone: an edit carries *)
(* what it read and what it is going to write across the steps of others.  *)
(* EditsHeld says of these reads that they are past or present statuses of *)
(* the signal, and that the check allowed the edit; held only grows, so    *)
(* no step of another actor disturbs it.                                   *)
(***************************************************************************)
EXTENDS SignalLifecycle, TLAPS

\* What an edit has read was a status of the signal, and its own status
\* follows the one it read at the check.
EditsHeld ==
  /\ born \in held \cup {Absent}
  /\ IF row = Absent THEN held = {} ELSE row \in held
  /\ \A e \in Edits :
       /\ edit[e].pc \in {"check", "capture", "write"} =>
            row # Absent /\ edit[e].status \in Status
       /\ edit[e].pc \in {"capture", "write"} =>
            edit[e].old \in held /\ TransitionOK(edit[e].old, edit[e].status)
       /\ edit[e].pc = "write" => edit[e].seen \in held

Inv == TypeOK /\ EditsHeld /\ NoStageSkipped /\ LogTruthful /\ EditsAreLogged

-----------------------------------------------------------------------------
(* Types                                                                   *)

\* Allowed leads from statuses to statuses.
LEMMA AllowedType == \A st : Allowed(st) \subseteq Status
BY DEF Allowed, Status

\* A blank edit, and one whose form has just been posted, are of the type.
LEMMA HoldsType ==
  ASSUME NEW pc \in {"open", "check", "ok", "error"}, NEW st \in Status \cup {Unread}
  PROVE  Holds(pc, st) \in EditStates
BY DEF Holds, EditStates

\* The initial states satisfy the invariant.
LEMMA InitInv == Init => Inv
<1> SUFFICES ASSUME Init PROVE Inv
  OBVIOUS
<1>1. TypeOK
  <2>1. edit \in [Edits -> EditStates]
    BY HoldsType DEF Init, Blank
  <2>2. preset \in BOOLEAN
    BY KeyAssumption DEF Init
  <2> QED BY <2>1, <2>2 DEF Init, TypeOK, LogRows
<1>2. EditsHeld
  BY DEF Init, EditsHeld, Blank, Holds, Status, Absent
<1>3. NoStageSkipped
  BY DEF Init, NoStageSkipped
<1>4. LogTruthful /\ EditsAreLogged
  BY DEF Init, LogTruthful, EditsAreLogged
<1> QED BY <1>1, <1>2, <1>3, <1>4 DEF Inv

-----------------------------------------------------------------------------
(* One step                                                                *)

\* Preservation of the type invariant.
LEMMA TypeStep == TypeOK /\ EditsHeld /\ [Next]_vars => TypeOK'
<1> SUFFICES ASSUME TypeOK, EditsHeld, [Next]_vars PROVE TypeOK'
  OBVIOUS
<1>1. CASE Create
  BY <1>1, ChoicesAssumption DEF Create, TypeOK, Status
<1>2. CASE Expire
  BY <1>2 DEF Expire, TypeOK, Status
<1>3. ASSUME NEW e \in Edits, EditStep(e) PROVE TypeOK'
  <2> edit[e] \in EditStates
    BY DEF TypeOK
  <2>1. CASE EditOpen(e)
    BY <2>1, HoldsType, ChoicesAssumption DEF EditOpen, TypeOK
  <2>2. CASE EditCheck(e)
    <3>1. row \in Status
      BY <2>2 DEF EditCheck, EditsHeld, TypeOK
    <3>2. [edit[e] EXCEPT !.pc = "capture", !.old = row] \in EditStates
      BY <3>1 DEF EditStates
    <3> QED BY <2>2, <3>2 DEF EditCheck, TypeOK
  <2>3. CASE EditRefused(e)
    BY <2>3, HoldsType DEF EditRefused, Blank, TypeOK
  <2>4. CASE EditCapture(e)
    <3>1. row \in Status
      BY <2>4 DEF EditCapture, EditsHeld, TypeOK
    <3>2. [edit[e] EXCEPT !.pc = "write", !.seen = row] \in EditStates
      BY <3>1 DEF EditStates
    <3> QED BY <2>4, <3>2 DEF EditCapture, TypeOK
  <2>5. CASE EditWrite(e)
    <3>1. /\ edit[e].status \in Status /\ edit[e].old \in Status
          /\ edit[e].seen \in Status
      BY <2>5 DEF EditWrite, EditsHeld, TypeOK
    <3>2. NewLogRows(e) \subseteq LogRows
      BY <3>1 DEF NewLogRows, LogRows
    <3>3. edit' \in [Edits -> EditStates]
      BY <2>5, HoldsType DEF EditWrite, Blank, TypeOK
    <3> QED BY <2>5, <3>1, <3>2, <3>3 DEF EditWrite, TypeOK
  <2>6. CASE EditUnlogged(e)
    BY <2>6, HoldsType DEF EditUnlogged, Blank, TypeOK
  <2>7. CASE EditLost(e)
    BY <2>7, HoldsType DEF EditLost, Blank, TypeOK
  <2> QED BY <1>3, <2>1, <2>2, <2>3, <2>4, <2>5, <2>6, <2>7 DEF EditStep
<1>4. CASE UNCHANGED vars
  BY <1>4 DEF vars, TypeOK
<1> QED BY <1>1, <1>2, <1>3, <1>4 DEF Next

\* Statuses are never taken out of held.
LEMMA HeldGrows == [Next]_vars => held \subseteq held'
BY DEF Next, vars, Create, Expire, EditStep, EditOpen, EditCheck, EditRefused,
       EditCapture, EditWrite, EditUnlogged, EditLost

\* The row of a signal that exists stays, and what an edit holds is left
\* alone by the steps of others.
LEMMA EditWriters ==
  ASSUME TypeOK, NEW e \in Edits, EditStep(e), NEW f \in Edits, f # e
  PROVE  edit'[f] = edit[f]
BY DEF EditStep, EditOpen, EditCheck, EditRefused, EditCapture, EditWrite,
       EditUnlogged, EditLost, TypeOK

\* Preservation of EditsHeld.
LEMMA EditsHeldStep == TypeOK /\ EditsHeld /\ [Next]_vars => EditsHeld'
<1> SUFFICES ASSUME TypeOK, EditsHeld, [Next]_vars PROVE EditsHeld'
  OBVIOUS
<1> held \subseteq held'
  BY HeldGrows
<1>1. CASE Create
  BY <1>1, ChoicesAssumption DEF Create, EditsHeld, Status, Absent
<1>2. CASE Expire
  BY <1>2 DEF Expire, EditsHeld, Expirable, Absent
<1>3. ASSUME NEW e \in Edits, EditStep(e) PROVE EditsHeld'
  <2> edit[e] \in EditStates
    BY DEF TypeOK
  <2>1. /\ born' \in held' \cup {Absent}
        /\ IF row' = Absent THEN held' = {} ELSE row' \in held'
        /\ row # Absent => row' # Absent
    BY <1>3 DEF EditStep, EditOpen, EditCheck, EditRefused, EditCapture, EditWrite,
                EditUnlogged, EditLost, EditsHeld, Status, Absent
  <2>2. ASSUME NEW f \in Edits, f # e
        PROVE  /\ edit'[f].pc \in {"check", "capture", "write"} =>
                    row' # Absent /\ edit'[f].status \in Status
               /\ edit'[f].pc \in {"capture", "write"} =>
                    /\ edit'[f].old \in held'
                    /\ TransitionOK(edit'[f].old, edit'[f].status)
               /\ edit'[f].pc = "write" => edit'[f].seen \in held'
    <3>1. edit'[f] = edit[f]
      BY <1>3, <2>2, EditWriters
    <3> QED BY <2>1, <2>2, <3>1 DEF EditsHeld
  <2>3. /\ edit'[e].pc \in {"check", "capture", "write"} =>
             row' # Absent /\ edit'[e].status \in Status
        /\ edit'[e].pc \in {"capture", "write"} =>
             edit'[e].old \in held' /\ TransitionOK(edit'[e].old, edit'[e].status)
        /\ edit'[e].pc = "write" => edit'[e].seen \in held'
    <3>1. CASE EditOpen(e)
      BY <3>1, ChoicesAssumption DEF EditOpen, Holds, TypeOK
    <3>2. CASE EditCheck(e)
      BY <3>2 DEF EditCheck, EditsHeld, TypeOK, EditStates
    <3>3. CASE EditRefused(e)
      BY <3>3 DEF EditRefused, Blank, Holds, TypeOK
    <3>4. CASE EditCapture(e)
      BY <3>4 DEF EditCapture, EditsHeld, TypeOK, EditStates
    <3>5. CASE EditWrite(e)
      BY <3>5 DEF EditWrite, Blank, Holds, TypeOK
    <3>6. CASE EditUnlogged(e)
      BY <3>6 DEF EditUnlogged, Blank, Holds, TypeOK
    <3>7. CASE EditLost(e)
      BY <3>7 DEF EditLost, Blank, Holds, TypeOK
    <3> QED BY <1>3, <3>1, <3>2, <3>3, <3>4, <3>5, <3>6, <3>7 DEF EditStep
  <2> QED BY <2>1, <2>2, <2>3 DEF EditsHeld
<1>4. CASE UNCHANGED vars
  BY <1>4 DEF vars, EditsHeld
<1> QED BY <1>1, <1>2, <1>3, <1>4 DEF Next

\* Preservation of NoStageSkipped: what is new in held follows what an edit
\* read, or what the expiry task found.
LEMMA StageStep == TypeOK /\ EditsHeld /\ NoStageSkipped /\ [Next]_vars => NoStageSkipped'
<1> SUFFICES ASSUME TypeOK, EditsHeld, NoStageSkipped, [Next]_vars PROVE NoStageSkipped'
  OBVIOUS
<1>1. CASE Create
  BY <1>1 DEF Create, EditsHeld, NoStageSkipped
<1>2. CASE Expire
  <2>1. row \in held /\ "EXPIRED" \in Allowed(row)
    BY <1>2 DEF Expire, Expirable, EditsHeld, Allowed, Absent
  <2> QED BY <1>2, <2>1 DEF Expire, NoStageSkipped
<1>3. ASSUME NEW e \in Edits, EditStep(e) PROVE NoStageSkipped'
  <2>1. CASE EditWrite(e)
    <3>1. /\ edit[e].old \in held
          /\ edit[e].status = edit[e].old \/ edit[e].status \in Allowed(edit[e].old)
      BY <2>1 DEF EditWrite, EditsHeld, TransitionOK
    <3> QED BY <2>1, <3>1 DEF EditWrite, NoStageSkipped
  <2>2. CASE ~EditWrite(e)
    <3>1. held' = held /\ born' = born
      BY <1>3, <2>2 DEF EditStep, EditOpen, EditCheck, EditRefused, EditCapture,
                        EditUnlogged, EditLost
    <3> QED BY <3>1 DEF NoStageSkipped
  <2> QED BY <2>1, <2>2
<1>4. CASE UNCHANGED vars
  BY <1>4 DEF vars, NoStageSkipped
<1> QED BY <1>1, <1>2, <1>3, <1>4 DEF Next

\* Preservation of LogTruthful.
LEMMA LogStep == TypeOK /\ EditsHeld /\ LogTruthful /\ [Next]_vars => LogTruthful'
<1> SUFFICES ASSUME TypeOK, EditsHeld, LogTruthful, [Next]_vars PROVE LogTruthful'
  OBVIOUS
<1> held \subseteq held'
  BY HeldGrows
<1>1. CASE Create
  BY <1>1 DEF Create, LogTruthful
<1>2. CASE Expire
  BY <1>2 DEF Expire, LogTruthful
<1>3. ASSUME NEW e \in Edits, EditStep(e) PROVE LogTruthful'
  <2>1. CASE EditWrite(e)
    <3>1. edit[e].old \in held /\ edit[e].seen \in held /\ edit[e].status \in held'
      BY <2>1 DEF EditWrite, EditsHeld
    <3>2. \A l \in NewLogRows(e) : l.old \in held' /\ l.new \in held'
      BY <3>1 DEF NewLogRows
    <3> QED BY <2>1, <3>2 DEF EditWrite, LogTruthful
  <2>2. CASE ~EditWrite(e)
    <3>1. log' = log
      BY <1>3, <2>2 DEF EditStep, EditOpen, EditCheck, EditRefused, EditCapture,
                        EditUnlogged, EditLost
    <3> QED BY <3>1 DEF LogTruthful
  <2> QED BY <2>1, <2>2
<1>4. CASE UNCHANGED vars
  BY <1>4 DEF vars, LogTruthful
<1> QED BY <1>1, <1>2, <1>3, <1>4 DEF Next

\* Preservation of EditsAreLogged.
LEMMA LoggedStep == TypeOK /\ EditsAreLogged /\ [Next]_vars => EditsAreLogged'
<1> SUFFICES ASSUME TypeOK, EditsAreLogged, [Next]_vars PROVE EditsAreLogged'
  OBVIOUS
<1>1. CASE Create
  BY <1>1 DEF Create, EditsAreLogged
<1>2. CASE Expire
  BY <1>2 DEF Expire, EditsAreLogged
<1>3. ASSUME NEW e \in Edits, EditStep(e) PROVE EditsAreLogged'
  <2>1. CASE EditWrite(e)
    <3>1. [old |-> edit[e].old, new |-> edit[e].status] \in NewLogRows(e)
      BY DEF NewLogRows
    <3> QED BY <2>1, <3>1 DEF EditWrite, EditsAreLogged
  <2>2. CASE ~EditWrite(e)
    <3>1. log' = log /\ row' = row /\ born' = born
      BY <1>3, <2>2 DEF EditStep, EditOpen, EditCheck, EditRefused, EditCapture,
                        EditUnlogged, EditLost
    <3> QED BY <3>1 DEF EditsAreLogged
  <2> QED BY <2>1, <2>2
<1>4. CASE UNCHANGED vars
  BY <1>4 DEF vars, EditsAreLogged
<1> QED BY <1>1, <1>2, <1>3, <1>4 DEF Next

-----------------------------------------------------------------------------
(* Theorems                                                                *)

\* The inductive invariant holds always.
THEOREM InvAlways == Spec => []Inv
<1>1. Inv /\ [Next]_vars => Inv'
  BY TypeStep, EditsHeldStep, StageStep, LogStep, LoggedStep DEF Inv
<1> QED BY InitInv, <1>1, PTL DEF Spec

\* Every variable keeps its type.
THEOREM TypeCorrect == Spec => []TypeOK
<1>1. Inv => TypeOK
  BY DEF Inv
<1> QED BY InvAlways, <1>1, PTL

\* However edits and expiry interleave, a signal passes every stage.
THEOREM StagesAreKept == Spec => []NoStageSkipped
<1>1. Inv => NoStageSkipped
  BY DEF Inv
<1> QED BY InvAlways, <1>1, PTL

\* The log names only statuses the signal has had.
THEOREM LogIsTruthful == Spec => []LogTruthful
<1>1. Inv => LogTruthful
  BY DEF Inv
<1> QED BY InvAlways, <1>1, PTL

\* What edits did to the status is in the log.
THEOREM EditsLogged == Spec => []EditsAreLogged
<1>1. Inv => EditsAreLogged
  BY DEF Inv
<1> QED BY InvAlways, <1>1, PTL

\* Only a save with a stale check takes a signal out of a final status.
THEOREM FinalStatusIsKept == Spec => FinalLeftByStaleEdit
<1>1. Inv /\ [Next]_vars =>
        (row' # row /\ row \in Final =>
           \E e \in Edits : /\ edit[e].pc = "write"
                            /\ edit[e].status = row'
                            /\ edit[e].old # row)
  <2> SUFFICES ASSUME Inv, [Next]_vars, row' # row, row \in Final
               PROVE  \E e \in Edits : /\ edit[e].pc = "write"
                                       /\ edit[e].status = row'
                                       /\ edit[e].old # row
    OBVIOUS
  <2>1. ~Create /\ ~Expire
    BY DEF Create, Expire, Expirable, Final, Absent
  <2>2. PICK e \in Edits : EditStep(e)
    BY <2>1 DEF Next, vars
  <2>3. EditWrite(e)
    BY <2>2 DEF EditStep, EditOpen, EditCheck, EditRefused, EditCapture,
                EditUnlogged, EditLost
  <2>4. edit[e].pc = "write" /\ edit[e].status = row'
    BY <2>3 DEF EditWrite
  <2>5. edit[e].status = edit[e].old \/ edit[e].status \in Allowed(edit[e].old)
    BY <2>4 DEF Inv, EditsHeld, TransitionOK
  <2>6. Allowed(row) = {}
    BY DEF Final, Allowed
  <2> QED BY <2>4, <2>5, <2>6
<1> QED BY InvAlways, <1>1, PTL DEF Spec, FinalLeftByStaleEdit

\* With preset keys the log stays empty and only expiry changes the row.
THEOREM PresetKeysBlock == Spec => PresetKeysBlockSaves
<1> DEFINE Unlogged == preset => log = {}
<1>1. Init => Unlogged
  BY DEF Init
<1>2. Unlogged /\ [Next]_vars => Unlogged'
  BY DEF Next, vars, Create, Expire, EditStep, EditOpen, EditCheck, EditRefused,
         EditCapture, EditWrite, EditUnlogged, EditLost
<1>3. Unlogged /\ [Next]_vars =>
        (preset /\ row' # row => row \in Expirable /\ row' = "EXPIRED" /\ log' = {})
  BY DEF Next, vars, Create, Expire, EditStep, EditOpen, EditCheck, EditRefused,
         EditCapture, EditWrite, EditUnlogged, EditLost
<1> QED BY <1>1, <1>2, <1>3, PTL DEF Spec, PresetKeysBlockSaves

=============================================================================
