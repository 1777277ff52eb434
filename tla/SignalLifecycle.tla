-------------------------- MODULE SignalLifecycle --------------------------
(***************************************************************************)
(* One row of the Signal table of the signals app, its SignalLog rows, and *)
(* what writes them: Signal.save(), called by the create view and by the   *)
(* admin's forms, with the pre_save and post_save receivers it fires, and  *)
(* the task process_expired_signals, which updates the table around save().*)
(*                                                                         *)
(* An edit in the admin is one READ COMMITTED transaction, yet each of its *)
(* SELECTs sees what others have committed meanwhile, so it has a step for *)
(* each SELECT that decides something, and one for its UPDATE and COMMIT.  *)
(*                                                                         *)
(* Whether the key of a row is set when the object is made (BaseModel's    *)
(* UUID default, as the code has it) or by the INSERT (the BigAutoField of *)
(* the migrations and of SignalsConfig) is chosen from KeyPreset.          *)
(***************************************************************************)
EXTENDS FiniteSets

CONSTANTS
  Edits,      \* POSTs of the admin's change form
  Choices,    \* statuses these forms submit
  KeyPreset   \* subset of BOOLEAN: may a key be set before the first save

Status == {"PENDING", "SENT_TO_RISK", "APPROVED", "REJECTED",
           "SENT_TO_EXECUTION", "EXECUTED", "EXPIRED", "CANCELED"}
Absent == "ABSENT"      \* no row
Unread == "UNREAD"      \* a status not read yet

ASSUME ChoicesAssumption == Choices \subseteq Status
ASSUME KeyAssumption == KeyPreset \subseteq BOOLEAN

\* SignalStatus.ALLOWED_TRANSITIONS.
Allowed(st) ==
  CASE st = "PENDING"           -> {"SENT_TO_RISK", "REJECTED", "EXPIRED", "CANCELED"}
    [] st = "SENT_TO_RISK"      -> {"APPROVED", "REJECTED", "EXPIRED"}
    [] st = "APPROVED"          -> {"SENT_TO_EXECUTION", "REJECTED", "EXPIRED", "CANCELED"}
    [] st = "SENT_TO_EXECUTION" -> {"EXECUTED", "REJECTED", "EXPIRED"}
    [] OTHER                    -> {}

Final == {"REJECTED", "EXECUTED", "EXPIRED", "CANCELED"}

VARIABLES
  preset,   \* whether a new object has its key
  row,      \* the row's status, or Absent
  log,      \* the SignalLog rows of the signal, one of a kind
  edit,     \* the edits under way
  born,     \* history: the status the row was first seen with, or Absent
  held      \* history: the statuses the row has had

vars == <<preset, row, log, edit, born, held>>

EditStates == [pc : {"open", "check", "capture", "write", "ok", "error"},
               status : Status \cup {Unread},   \* instance.status
               old : Status \cup {Unread},      \* old_status, a local of save()
               seen : Status \cup {Unread}]     \* instance._old_status
LogRows == [old : Status, new : Status]

TypeOK ==
  /\ preset \in BOOLEAN
  /\ row \in Status \cup {Absent}
  /\ log \subseteq LogRows
  /\ edit \in [Edits -> EditStates]
  /\ born \in Status \cup {Absent}
  /\ held \subseteq Status

\* An edit that has an instance with the given status, or none any more, and
\* has read nothing of the row's status.
Holds(pc, st) == [pc |-> pc, status |-> st, old |-> Unread, seen |-> Unread]
Blank(pc) == Holds(pc, Unread)

\* There is no row yet, or one that an earlier release stored.
Init ==
  /\ preset \in KeyPreset
  /\ row \in Status \cup {Absent}
  /\ log = {}
  /\ edit = [e \in Edits |-> Blank("open")]
  /\ born = row
  /\ held = {row} \cap Status

-----------------------------------------------------------------------------
(* A first save.  Without a key save() skips the transition check and the  *)
(* log.  With one, the log row's own save() refuses, because the log row   *)
(* has a key too, and the transaction rolls back: nothing to model.        *)

\* The create view saves PENDING; the admin's add form, any status.
Create ==
  /\ row = Absent /\ ~preset
  /\ \E st \in Choices \cup {"PENDING"} :
        row' = st /\ born' = st /\ held' = held \cup {st}
  /\ UNCHANGED <<preset, log, edit>>

-----------------------------------------------------------------------------
(* A save of a row that exists, by the admin's change form                 *)

\* The form is posted: the object is loaded and given the form's status.
EditOpen(e) ==
  /\ edit[e].pc = "open"
  /\ row # Absent
  /\ \E st \in Choices :
        edit' = [edit EXCEPT ![e] = Holds("check", st)]
  /\ UNCHANGED <<preset, row, log, born, held>>

AnyTransition(old, new) == TRUE   \* mutant: the check is left out

\* The check of save(): the status stays, or the machine allows the change.
TransitionOK(old, new) == new = old \/ new \in Allowed(old)

EditCheckLogs(e) ==               \* mutant: the log is written with the check
  /\ edit[e].pc = "check"
  /\ TransitionOK(row, edit[e].status)
  /\ log' = log \cup {[old |-> row, new |-> edit[e].status]}
  /\ edit' = [edit EXCEPT ![e].pc = "capture", ![e].old = row]
  /\ UNCHANGED <<preset, row, born, held>>

EditCheckForgets(e) ==            \* mutant: old_status is set on refusal only
  /\ edit[e].pc = "check"
  /\ TransitionOK(row, edit[e].status)
  /\ edit' = [edit EXCEPT ![e].pc = "capture"]
  /\ UNCHANGED <<preset, row, log, born, held>>

\* save() reads the row's status and checks the transition from it.
EditCheck(e) ==
  /\ edit[e].pc = "check"
  /\ TransitionOK(row, edit[e].status)
  /\ edit' = [edit EXCEPT ![e].pc = "capture", ![e].old = row]
  /\ UNCHANGED <<preset, row, log, born, held>>

EditRefused(e) ==
  /\ edit[e].pc = "check"
  /\ ~TransitionOK(row, edit[e].status)
  /\ edit' = [edit EXCEPT ![e] = Blank("error")]
  /\ UNCHANGED <<preset, row, log, born, held>>

\* capture_old_status, at pre_save, reads the status once more.
EditCapture(e) ==
  /\ edit[e].pc = "capture"
  /\ edit' = [edit EXCEPT ![e].pc = "write", ![e].seen = row]
  /\ UNCHANGED <<preset, row, log, born, held>>

\* Rows that one save adds: log_signal_status_change, at post_save, logs a
\* change from the captured status; save() itself logs whatever happened.
NewLogRows(e) ==
  {[old |-> st, new |-> edit[e].status]
     : st \in ({edit[e].seen} \ {edit[e].status}) \cup {edit[e].old}}

EditWriteTorn(e) ==               \* mutant: the log is written after the COMMIT
  /\ edit[e].pc = "write" /\ ~preset
  /\ row' = edit[e].status
  /\ held' = held \cup {row'}
  /\ log' \in {log, log \cup NewLogRows(e)}
  /\ edit' = [edit EXCEPT ![e] = Blank("ok")]
  /\ UNCHANGED <<preset, born>>

\* The UPDATE writes the instance's status over whatever the row has now.
EditWrite(e) ==
  /\ edit[e].pc = "write" /\ ~preset
  /\ row' = edit[e].status
  /\ held' = held \cup {row'}
  /\ log' = log \cup NewLogRows(e)
  /\ edit' = [edit EXCEPT ![e] = Blank("ok")]
  /\ UNCHANGED <<preset, born>>

EditWritePreset(e) ==             \* mutant: the refusal of the log is caught
  /\ edit[e].pc = "write" /\ preset
  /\ row' = edit[e].status
  /\ held' = held \cup {row'}
  /\ edit' = [edit EXCEPT ![e] = Blank("ok")]
  /\ UNCHANGED <<preset, log, born>>

\* A log row that has its key cannot be saved: the transaction rolls back.
EditUnlogged(e) ==
  /\ edit[e].pc = "write" /\ preset
  /\ edit' = [edit EXCEPT ![e] = Blank("error")]
  /\ UNCHANGED <<preset, row, log, born, held>>

\* The server process or its connection dies before the COMMIT.
EditLost(e) ==
  /\ edit[e].pc \notin {"ok", "error"}
  /\ edit' = [edit EXCEPT ![e] = Blank("error")]
  /\ UNCHANGED <<preset, row, log, born, held>>

-----------------------------------------------------------------------------
(* process_expired_signals                                                 *)

AnyExpirable == Status            \* mutant: the filter on status is dropped

Expirable == {"PENDING", "SENT_TO_RISK"}

\* One UPDATE statement sets the status of a row that is overdue, past
\* save(), its check and its log; whether the row is overdue is left open.
\* The task then raises, as its module has no logger: the row stays.
Expire ==
  /\ row \in Expirable
  /\ row' = "EXPIRED"
  /\ held' = held \cup {row'}
  /\ UNCHANGED <<preset, log, edit, born>>

-----------------------------------------------------------------------------
EditStep(e) == EditOpen(e) \/ EditCheck(e) \/ EditRefused(e) \/ EditCapture(e)
               \/ EditWrite(e) \/ EditUnlogged(e) \/ EditLost(e)

Next == Create \/ Expire \/ \E e \in Edits : EditStep(e)

Spec == Init /\ [][Next]_vars

-----------------------------------------------------------------------------
(* Properties                                                              *)

\* No interleaving of stale edits and of the expiry task skips a stage: each
\* status the signal has had, except the first, is an allowed successor of
\* another it has had.  So no signal is executed that was never sent to
\* execution, nor sent there without approval (models.py:41-50, 357-363).
NoStageSkipped ==
  \A st \in held \ {born} : \E p \in held : st \in Allowed(p)

\* The log never speaks of a status the signal has not had, though its rows
\* are made of reads that other commits may have overtaken, and are rolled
\* back with the save (models.py:368-380, signals.py:26-40).
LogTruthful == \A l \in log : l.old \in held /\ l.new \in held

\* A status that is neither the first nor the expiry task's has a log row
\* (models.py:372-380).
EditsAreLogged ==
  row \in {Absent, born, "EXPIRED"} \/ \E l \in log : l.new = row

\* A final status is left only by an edit whose check had read another one:
\* a stale save is the one way around the machine, and one that was posted
\* without a change of status is enough (models.py:357-369).
FinalLeftByStaleEdit ==
  [][row' # row /\ row \in Final =>
       \E e \in Edits : /\ edit[e].pc = "write"
                        /\ edit[e].status = row'
                        /\ edit[e].old # row]_vars

\* Where keys are preset no save() ever commits: only expiry changes a row,
\* and the log stays empty (models.py:372, 482-484).
PresetKeysBlockSaves ==
  [][preset /\ row' # row => row \in Expirable /\ row' = "EXPIRED" /\ log' = {}]_vars

\* What SignalLog's docstring says (models.py:397-398): an exact log of every
\* change of the signal.
EveryChangeIsLogged ==
  row \in {Absent, born} \/ \E l \in log : l.new = row

=============================================================================
