---------------------------- MODULE Instruments -----------------------------
(***************************************************************************)
(* One instrument and its mapping to an exchange: a row each, which tasks  *)
(* and requests read, change in memory and save.                           *)
(*                                                                         *)
(* update_instrument_metadata merges keys into the JSON column, and        *)
(* sync_instrument_details_from_exchange writes what the exchange says of  *)
(* the mapping; Celery starts both again when they raise, for whatever     *)
(* reason.  They save their own columns.  A PUT or PATCH of the two view   *)
(* sets, and an admin form, save every column: as the row was when they    *)
(* loaded it, but for the columns that were posted.                        *)
(*                                                                         *)
(* The rows are there throughout; ApiKeys is about rows that are deleted   *)
(* and come back.  The agent that also means to write the mapping          *)
(* (agents.py:297) raises before it does: it queries in a coroutine.       *)
(***************************************************************************)
EXTENDS Naturals

CONSTANTS
  Updates,      \* metadata tasks, each with a key of its own
  Syncs,        \* details tasks
  Editors,      \* requests to the view sets and the admin forms
  UpdateTries,  \* attempts of a metadata task: 1 retry in the code
  SyncTries,    \* attempts of a details task: 3 retries in the code
  MaxVersion    \* bound: versions of the details on the exchange

ASSUME TriesAssumption ==
  UpdateTries \in Nat \ {0} /\ SyncTries \in Nat \ {0} /\ MaxVersion \in Nat \ {0}
ASSUME WritersAssumption ==
  Updates \cap Syncs = {} /\ Updates \cap Editors = {} /\ Syncs \cap Editors = {}

VARIABLES
  metadata,   \* the keys in the column
  details,    \* the version of the details in the mapping, 0 for none of the exchange's
  exchange,   \* the version on the exchange
  writer      \* each task and each request

instrumentsVars == <<metadata, details, exchange, writer>>

Writers == Updates \cup Syncs \cup Editors
Rows == {"instrument", "mapping"}
MaxTries == IF UpdateTries > SyncTries THEN UpdateTries ELSE SyncTries

\* rows: the rows it has read and will save, as keys and version say; posted:
\* those whose column was posted; stale: those another has saved since.
Writer == [pc : {"start", "save", "done", "failed"}, tries : 1..MaxTries,
           rows : SUBSET Rows, posted : SUBSET Rows, stale : SUBSET Rows,
           keys : SUBSET Updates, version : 0..MaxVersion]
Fresh(pc, tries) == [pc |-> pc, tries |-> tries, rows |-> {}, posted |-> {}, stale |-> {},
                     keys |-> {}, version |-> 0]

InstrumentsTypeOK ==
  /\ metadata \subseteq Updates
  /\ details \in 0..MaxVersion
  /\ exchange \in 1..MaxVersion
  /\ writer \in [Writers -> Writer]

InstrumentsInit ==
  /\ metadata = {}
  /\ details = 0
  /\ exchange = 1
  /\ writer = [w \in Writers |-> Fresh("start", 1)]

-----------------------------------------------------------------------------
\* The exchange changes the tick size, the limits or the status.
ExchangeChanges ==
  /\ exchange < MaxVersion
  /\ exchange' = exchange + 1
  /\ UNCHANGED <<metadata, details, writer>>

\* Writer w has read rows, and will save keys and version in them.
ReadsRows(w, rows, posted, keys, version) ==
  /\ writer[w].pc = "start"
  /\ writer' = [writer EXCEPT ![w] =
       [pc |-> "save", tries |-> @.tries, rows |-> rows, posted |-> posted, stale |-> {},
        keys |-> keys, version |-> version]]
  /\ UNCHANGED <<metadata, details, exchange>>

\* The instrument is read and the update merged into its metadata.
ReadReplaces(u) ==                \* mutant: the update replaces the metadata
  ReadsRows(u, {"instrument"}, {}, {u}, 0)
Read(u) == ReadsRows(u, {"instrument"}, {}, metadata \cup {u}, 0)

\* The mapping is read and the exchange asked: what it leaves out stays.
Fetch(s) == \E v \in {details, exchange} : ReadsRows(s, {"mapping"}, {}, {}, v)

\* A request loads a row, with or without a new value of the column; the form
\* of an instrument may change its mapping too, and posts both columns.
EditLoads(e) ==
  \E rows \in SUBSET Rows : \E posted \in SUBSET rows :
    \E keys \in SUBSET Updates, v \in 0..exchange :
      /\ rows # {} /\ (rows = Rows => posted = Rows)
      /\ "instrument" \notin posted => keys = metadata
      /\ "mapping" \notin posted => v = details
      /\ ReadsRows(e, rows, posted, keys, v)

\* Writer w saves its rows and is as next says; what others have read of them
\* is out of date.
SavesRows(w, next) ==
  /\ writer[w].pc = "save"
  /\ metadata' = IF "instrument" \in writer[w].rows THEN writer[w].keys ELSE metadata
  /\ details' = IF "mapping" \in writer[w].rows THEN writer[w].version ELSE details
  /\ writer' = [x \in Writers |-> IF x = w THEN next ELSE
       [writer[x] EXCEPT !.stale = @ \cup (writer[w].rows \cap writer[x].rows)]]
  /\ UNCHANGED exchange

\* A task that raised is started again while it has attempts left.
TriedOnceMore(t, max) ==          \* mutant: one attempt too many
  IF writer[t].tries <= max THEN Fresh("start", writer[t].tries + 1) ELSE Fresh("failed", 1)
TriedAgain(t, max) ==
  IF writer[t].tries < max THEN Fresh("start", writer[t].tries + 1) ELSE Fresh("failed", 1)

\* Something raises before the save.
TaskFails(t, max) ==
  /\ writer[t].pc \in {"start", "save"}
  /\ writer' = [writer EXCEPT ![t] = TriedAgain(t, max)]
  /\ UNCHANGED <<metadata, details, exchange>>

\* save(update_fields=['metadata']); the post_save handler, which hands a task
\* to the broker, may raise when the row is saved.
SaveMetadata(u) == \E next \in {Fresh("done", 1), TriedAgain(u, UpdateTries)} : SavesRows(u, next)

SaveDetails(s) == SavesRows(s, Fresh("done", 1))

\* An answer of either kind ends a request.
SaveEdit(e) == SavesRows(e, Fresh("done", 1))

EditFails(e) ==
  /\ writer[e].pc \in {"start", "save"}
  /\ writer' = [writer EXCEPT ![e] = Fresh("done", 1)]
  /\ UNCHANGED <<metadata, details, exchange>>

-----------------------------------------------------------------------------
InstrumentsNext ==
  \/ ExchangeChanges
  \/ \E u \in Updates : Read(u) \/ SaveMetadata(u) \/ TaskFails(u, UpdateTries)
  \/ \E s \in Syncs : Fetch(s) \/ SaveDetails(s) \/ TaskFails(s, SyncTries)
  \/ \E e \in Editors : EditLoads(e) \/ SaveEdit(e) \/ EditFails(e)

InstrumentsSpec == InstrumentsInit /\ [][InstrumentsNext]_instrumentsVars

-----------------------------------------------------------------------------
\* Writer w saves the row, and it has been posted the column, or has read the
\* row before another saved it.
Overwrites(w, row) ==
  /\ writer[w].pc = "save" /\ writer'[w].pc # "save"
  /\ row \in writer[w].rows /\ row \in writer[w].posted \cup writer[w].stale

\* The tasks lose nothing by themselves, however often they are started again:
\* a key leaves the metadata, and the mapping goes back to older details, only
\* where a request says so, or one writer had read the row before another saved
\* it, a request that is about other columns too (instruments/services.py:137-141,
\* 159-172, views.py:80, 168).
LossIsExplained ==
  [][/\ ~(metadata \subseteq metadata') => \E w \in Writers : Overwrites(w, "instrument")
     /\ details' < details => \E w \in Writers : Overwrites(w, "mapping")]_instrumentsVars

=============================================================================
