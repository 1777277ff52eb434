--------------------------- MODULE ServicesProofs ---------------------------
(***************************************************************************)
(* Proofs about the alerts, the metadata and the details of instruments,   *)
(* and the rate limiter, for any number of requests, tasks and callers;    *)
(* then that all nine services together keep what each one keeps.          *)
(***************************************************************************)
EXTENDS MCServices, AccountsProofs, CoreProofs, FiniteSetTheorems

-----------------------------------------------------------------------------
(* Alerts                                                                  *)

\* A request that is not stale holds an alert nobody has acknowledged.
AlertsInv ==
  /\ AlertsTypeOK
  /\ \A u \in Acknowledgers :
       request[u] # NoRequest /\ ~request[u].stale => alert[request[u].alert] = Nobody

\* A request under way.
Saving == [pc : {"saving"}, alert : Alerts, by : Acknowledgers \cup {Nobody}, stale : BOOLEAN]

LEMMA UnderWay == ASSUME NEW x \in AlertRequests, x # NoRequest PROVE x \in Saving
BY DEF AlertRequests, Saving

LEMMA SavingIs ==
  Saving \subseteq AlertRequests /\ NoRequest \in AlertRequests /\ NoRequest \notin Saving
BY DEF AlertRequests, Saving, NoRequest

LEMMA AlertsInitEstablishes == AlertsInit => AlertsInv
BY DEF AlertsInit, AlertsInv, AlertsTypeOK, AlertRows, AlertRequests

\* A write of alert a leaves the other alerts' requests alone, and makes its own stale.
LEMMA OutdatedIs ==
  ASSUME NEW a \in Alerts, NEW q \in [Acknowledgers -> AlertRequests]
  PROVE  /\ Outdated(a, q) \in [Acknowledgers -> AlertRequests]
         /\ \A u \in Acknowledgers :
              IF q[u] # NoRequest /\ q[u].alert = a THEN Outdated(a, q)[u].stale
              ELSE Outdated(a, q)[u] = q[u]
<1> SUFFICES ASSUME NEW u \in Acknowledgers
             PROVE  /\ Outdated(a, q)[u] \in AlertRequests
                    /\ IF q[u] # NoRequest /\ q[u].alert = a THEN Outdated(a, q)[u].stale
                       ELSE Outdated(a, q)[u] = q[u]
  BY DEF Outdated
<1>1. CASE q[u] # NoRequest /\ q[u].alert = a
  <2>1. q[u] \in Saving
    BY <1>1, UnderWay
  <2>2. [q[u] EXCEPT !.stale = TRUE] \in Saving /\ [q[u] EXCEPT !.stale = TRUE].stale
    BY <2>1 DEF Saving
  <2> QED BY <1>1, <2>2, SavingIs DEF Outdated
<1>2. CASE ~(q[u] # NoRequest /\ q[u].alert = a)
  BY <1>2 DEF Outdated
<1> QED BY <1>1, <1>2

\* A write of an alert, of whatever row.
LEMMA WriteKeeps ==
  ASSUME AlertsInv, NEW a \in Alerts, NEW x \in AlertRows, NEW q \in [Acknowledgers -> AlertRequests],
         \A u \in Acknowledgers : q[u] = request[u] \/ q[u] = NoRequest,
         alert' = [alert EXCEPT ![a] = x], request' = Outdated(a, q), UNCHANGED removed
  PROVE  AlertsInv'
<1>1. AlertsTypeOK'
  BY OutdatedIs DEF AlertsInv, AlertsTypeOK
<1>2. ASSUME NEW u \in Acknowledgers, request'[u] # NoRequest, ~request'[u].stale
      PROVE  alert'[request'[u].alert] = Nobody
  <2>1. request'[u] = q[u] /\ (q[u] = NoRequest \/ q[u].alert # a)
    BY <1>2, OutdatedIs
  <2>2. request'[u] = request[u] /\ request[u].alert # a
    BY <1>2, <2>1
  <2>3. request[u].alert \in Alerts
    BY <1>2, <2>2, UnderWay DEF AlertsInv, AlertsTypeOK, Saving
  <2> QED BY <1>2, <2>2, <2>3 DEF AlertsInv, AlertsTypeOK
<1> QED BY <1>1, <1>2 DEF AlertsInv

\* A request that loads an alert which is not acknowledged.
LEMMA LoadKeeps ==
  ASSUME AlertsInv, NEW u \in Acknowledgers, NEW a \in Alerts, NEW by \in Acknowledgers \cup {Nobody},
         alert[a] = Nobody, Loads(u, a, by)
  PROVE  AlertsInv'
<1> DEFINE x == [pc |-> "saving", alert |-> a, by |-> by, stale |-> FALSE]
<1>1. x \in Saving /\ x.alert = a
  BY DEF Saving
<1>2. request' = [request EXCEPT ![u] = x] /\ alert' = alert /\ removed' = removed
  BY DEF Loads
<1> HIDE DEF x
<1>3. AlertsTypeOK'
  BY <1>1, <1>2, SavingIs DEF AlertsInv, AlertsTypeOK
<1>4. \A v \in Acknowledgers : request'[v] = IF v = u THEN x ELSE request[v]
  BY <1>2 DEF AlertsInv, AlertsTypeOK
<1> QED BY <1>1, <1>2, <1>3, <1>4 DEF AlertsInv

LEMMA AlertsStepKeeps == AlertsInv /\ [AlertsNext]_alertVars => AlertsInv'
<1> SUFFICES ASSUME AlertsInv, [AlertsNext]_alertVars
             PROVE  AlertsInv'
  OBVIOUS
<1>1. CASE UNCHANGED alertVars
  BY <1>1 DEF alertVars, AlertsInv, AlertsTypeOK
<1>2. ASSUME NEW a \in Alerts, Raise(a) PROVE AlertsInv'
  <2>1. alert[a] # Nobody \/ alert'[a] = Nobody
    BY <1>2 DEF Raise, AlertsInv, AlertsTypeOK
  <2>2. /\ AlertsTypeOK'
        /\ \A b \in Alerts : alert[b] = Nobody => alert'[b] = Nobody
    BY <1>2 DEF Raise, AlertsInv, AlertsTypeOK, AlertRows
  <2>3. \A u \in Acknowledgers : request[u] # NoRequest => request[u].alert \in Alerts
    BY UnderWay DEF AlertsInv, AlertsTypeOK, Saving
  <2> QED BY <1>2, <2>2, <2>3 DEF Raise, AlertsInv
<1>3. ASSUME NEW a \in Alerts, DeleteAlert(a) PROVE AlertsInv'
  BY <1>3, WriteKeeps DEF DeleteAlert, AlertRows, AlertsInv, AlertsTypeOK
<1>4. ASSUME NEW u \in Acknowledgers, NEW a \in Alerts, Acknowledge(u, a) PROVE AlertsInv'
  BY <1>4, LoadKeeps DEF Acknowledge
<1>5. ASSUME NEW u \in Acknowledgers, NEW a \in Alerts, Edit(u, a) PROVE AlertsInv'
  BY <1>5, LoadKeeps DEF Edit
<1>6. ASSUME NEW u \in Acknowledgers, SaveAlert(u) PROVE AlertsInv'
  <2> DEFINE q == [request EXCEPT ![u] = NoRequest]
  <2>1. request[u] \in Saving
    BY <1>6, UnderWay DEF SaveAlert, AlertsInv, AlertsTypeOK
  <2>2. request[u].alert \in Alerts /\ request[u].by \in AlertRows
    BY <2>1 DEF Saving, AlertRows
  <2>3. /\ q \in [Acknowledgers -> AlertRequests]
        /\ \A v \in Acknowledgers : q[v] = request[v] \/ q[v] = NoRequest
    BY SavingIs DEF AlertsInv, AlertsTypeOK
  <2>4. /\ alert' = [alert EXCEPT ![request[u].alert] = request[u].by]
        /\ request' = Outdated(request[u].alert, q) /\ UNCHANGED removed
    BY <1>6 DEF SaveAlert
  <2> HIDE DEF q
  <2> QED BY <2>2, <2>3, <2>4, WriteKeeps
<1>7. ASSUME NEW u \in Acknowledgers, SaveAlertFails(u) PROVE AlertsInv'
  <2>1. AlertsTypeOK'
    BY <1>7, SavingIs DEF SaveAlertFails, AlertsInv, AlertsTypeOK
  <2> QED BY <1>7, <2>1 DEF SaveAlertFails, AlertsInv, AlertsTypeOK
<1>8. ASSUME NEW u \in Acknowledgers, DeleteUser(u) PROVE AlertsInv'
  <2>1. AlertsTypeOK'
    BY <1>8 DEF DeleteUser, AlertsInv, AlertsTypeOK, AlertRows
  <2>2. \A a \in Alerts : alert[a] = Nobody => alert'[a] = Nobody
    BY <1>8, NobodyAssumption DEF DeleteUser
  <2>3. \A v \in Acknowledgers : request[v] # NoRequest => request[v].alert \in Alerts
    BY UnderWay DEF AlertsInv, AlertsTypeOK, Saving
  <2> QED BY <1>8, <2>1, <2>2, <2>3 DEF DeleteUser, AlertsInv
<1> QED
  BY <1>1, <1>2, <1>3, <1>4, <1>5, <1>6, <1>7, <1>8 DEF AlertsNext

LEMMA AlertsInvariant == AlertsSpec => []AlertsInv
BY AlertsInitEstablishes, AlertsStepKeeps, PTL DEF AlertsSpec

\* However requests and forms overlap and users are deleted, an acknowledgement
\* is replaced, and a deleted alert comes back, only by a request that had
\* loaded the alert before (models.py:576-583, 641-661, admin.py:487-520).
THEOREM AcknowledgedStays == AlertsSpec => AcknowledgedOnce
<1>1. ASSUME AlertsInv, [AlertsNext]_alertVars, NEW a \in Alerts,
             alert[a] \in Acknowledgers \cup {"unsigned", "deleted"},
             alert'[a] \notin {alert[a], "deleted"},
             ~(alert[a] \in removed' \ removed /\ alert'[a] = "unsigned")
      PROVE  \E u \in Acknowledgers : /\ request[u] # NoRequest /\ request'[u] = NoRequest
                                      /\ request[u].alert = a /\ request[u].stale
  <2>1. PICK u \in Acknowledgers : SaveAlert(u)
    BY <1>1, AcknowledgersAssumption
    DEF AlertsNext, Raise, DeleteAlert, DeleteUser, Acknowledge, Edit, Loads, SaveAlertFails,
        alertVars, AlertsInv, AlertsTypeOK
  <2> DEFINE q == [request EXCEPT ![u] = NoRequest]
  <2>2. request[u] # NoRequest /\ request[u] \in Saving
    BY <1>1, <2>1, UnderWay DEF SaveAlert, AlertsInv, AlertsTypeOK
  <2>3. request[u].alert = a
    BY <1>1, <2>1 DEF SaveAlert, AlertsInv, AlertsTypeOK
  <2>4. request[u].stale
    BY <1>1, <2>2, <2>3, NobodyAssumption DEF AlertsInv
  <2>5. q \in [Acknowledgers -> AlertRequests] /\ q[u] = NoRequest
    BY <1>1, SavingIs DEF AlertsInv, AlertsTypeOK
  <2>6. request' = Outdated(a, q)
    BY <2>1, <2>3 DEF SaveAlert
  <2> HIDE DEF q
  <2>7. request'[u] = NoRequest
    BY <2>5, <2>6, OutdatedIs
  <2> QED BY <2>2, <2>3, <2>4, <2>7
<1>2. AlertsInv /\ [AlertsNext]_alertVars =>
        [\A a \in Alerts :
           /\ alert[a] \in Acknowledgers \cup {"unsigned", "deleted"}
           /\ alert'[a] \notin {alert[a], "deleted"}
           => \/ alert[a] \in removed' \ removed /\ alert'[a] = "unsigned"
              \/ \E u \in Acknowledgers :
                   /\ request[u] # NoRequest /\ request'[u] = NoRequest
                   /\ request[u].alert = a /\ request[u].stale]_alertVars
  BY <1>1
<1> QED BY <1>2, AlertsInvariant, PTL DEF AlertsSpec, AcknowledgedOnce

-----------------------------------------------------------------------------
(* Instruments                                                             *)

\* A writer that has read its rows, and not been overtaken or told otherwise,
\* will save all that is there, and more.
Covers(x) ==
  /\ x.version <= exchange
  /\ x.pc = "save" /\ "instrument" \in x.rows \ (x.posted \cup x.stale) => metadata \subseteq x.keys
  /\ x.pc = "save" /\ "mapping" \in x.rows \ (x.posted \cup x.stale) => details <= x.version

InstrumentsInv ==
  /\ InstrumentsTypeOK
  /\ details <= exchange
  /\ \A w \in Writers : Covers(writer[w])

LEMMA TriesAreNat == MaxTries \in Nat \ {0} /\ UpdateTries \in 1..MaxTries /\ SyncTries \in 1..MaxTries
BY TriesAssumption DEF MaxTries

\* A writer that holds no row.
LEMMA FreshIs ==
  ASSUME NEW n \in 1..MaxTries, NEW pc \in {"start", "done", "failed"}
  PROVE  Fresh(pc, n) \in Writer /\ Fresh(pc, n).pc = pc /\ Fresh(pc, n).version = 0
<1>1. 0 \in 0..MaxVersion
  BY TriesAssumption
<1> QED BY <1>1 DEF Fresh, Writer

\* A task that raised starts again or has failed.
LEMMA AgainIs ==
  ASSUME InstrumentsInv, NEW t \in Writers, NEW max \in 1..MaxTries
  PROVE  /\ TriedAgain(t, max) \in Writer
         /\ TriedAgain(t, max).pc # "save" /\ TriedAgain(t, max).version = 0
<1>1. writer[t].tries \in 1..MaxTries
  BY DEF InstrumentsInv, InstrumentsTypeOK, Writer
<1>2. 1 \in 1..MaxTries
  BY TriesAreNat
<1>3. writer[t].tries < max => writer[t].tries + 1 \in 1..MaxTries
  BY <1>1, TriesAreNat
<1> QED BY <1>2, <1>3, FreshIs DEF TriedAgain

LEMMA InstrumentsInitEstablishes == InstrumentsInit => InstrumentsInv
<1>1. Fresh("start", 1) \in Writer /\ Fresh("start", 1).pc = "start" /\ Fresh("start", 1).version = 0
  BY TriesAreNat, FreshIs
<1>2. 0 \in 0..MaxVersion /\ 1 \in 1..MaxVersion
  BY TriesAssumption
<1> QED BY <1>1, <1>2 DEF InstrumentsInit, InstrumentsInv, InstrumentsTypeOK, Covers

\* One writer moves, and saves nothing.
LEMMA WriterMoves ==
  ASSUME InstrumentsInv, NEW w \in Writers, NEW x \in Writer, writer' = [writer EXCEPT ![w] = x],
         UNCHANGED <<metadata, details, exchange>>, Covers(x)
  PROVE  InstrumentsInv'
<1>1. InstrumentsTypeOK'
  BY DEF InstrumentsInv, InstrumentsTypeOK
<1>2. \A y \in Writers : writer'[y] = IF y = w THEN x ELSE writer[y]
  BY DEF InstrumentsInv, InstrumentsTypeOK
<1>3. \A y \in Writers : Covers(writer[y])'
  BY <1>2 DEF InstrumentsInv, Covers
<1> QED BY <1>1, <1>3 DEF InstrumentsInv

\* What is read covers what is there, but for what was posted.
LEMMA ReadKeeps ==
  ASSUME InstrumentsInv, NEW w \in Writers, NEW rows \in SUBSET Rows, NEW posted \in SUBSET Rows,
         NEW keys \in SUBSET Updates, NEW v \in 0..exchange,
         "instrument" \in rows \ posted => metadata \subseteq keys,
         "mapping" \in rows \ posted => details <= v,
         ReadsRows(w, rows, posted, keys, v)
  PROVE  InstrumentsInv'
<1> DEFINE x == [pc |-> "save", tries |-> writer[w].tries, rows |-> rows, posted |-> posted,
                 stale |-> {}, keys |-> keys, version |-> v]
<1>1. writer[w].tries \in 1..MaxTries /\ v \in 0..MaxVersion /\ v <= exchange
  BY TriesAssumption DEF InstrumentsInv, InstrumentsTypeOK, Writer
<1>2. x \in Writer
  BY <1>1 DEF Writer
<1>3. Covers(x)
  BY <1>1 DEF Covers
<1>4. writer' = [writer EXCEPT ![w] = x] /\ UNCHANGED <<metadata, details, exchange>>
  BY DEF ReadsRows
<1> HIDE DEF x
<1> QED BY <1>2, <1>3, <1>4, WriterMoves

\* A writer that ends or starts again, and saves nothing.
LEMMA LetsGo ==
  ASSUME InstrumentsInv, NEW w \in Writers, NEW x \in Writer, x.pc # "save", x.version = 0,
         writer' = [writer EXCEPT ![w] = x], UNCHANGED <<metadata, details, exchange>>
  PROVE  InstrumentsInv'
<1>1. 0 <= exchange
  BY TriesAssumption DEF InstrumentsInv, InstrumentsTypeOK
<1>2. Covers(x)
  BY <1>1 DEF Covers
<1> QED BY <1>2, WriterMoves

\* A save makes out of date what others have read of its rows.
LEMMA SaveKeeps ==
  ASSUME InstrumentsInv, NEW w \in Writers, NEW next \in Writer, next.pc # "save", next.version = 0,
         SavesRows(w, next)
  PROVE  InstrumentsInv'
<1> DEFINE old(y) == [writer[y] EXCEPT !.stale = @ \cup (writer[w].rows \cap writer[y].rows)]
<1>1. /\ \A y \in Writers : writer[y] \in Writer /\ Covers(writer[y])
      /\ exchange \in 1..MaxVersion /\ details \in 0..MaxVersion /\ details <= exchange
  BY DEF InstrumentsInv, InstrumentsTypeOK
<1>2. /\ metadata' = IF "instrument" \in writer[w].rows THEN writer[w].keys ELSE metadata
      /\ details' = IF "mapping" \in writer[w].rows THEN writer[w].version ELSE details
      /\ exchange' = exchange
      /\ writer' = [y \in Writers |-> IF y = w THEN next ELSE old(y)]
  BY DEF SavesRows
<1>3. \A y \in Writers :
        /\ old(y) \in Writer
        /\ old(y).stale = writer[y].stale \cup (writer[w].rows \cap writer[y].rows)
        /\ old(y).pc = writer[y].pc /\ old(y).rows = writer[y].rows
        /\ old(y).posted = writer[y].posted /\ old(y).keys = writer[y].keys
        /\ old(y).version = writer[y].version
  BY <1>1 DEF Writer
<1> HIDE DEF old
<1>4. metadata' \subseteq Updates /\ details' \in 0..MaxVersion /\ details' <= exchange'
  BY <1>1, <1>2 DEF Writer, Covers, InstrumentsInv, InstrumentsTypeOK
<1>5. InstrumentsTypeOK'
  BY <1>1, <1>2, <1>3, <1>4 DEF InstrumentsTypeOK
<1>6. ASSUME NEW y \in Writers PROVE Covers(writer[y])'
  <2>1. CASE y = w
    BY <1>1, <1>2, <2>1, TriesAssumption DEF Covers
  <2>2. CASE y # w
    <3>1. writer'[y] = old(y)
      BY <1>2, <2>2
    <3>2. old(y).version <= exchange'
      BY <1>1, <1>2, <1>3 DEF Covers
    <3>3. old(y).pc = "save" /\ "instrument" \in old(y).rows \ (old(y).posted \cup old(y).stale)
            => metadata' \subseteq old(y).keys
      BY <1>1, <1>2, <1>3 DEF Covers
    <3>4. old(y).pc = "save" /\ "mapping" \in old(y).rows \ (old(y).posted \cup old(y).stale)
            => details' <= old(y).version
      BY <1>1, <1>2, <1>3 DEF Covers
    <3> QED BY <3>1, <3>2, <3>3, <3>4 DEF Covers
  <2> QED BY <2>1, <2>2
<1> QED BY <1>4, <1>5, <1>6 DEF InstrumentsInv

\* What a task saves and becomes.
LEMMA TaskSaves ==
  ASSUME InstrumentsInv
  PROVE  /\ \A u \in Updates : SaveMetadata(u) =>
              \E next \in Writer : next.pc # "save" /\ next.version = 0 /\ SavesRows(u, next)
         /\ \A s \in Syncs : SaveDetails(s) =>
              \E next \in Writer : next.pc # "save" /\ next.version = 0 /\ SavesRows(s, next)
         /\ \A e \in Editors : SaveEdit(e) =>
              \E next \in Writer : next.pc # "save" /\ next.version = 0 /\ SavesRows(e, next)
<1>1. Fresh("done", 1) \in Writer /\ Fresh("done", 1).pc # "save" /\ Fresh("done", 1).version = 0
  BY TriesAreNat, FreshIs
<1>2. \A u \in Updates : /\ TriedAgain(u, UpdateTries) \in Writer
                         /\ TriedAgain(u, UpdateTries).pc # "save"
                         /\ TriedAgain(u, UpdateTries).version = 0
  BY TriesAreNat, AgainIs DEF Writers
<1> QED BY <1>1, <1>2 DEF SaveMetadata, SaveDetails, SaveEdit

LEMMA InstrumentsStepKeeps == InstrumentsInv /\ [InstrumentsNext]_instrumentsVars => InstrumentsInv'
<1> SUFFICES ASSUME InstrumentsInv, [InstrumentsNext]_instrumentsVars
             PROVE  InstrumentsInv'
  OBVIOUS
<1>0. /\ metadata \in SUBSET Updates /\ details \in 0..exchange /\ exchange \in 1..MaxVersion
      /\ 0 \in 0..exchange /\ exchange \in 0..exchange
  BY TriesAssumption DEF InstrumentsInv, InstrumentsTypeOK
<1>00. Updates \subseteq Writers /\ Syncs \subseteq Writers /\ Editors \subseteq Writers
  BY DEF Writers
<1>1. CASE UNCHANGED instrumentsVars
  BY <1>1 DEF instrumentsVars, InstrumentsInv, InstrumentsTypeOK, Covers
<1>2. CASE ExchangeChanges
  <2>1. \A w \in Writers : writer[w].version \in 0..MaxVersion
    BY DEF InstrumentsInv, InstrumentsTypeOK, Writer
  <2> QED BY <1>0, <1>2, <2>1, TriesAssumption
          DEF ExchangeChanges, InstrumentsInv, InstrumentsTypeOK, Covers
<1>3. ASSUME NEW u \in Updates, Read(u) PROVE InstrumentsInv'
  <2>1. ReadsRows(u, {"instrument"}, {}, metadata \cup {u}, 0)
    BY <1>3 DEF Read
  <2>2. /\ metadata \cup {u} \in SUBSET Updates /\ {} \in SUBSET Rows
        /\ {"instrument"} \in SUBSET Rows /\ "mapping" \notin {"instrument"}
    BY <1>0 DEF Rows
  <2> QED BY <1>0, <1>00, <2>1, <2>2, ReadKeeps
<1>4. ASSUME NEW s \in Syncs, Fetch(s) PROVE InstrumentsInv'
  <2>1. PICK v \in {details, exchange} : ReadsRows(s, {"mapping"}, {}, {}, v)
    BY <1>4 DEF Fetch
  <2>2. /\ v \in 0..exchange /\ details <= v /\ {} \in SUBSET Rows
        /\ {"mapping"} \in SUBSET Rows /\ "instrument" \notin {"mapping"}
    BY <1>0 DEF Rows
  <2> QED BY <1>00, <2>1, <2>2, ReadKeeps
<1>5. ASSUME NEW e \in Editors, EditLoads(e) PROVE InstrumentsInv'
  <2>1. PICK rows \in SUBSET Rows : \E posted \in SUBSET rows :
          \E keys \in SUBSET Updates, v \in 0..exchange :
            /\ "instrument" \notin posted => keys = metadata
            /\ "mapping" \notin posted => v = details
            /\ ReadsRows(e, rows, posted, keys, v)
    BY <1>5 DEF EditLoads
  <2>2. PICK posted \in SUBSET rows : \E keys \in SUBSET Updates, v \in 0..exchange :
          /\ "instrument" \notin posted => keys = metadata
          /\ "mapping" \notin posted => v = details
          /\ ReadsRows(e, rows, posted, keys, v)
    BY <2>1
  <2>3. PICK keys \in SUBSET Updates, v \in 0..exchange :
          /\ "instrument" \notin posted => keys = metadata
          /\ "mapping" \notin posted => v = details
          /\ ReadsRows(e, rows, posted, keys, v)
    BY <2>2
  <2>4. posted \in SUBSET Rows /\ details <= details
    BY <1>0
  <2> QED BY <1>00, <2>3, <2>4, ReadKeeps
<1>6. ASSUME NEW w \in Writers, NEW next \in Writer, next.pc # "save", next.version = 0,
             SavesRows(w, next)
      PROVE  InstrumentsInv'
  BY <1>6, SaveKeeps
<1>7. ASSUME NEW t \in Writers, NEW max \in 1..MaxTries, TaskFails(t, max) PROVE InstrumentsInv'
  BY <1>7, AgainIs, LetsGo DEF TaskFails
<1>8. ASSUME NEW e \in Editors, EditFails(e) PROVE InstrumentsInv'
  <2>1. Fresh("done", 1) \in Writer /\ Fresh("done", 1).pc # "save" /\ Fresh("done", 1).version = 0
    BY TriesAreNat, FreshIs
  <2> QED BY <1>00, <1>8, <2>1, LetsGo DEF EditFails
<1>9. (\E u \in Updates : SaveMetadata(u)) \/ (\E s \in Syncs : SaveDetails(s))
        \/ (\E e \in Editors : SaveEdit(e)) => InstrumentsInv'
  BY <1>00, <1>6, TaskSaves
<1>10. (\E u \in Updates : TaskFails(u, UpdateTries)) \/ (\E s \in Syncs : TaskFails(s, SyncTries))
         => InstrumentsInv'
  BY <1>00, <1>7, TriesAreNat
<1> QED
  BY <1>1, <1>2, <1>3, <1>4, <1>5, <1>8, <1>9, <1>10 DEF InstrumentsNext

LEMMA InstrumentsInvariant == InstrumentsSpec => []InstrumentsInv
BY InstrumentsInitEstablishes, InstrumentsStepKeeps, PTL DEF InstrumentsSpec

\* However tasks and requests overlap and tasks are started again, a key leaves
\* the metadata, and the details go back, only where a request posted as much,
\* or by the save of a row read before another's save of it
\* (instruments/services.py:137-141, 159-172, views.py:80, 168).
THEOREM LossExplained == InstrumentsSpec => LossIsExplained
<1> DEFINE explained ==
      /\ ~(metadata \subseteq metadata') => \E w \in Writers : Overwrites(w, "instrument")
      /\ details' < details => \E w \in Writers : Overwrites(w, "mapping")
<1>1. ASSUME InstrumentsInv, NEW w \in Writers, NEW next \in Writer, next.pc # "save",
             SavesRows(w, next)
      PROVE  explained
  <2>1. /\ writer[w].pc = "save" /\ writer'[w] = next /\ Covers(writer[w])
        /\ details \in Nat
    BY <1>1, TriesAssumption DEF SavesRows, InstrumentsInv, InstrumentsTypeOK
  <2>2. ASSUME ~(metadata \subseteq metadata') PROVE Overwrites(w, "instrument")
    BY <1>1, <2>1, <2>2 DEF SavesRows, Covers, Overwrites
  <2>3. ASSUME details' < details PROVE Overwrites(w, "mapping")
    <3>1. writer[w].version \in Nat
      BY <1>1, TriesAssumption DEF InstrumentsInv, InstrumentsTypeOK, Writer
    <3>2. "mapping" \in writer[w].rows /\ details' = writer[w].version
      BY <1>1, <2>1, <2>3 DEF SavesRows
    <3>3. "mapping" \in writer[w].posted \cup writer[w].stale
      BY <2>1, <2>3, <3>1, <3>2 DEF Covers
    <3> QED BY <1>1, <2>1, <3>2, <3>3 DEF Overwrites
  <2> QED BY <2>2, <2>3
<1>2. ASSUME InstrumentsInv, UNCHANGED <<metadata, details>> PROVE explained
  BY <1>2, TriesAssumption DEF InstrumentsInv, InstrumentsTypeOK
<1>3. ASSUME InstrumentsInv, [InstrumentsNext]_instrumentsVars PROVE explained
  <2>1. \/ UNCHANGED <<metadata, details>>
        \/ \E u \in Updates : SaveMetadata(u)
        \/ \E s \in Syncs : SaveDetails(s)
        \/ \E e \in Editors : SaveEdit(e)
    BY <1>3 DEF InstrumentsNext, ExchangeChanges, Read, Fetch, EditLoads, ReadsRows, TaskFails,
                EditFails, instrumentsVars
  <2>2. \/ UNCHANGED <<metadata, details>>
        \/ \E w \in Writers : \E next \in Writer : next.pc # "save" /\ SavesRows(w, next)
    BY <1>3, <2>1, TaskSaves DEF Writers
  <2> HIDE DEF explained
  <2> QED BY <1>1, <1>2, <1>3, <2>2
<1>4. InstrumentsInv /\ [InstrumentsNext]_instrumentsVars => [explained]_instrumentsVars
  BY <1>3
<1> QED BY <1>4, InstrumentsInvariant, PTL DEF InstrumentsSpec, LossIsExplained

-----------------------------------------------------------------------------
(* Rate limits                                                             *)

\* While calls do not overlap and no row is posted, there is at most one row, and the call that is
\* under way knows about it.
Alone ==
  /\ \A c, d \in Callers : check[c].pc # "idle" /\ check[d].pc # "idle" => c = d
  /\ \A r, s \in Found : r = s
  /\ \A c \in Callers :
       /\ check[c].pc \in {"insert", "create"} => Found = {}
       /\ check[c].pc \in {"look", "delete", "count"} => Found \subseteq {check[c].row}

\* Unless a call came at the window's first instant, all have started at 0.
FromZero ==
  /\ onTime \/ \A c \in Callers : check[c].pc = "count" => check[c].n = 0
  /\ refused => weight > Limit \/ onTime

LimitsInv == LimitsTypeOK /\ (overlap \/ edited \/ Alone) /\ FromZero

LEMMA NumbersAreNat ==
  /\ Limit \in Nat /\ MaxRows \in Nat /\ Gone \in Nat /\ Gone > Limit
  /\ 0 \in 0..Gone /\ Gone \in 0..Gone /\ 0 \in 0..MaxRows /\ 0 \in 0..Limit
BY LimitAssumption DEF Gone

LEMMA CheckIs ==
  ASSUME NEW pc \in Steps, NEW i \in 0..MaxRows, NEW n \in 0..Limit
  PROVE  /\ CheckAt(pc, i, n) \in Checks /\ CheckAt(pc, i, n).pc = pc
         /\ CheckAt(pc, i, n).row = i /\ CheckAt(pc, i, n).n = n
BY DEF CheckAt, Checks

LEMMA NoCheckIs == NoCheck \in Checks /\ NoCheck.pc = "idle"
BY CheckIs, NumbersAreNat DEF NoCheck, Steps

\* A call's next step.
LEMMA NextStepIs ==
  ASSUME NEW x \in Checks, NEW pc \in Steps
  PROVE  /\ [x EXCEPT !.pc = pc] \in Checks /\ [x EXCEPT !.pc = pc].pc = pc
         /\ [x EXCEPT !.pc = pc].row = x.row /\ [x EXCEPT !.pc = pc].n = x.n
BY DEF Checks

LEMMA MovesIs ==
  ASSUME LimitsInv, NEW c \in Callers, NEW x \in Checks, Moves(c, x)
  PROVE  check' \in [Callers -> Checks] /\ \A d \in Callers : check'[d] = IF d = c THEN x ELSE check[d]
BY DEF LimitsInv, LimitsTypeOK, Moves

\* A step of one call, after which there are other rows, of which it knows.
LEMMA OneCallSteps ==
  ASSUME LimitsInv, NEW c \in Callers, NEW x \in Checks, Moves(c, x), check[c].pc # "idle",
         LimitsTypeOK', overlap' = overlap, edited' = edited, FromZero',
         Alone => /\ \A r, s \in Found' : r = s
                  /\ x.pc \in {"insert", "create"} => Found' = {}
                  /\ x.pc \in {"look", "delete", "count"} => Found' \subseteq {x.row}
  PROVE  LimitsInv'
<1>1. ASSUME Alone PROVE Alone'
  <2>1. \A d \in Callers : IF d = c THEN check'[d] = x ELSE check'[d] = check[d] /\ check[d].pc = "idle"
    BY <1>1, MovesIs DEF Alone
  <2> QED BY <1>1, <2>1 DEF Alone
<1> QED BY <1>1 DEF LimitsInv

\* A row is taken away, or its count changes.
LEMMA RowChanges ==
  ASSUME LimitsInv, NEW r \in 0..MaxRows, NEW n \in 0..Gone, count' = [count EXCEPT ![r] = n]
  PROVE  /\ count' \in [LimitRows -> 0..Gone]
         /\ Found' \subseteq Found \cup {r}
         /\ n = Gone => Found' = Found \ {r}
BY DEF LimitsInv, LimitsTypeOK, Found, LimitRows

LEMMA LimitsInitEstablishes == LimitsInit => LimitsInv
<1> SUFFICES ASSUME LimitsInit PROVE LimitsInv
  OBVIOUS
<1>1. Found = {}
  BY DEF LimitsInit, Found
<1>2. \A c \in Callers : check[c].pc = "idle"
  BY NoCheckIs DEF LimitsInit
<1>3. LimitsTypeOK
  <2>1. onTime \in BOOLEAN /\ overlap \in BOOLEAN /\ edited \in BOOLEAN /\ refused \in BOOLEAN
    BY DEF LimitsInit
  <2>2. count \in [LimitRows -> 0..Gone] /\ made \in 0..MaxRows
    BY NumbersAreNat DEF LimitsInit
  <2>3. weight \in Weights /\ check \in [Callers -> Checks]
    BY NoCheckIs DEF LimitsInit
  <2> QED BY <2>1, <2>2, <2>3 DEF LimitsTypeOK
<1>4. FromZero
  BY <1>2 DEF LimitsInit, FromZero
<1> QED BY <1>1, <1>2, <1>3, <1>4 DEF LimitsInv, Alone

LEMMA LimitsStepKeeps == LimitsInv /\ [LimitsNext]_limitsVars => LimitsInv'
<1> SUFFICES ASSUME LimitsInv, [LimitsNext]_limitsVars
             PROVE  LimitsInv'
  OBVIOUS
<1>0. /\ weight \in Nat /\ count \in [LimitRows -> 0..Gone] /\ made \in 0..MaxRows
      /\ check \in [Callers -> Checks]
      /\ \A c \in Callers : /\ check[c].pc \in Steps /\ check[c].row \in 0..MaxRows
                            /\ check[c].n \in 0..Limit
  BY LimitAssumption DEF LimitsInv, LimitsTypeOK, Checks
<1>1. CASE UNCHANGED limitsVars
  BY <1>1 DEF limitsVars, LimitsInv, LimitsTypeOK, Alone, FromZero, Found
<1>2. CASE NextWindow
  <2>1. Found' = {}
    BY <1>2 DEF NextWindow, Found
  <2>2. \A c \in Callers : check'[c].pc = "idle"
    BY <1>2, NoCheckIs DEF NextWindow
  <2>3. LimitsTypeOK'
    <3>1. onTime' \in BOOLEAN /\ overlap' \in BOOLEAN /\ edited' \in BOOLEAN /\ refused' \in BOOLEAN
      BY <1>2 DEF NextWindow
    <3>2. count' \in [LimitRows -> 0..Gone] /\ made' \in 0..MaxRows
      BY <1>2, NumbersAreNat DEF NextWindow
    <3>3. weight' \in Weights /\ check' \in [Callers -> Checks]
      BY <1>2 DEF NextWindow, LimitsInv, LimitsTypeOK
    <3> QED BY <3>1, <3>2, <3>3 DEF LimitsTypeOK
  <2>4. FromZero'
    BY <1>2, <2>2 DEF NextWindow, FromZero
  <2> QED BY <2>1, <2>2, <2>3, <2>4 DEF LimitsInv, Alone
<1>3. ASSUME NEW c \in Callers, BeginCheck(c) PROVE LimitsInv'
  <2> DEFINE x == CheckAt("get", 0, 0)
  <2>1. x \in Checks /\ x.pc = "get"
    BY CheckIs, NumbersAreNat DEF Steps
  <2>2. Moves(c, x) /\ UNCHANGED <<weight, count, made, onTime, edited, refused>>
    BY <1>3 DEF BeginCheck
  <2> HIDE DEF x
  <2>3. check' \in [Callers -> Checks] /\ \A d \in Callers : check'[d] = IF d = c THEN x ELSE check[d]
    BY <2>1, <2>2, MovesIs
  <2>4. overlap' \in BOOLEAN
    BY <1>3 DEF BeginCheck
  <2>5. LimitsTypeOK'
    BY <2>2, <2>3, <2>4 DEF LimitsInv, LimitsTypeOK
  <2>6. FromZero'
    BY <2>1, <2>2, <2>3 DEF LimitsInv, FromZero
  <2>7. overlap' \/ edited' \/ Alone'
    <3>1. SUFFICES ASSUME ~overlap', ~edited' PROVE Alone'
      OBVIOUS
    <3>2. ~overlap /\ ~edited /\ \A d \in Callers \ {c} : check[d].pc = "idle"
      BY <1>3, <3>1 DEF BeginCheck
    <3>3. Found' = Found /\ Alone
      BY <2>2, <3>2 DEF Found, LimitsInv
    <3> QED BY <2>1, <2>3, <3>2, <3>3 DEF Alone
  <2> QED BY <2>5, <2>6, <2>7 DEF LimitsInv
<1>4. ASSUME NEW c \in Callers, Get(c) PROVE LimitsInv'
  <2> DEFINE r == CHOOSE r \in Found : TRUE
  <2>0. /\ check[c].pc = "get" /\ UNCHANGED <<weight, count, made, onTime, overlap, edited, refused>>
        /\ Found' = Found
    BY <1>4 DEF Get, Found
  <2>1. ASSUME NEW x \in Checks, Moves(c, x), x.pc \in {"insert", "look", "idle"},
               x.pc = "insert" => Found = {},
               x.pc = "look" => x.row \in Found
        PROVE  LimitsInv'
    <3>1. check' \in [Callers -> Checks] /\ \A d \in Callers : check'[d] = IF d = c THEN x ELSE check[d]
      BY <2>1, MovesIs
    <3>2. LimitsTypeOK'
      BY <2>0, <3>1 DEF LimitsInv, LimitsTypeOK
    <3>3. FromZero'
      BY <2>0, <2>1, <3>1 DEF LimitsInv, FromZero
    <3> QED BY <2>0, <2>1, <3>2, <3>3, OneCallSteps DEF Alone
  <2>2. CASE Found = {}
    <3> DEFINE x == CheckAt("insert", 0, 0)
    <3>1. Moves(c, x)
      BY <1>4, <2>2, FS_EmptySet DEF Get
    <3>2. x \in Checks /\ x.pc = "insert"
      BY CheckIs, NumbersAreNat DEF Steps
    <3> HIDE DEF x
    <3> QED BY <2>1, <2>2, <3>1, <3>2
  <2>3. CASE Found # {} /\ Cardinality(Found) = 1
    <3>1. r \in Found
      BY <2>3
    <3>2. r \in LimitRows /\ count[r] \in 0..Gone /\ count[r] # Gone
      BY <1>0, <3>1 DEF Found
    <3>3. r \in 0..MaxRows /\ count[r] \in 0..Limit
      BY <3>2, NumbersAreNat DEF LimitRows, Gone
    <3>4. Moves(c, CheckAt("look", r, count[r]))
      BY <1>4, <2>3 DEF Get
    <3> HIDE DEF r
    <3> QED BY <2>1, <3>1, <3>3, <3>4, CheckIs DEF Steps
  <2>4. CASE Found # {} /\ Cardinality(Found) # 1
    <3>1. Moves(c, NoCheck)
      BY <1>4, <2>4 DEF Get
    <3> QED BY <2>1, <3>1, NoCheckIs
  <2> QED BY <2>2, <2>3, <2>4
<1>5. ASSUME NEW c \in Callers, NEW from \in {"insert", "create"}, NEW to \in {"look", "count"},
             InsertRow(c, from, to)
      PROVE  LimitsInv'
  <2> DEFINE x == CheckAt(to, made + 1, 0)
  <2>1. /\ check[c].pc = from /\ made + 1 \in 1..MaxRows /\ made' = made + 1
        /\ count' = [count EXCEPT ![made + 1] = 0] /\ Moves(c, x)
        /\ UNCHANGED <<weight, onTime, overlap, edited, refused>>
    BY <1>0, <1>5, NumbersAreNat DEF InsertRow
  <2>2. x \in Checks /\ x.pc = to /\ x.row = made + 1 /\ x.n = 0
    BY <2>1, CheckIs, NumbersAreNat DEF Steps
  <2> HIDE DEF x
  <2>3. check' \in [Callers -> Checks] /\ \A d \in Callers : check'[d] = IF d = c THEN x ELSE check[d]
    BY <2>1, <2>2, MovesIs
  <2>4. count' \in [LimitRows -> 0..Gone] /\ Found' \subseteq Found \cup {made + 1}
    <3>1. made + 1 \in 0..MaxRows
      BY <2>1
    <3> QED BY <2>1, <3>1, RowChanges, NumbersAreNat
  <2>5. LimitsTypeOK'
    BY <2>1, <2>3, <2>4, NumbersAreNat DEF LimitsInv, LimitsTypeOK
  <2>6. FromZero'
    BY <2>1, <2>2, <2>3 DEF LimitsInv, FromZero
  <2>7. Alone => Found' \subseteq {x.row}
    BY <2>1, <2>2, <2>4 DEF Alone
  <2> QED BY <2>1, <2>2, <2>5, <2>6, <2>7, OneCallSteps
<1>6. ASSUME NEW c \in Callers, GetInserts(c) PROVE LimitsInv'
  BY <1>5, <1>6 DEF GetInserts
<1>7. ASSUME NEW c \in Callers, CreateRow(c) PROVE LimitsInv'
  BY <1>5, <1>7 DEF CreateRow
<1>8. ASSUME NEW c \in Callers, Look(c) PROVE LimitsInv'
  <2>0. /\ check[c].pc = "look" /\ UNCHANGED <<weight, count, made, overlap, edited, refused>>
        /\ Found' = Found /\ check[c] \in Checks
    BY <1>0, <1>8 DEF Look, Found
  <2>1. ASSUME NEW pc \in {"delete", "count"}, Moves(c, [check[c] EXCEPT !.pc = pc]),
               onTime' \in BOOLEAN, onTime => onTime', pc = "count" => onTime'
        PROVE  LimitsInv'
    <3> DEFINE x == [check[c] EXCEPT !.pc = pc]
    <3>1. x \in Checks /\ x.pc = pc /\ x.row = check[c].row
      <4>1. pc \in Steps
        BY DEF Steps
      <4> QED BY <2>0, <4>1, NextStepIs
    <3>2. Moves(c, x)
      BY <2>1
    <3> HIDE DEF x
    <3>3. check' \in [Callers -> Checks] /\ \A d \in Callers : check'[d] = IF d = c THEN x ELSE check[d]
      BY <3>1, <3>2, MovesIs
    <3>4. LimitsTypeOK'
      BY <2>0, <2>1, <3>3 DEF LimitsInv, LimitsTypeOK
    <3>5. FromZero'
      BY <2>0, <2>1, <3>1, <3>3 DEF LimitsInv, FromZero
    <3> QED BY <2>0, <3>1, <3>2, <3>4, <3>5, OneCallSteps DEF Alone
  <2>2. onTime \in BOOLEAN
    BY DEF LimitsInv, LimitsTypeOK
  <2>3. CASE Moves(c, [check[c] EXCEPT !.pc = "delete"]) /\ UNCHANGED onTime
    BY <2>1, <2>2, <2>3
  <2>4. CASE Moves(c, [check[c] EXCEPT !.pc = "count"]) /\ onTime' = TRUE
    <3>1. onTime' \in BOOLEAN /\ onTime'
      BY <2>4
    <3> QED BY <2>1, <2>4, <3>1
  <2> QED BY <1>8, <2>3, <2>4 DEF Look
<1>9. ASSUME NEW c \in Callers, DeleteRow(c) PROVE LimitsInv'
  <2> DEFINE x == [check[c] EXCEPT !.pc = "create"]
  <2>1. /\ check[c].pc = "delete" /\ check[c] \in Checks /\ check[c].row \in 0..MaxRows
        /\ count' = [count EXCEPT ![check[c].row] = Gone] /\ Moves(c, x)
        /\ UNCHANGED <<weight, made, onTime, overlap, edited, refused>>
    BY <1>0, <1>9 DEF DeleteRow
  <2>2. x \in Checks /\ x.pc = "create"
    BY <2>1, NextStepIs DEF Steps
  <2> HIDE DEF x
  <2>3. check' \in [Callers -> Checks] /\ \A d \in Callers : check'[d] = IF d = c THEN x ELSE check[d]
    BY <2>1, <2>2, MovesIs
  <2>4. count' \in [LimitRows -> 0..Gone] /\ Found' = Found \ {check[c].row}
    <3>1. Gone \in 0..Gone
      BY NumbersAreNat
    <3> QED BY <2>1, <3>1, RowChanges
  <2>5. LimitsTypeOK'
    BY <2>1, <2>3, <2>4 DEF LimitsInv, LimitsTypeOK
  <2>6. FromZero'
    BY <2>1, <2>2, <2>3 DEF LimitsInv, FromZero
  <2>7. Alone => Found' = {}
    BY <2>1, <2>4 DEF Alone
  <2> QED BY <2>1, <2>2, <2>5, <2>6, <2>7, OneCallSteps
<1>10. ASSUME NEW c \in Callers, Count(c) PROVE LimitsInv'
  <2> DEFINE allowed == check[c].n + weight <= Limit
             k == check[c].n + (IF allowed THEN weight ELSE 0)
  <2>1. /\ check[c].pc = "count" /\ check[c].row \in 0..MaxRows
        /\ count' = [count EXCEPT ![check[c].row] = k] /\ Moves(c, NoCheck)
        /\ UNCHANGED <<weight, made, onTime, overlap, edited>>
        /\ refused' = (refused \/ ~allowed)
    BY <1>0, <1>10 DEF Count
  <2>2. k \in 0..Gone
    BY <1>0, NumbersAreNat
  <2>3. check' \in [Callers -> Checks] /\ \A d \in Callers : check'[d] = IF d = c THEN NoCheck ELSE check[d]
    BY <2>1, NoCheckIs, MovesIs
  <2>4. count' \in [LimitRows -> 0..Gone] /\ Found' \subseteq Found \cup {check[c].row}
    <3> HIDE DEF k
    <3> QED BY <2>1, <2>2, RowChanges
  <2>5. LimitsTypeOK'
    BY <2>1, <2>3, <2>4 DEF LimitsInv, LimitsTypeOK
  <2>6. refused' => weight > Limit \/ onTime
    <3>1. CASE refused
      BY <3>1 DEF LimitsInv, FromZero
    <3>2. CASE ~allowed
      <4>1. onTime \/ check[c].n = 0
        BY <2>1 DEF LimitsInv, FromZero
      <4> QED BY <1>0, <3>2, <4>1, NumbersAreNat
    <3>3. refused' => refused \/ ~allowed
      BY <2>1
    <3> QED BY <3>1, <3>2, <3>3
  <2>7. FromZero'
    BY <2>1, <2>3, <2>6, NoCheckIs DEF LimitsInv, FromZero
  <2>8. Alone => \A r, s \in Found' : r = s
    BY <2>1, <2>4 DEF Alone
  <2> QED BY <2>1, <2>5, <2>7, <2>8, NoCheckIs, OneCallSteps
<1>11. ASSUME NEW c \in Callers, CheckFails(c) PROVE LimitsInv'
  <2>1. /\ check[c].pc # "idle" /\ Moves(c, NoCheck) /\ Found' = Found
        /\ UNCHANGED <<weight, count, made, onTime, overlap, edited, refused>>
    BY <1>11 DEF CheckFails, Found
  <2>2. check' \in [Callers -> Checks] /\ \A d \in Callers : check'[d] = IF d = c THEN NoCheck ELSE check[d]
    BY <2>1, NoCheckIs, MovesIs
  <2>3. LimitsTypeOK'
    BY <2>1, <2>2 DEF LimitsInv, LimitsTypeOK
  <2>4. FromZero'
    BY <2>1, <2>2, NoCheckIs DEF LimitsInv, FromZero
  <2> QED BY <2>1, <2>3, <2>4, NoCheckIs, OneCallSteps DEF Alone
<1>12. CASE EditRow
  <2>1. PICK r \in LimitRows, n \in 0..Gone :
          /\ r <= made + 1 /\ count' = [count EXCEPT ![r] = n]
          /\ made' = IF r > made THEN r ELSE made
    BY <1>12 DEF EditRow
  <2>2. edited' = TRUE /\ UNCHANGED <<weight, check, onTime, overlap, refused>>
    BY <1>12 DEF EditRow
  <2>3. count' \in [LimitRows -> 0..Gone] /\ made' \in 0..MaxRows
    BY <1>0, <2>1, NumbersAreNat DEF LimitRows
  <2>4. LimitsTypeOK'
    BY <2>2, <2>3 DEF LimitsInv, LimitsTypeOK
  <2>5. FromZero'
    BY <2>2 DEF LimitsInv, FromZero
  <2> QED BY <2>2, <2>4, <2>5 DEF LimitsInv
<1> QED
  BY <1>1, <1>2, <1>3, <1>4, <1>6, <1>7, <1>8, <1>9, <1>10, <1>11, <1>12 DEF LimitsNext

LEMMA LimitsInvariant == LimitsSpec => []LimitsInv
BY LimitsInitEstablishes, LimitsStepKeeps, PTL DEF LimitsSpec

\* However many calls there are, however they overlap and whatever is posted:
\* two rows need an overlap or a posted row, and a refusal needs an endpoint
\* that is too heavy by itself or a call at the window's first instant
\* (base.py:60-108, views.py:47).
THEOREM LimitForgotten == LimitsSpec => []LimitIsForgotten
<1>1. ASSUME LimitsInv PROVE LimitIsForgotten
  <2>1. ASSUME Cardinality(Found) > 1, ~overlap, ~edited PROVE FALSE
    <3>1. Alone
      BY <1>1, <2>1 DEF LimitsInv
    <3>2. Found # {}
      BY <2>1, FS_EmptySet
    <3>3. PICK r \in Found : TRUE
      BY <3>2
    <3>4. Found = {r}
      BY <3>1, <3>3 DEF Alone
    <3>5. Cardinality(Found) = 1
      BY <3>4, FS_Singleton
    <3> QED BY <2>1, <3>5
  <2> QED BY <1>1, <2>1 DEF LimitIsForgotten, LimitsInv, FromZero
<1> QED BY <1>1, LimitsInvariant, PTL

-----------------------------------------------------------------------------
(* The nine together                                                       *)

\* Whichever service is chosen, every one of the nine behaves by its own
\* specification: what is proved of one alone holds where all are declared.
THEOREM ServicesAreAlone ==
  Spec => /\ LoginSpec /\ RegistrationSpec /\ TwoFactorSpec /\ KeysSpec /\ AlertsSpec
          /\ LimitsSpec /\ BusSpec /\ SocketsSpec /\ InstrumentsSpec
<1>1. Init => /\ LoginInit /\ RegistrationInit /\ TwoFactorInit /\ KeysInit /\ AlertsInit
              /\ LimitsInit /\ BusInit /\ SocketsInit /\ InstrumentsInit
  BY DEF Init
<1>2. [Next]_vars => /\ [LoginNext]_loginVars /\ [RegistrationNext]_registrationVars
                     /\ [TwoFactorNext]_twoFactorVars /\ [KeysNext]_keysVars
                     /\ [AlertsNext]_alertVars /\ [LimitsNext]_limitsVars /\ [BusNext]_busVars
                     /\ [SocketsNext]_socketsVars /\ [InstrumentsNext]_instrumentsVars
  BY DEF Next, vars
<1> QED
  BY <1>1, <1>2, PTL DEF Spec, LoginSpec, RegistrationSpec, TwoFactorSpec, KeysSpec, AlertsSpec,
                         LimitsSpec, BusSpec, SocketsSpec, InstrumentsSpec

\* Every variable of every service keeps its type.
THEOREM ServicesTypeCorrect == Spec => []TypeOK
<1>1. RegInv => RegistrationTypeOK
  BY DEF RegInv
<1>2. TwoFactorInv => TwoFactorTypeOK
  BY DEF TwoFactorInv
<1>3. KeysInv => KeysTypeOK
  BY DEF KeysInv
<1>4. AlertsInv => AlertsTypeOK
  BY DEF AlertsInv
<1>5. LimitsInv => LimitsTypeOK
  BY DEF LimitsInv
<1>6. BusInv => BusTypeOK
  BY TypedIs DEF BusInv
<1>7. InstrumentsInv => InstrumentsTypeOK
  BY DEF InstrumentsInv
<1>8. Spec => [](RegInv /\ TwoFactorInv /\ KeysInv)
  BY ServicesAreAlone, RegInvariant, TwoFactorInvariant, KeysInvariant, PTL
<1>9. Spec => [](AlertsInv /\ LimitsInv /\ BusInv /\ InstrumentsInv)
  BY ServicesAreAlone, AlertsInvariant, LimitsInvariant, BusInvariant, InstrumentsInvariant, PTL
<1>10. Spec => [](LoginTypeOK /\ SocketsTypeOK)
  BY ServicesAreAlone, LoginTypeCorrect, SocketsTypeCorrect, PTL
<1> QED BY <1>1, <1>2, <1>3, <1>4, <1>5, <1>6, <1>7, <1>8, <1>9, <1>10, PTL DEF TypeOK

\* What is promised of each service holds where all nine are declared, for
\* any value of the constants: every other property of the run.
THEOREM ServicesKeepTheirPromises ==
  Spec => /\ [](LockIsEarned /\ TokenIsUsedOnce /\ ProfilesAreExplained /\ TwinsOverlapped)
          /\ [](CodesAreSpent /\ LimitIsForgotten /\ OnlyReplacingLoses /\ GroupsAreRemembered)
          /\ UndoneByStaleSave /\ RevokedStaysGone /\ AcknowledgedOnce /\ LossIsExplained
<1>1. Spec => [](LockIsEarned /\ TokenIsUsedOnce /\ ProfilesAreExplained /\ TwinsOverlapped)
  BY ServicesAreAlone, LocksAreEarned, TokensAreUsedOnce, ProfilesExplained, TwinsOverlap, PTL
<1>2. Spec => [](CodesAreSpent /\ LimitIsForgotten /\ OnlyReplacingLoses /\ GroupsAreRemembered)
  BY ServicesAreAlone, CodesSpent, LimitForgotten, ReplacingLoses, GroupsRemembered, PTL
<1>3. Spec => UndoneByStaleSave /\ RevokedStaysGone /\ AcknowledgedOnce /\ LossIsExplained
  BY ServicesAreAlone, StaleSavesUndo, RevokedStays, AcknowledgedStays, LossExplained
<1> QED BY <1>1, <1>2, <1>3

=============================================================================
