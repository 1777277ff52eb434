---------------------------- MODULE SignalAlerts ----------------------------
(***************************************************************************)
(* The alerts of one signal and one type.  An alert is acknowledged by the *)
(* API or an admin action, or edited in the admin: each loads an alert     *)
(* that is not acknowledged, and saves every column of it later.  The      *)
(* database allows one alert that is not acknowledged at a time, and takes *)
(* a deleted user's name off the alerts.                                   *)
(***************************************************************************)
EXTENDS Naturals, FiniteSets

CONSTANTS
  Alerts,          \* alerts that may be raised
  Acknowledgers,   \* those who acknowledge them, one request each at a time
  Nobody

ASSUME NobodyAssumption == Nobody \notin Acknowledgers \cup {"no row", "deleted", "unsigned"}
ASSUME AcknowledgersAssumption == Acknowledgers \cap {"no row", "deleted", "unsigned"} = {}

VARIABLES
  alert,      \* the row of each alert: acknowledged by whom, or that it is not there
  request,    \* each user's request, with the alert it has loaded
  removed     \* the users who have been deleted

alertVars == <<alert, request, removed>>

\* A row by Nobody is not acknowledged; an unsigned one is, by a user deleted since.
AlertRows == Acknowledgers \cup {Nobody, "no row", "deleted", "unsigned"}

\* by: what the request will write; stale: the row was written since it loaded it.
NoRequest == [pc |-> "idle"]
AlertRequests ==
  {NoRequest} \cup
  [pc : {"saving"}, alert : Alerts, by : Acknowledgers \cup {Nobody}, stale : BOOLEAN]

AlertsTypeOK ==
  /\ alert \in [Alerts -> AlertRows]
  /\ request \in [Acknowledgers -> AlertRequests]
  /\ removed \subseteq Acknowledgers

AlertsInit ==
  /\ alert = [a \in Alerts |-> "no row"]
  /\ request = [u \in Acknowledgers |-> NoRequest]
  /\ removed = {}

-----------------------------------------------------------------------------
\* The unique constraint, which full_clean() checks before the database does.
MayBeOpen(a) == \A b \in Alerts \ {a} : alert[b] # Nobody

\* What a write of alert a makes of the requests that have loaded it.
Outdated(a, requests) ==
  [u \in Acknowledgers |-> IF requests[u] # NoRequest /\ requests[u].alert = a
                           THEN [requests[u] EXCEPT !.stale = TRUE] ELSE requests[u]]

Raise(a) ==
  /\ alert[a] = "no row"
  /\ MayBeOpen(a)
  /\ alert' = [alert EXCEPT ![a] = Nobody]
  /\ UNCHANGED <<request, removed>>

Loads(u, a, by) ==
  /\ request[u] = NoRequest
  /\ u \notin removed
  /\ request' = [request EXCEPT ![u] = [pc |-> "saving", alert |-> a, by |-> by, stale |-> FALSE]]
  /\ UNCHANGED <<alert, removed>>

\* acknowledge(), of an alert the view or the admin's action has just read
\* with is_acknowledged=False.
AcknowledgeAny(u, a) ==           \* mutant: neither the filter nor the check
  /\ alert[a] \in Acknowledgers \cup {Nobody}
  /\ Loads(u, a, u)

Acknowledge(u, a) ==
  /\ alert[a] = Nobody
  /\ Loads(u, a, u)

\* The admin's form, posted: has_change_permission refuses an acknowledged
\* alert.  The form may tick is_acknowledged, which save_model signs.
Edit(u, a) ==
  /\ alert[a] = Nobody
  /\ \E by \in {u, Nobody} : Loads(u, a, by)

\* The UPDATE, or the INSERT of a loaded alert that is no longer there; the
\* user whose name it bears has to exist.
SaveAlert(u) ==
  /\ request[u] # NoRequest
  /\ request[u].by \notin removed
  /\ request[u].by = Nobody => MayBeOpen(request[u].alert)
  /\ alert' = [alert EXCEPT ![request[u].alert] = request[u].by]
  /\ request' = Outdated(request[u].alert, [request EXCEPT ![u] = NoRequest])
  /\ UNCHANGED removed

\* The check or the database refuses the save.
SaveAlertFails(u) ==
  /\ request[u] # NoRequest
  /\ request' = [request EXCEPT ![u] = NoRequest]
  /\ UNCHANGED <<alert, removed>>

\* The admin deletes an alert.
DeleteAlert(a) ==
  /\ alert[a] \in Acknowledgers \cup {Nobody, "unsigned"}
  /\ alert' = [alert EXCEPT ![a] = "deleted"]
  /\ request' = Outdated(a, request)
  /\ UNCHANGED removed

\* The admin deletes a user, which sets acknowledged_by to NULL.  A request
\* about one of these alerts had loaded it before it was acknowledged.
DeleteUser(u) ==
  /\ u \notin removed
  /\ removed' = removed \cup {u}
  /\ alert' = [a \in Alerts |-> IF alert[a] = u THEN "unsigned" ELSE alert[a]]
  /\ UNCHANGED request

-----------------------------------------------------------------------------
AlertsNext ==
  \/ \E a \in Alerts : Raise(a) \/ DeleteAlert(a)
  \/ \E u \in Acknowledgers : \/ \E a \in Alerts : Acknowledge(u, a) \/ Edit(u, a)
                              \/ SaveAlert(u) \/ SaveAlertFails(u) \/ DeleteUser(u)

AlertsSpec == AlertsInit /\ [][AlertsNext]_alertVars

-----------------------------------------------------------------------------
\* Who has acknowledged an alert is forgotten, or replaced by another, only
\* when that user is deleted, or by a request that had loaded the alert before
\* the acknowledgement; so is a deletion undone, and an alert whose user was
\* deleted open again (models.py:576-583, 641-661, admin.py:487-520, views.py:115-116).
AcknowledgedOnce ==
  [][\A a \in Alerts :
       /\ alert[a] \in Acknowledgers \cup {"unsigned", "deleted"}
       /\ alert'[a] \notin {alert[a], "deleted"}
       => \/ alert[a] \in removed' \ removed /\ alert'[a] = "unsigned"
          \/ \E u \in Acknowledgers :
               /\ request[u] # NoRequest /\ request'[u] = NoRequest
               /\ request[u].alert = a /\ request[u].stale]_alertVars

=============================================================================
