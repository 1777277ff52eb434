----------------------------- MODULE RateLimits -----------------------------
(***************************************************************************)
(* The rate limiter of connectors/base.py, for one account and endpoint.   *)
(* _check_rate_limit finds or inserts the row of the current window; a row *)
(* whose window started before now is deleted and inserted anew, with a    *)
(* count of 0.  As the window is an hour and now is nearly never its first *)
(* microsecond, that is nearly every row.                                  *)
(*                                                                         *)
(* Nothing makes the row of a window unique.  Django inserts a loaded row  *)
(* that it cannot update.  A view set and the admin's form insert, change  *)
(* and delete rows as they are told.                                       *)
(***************************************************************************)
EXTENDS Naturals, FiniteSets

CONSTANTS
  Callers,     \* threads that call the connector
  Limit,       \* rate_limit_per_minute
  Weights,     \* rate_limit_weight, of which the endpoint has one
  MaxRows      \* bound: rows inserted

ASSUME LimitAssumption == Limit \in Nat /\ MaxRows \in Nat /\ Weights \subseteq Nat

VARIABLES
  weight,      \* the endpoint's
  count,       \* requests_count of each row of this window, Gone if there is no row
  made,        \* rows inserted so far
  check,       \* the call each caller is in
  onTime,      \* history: a call began at the window's first instant
  overlap,     \* history: a call began while another was under way
  edited,      \* history: a request or a form has written rows of this window
  refused      \* history: a call was told to wait

limitsVars == <<weight, count, made, check, onTime, overlap, edited, refused>>

Gone == Limit + 1
LimitRows == 1..MaxRows
Found == {r \in LimitRows : count[r] # Gone}

\* row, n: the row the call holds, and its requests_count in memory.
CheckAt(pc, row, n) == [pc |-> pc, row |-> row, n |-> n]
NoCheck == CheckAt("idle", 0, 0)
Steps == {"idle", "get", "insert", "look", "delete", "create", "count"}
Checks == [pc : Steps, row : 0..MaxRows, n : 0..Limit]

LimitsTypeOK ==
  /\ weight \in Weights
  /\ count \in [LimitRows -> 0..Gone]
  /\ made \in 0..MaxRows
  /\ check \in [Callers -> Checks]
  /\ onTime \in BOOLEAN /\ overlap \in BOOLEAN /\ edited \in BOOLEAN /\ refused \in BOOLEAN

LimitsInit ==
  /\ weight \in Weights
  /\ count = [r \in LimitRows |-> Gone]
  /\ made = 0
  /\ check = [c \in Callers |-> NoCheck]
  /\ onTime = FALSE /\ overlap = FALSE /\ edited = FALSE /\ refused = FALSE

Moves(c, call) == check' = [check EXCEPT ![c] = call]

-----------------------------------------------------------------------------
BeginCheck(c) ==
  /\ check[c].pc = "idle"
  /\ Moves(c, CheckAt("get", 0, 0))
  /\ overlap' = (overlap \/ \E d \in Callers \ {c} : check[d].pc # "idle")
  /\ UNCHANGED <<weight, count, made, onTime, edited, refused>>

\* get_or_create: one row is taken, none is to be inserted, two raise
\* MultipleObjectsReturned.
Get(c) ==
  /\ check[c].pc = "get"
  /\ Moves(c, CASE Found = {} -> CheckAt("insert", 0, 0)
               [] Cardinality(Found) = 1 -> LET r == CHOOSE r \in Found : TRUE
                                            IN  CheckAt("look", r, count[r])
               [] OTHER -> NoCheck)
  /\ UNCHANGED <<weight, count, made, onTime, overlap, edited, refused>>

InsertRow(c, from, to) ==
  /\ check[c].pc = from
  /\ made < MaxRows
  /\ made' = made + 1
  /\ count' = [count EXCEPT ![made + 1] = 0]
  /\ Moves(c, CheckAt(to, made + 1, 0))
  /\ UNCHANGED <<weight, onTime, overlap, edited, refused>>

GetInserts(c) == InsertRow(c, "insert", "look")

\* window_start_at < now
LookWithin(c) ==                  \* mutant: the row is kept within its window
  /\ check[c].pc = "look"
  /\ Moves(c, [check[c] EXCEPT !.pc = "count"])
  /\ UNCHANGED <<weight, count, made, onTime, overlap, edited, refused>>

Look(c) ==
  /\ check[c].pc = "look"
  /\ \/ Moves(c, [check[c] EXCEPT !.pc = "delete"]) /\ UNCHANGED onTime
     \/ Moves(c, [check[c] EXCEPT !.pc = "count"]) /\ onTime' = TRUE
  /\ UNCHANGED <<weight, count, made, overlap, edited, refused>>

\* A row that someone else has deleted may be deleted again.
DeleteRow(c) ==
  /\ check[c].pc = "delete"
  /\ count' = [count EXCEPT ![check[c].row] = Gone]
  /\ Moves(c, [check[c] EXCEPT !.pc = "create"])
  /\ UNCHANGED <<weight, made, onTime, overlap, edited, refused>>

CreateRow(c) == InsertRow(c, "create", "count")

\* save(), of the count or of is_rate_limited.
Count(c) ==
  /\ check[c].pc = "count"
  /\ LET allowed == check[c].n + weight <= Limit
     IN  /\ count' = [count EXCEPT ![check[c].row] = check[c].n + (IF allowed THEN weight ELSE 0)]
         /\ refused' = (refused \/ ~allowed)
  /\ Moves(c, NoCheck)
  /\ UNCHANGED <<weight, made, onTime, overlap, edited>>

\* A statement raises, or the process dies.
CheckFails(c) ==
  /\ check[c].pc \notin {"idle", "look"}
  /\ Moves(c, NoCheck)
  /\ UNCHANGED <<weight, count, made, onTime, overlap, edited, refused>>

\* RateLimitStateViewSet or RateLimitStateAdmin: a row is inserted or has a new
\* count, any up to the limit (more is refused as well), or is deleted or given
\* to another window.
EditRow ==
  /\ \E r \in LimitRows, n \in 0..Gone :
       /\ r <= made + 1 /\ (r > made => n # Gone)
       /\ count' = [count EXCEPT ![r] = n]
       /\ made' = IF r > made THEN r ELSE made
  /\ edited' = TRUE
  /\ UNCHANGED <<weight, check, onTime, overlap, refused>>

\* The next hour, here between calls: the rows of this window are never looked at again.
NextWindow ==
  /\ \A c \in Callers : check[c] = NoCheck
  /\ count' = [r \in LimitRows |-> Gone]
  /\ made' = 0
  /\ onTime' = FALSE /\ overlap' = FALSE /\ edited' = FALSE /\ refused' = FALSE
  /\ UNCHANGED <<weight, check>>

-----------------------------------------------------------------------------
LimitsNext ==
  \/ NextWindow \/ EditRow
  \/ \E c \in Callers : \/ BeginCheck(c) \/ Get(c) \/ GetInserts(c) \/ Look(c)
                        \/ DeleteRow(c) \/ CreateRow(c) \/ Count(c) \/ CheckFails(c)

LimitsSpec == LimitsInit /\ [][LimitsNext]_limitsVars

-----------------------------------------------------------------------------
\* Two rows, with which every further call raises, need calls that overlap or
\* a row that was posted; and whatever is posted, the limiter refuses nothing
\* but an endpoint that is too heavy for the limit at all, whose caller then
\* waits for ever, unless a call hits the window's first instant: however many
\* requests there are in a window, the count starts again with each
\* (base.py:60-108, views.py:47).
LimitIsForgotten ==
  /\ Cardinality(Found) > 1 => overlap \/ edited
  /\ refused => weight > Limit \/ onTime

=============================================================================
