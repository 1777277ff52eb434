--------------------------- MODULE SettingsCache ---------------------------
(***************************************************************************)
(* One system setting of the core app and what the processes of the        *)
(* application keep of it: get_system_setting_value reads through a cache, *)
(* update_system_setting writes the row and then deletes the cache entry.  *)
(*                                                                         *)
(* Django's cache is LocMemCache: every process has its own.  The receiver *)
(* and the task that would refresh it do nothing (the receiver's module    *)
(* cannot be imported, the task uses another key).                         *)
(***************************************************************************)
EXTENDS Naturals

CONSTANTS
  Procs,      \* processes of the application
  Threads,    \* calls they serve
  Home,       \* the process of each thread
  Values,     \* values of the setting
  Nothing,    \* None: the cache cannot tell it from no entry
  Defaults    \* values, or Nothing, that callers pass as default

ASSUME HomeAssumption == Home \in [Threads -> Procs]
ASSUME ValueAssumption == Nothing \notin Values /\ Defaults \subseteq Values \cup {Nothing}

VARIABLES
  row,     \* the SystemSetting row
  cache,   \* the entry of each process
  op       \* the call each thread is in

vars == <<row, cache, op>>

\* Ways for what was read to be out of date, kept as history with it:
\* "overlap": the row was written between a reader's query and its cache.set
\* "elsewhere": the row was written by update_system_setting in another process
\* "around": the row was written by the admin or a management command
\* "failed": update_system_setting raised after it had written the row
Excuses == {"overlap", "elsewhere", "around", "failed"}

NoRow == [val |-> Nothing, active |-> FALSE]
Rows == {NoRow} \cup [val : Values, active : BOOLEAN]
Empty == [val |-> Nothing, why |-> "none"]
Entries == {Empty} \cup [val : Values, why : Excuses \cup {"none"}]
Call(pc, val, keep) == [pc |-> pc, val |-> val, why |-> "none", keep |-> keep]
Idle == Call("idle", Nothing, FALSE)
Calls == [pc : {"idle", "query", "fill", "again", "clear"},
          val : Values \cup {Nothing},
          why : Excuses \cup {"none"},
          keep : BOOLEAN]           \* use_cache

TypeOK ==
  /\ row \in Rows
  /\ cache \in [Procs -> Entries]
  /\ op \in [Threads -> Calls]

Init ==
  /\ row \in Rows
  /\ cache = [p \in Procs |-> Empty]
  /\ op = [t \in Threads |-> Idle]

-----------------------------------------------------------------------------
(* get_system_setting_value                                                *)

\* A hit changes nothing; a miss, or use_cache=False, goes to the row.
GetStart(t, keep) ==
  /\ op[t].pc = "idle"
  /\ keep => cache[Home[t]].val = Nothing
  /\ op' = [op EXCEPT ![t] = Call("query", Nothing, keep)]
  /\ UNCHANGED <<row, cache>>

\* An active row is returned, and cached if use_cache says so.
GetRow(t) ==
  /\ op[t].pc = "query"
  /\ row.active
  /\ op' = [op EXCEPT ![t] = IF op[t].keep
                             THEN [op[t] EXCEPT !.pc = "fill", !.val = row.val]
                             ELSE Idle]
  /\ UNCHANGED <<row, cache>>

\* Without one the caller's default is cached, whatever use_cache says.
GetDefault(t) ==
  /\ op[t].pc = "query"
  /\ ~row.active
  /\ \E d \in Defaults : op' = [op EXCEPT ![t].pc = "fill", ![t].val = d]
  /\ UNCHANGED <<row, cache>>

FillNone(t) ==                    \* mutant: None is an entry like any other
  /\ op[t].pc = "fill"
  /\ cache' = [cache EXCEPT ![Home[t]] = [val |-> op[t].val, why |-> op[t].why]]
  /\ op' = [op EXCEPT ![t] = Idle]
  /\ UNCHANGED row

Fill(t) ==
  /\ op[t].pc = "fill"
  /\ cache' = [cache EXCEPT ![Home[t]] =
                 IF op[t].val = Nothing THEN Empty
                 ELSE [val |-> op[t].val, why |-> op[t].why]]
  /\ op' = [op EXCEPT ![t] = Idle]
  /\ UNCHANGED row

-----------------------------------------------------------------------------
(* update_system_setting                                                   *)

\* A write of the row: history notes what it makes of the entries of some
\* processes, and of what readers have in hand.
Writes(new, apart, why) ==
  /\ row' = new
  /\ cache' = [p \in Procs |-> IF p \in apart /\ cache[p] # Empty
                               THEN [cache[p] EXCEPT !.why = why] ELSE cache[p]]

Overtaken == [t \in Threads |-> IF op[t].pc = "fill"
                                THEN [op[t] EXCEPT !.why = "overlap"] ELSE op[t]]

Others(t) == Procs \ {Home[t]}

\* update_or_create: a row that was not created is saved once more.
SetFirst(t, v) ==
  /\ op[t].pc = "idle"
  /\ Writes([val |-> v, active |-> row = NoRow \/ row.active], Others(t), "elsewhere")
  /\ op' = [Overtaken EXCEPT ![t] =
              Call(IF row = NoRow THEN "clear" ELSE "again", v, FALSE)]

SetAgain(t) ==
  /\ op[t].pc = "again"
  /\ row # NoRow
  /\ Writes([row EXCEPT !.val = op[t].val], Others(t), "elsewhere")
  /\ op' = [Overtaken EXCEPT ![t].pc = "clear"]

\* The second save raises, as it does when the row is gone: the entry stays.
SetFails(t) ==
  /\ op[t].pc = "again"
  /\ Writes(row, {Home[t]}, "failed")
  /\ op' = [op EXCEPT ![t] = Idle]

ClearForgotten(t) ==              \* mutant: the entry is not deleted
  /\ op[t].pc = "clear"
  /\ op' = [op EXCEPT ![t] = Idle]
  /\ UNCHANGED <<row, cache>>

Clear(t) ==
  /\ op[t].pc = "clear"
  /\ cache' = [cache EXCEPT ![Home[t]] = Empty]
  /\ op' = [op EXCEPT ![t] = Idle]
  /\ UNCHANGED row

-----------------------------------------------------------------------------
(* Around the service                                                      *)

\* The admin and setup_system_defaults write the row, and delete no entry.
Around ==
  /\ \E new \in Rows \ {row} : Writes(new, Procs, "around")
  /\ op' = Overtaken

ExpireDefaults(p) ==              \* mutant: entries of rows have no timeout
  /\ cache[p].val \in Defaults \ {Nothing}
  /\ ~row.active
  /\ cache' = [cache EXCEPT ![p] = Empty]
  /\ UNCHANGED <<row, op>>

\* The timeout of the entry.
Expire(p) ==
  /\ cache[p] # Empty
  /\ cache' = [cache EXCEPT ![p] = Empty]
  /\ UNCHANGED <<row, op>>

\* A process dies and is started anew, with an empty cache.
Restart(p) ==
  /\ cache' = [cache EXCEPT ![p] = Empty]
  /\ op' = [t \in Threads |-> IF Home[t] = p THEN Idle ELSE op[t]]
  /\ UNCHANGED row

-----------------------------------------------------------------------------
Continue(t) == GetRow(t) \/ GetDefault(t) \/ Fill(t) \/ SetAgain(t) \/ SetFails(t) \/ Clear(t)

Next ==
  \/ \E t \in Threads : \/ \E keep \in BOOLEAN : GetStart(t, keep)
                        \/ \E v \in Values : SetFirst(t, v)
                        \/ Continue(t)
  \/ Around
  \/ \E p \in Procs : Expire(p) \/ Restart(p)

Fairness == /\ \A t \in Threads : WF_vars(Continue(t))
            /\ \A p \in Procs : WF_vars(Expire(p))

Spec == Init /\ [][Next]_vars /\ Fairness

-----------------------------------------------------------------------------
(* Properties                                                              *)

\* What a reader may be told now.
Current(v) == IF row.active THEN v = row.val ELSE v \in Defaults

\* An update in this process has written the row and will delete the entry.
Pending(p) == \E t \in Threads : Home[t] = p /\ op[t].pc \in {"again", "clear"}

\* An entry is out of date only for one of the four reasons, or while an
\* update in its process is about to delete it: in one process, with no
\* reader overtaken and no update failed, update_system_setting is never
\* followed by a read of the old value (services.py:102-115, 146-158).
StaleIsExplained ==
  \A p \in Procs : cache[p] # Empty =>
    Current(cache[p].val) \/ cache[p].why # "none" \/ Pending(p)

\* Once a setting stays as it is, every process comes to know it, whatever
\* was stale and whoever was about to cache an old value: entries have a
\* timeout, and reads do not prolong it (services.py:114-115, 120).
StaleHeals ==
  []<><<TRUE>>_row \/ <>[](\A p \in Procs : cache[p] # Empty => Current(cache[p].val))

=============================================================================
