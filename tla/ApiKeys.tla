------------------------------ MODULE ApiKeys -------------------------------
(***************************************************************************)
(* The UserAPIKey rows of the accounts app: AccountService makes and       *)
(* revokes them, a task deactivates those that have expired, and the admin *)
(* edits and deletes them.  An edit fills a form from the row, loads the   *)
(* row again when the form is posted, and saves all of it.  A revoked key  *)
(* is a deleted row; Django inserts a loaded row that it cannot update.    *)
(*                                                                         *)
(* The API's own view cannot edit: its serializer declares is_expired and  *)
(* does not list it in Meta.fields, so building its fields raises.         *)
(***************************************************************************)
EXTENDS Naturals

CONSTANTS
  Keys,       \* keys that may be made
  Admins      \* edits in the admin under way at a time

VARIABLES
  row,        \* the row of each key, "new" if it was not made yet
  expired,    \* keys whose expires_at is in the past
  edit,       \* each admin's form
  loaded      \* history: the edits that had loaded a key when it was last deleted

keysVars == <<row, expired, edit, loaded>>

Live == {"active", "inactive"}
KeyRows == Live \cup {"new", "deleted"}
NoForm == [pc |-> "closed"]
Edits == {NoForm} \cup [pc : {"open", "posted"}, key : Keys, is : Live]

KeysTypeOK ==
  /\ row \in [Keys -> KeyRows]
  /\ expired \subseteq Keys
  /\ edit \in [Admins -> Edits]
  /\ loaded \in [Keys -> SUBSET Admins]

KeysInit ==
  /\ row = [k \in Keys |-> "new"]
  /\ expired = {}
  /\ edit = [a \in Admins |-> NoForm]
  /\ loaded = [k \in Keys |-> {}]

-----------------------------------------------------------------------------
\* create_api_key
CreateKey(k) ==
  /\ row[k] = "new"
  /\ row' = [row EXCEPT ![k] = "active"]
  /\ UNCHANGED <<expired, edit, loaded>>

\* Time passes the key's expires_at.
Expires(k) ==
  /\ row[k] \in Live
  /\ expired' = expired \cup {k}
  /\ UNCHANGED <<row, edit, loaded>>

\* The key is deleted: by revoke_api_key, its task, the view or the admin.
Revoke(k) ==
  /\ row[k] \in Live
  /\ row' = [row EXCEPT ![k] = "deleted"]
  /\ loaded' = [loaded EXCEPT ![k] = {a \in Admins : edit[a].pc = "posted" /\ edit[a].key = k}]
  /\ UNCHANGED <<expired, edit>>

\* cleanup_expired_api_keys_task: one UPDATE of the expired active keys.
Cleanup ==
  /\ \E k \in expired : row[k] = "active"
  /\ row' = [k \in Keys |-> IF k \in expired /\ row[k] = "active" THEN "inactive" ELSE row[k]]
  /\ UNCHANGED <<expired, edit, loaded>>

\* The admin opens the form of a key ...
OpenForm(a) ==
  /\ edit[a] = NoForm
  /\ \E k \in Keys :
       /\ row[k] \in Live
       /\ edit' = [edit EXCEPT ![a] = [pc |-> "open", key |-> k, is |-> row[k]]]
  /\ UNCHANGED <<row, expired, loaded>>

\* ... posts it, with is_active as it was or as the admin has set it: the row
\* must be there ...
PostUnloaded(a) ==                \* mutant: the row is not loaded again
  /\ edit[a].pc = "open"
  /\ \E is \in Live :
       edit' = [edit EXCEPT ![a] = [@ EXCEPT !.pc = "posted", !.is = is]]
  /\ UNCHANGED <<row, expired, loaded>>

PostForm(a) ==
  /\ edit[a].pc = "open"
  /\ row[edit[a].key] \in Live
  /\ \E is \in Live :
       edit' = [edit EXCEPT ![a] = [@ EXCEPT !.pc = "posted", !.is = is]]
  /\ UNCHANGED <<row, expired, loaded>>

\* ... and saves it: every column, with an INSERT if there is no row to update.
SaveForm(a) ==
  /\ edit[a].pc = "posted"
  /\ row' = [row EXCEPT ![edit[a].key] = edit[a].is]
  /\ edit' = [edit EXCEPT ![a] = NoForm]
  /\ UNCHANGED <<expired, loaded>>

\* The form is left, refused, or its row is gone.
Leave(a) ==
  /\ edit[a] # NoForm
  /\ edit' = [edit EXCEPT ![a] = NoForm]
  /\ UNCHANGED <<row, expired, loaded>>

-----------------------------------------------------------------------------
KeysNext ==
  \/ \E k \in Keys : CreateKey(k) \/ Expires(k) \/ Revoke(k)
  \/ Cleanup
  \/ \E a \in Admins : OpenForm(a) \/ PostForm(a) \/ SaveForm(a) \/ Leave(a)

KeysSpec == KeysInit /\ [][KeysNext]_keysVars

\* A deleted key is back only by an edit that had loaded it when it was
\* deleted, whatever forms are still open (services.py:183-184, views.py:276,
\* admin.py:93-109).
RevokedStaysGone ==
  [][\A k \in Keys :
       row[k] = "deleted" /\ row'[k] # "deleted" =>
         \E a \in loaded[k] : edit[a].pc = "posted" /\ edit[a].key = k /\ edit'[a] = NoForm]_keysVars

=============================================================================
