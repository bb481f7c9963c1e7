------------------------------ MODULE ServerDb ------------------------------
(***************************************************************************)
(* What the server keeps in sqlite (server-users.c, the saving half of     *)
(* server-messages.c, the queries of server-commands.c): the accounts and  *)
(* the messages.  It survives the process.  An account is identified by    *)
(* its name: uids are handed out once per name and never reused.  Salting  *)
(* and hashing a password is injective here.  An INSERT may fail; a query  *)
(* only where its table does not exist.                                    *)
(***************************************************************************)
EXTENDS ChatTypes, FiniteSets

CONSTANTS NoPassword, \* of a name that is not registered
          Everyone,   \* the addressee of a message to the global channel
          Refused,    \* names and words that contain a word of the checklist
          MaxRows,    \* bound: the messages the disk has room for
          InsertFails \* whether an INSERT may fail although there is room

ASSUME DbAssumption ==
  /\ NoPassword \notin Words
  /\ Everyone \notin Names
  /\ MaxRows \in Nat
  /\ InsertFails \in BOOLEAN

VARIABLES users, messages, db_file

(* How far sdb_setup has got with the file: no file, a file without a      *)
(* table, the table of the users only, both tables.                        *)
Files == {"absent", "empty", "users", "ready"}

(* What the statements of create.sql, in order, make of the file.          *)
create_tables(file) == IF file = "empty" THEN "users" ELSE "ready"

Row(from, to, text) == [from |-> from, to |-> to, text |-> text]

Rows == [from : Names, to : Names \cup {Everyone}, text : Words]

sic_is_sql_ok(query) == query \notin Refused

su_has_user(username) == users[username] # NoPassword

(* Mutant: an unknown name is not noticed.                                 *)
su_validate_login_unknown(username, password) ==
  IF su_has_user(username) /\ users[username] # password THEN "Invalid password" ELSE "ok"

su_validate_login(username, password) ==
  IF ~ su_has_user(username) THEN "Cannot find account"
  ELSE IF users[username] # password THEN "Invalid password" ELSE "ok"

(* Mutant: an existing account is registered anew.                         *)
su_can_register_again(username, password) ==
  IF ~ sic_is_sql_ok(username) \/ ~ sic_is_sql_ok(password)
  THEN "The credentials provided are invalid." ELSE "ok"

(* What su_register_user checks before it inserts.                         *)
su_can_register(username, password) ==
  IF ~ sic_is_sql_ok(username) \/ ~ sic_is_sql_ok(password)
  THEN "The credentials provided are invalid."
  ELSE IF su_has_user(username) THEN "This user is already registered" ELSE "ok"

(* How the INSERT of su_register_user may end: only a failing step is      *)
(* reported to the caller, a statement that cannot be prepared is success. *)
su_insert_outcomes ==
  IF db_file \notin {"users", "ready"} THEN {"unprepared"}
  ELSE {"done"} \cup IF InsertFails THEN {"unprepared", "failed"} ELSE {}

su_insert(username, password, outcome) ==
  IF outcome = "done" THEN [users EXCEPT ![username] = password] ELSE users

(* Mutant: the answer of the checker is taken the wrong way round.         *)
sm_save_message_inverted(row, inserted) ==
  IF ~ sic_is_sql_ok(row.text) /\ inserted THEN Append(messages, row) ELSE messages

(* Mutant: the users of a private message are bound the wrong way round.   *)
sm_save_message_swapped(row, inserted) ==
  LET saved == IF row.to = Everyone THEN row ELSE [row EXCEPT !.from = row.to, !.to = row.from]
  IN  IF sic_is_sql_ok(row.text) /\ inserted THEN Append(messages, saved) ELSE messages

(* sm_global_save_message and sm_pm_save_message: a text that the checker  *)
(* refuses and a failed INSERT are dropped without a word.                 *)
sm_save_message(row, inserted) ==
  IF sic_is_sql_ok(row.text) /\ inserted THEN Append(messages, row) ELSE messages

sm_insert_outcomes ==
  {db_file = "ready" /\ Len(messages) < MaxRows} \cup IF InsertFails THEN {FALSE} ELSE {}

IsDm(row) == row.to # Everyone

(* LIMIT n of ORDER BY id DESC: sqlite reads a negative limit as no limit. *)
LastOf(ids, n) == {k \in ids : n < 0 \/ Cardinality({j \in ids : j > k}) < n}

(* ORDER BY id ASC.                                                        *)
InOrder(ids) ==
  CHOOSE at \in [1 .. Cardinality(ids) -> ids] : \A j, k \in DOMAIN at : j < k => at[j] < at[k]

RowsAt(ids) == [k \in 1 .. Cardinality(ids) |-> messages[InOrder(ids)[k]]]

global_history(n) == RowsAt(LastOf({k \in 1 .. Len(messages) : ~ IsDm(messages[k])}, n))

(* Mutant: only the author is compared.                                    *)
pm_history_by_author(u, v, n) ==
  LET between(row) == IsDm(row) /\ row.from \in {u, v}
  IN  RowsAt(LastOf({k \in 1 .. Len(messages) : between(messages[k])}, n))

pm_history(u, v, n) ==
  LET between(row) == IsDm(row) /\ row.from \in {u, v} /\ row.to \in {u, v}
  IN  RowsAt(LastOf({k \in 1 .. Len(messages) : between(messages[k])}, n))
=============================================================================
