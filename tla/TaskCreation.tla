----------------------------- MODULE TaskCreation -----------------------------
(***************************************************************************)
(* taskutils.CreateTask and the auth predicates it calls, run by the API  *)
(* handlers for POST /task (one task) and POST /batch (BatchSize tasks of *)
(* one template), each in a single database transaction that the handler  *)
(* rolls back on the first error and commits otherwise (spec 4.H).        *)
(*                                                                         *)
(* Identities are abstracted to what the predicates tell apart: whether   *)
(* the caller is an admin, an allowed resolver of the template, and        *)
(* whether the caller listed itself in the task's resolver_usernames or   *)
(* resolver_groups.  The requester of a created task is always the caller *)
(* (task.Create is given reqUsername), so IsRequester always holds.       *)
(***************************************************************************)
EXTENDS Naturals, FiniteSets

CONSTANTS
    BatchSize,   \* tasks created in one handler call
    DBFailures   \* whether a write (or the commit) may fail

Delays == {"none", "valid", "invalid"}   \* the delay string, if any, and whether it parses

\* What a caller may pass for one task.
Inputs == [comment : BOOLEAN, delay : Delays, resolverSelf : BOOLEAN]

\* The template flags CreateTask reads; owner: the caller is an allowed resolver.
TemplateSpace == [blocked : BOOLEAN, autoRunnable : BOOLEAN, allowAll : BOOLEAN, owner : BOOLEAN]

\* Which database call fails, if any.
Failures == IF DBFailures THEN {"none", "task", "comment", "resolution", "commit"} ELSE {"none"}

VARIABLES
    tt,        \* the template
    admin,     \* auth.IsAdmin(c) == nil
    items,     \* the inputs of each task to create
    i,         \* the next item the handler passes to CreateTask
    tx,        \* rows written in the open transaction
    db,        \* committed rows
    notified,  \* items a validation notification was sent for
    status     \* "open", "committed" or "rolledback"

vars == <<tt, admin, items, i, tx, db, notified, status>>

(***************************************************************************)
(* auth predicates (pkg/auth).                                             *)
(***************************************************************************)
IsAdmin == admin
IsRequester == TRUE
IsTemplateOwner == tt.owner
\* template owner, or named in the task's resolver usernames or groups (r = nil)
IsResolutionManager(in) == IsTemplateOwner \/ in.resolverSelf

\* A task row: which item, whether its comment row and a resolution exist.
Row(k, com, res) == [item |-> k, comment |-> com, resolution |-> res]

\* Variant: a failed comment insert is not returned as an error
CreateTaskIgnoringCommentError(k, in, f) ==
    LET task == Row(k, in.comment /\ f # "comment", FALSE) IN
    CASE tt.blocked -> [err |-> TRUE, rows |-> {}, notify |-> FALSE]
      [] f = "task" -> [err |-> TRUE, rows |-> {}, notify |-> FALSE]
      [] ~tt.autoRunnable /\ tt.allowAll -> [err |-> TRUE, rows |-> {task}, notify |-> FALSE]
      [] ~tt.autoRunnable -> [err |-> FALSE, rows |-> {task}, notify |-> TRUE]
      [] ~(IsRequester /\ tt.allowAll) /\ ~IsResolutionManager(in) /\ ~IsAdmin ->
            [err |-> FALSE, rows |-> {task}, notify |-> TRUE]
      [] in.delay = "invalid" \/ f = "resolution" ->
            [err |-> TRUE, rows |-> {task}, notify |-> FALSE]
      [] OTHER -> [err |-> FALSE, rows |-> {Row(k, in.comment /\ f # "comment", TRUE)},
                   notify |-> FALSE]

(***************************************************************************)
(* CreateTask for item k with inputs in, when database call f fails: its   *)
(* error result, the rows it wrote into the transaction (also on error),   *)
(* and whether it sent a validation-required notification.                 *)
(***************************************************************************)
CreateTask(k, in, f) ==
    LET task == Row(k, in.comment, FALSE) IN
    CASE tt.blocked -> [err |-> TRUE, rows |-> {}, notify |-> FALSE]
      [] f = "task" -> [err |-> TRUE, rows |-> {}, notify |-> FALSE]
      [] in.comment /\ f = "comment" ->
            [err |-> TRUE, rows |-> {Row(k, FALSE, FALSE)}, notify |-> FALSE]
      [] ~tt.autoRunnable /\ tt.allowAll -> [err |-> TRUE, rows |-> {task}, notify |-> FALSE]
      [] ~tt.autoRunnable -> [err |-> FALSE, rows |-> {task}, notify |-> TRUE]
      [] ~(IsRequester /\ tt.allowAll) /\ ~IsResolutionManager(in) /\ ~IsAdmin ->
            [err |-> FALSE, rows |-> {task}, notify |-> TRUE]
      [] in.delay = "invalid" \/ f = "resolution" ->
            [err |-> TRUE, rows |-> {task}, notify |-> FALSE]
      [] OTHER -> [err |-> FALSE, rows |-> {Row(k, in.comment, TRUE)}, notify |-> FALSE]

-----------------------------------------------------------------------------
Init ==
    /\ tt \in TemplateSpace
    /\ admin \in BOOLEAN
    /\ items \in [1..BatchSize -> Inputs]
    /\ i = 1
    /\ tx = {} /\ db = {}
    /\ notified = {}
    /\ status = "open"

\* The handler calls CreateTask for the next item; on an error it rolls back.
CreateTaskItem ==
    /\ status = "open" /\ i <= BatchSize
    /\ \E f \in Failures \ {"commit"} :
          LET r == CreateTask(i, items[i], f) IN
          /\ notified' = IF r.notify THEN notified \cup {i} ELSE notified
          /\ IF r.err
               THEN /\ tx' = {} /\ status' = "rolledback"
               ELSE /\ tx' = tx \cup r.rows /\ UNCHANGED status
    /\ i' = i + 1
    /\ UNCHANGED <<tt, admin, items, db>>

\* Every item created: the handler commits; a failed commit rolls back.
Commit ==
    /\ status = "open" /\ i > BatchSize
    /\ \E f \in Failures \ {"task", "comment", "resolution"} :
          IF f = "commit"
            THEN status' = "rolledback" /\ UNCHANGED db
            ELSE status' = "committed" /\ db' = tx
    /\ tx' = {}
    /\ UNCHANGED <<tt, admin, items, i, notified>>

Next == CreateTaskItem \/ Commit

Spec == Init /\ [][Next]_vars

-----------------------------------------------------------------------------
TypeOK ==
    /\ i \in 1..BatchSize + 1
    /\ tx \subseteq [item : 1..BatchSize, comment : BOOLEAN, resolution : BOOLEAN]
    /\ db \subseteq [item : 1..BatchSize, comment : BOOLEAN, resolution : BOOLEAN]
    /\ notified \subseteq 1..BatchSize
    /\ status \in {"open", "committed", "rolledback"}

\* Spec 3/6: a created task runs at once when its template is auto_runnable
\* and the caller may resolve it; otherwise it waits for validation.
AutoRuns(in) ==
    /\ tt.autoRunnable
    /\ admin \/ tt.allowAll \/ tt.owner \/ in.resolverSelf

(***************************************************************************)
(* What a handler call leaves in the database is all or nothing: once it  *)
(* returned, either no task row exists, or every item has exactly one     *)
(* task row, with its comment row if one was given, with a resolution     *)
(* exactly when it auto-runs, and with a validation notification sent     *)
(* when it has none.  It takes CreateTask's early returns after writes    *)
(* and the handler's rollback to hold together.                           *)
(***************************************************************************)
CreationAllOrNothing ==
    status # "open" =>
        \/ db = {}
        \/ /\ Cardinality(db) = BatchSize
           /\ \A k \in 1..BatchSize : \E row \in db :
                 /\ row.item = k
                 /\ row.comment = items[k].comment
                 /\ row.resolution = AutoRuns(items[k])
                 /\ ~row.resolution => k \in notified

(***************************************************************************)
(* A validation-required notification is only ever about a task that      *)
(* exists: once the handler call is over, every notified item has a       *)
(* committed task row.                                                     *)
(***************************************************************************)
NotifiedTaskExists ==
    status # "open" => \A k \in notified : \E row \in db : row.item = k
=============================================================================
