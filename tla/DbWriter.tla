------------------------------- MODULE DbWriter -------------------------------
(***************************************************************************)
(* DbHandle: SQL statements that need not be waited for are queued by any  *)
(* thread (add_task) and executed by one thread with its own database      *)
(* connection.  A statement is the number of the add_task that queued it.  *)
(***************************************************************************)
EXTENDS Integers, Sequences

CONSTANTS MaxStmts   \* bound: statements ever queued

ASSUME DbWriterAssumption == MaxStmts \in Nat

VARIABLES
    running,    \* _running
    queue,      \* _tasks
    added,      \* statements queued so far
    executed,   \* the statements MySQL has received, in order
    thread,     \* handle_db
    sql,        \* its local copy of the statement, 0 when empty
    locked,     \* it holds _mutex between the predicate and the block
    owner       \* the thread that calls start() and stop()

vars == <<running, queue, added, executed, thread, sql, locked, owner>>

(* start() *)
Init ==
    /\ running = TRUE /\ owner = "use"
    /\ queue = <<>> /\ added = 0 /\ executed = <<>>
    /\ thread = "init" /\ sql = 0 /\ locked = FALSE

(* add_task: push under _mutex, then notify: a waiting thread wakes. *)
AddTask ==
    /\ added < MaxStmts /\ ~locked
    /\ added' = added + 1
    /\ queue' = Append(queue, added + 1)
    /\ thread' = IF thread = "wait" THEN "lock" ELSE thread
    /\ UNCHANGED <<running, executed, sql, locked, owner>>

-----------------------------------------------------------------------------
(* handle_db.  Without a database connection the thread is over at once.     *)
Connect ==
    /\ thread = "init"
    /\ thread' \in {"while", "end"}
    /\ UNCHANGED <<running, queue, added, executed, sql, locked, owner>>

While ==
    /\ thread = "while"
    /\ sql' = 0
    /\ thread' = IF running THEN "lock" ELSE "end"
    /\ UNCHANGED <<running, queue, added, executed, locked, owner>>

(* Nothing queued and not stopped: decide to block, still holding _mutex ... *)
Nothing ==
    /\ thread = "lock" /\ ~locked /\ queue = <<>> /\ running
    /\ locked' = TRUE /\ thread' = "block"
    /\ UNCHANGED <<running, queue, added, executed, sql, owner>>

(* ... and block. *)
Block ==
    /\ thread = "block"
    /\ locked' = FALSE /\ thread' = "wait"
    /\ UNCHANGED <<running, queue, added, executed, sql, owner>>

(* Mutant: the statement stays at the front of the queue. *)
TakeNoPop ==
    /\ thread = "lock" /\ queue # <<>>
    /\ sql' = Head(queue)
    /\ thread' = "exec"
    /\ UNCHANGED <<running, queue, added, executed, locked, owner>>

Take ==
    /\ thread = "lock" /\ queue # <<>>
    /\ sql' = Head(queue)
    /\ queue' = Tail(queue)
    /\ thread' = "exec"
    /\ UNCHANGED <<running, added, executed, locked, owner>>

(* Stopped, and nothing is queued. *)
Leave ==
    /\ thread = "lock" /\ queue = <<>> /\ ~running
    /\ thread' = "end"
    /\ UNCHANGED <<running, queue, added, executed, sql, locked, owner>>

(* exeSQL; its result is not looked at, so a failed statement is gone too. *)
Execute ==
    /\ thread = "exec"
    /\ executed' = Append(executed, sql)
    /\ thread' = "while"
    /\ UNCHANGED <<running, queue, added, sql, locked, owner>>

-----------------------------------------------------------------------------
(* stop(): _running is stored, _cv notified, neither under _mutex; then join. *)
Stop ==
    /\ owner = "use"
    /\ running' = FALSE /\ owner' = "notify"
    /\ UNCHANGED <<queue, added, executed, thread, sql, locked>>

StopNotify ==
    /\ owner = "notify"
    /\ thread' = IF thread = "wait" THEN "lock" ELSE thread
    /\ owner' = "join"
    /\ UNCHANGED <<running, queue, added, executed, sql, locked>>

Join ==
    /\ owner = "join" /\ thread = "end"
    /\ owner' = "stopped"
    /\ UNCHANGED <<running, queue, added, executed, thread, sql, locked>>

-----------------------------------------------------------------------------
HandleDb == Connect \/ While \/ Nothing \/ Block \/ Take \/ Leave \/ Execute

Next == AddTask \/ HandleDb \/ Stop \/ StopNotify \/ Join

Spec == Init /\ [][Next]_vars

-----------------------------------------------------------------------------
Stmts == 1..MaxStmts

TypeOK ==
    /\ running \in BOOLEAN /\ locked \in BOOLEAN
    /\ queue \in Seq(Stmts) /\ added \in Stmts \cup {0}
    /\ executed \in Seq(Stmts) /\ sql \in Stmts \cup {0}
    /\ thread \in {"init", "while", "lock", "block", "wait", "exec", "end"}
    /\ owner \in {"use", "notify", "join", "stopped"}

(* Statements run in the order in which they were queued, each once, with no *)
(* gap: the ones executed, the one in hand and the ones queued are 1..added. *)
InHand == IF thread = "exec" THEN <<sql>> ELSE <<>>
InOrder == executed \o InHand \o queue = [i \in 1..added |-> i]
===============================================================================
