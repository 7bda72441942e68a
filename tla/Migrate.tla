------------------------------ MODULE Migrate ------------------------------
(***************************************************************************)
(* backend/app/migrate.py: runners (the API container's start, an          *)
(* operator's "python -m app.migrate") that apply the numbered .sql files, *)
(* one transaction per file, and record each in schema_migrations.  The    *)
(* connection is in autocommit mode, so that the statements outside a      *)
(* conn.transaction() block are committed at once.                         *)
(*                                                                         *)
(* What a file does to the schema can be done once: done again, its        *)
(* CREATE TABLE or ADD COLUMN raises DuplicateTable or DuplicateColumn;    *)
(* while another transaction has done it and not ended, it waits.          *)
(***************************************************************************)
EXTENDS Integers, FiniteSetsExt

CONSTANTS Runner,
          Files    \* the number of migration files

ASSUME MigrateAssumption == Files \in Nat

Version == 1..Files   \* in filename order

VARIABLES
  tracking,  \* schema_migrations exists
  schema,    \* the files whose DDL is committed
  recorded,  \* the committed rows of schema_migrations
  pc,        \* pc[r]: the next statement of runner r
  todo,      \* todo[r]: the rest of the pending files
  ddl,       \* ddl[r]: the files whose DDL r has executed, uncommitted
  rows,      \* rows[r]: the files r has recorded, uncommitted
  report     \* report[r]: `applied', what migrate() returns

committed == <<tracking, schema, recorded>>
vars      == <<tracking, schema, recorded, pc, todo, ddl, rows, report>>

Init ==
  /\ tracking = FALSE
  /\ schema = {} /\ recorded = {}
  /\ pc = [r \in Runner |-> "idle"]
  /\ todo = [r \in Runner |-> {}]
  /\ ddl = [r \in Runner |-> {}] /\ rows = [r \in Runner |-> {}]
  /\ report = [r \in Runner |-> {}]

Goto(r, label) == pc' = [pc EXCEPT ![r] = label]

\* The file that r is at: pending ones are applied in filename order.
File(r) == Min(todo[r])

-----------------------------------------------------------------------------
(* _connect and pending *)

Start(r) ==
  /\ pc[r] \in {"idle", "done", "failed"}
  /\ Goto(r, "ensure")
  /\ report' = [report EXCEPT ![r] = {}]
  /\ UNCHANGED <<committed, todo, ddl, rows>>

\* CREATE TABLE IF NOT EXISTS looks for the table first ...
EnsureTrackingTable(r) ==
  /\ pc[r] = "ensure"
  /\ Goto(r, IF tracking THEN "select" ELSE "create")
  /\ UNCHANGED <<committed, todo, ddl, rows, report>>

\* ... and then creates it, unless another session has in between (see Fails).
CreateTrackingTable(r) ==
  /\ pc[r] = "create" /\ ~tracking
  /\ tracking' = TRUE
  /\ Goto(r, "select")
  /\ UNCHANGED <<schema, recorded, todo, ddl, rows, report>>

Pending(r) ==
  /\ pc[r] = "select"
  /\ todo' = [todo EXCEPT ![r] = Version \ recorded]
  /\ Goto(r, "next")
  /\ UNCHANGED <<committed, ddl, rows, report>>

-----------------------------------------------------------------------------
(* migrate: one transaction per file *)

NextFile(r) ==
  /\ pc[r] = "next" /\ todo[r] # {}
  /\ Goto(r, "ddl")
  /\ UNCHANGED <<committed, todo, ddl, rows, report>>

\* Waits while another transaction holds what the file creates.
Execute(r) ==
  /\ pc[r] = "ddl"
  /\ File(r) \notin schema
  /\ \A o \in Runner \ {r} : File(r) \notin ddl[o]
  /\ ddl' = [ddl EXCEPT ![r] = @ \cup {File(r)}]
  /\ Goto(r, "record")
  /\ UNCHANGED <<committed, todo, rows, report>>

\* A mutant: the bookkeeping row is written first, on its own.
RecordAtOnce(r) ==
  /\ pc[r] = "record"
  /\ recorded' = recorded \cup {File(r)}
  /\ Goto(r, "commit")
  /\ UNCHANGED <<tracking, schema, todo, ddl, rows, report>>

Record(r) ==
  /\ pc[r] = "record"
  /\ File(r) \notin recorded
  /\ rows' = [rows EXCEPT ![r] = @ \cup {File(r)}]
  /\ Goto(r, "commit")
  /\ UNCHANGED <<committed, todo, ddl, report>>

\* A mutant: the reads of pending() have opened a transaction, and the block is
\* only a savepoint in it.
EndSavepoint(r) ==
  /\ pc[r] = "commit"
  /\ report' = [report EXCEPT ![r] = @ \cup {File(r)}]
  /\ todo' = [todo EXCEPT ![r] = @ \ {File(r)}]
  /\ Goto(r, "next")
  /\ UNCHANGED <<committed, ddl, rows>>

Commit(r) ==
  /\ pc[r] = "commit"
  /\ schema' = schema \cup ddl[r]
  /\ recorded' = recorded \cup rows[r]
  /\ ddl' = [ddl EXCEPT ![r] = {}]
  /\ rows' = [rows EXCEPT ![r] = {}]
  /\ report' = [report EXCEPT ![r] = @ \cup {File(r)}]
  /\ todo' = [todo EXCEPT ![r] = @ \ {File(r)}]
  /\ Goto(r, "next")
  /\ UNCHANGED tracking

\* The connection is closed; what is not committed is gone.
Close(r, label) ==
  /\ Goto(r, label)
  /\ todo' = [todo EXCEPT ![r] = {}]
  /\ ddl' = [ddl EXCEPT ![r] = {}]
  /\ rows' = [rows EXCEPT ![r] = {}]
  /\ UNCHANGED committed

Finish(r) == pc[r] = "next" /\ todo[r] = {} /\ Close(r, "done") /\ UNCHANGED report

\* A mutant: a runner that finds a file applied is content.
FailsQuietly(r) ==
  /\ \/ pc[r] = "create" /\ tracking
     \/ pc[r] = "ddl" /\ File(r) \in schema
  /\ Close(r, "done")
  /\ report' = [report EXCEPT ![r] = {}]

\* Another runner has been faster: UniqueViolation, DuplicateTable or
\* DuplicateColumn, which nobody catches.
Fails(r) ==
  /\ \/ pc[r] = "create" /\ tracking
     \/ pc[r] = "ddl" /\ File(r) \in schema
  /\ Close(r, "failed")
  /\ report' = [report EXCEPT ![r] = {}]

\* The process is killed, the connection lost, the disk full.
Die(r) ==
  /\ pc[r] \notin {"idle", "done", "failed"}
  /\ Close(r, "failed")
  /\ report' = [report EXCEPT ![r] = {}]

-----------------------------------------------------------------------------

Step(r) ==
  \/ EnsureTrackingTable(r) \/ CreateTrackingTable(r) \/ Pending(r) \/ NextFile(r)
  \/ Execute(r) \/ Record(r) \/ Commit(r) \/ Finish(r) \/ Fails(r)

Next == \E r \in Runner : Start(r) \/ Step(r) \/ Die(r)

Spec == Init /\ [][Next]_vars

\* A runner that has not finished is started again (module Deployment says who is).
Restart(r) == pc[r] \in {"idle", "failed"} /\ Start(r)

-----------------------------------------------------------------------------
(* Types and the inductive invariant. *)

InTransaction == {"record", "commit"}
Labels == {"idle", "done", "failed", "ensure", "create", "select", "next", "ddl"}
            \cup InTransaction

\* Every variable has its type.
TypeOK ==
  /\ tracking \in BOOLEAN
  /\ schema \subseteq Version /\ recorded \subseteq Version
  /\ pc \in [Runner -> Labels]
  /\ todo \in [Runner -> SUBSET Version]
  /\ ddl \in [Runner -> SUBSET Version] /\ rows \in [Runner -> SUBSET Version]
  /\ report \in [Runner -> SUBSET Version]

\* "The DDL and its bookkeeping row commit together or not at all": between any
\* two steps of any runners, exactly the applied files are recorded.
RecordedIsApplied == recorded = schema

\* The files are applied in filename order without a gap, whichever runner
\* applied each and wherever they failed.
NoGap == \E n \in 0..Files : schema = 1..n

\* A runner that has returned has told the truth, and leaves a complete schema
\* behind: the API container's uvicorn (after "&&") finds every table.
DoneIsComplete ==
  \A r \in Runner : pc[r] = "done" => report[r] \subseteq schema /\ schema = Version

\* What runner r has open and what its pending list still means: the last files, of
\* which all the earlier ones have been applied.
RunnerInv(r) ==
  /\ \E n \in 1..(Files + 1) : todo[r] = n..Files
  /\ pc[r] \in {"ddl"} \cup InTransaction => todo[r] # {}
  /\ pc[r] \in {"next", "ddl"} \cup InTransaction => Version \ todo[r] \subseteq schema
  /\ pc[r] \in InTransaction => File(r) \notin schema
  /\ ddl[r] = IF pc[r] \in InTransaction THEN {File(r)} ELSE {}
  /\ rows[r] = IF pc[r] = "commit" THEN {File(r)} ELSE {}
  /\ report[r] \subseteq schema

IndInv ==
  /\ TypeOK
  /\ RecordedIsApplied /\ NoGap /\ DoneIsComplete
  /\ \A r \in Runner : RunnerInv(r)
  /\ \A r, o \in Runner : r # o => ddl[r] \cap ddl[o] = {}

-----------------------------------------------------------------------------

\* However many runners collide and die, every file is applied in the end.
AllApplied == <>[](schema = Version)

=============================================================================
