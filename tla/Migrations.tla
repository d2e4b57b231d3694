----------------------------- MODULE Migrations -----------------------------
(***************************************************************************)
(* Migrations: every command opens the database of its home and brings its *)
(* schema up to the migrations built into the program (internal/store).    *)
(*                                                                         *)
(* Programs of several builds use one home: each has its own manifest, the *)
(* checksums of its migrations in the order of their versions.  What one   *)
(* does between BEGIN IMMEDIATE and COMMIT is in its copy of the database, *)
(* work[p], until it commits.                                              *)
(***************************************************************************)
EXTENDS Naturals, Sequences

CONSTANTS
  Binary,       \* builds of the program
  Sum,          \* checksums of migrations
  Manifest,     \* the checksums of the migrations of each build
  MaxVersion,   \* bound: the versions there are
  Proc,         \* running commands
  Unknown,      \* the empty checksum of a row older than checksums
  NoRow,        \* no row for a version
  None          \* nobody holds the write lock

Version == 1 .. MaxVersion

Latest(b) == Len(Manifest[b])

\* migrationManifest: at least one migration, numbered from 1.
ASSUME MigrationsAssumption ==
  /\ MaxVersion \in Nat
  /\ Manifest \in [Binary -> Seq(Sum)]
  /\ \A b \in Binary : Latest(b) \in Version
  /\ Unknown \notin Sum /\ NoRow \notin Sum /\ Unknown # NoRow
  /\ None \notin Proc

VARIABLES
  db,           \* the committed database
  lock,         \* who holds the write lock
  pc,           \* where each command stands
  binary,       \* the build it is
  work,         \* the database as its transaction has it
  allow         \* whether it takes an empty checksum for that of an old row

vars == <<db, lock, pc, binary, work, allow>>

\* legacy: schema_migrations has no checksum column yet.  rows: its checksums.
\* ran: how many times the SQL of each version has been run.  A database
\* without schema_migrations is as one where it is empty.
Database ==
  [legacy : BOOLEAN, rows : [Version -> Sum \cup {Unknown, NoRow}], ran : [Version -> Nat]]

Has(d, v) == d.rows[v] # NoRow

InTransaction == {"begun", "prepared", "applying", "ran"}

TypeOK ==
  /\ db \in Database
  /\ lock \in Proc \cup {None}
  /\ pc \in [Proc -> {"idle", "opening", "open", "refused", "failed"} \cup InTransaction]
  /\ binary \in [Proc -> Binary]
  /\ work \in [Proc -> Database]
  /\ allow \in [Proc -> BOOLEAN]
  /\ \A p \in Proc : pc[p] \in InTransaction <=> lock = p

\* What an older build, an interrupted copy or a hand may have left: any rows,
\* those of a ledger without checksums all unknown.
Init ==
  /\ \E legacy \in BOOLEAN, rows \in [Version -> Sum \cup {Unknown, NoRow}] :
       /\ legacy => \A v \in Version : rows[v] \in {Unknown, NoRow}
       /\ db = [legacy |-> legacy, rows |-> rows,
                ran |-> [v \in Version |-> IF rows[v] = NoRow THEN 0 ELSE 1]]
  /\ lock = None
  /\ pc = [p \in Proc |-> "idle"]
  /\ binary \in [Proc -> Binary]
  /\ work = [p \in Proc |-> db]
  /\ allow = [p \in Proc |-> FALSE]

-----------------------------------------------------------------------------
(* Opening.                                                                *)

Open(p, b) ==
  /\ pc[p] \in {"idle", "refused", "failed"}
  /\ pc' = [pc EXCEPT ![p] = "opening"]
  /\ binary' = [binary EXCEPT ![p] = b]
  /\ UNCHANGED <<db, lock, work, allow>>

\* BEGIN IMMEDIATE.
Begin(p) ==
  /\ pc[p] = "opening" /\ lock = None
  /\ lock' = p
  /\ work' = [work EXCEPT ![p] = db]
  /\ pc' = [pc EXCEPT ![p] = "begun"]
  /\ UNCHANGED <<db, binary, allow>>

\* The lock is not free within the busy timeout, or the home is not usable.
GiveUp(p) ==
  /\ pc[p] = "opening"
  /\ pc' = [pc EXCEPT ![p] = "failed"]
  /\ UNCHANGED <<db, lock, binary, work, allow>>

\* Faulty variant: the column is added outside the transaction.
PrepareOutside(p) ==
  /\ pc[p] = "begun"
  /\ allow' = [allow EXCEPT ![p] = work[p].legacy]
  /\ work' = [work EXCEPT ![p].legacy = FALSE]
  /\ db' = [db EXCEPT !.legacy = FALSE]
  /\ pc' = [pc EXCEPT ![p] = "prepared"]
  /\ UNCHANGED <<lock, binary>>

\* Faulty variant: a column that was just added counts as one that was there.
PrepareForgetting(p) ==
  /\ pc[p] = "begun"
  /\ allow' = [allow EXCEPT ![p] = FALSE]
  /\ work' = [work EXCEPT ![p].legacy = FALSE]
  /\ pc' = [pc EXCEPT ![p] = "prepared"]
  /\ UNCHANGED <<db, lock, binary>>

\* ensureMigrationChecksumColumn.
Prepare(p) ==
  /\ pc[p] = "begun"
  /\ allow' = [allow EXCEPT ![p] = work[p].legacy]
  /\ work' = [work EXCEPT ![p].legacy = FALSE]
  /\ pc' = [pc EXCEPT ![p] = "prepared"]
  /\ UNCHANGED <<db, lock, binary>>

\* A row has the build's checksum, or none and may have none.
SumFits(b, d, v, legacy) ==
  \/ d.rows[v] = Manifest[b][v]
  \/ legacy /\ d.rows[v] = Unknown

\* Faulty variant: rows with other checksums are taken for old ones.
AcceptsEdited(b, d, legacy) ==
  \A v \in Version : Has(d, v) =>
    /\ v <= Latest(b)
    /\ \A u \in 1 .. v : Has(d, u)

\* readAppliedMigrations: no later version, no gap, no other checksum.
Accepts(b, d, legacy) ==
  \A v \in Version : Has(d, v) =>
    /\ v <= Latest(b)
    /\ \A u \in 1 .. v : Has(d, u)
    /\ SumFits(b, d, v, legacy)

\* The checksums of old rows are filled in with those of this build.
Filled(b, d) ==
  [v \in Version |-> IF Has(d, v) /\ v <= Latest(b) THEN Manifest[b][v] ELSE d.rows[v]]

Accept(p) ==
  /\ pc[p] = "prepared"
  /\ Accepts(binary[p], work[p], allow[p])
  /\ work' = [work EXCEPT ![p].rows = Filled(binary[p], work[p])]
  /\ pc' = [pc EXCEPT ![p] = "applying"]
  /\ UNCHANGED <<db, lock, binary, allow>>

Refuse(p) ==
  /\ pc[p] = "prepared"
  /\ ~Accepts(binary[p], work[p], allow[p])
  /\ lock' = None
  /\ pc' = [pc EXCEPT ![p] = "refused"]
  /\ UNCHANGED <<db, binary, work, allow>>

-----------------------------------------------------------------------------
(* The migrations that are missing, in the order of their versions.        *)

NextOf(p, v) ==
  /\ v <= Latest(binary[p]) /\ ~Has(work[p], v)
  /\ \A u \in 1 .. v - 1 : Has(work[p], u)

\* Faulty variant: the SQL runs on another connection than the transaction's.
RunOutside(p, v) ==
  /\ pc[p] = "applying" /\ NextOf(p, v)
  /\ work' = [work EXCEPT ![p].ran[v] = @ + 1]
  /\ db' = [db EXCEPT !.ran[v] = @ + 1]
  /\ pc' = [pc EXCEPT ![p] = "ran"]
  /\ UNCHANGED <<lock, binary, allow>>

Run(p, v) ==
  /\ pc[p] = "applying" /\ NextOf(p, v)
  /\ work' = [work EXCEPT ![p].ran[v] = @ + 1]
  /\ pc' = [pc EXCEPT ![p] = "ran"]
  /\ UNCHANGED <<db, lock, binary, allow>>

Record(p, v) ==
  /\ pc[p] = "ran" /\ NextOf(p, v)
  /\ work' = [work EXCEPT ![p].rows[v] = Manifest[binary[p]][v]]
  /\ pc' = [pc EXCEPT ![p] = "applying"]
  /\ UNCHANGED <<db, lock, binary, allow>>

Commit(p) ==
  /\ pc[p] = "applying"
  /\ \A v \in 1 .. Latest(binary[p]) : Has(work[p], v)
  /\ db' = work[p]
  /\ lock' = None
  /\ pc' = [pc EXCEPT ![p] = "open"]
  /\ UNCHANGED <<binary, work, allow>>

\* A statement fails, or the COMMIT: ROLLBACK.
Rollback(p) ==
  /\ pc[p] \in InTransaction
  /\ lock' = None
  /\ pc' = [pc EXCEPT ![p] = "failed"]
  /\ UNCHANGED <<db, binary, work, allow>>

\* The command ends, or is killed: SQLite rolls back.
End(p) ==
  /\ pc[p] \in {"opening", "open"} \cup InTransaction
  /\ lock' = IF lock = p THEN None ELSE lock
  /\ pc' = [pc EXCEPT ![p] = "idle"]
  /\ UNCHANGED <<db, binary, work, allow>>

-----------------------------------------------------------------------------
Next ==
  \E p \in Proc :
    \/ \E b \in Binary : Open(p, b)
    \/ Begin(p) \/ GiveUp(p) \/ Prepare(p) \/ Accept(p) \/ Refuse(p)
    \/ \E v \in Version : Run(p, v) \/ Record(p, v)
    \/ Commit(p) \/ Rollback(p) \/ End(p)

Spec == Init /\ [][Next]_vars

-----------------------------------------------------------------------------
(* Properties.                                                             *)

\* The SQL of a version has been run exactly once if the ledger has a row for
\* it, and not at all if it has none, whatever was killed or rolled back
\* (migration 5 adds columns and fails when it is run again).
RanAsRecorded ==
  \A v \in Version : db.ran[v] = IF Has(db, v) THEN 1 ELSE 0

\* As long as a command is at work, the database has each migration it was
\* built with and none that was edited, also when a newer build has opened
\* the home since.
OpenFits ==
  \A p \in Proc : pc[p] = "open" =>
    \A v \in 1 .. Latest(binary[p]) : db.rows[v] = Manifest[binary[p]][v]

\* A command that was turned away would be turned away again: its build cannot
\* use the database, and no later migration by another build undoes that.
RefusedForCause ==
  \A p \in Proc : pc[p] = "refused" => ~Accepts(binary[p], db, db.legacy)

\* A build that could open the database is locked out only by a checksum that
\* another build has committed, never by one that was refused, failed or was
\* killed half way: in particular a ledger from before the checksums, to which
\* a refused build had added the column, is still one.
NotLockedOut ==
  [][\A b \in Binary :
       Accepts(b, db, db.legacy) /\ ~Accepts(b, db', db'.legacy) =>
         \E v \in Version :
           /\ db'.rows[v] \in Sum
           /\ v <= Latest(b) => db'.rows[v] # Manifest[b][v]]_db

\* No row of the ledger is removed or gets another checksum; one that had none
\* gets one.
RowsKept ==
  [][\A v \in Version : Has(db, v) =>
       \/ db'.rows[v] = db.rows[v]
       \/ db.rows[v] = Unknown /\ db'.rows[v] \in Sum]_db

\* A ledger with a gap, or with a row whose empty checksum is no old one, is
\* never changed by anybody.
DamagedUntouched ==
  [][(\A v \in Version : Has(db, v) =>
        /\ \A u \in 1 .. v : Has(db, u)
        /\ db.rows[v] = Unknown => db.legacy)]_db
=============================================================================
