-------------------------- MODULE MigrationsProofs --------------------------
(***************************************************************************)
(* What holds of Migrations for every number of builds, whatever their     *)
(* manifests, of versions and of commands that open one home.              *)
(***************************************************************************)
EXTENDS Migrations, TLAPS

LEMMA ManifestTyped ==
  ASSUME NEW b \in Binary
  PROVE  /\ Latest(b) \in Nat /\ Latest(b) >= 1 /\ Latest(b) <= MaxVersion
         /\ \A v \in 1 .. Latest(b) : v \in Version /\ Manifest[b][v] \in Sum
         /\ \A v \in Version : v <= Latest(b) => Manifest[b][v] \in Sum
<1>1. Manifest[b] \in Seq(Sum) /\ Latest(b) \in 1 .. MaxVersion /\ MaxVersion \in Nat
  BY MigrationsAssumption DEF Version
<1>2. \A v \in 1 .. Latest(b) : Manifest[b][v] \in Sum
  BY <1>1 DEF Latest
<1> QED
  BY <1>1, <1>2 DEF Version

-----------------------------------------------------------------------------
(* Everything is well typed, and one command at a time is in a transaction. *)

LEMMA TypeInit == Init => TypeOK
<1> SUFFICES ASSUME Init PROVE TypeOK
  OBVIOUS
<1>1. db \in Database
  BY DEF Init, Database
<1>2. /\ lock = None
      /\ pc \in [Proc -> {"idle", "opening", "open", "refused", "failed"} \cup InTransaction]
      /\ \A p \in Proc : pc[p] \notin InTransaction
  BY DEF Init, InTransaction
<1>3. \A p \in Proc : pc[p] \in InTransaction <=> lock = p
  BY <1>2, MigrationsAssumption
<1> QED
  BY <1>1, <1>2, <1>3 DEF Init, TypeOK

LEMMA TypeNext == TypeOK /\ [Next]_vars => TypeOK'
<1> SUFFICES ASSUME TypeOK, [Next]_vars PROVE TypeOK'
  OBVIOUS
<1> USE DEF TypeOK, InTransaction
<1>1. ASSUME NEW p \in Proc, NEW b \in Binary, Open(p, b) PROVE TypeOK'
  BY <1>1 DEF Open
<1>2. ASSUME NEW p \in Proc, Begin(p) PROVE TypeOK'
  BY <1>2, MigrationsAssumption DEF Begin
<1>3. ASSUME NEW p \in Proc, GiveUp(p) PROVE TypeOK'
  BY <1>3 DEF GiveUp
<1>4. ASSUME NEW p \in Proc, Prepare(p) PROVE TypeOK'
  <2>1. work[p] \in Database /\ [work[p] EXCEPT !.legacy = FALSE] \in Database
        /\ work[p].legacy \in BOOLEAN
    BY DEF Database
  <2>2. work' \in [Proc -> Database] /\ allow' \in [Proc -> BOOLEAN]
    BY <1>4, <2>1 DEF Prepare
  <2> QED
    BY <1>4, <2>2 DEF Prepare
<1>5. ASSUME NEW p \in Proc, Accept(p) PROVE TypeOK'
  <2>1. binary[p] \in Binary /\ work[p] \in Database
    OBVIOUS
  <2>2. Filled(binary[p], work[p]) \in [Version -> Sum \cup {Unknown, NoRow}]
    BY <2>1, ManifestTyped DEF Filled, Database
  <2>3. [work[p] EXCEPT !.rows = Filled(binary[p], work[p])] \in Database
    BY <2>1, <2>2 DEF Database
  <2>4. work' \in [Proc -> Database]
    BY <1>5, <2>3 DEF Accept
  <2> QED
    BY <1>5, <2>4 DEF Accept
<1>6. ASSUME NEW p \in Proc, Refuse(p) PROVE TypeOK'
  BY <1>6, MigrationsAssumption DEF Refuse
<1>7. ASSUME NEW p \in Proc, NEW v \in Version, Run(p, v) PROVE TypeOK'
  <2>1. work[p] \in Database
    OBVIOUS
  <2>2. [work[p].ran EXCEPT ![v] = @ + 1] \in [Version -> Nat]
    BY <2>1 DEF Database
  <2>3. [work[p] EXCEPT !.ran = [work[p].ran EXCEPT ![v] = @ + 1]] \in Database
    BY <2>1, <2>2 DEF Database
  <2>4. work' \in [Proc -> Database]
    BY <1>7, <2>3 DEF Run
  <2> QED
    BY <1>7, <2>4 DEF Run
<1>8. ASSUME NEW p \in Proc, NEW v \in Version, Record(p, v) PROVE TypeOK'
  <2>1. work[p] \in Database /\ binary[p] \in Binary
    OBVIOUS
  <2>2. Manifest[binary[p]][v] \in Sum
    BY <1>8, <2>1, ManifestTyped DEF Record, NextOf
  <2>3. [work[p] EXCEPT !.rows[v] = Manifest[binary[p]][v]] \in Database
    BY <2>1, <2>2 DEF Database
  <2>4. work' \in [Proc -> Database]
    BY <1>8, <2>3 DEF Record
  <2> QED
    BY <1>8, <2>4 DEF Record
<1>9. ASSUME NEW p \in Proc, Commit(p) PROVE TypeOK'
  BY <1>9, MigrationsAssumption DEF Commit
<1>10. ASSUME NEW p \in Proc, Rollback(p) PROVE TypeOK'
  BY <1>10, MigrationsAssumption DEF Rollback
<1>11. ASSUME NEW p \in Proc, End(p) PROVE TypeOK'
  BY <1>11, MigrationsAssumption DEF End
<1>12. CASE UNCHANGED vars
  BY <1>12 DEF vars
<1> QED
  BY <1>1, <1>2, <1>3, <1>4, <1>5, <1>6, <1>7, <1>8, <1>9, <1>10, <1>11, <1>12 DEF Next

\* TypeOK, for every instance: in particular never two commands between
\* BEGIN IMMEDIATE and COMMIT.
THEOREM TypeCorrect == Spec => []TypeOK
  BY TypeInit, TypeNext, PTL DEF Spec
-----------------------------------------------------------------------------
(* What a transaction has done so far, and what it relies on.              *)

\* The SQL that has been run in d is that of its rows, and of those in extra.
Counted(d, extra) ==
  \A v \in Version : d.ran[v] = IF Has(d, v) \/ v \in extra THEN 1 ELSE 0

\* The versions whose SQL has been run in work[p] and that have no row yet.
Unrecorded(p) ==
  {v \in Version : pc[p] = "ran" /\ NextOf(p, v)}

\* Since it has the lock, what is committed is what the command began with; and
\* once it has accepted that, each row in its copy is one of its own manifest.
WorkOK(p) ==
  /\ pc[p] = "begun" => work[p] = db
  /\ pc[p] = "prepared" =>
       work[p].rows = db.rows /\ work[p].ran = db.ran /\ allow[p] = db.legacy
  /\ pc[p] \in {"prepared", "applying", "ran"} => ~work[p].legacy
  /\ pc[p] \in {"applying", "ran"} =>
       /\ Accepts(binary[p], db, db.legacy)
       /\ \A v \in Version : Has(db, v) => Has(work[p], v)
       /\ \A v \in Version : Has(work[p], v) =>
            v <= Latest(binary[p]) /\ work[p].rows[v] = Manifest[binary[p]][v]
       /\ Counted(work[p], Unrecorded(p))

\* The inductive invariant.
Inv ==
  /\ TypeOK
  /\ \A p \in Proc : WorkOK(p)
  /\ RanAsRecorded
  /\ OpenFits
  /\ RefusedForCause

-----------------------------------------------------------------------------
(* The invariant is inductive.                                             *)

LEMMA InvInit == Init => Inv
<1> SUFFICES ASSUME Init PROVE Inv
  OBVIOUS
<1>1. TypeOK
  BY TypeInit
<1>2. \A p \in Proc : pc[p] = "idle"
  BY DEF Init
<1>3. \A p \in Proc : WorkOK(p)
  BY <1>2 DEF WorkOK
<1>4. RanAsRecorded
  BY DEF Init, RanAsRecorded, Has
<1> QED
  BY <1>1, <1>2, <1>3, <1>4 DEF Inv, OpenFits, RefusedForCause

LEMMA AcceptsReadsRows ==
  ASSUME NEW b, NEW d, NEW e, NEW legacy, d.rows = e.rows
  PROVE  Accepts(b, d, legacy) <=> Accepts(b, e, legacy)
  BY DEF Accepts, SumFits, Has

LEMMA WorkElsewhere ==
  ASSUME TypeOK, NEW p \in Proc, NEW q \in Proc, q # p, WorkOK(q),
         pc'[q] = pc[q], work'[q] = work[q], allow'[q] = allow[q],
         binary'[q] = binary[q], db' = db \/ lock = p
  PROVE  WorkOK(q)'
<1>1. CASE db' = db
  BY <1>1 DEF WorkOK, Unrecorded, NextOf, Counted
<1>2. CASE lock = p
  <2>1. pc'[q] \notin InTransaction
    BY <1>2 DEF TypeOK
  <2> QED
    BY <2>1 DEF WorkOK, InTransaction
<1> QED
  BY <1>1, <1>2

LEMMA StandStill ==
  ASSUME Inv, db' = db,
         \A q \in Proc : pc'[q] \in {"open", "refused"} =>
           pc'[q] = pc[q] /\ binary'[q] = binary[q]
  PROVE  RanAsRecorded' /\ OpenFits' /\ RefusedForCause'
<1>1. RanAsRecorded'
  BY DEF Inv, RanAsRecorded
<1>2. OpenFits'
  BY DEF Inv, OpenFits
<1>3. RefusedForCause'
  BY DEF Inv, RefusedForCause
<1> QED
  BY <1>1, <1>2, <1>3

\* A step of p that does not commit, and after which p is neither open nor
\* refused, keeps the invariant if it keeps what p's own transaction relies on.
LEMMA StepOf ==
  ASSUME Inv, TypeOK', NEW p \in Proc, db' = db,
         \A q \in Proc \ {p} : /\ pc'[q] = pc[q] /\ work'[q] = work[q]
                                /\ allow'[q] = allow[q] /\ binary'[q] = binary[q],
         pc'[p] \notin {"open", "refused"}, WorkOK(p)'
  PROVE  Inv'
<1>1. ASSUME NEW q \in Proc PROVE WorkOK(q)'
  BY WorkElsewhere DEF Inv
<1>2. \A q \in Proc : pc'[q] \in {"open", "refused"} =>
        pc'[q] = pc[q] /\ binary'[q] = binary[q]
  OBVIOUS
<1>3. RanAsRecorded' /\ OpenFits' /\ RefusedForCause'
  BY <1>2, StandStill
<1> QED
  BY <1>1, <1>3 DEF Inv

LEMMA OutsideStep ==
  ASSUME Inv, TypeOK', NEW p \in Proc,
         (\E b \in Binary : Open(p, b)) \/ GiveUp(p) \/ Rollback(p) \/ End(p)
  PROVE  Inv'
<1>1. /\ db' = db
      /\ \A q \in Proc \ {p} : /\ pc'[q] = pc[q] /\ work'[q] = work[q]
                                /\ allow'[q] = allow[q] /\ binary'[q] = binary[q]
      /\ pc'[p] \in {"opening", "failed", "idle"}
  BY DEF Open, GiveUp, Rollback, End, Inv, TypeOK
<1>2. WorkOK(p)'
  BY <1>1 DEF WorkOK
<1> QED
  BY <1>1, <1>2, StepOf

LEMMA BeginStep ==
  ASSUME Inv, TypeOK', NEW p \in Proc, Begin(p)
  PROVE  Inv'
<1>1. /\ db' = db /\ pc'[p] = "begun" /\ work'[p] = db
      /\ \A q \in Proc \ {p} : /\ pc'[q] = pc[q] /\ work'[q] = work[q]
                                /\ allow'[q] = allow[q] /\ binary'[q] = binary[q]
  BY DEF Begin, Inv, TypeOK
<1>2. WorkOK(p)'
  BY <1>1 DEF WorkOK
<1> QED
  BY <1>1, <1>2, StepOf

LEMMA PrepareStep ==
  ASSUME Inv, TypeOK', NEW p \in Proc, Prepare(p)
  PROVE  Inv'
<1>1. /\ db' = db /\ pc'[p] = "prepared"
      /\ \A q \in Proc \ {p} : /\ pc'[q] = pc[q] /\ work'[q] = work[q]
                                /\ allow'[q] = allow[q] /\ binary'[q] = binary[q]
  BY DEF Prepare, Inv, TypeOK
<1>2. work[p] = db
  BY DEF Prepare, Inv, WorkOK
<1>3. /\ work'[p].rows = db.rows /\ work'[p].ran = db.ran
      /\ work'[p].legacy = FALSE /\ allow'[p] = db.legacy
  BY <1>2 DEF Prepare, Inv, TypeOK, Database
<1>4. WorkOK(p)'
  BY <1>1, <1>3 DEF WorkOK
<1> QED
  BY <1>1, <1>4, StepOf

LEMMA AcceptStep ==
  ASSUME Inv, TypeOK', NEW p \in Proc, Accept(p)
  PROVE  Inv'
<1> DEFINE b == binary[p]
<1>1. /\ db' = db /\ pc[p] = "prepared" /\ pc'[p] = "applying"
      /\ binary' = binary /\ b \in Binary
      /\ \A q \in Proc \ {p} : /\ pc'[q] = pc[q] /\ work'[q] = work[q]
                                /\ allow'[q] = allow[q] /\ binary'[q] = binary[q]
  BY DEF Accept, Inv, TypeOK
<1>2. /\ work[p].rows = db.rows /\ work[p].ran = db.ran /\ ~work[p].legacy
      /\ allow[p] = db.legacy
  BY <1>1 DEF Inv, WorkOK
<1>3. /\ work'[p].rows = Filled(b, work[p]) /\ work'[p].ran = db.ran
      /\ ~work'[p].legacy
  BY <1>2 DEF Accept, Inv, TypeOK, Database
<1>4. Accepts(b, db, db.legacy)
  BY <1>2, AcceptsReadsRows DEF Accept
<1>5. ASSUME NEW v \in Version
      PROVE  work'[p].rows[v] = IF Has(db, v) THEN Manifest[b][v] ELSE NoRow
  BY <1>2, <1>3, <1>4 DEF Filled, Has, Accepts
<1>6. \A v \in Version : Has(db, v) => v <= Latest(b) /\ Manifest[b][v] \in Sum
  BY <1>1, <1>4, ManifestTyped DEF Accepts
<1>7. \A v \in Version : (work'[p].rows[v] # NoRow) <=> Has(db, v)
  BY <1>5, <1>6, MigrationsAssumption
<1>8. \A v \in Version : work'[p].ran[v] = IF Has(db, v) THEN 1 ELSE 0
  BY <1>3 DEF Inv, RanAsRecorded
<1>9. Unrecorded(p)' = {}
  BY <1>1 DEF Unrecorded
<1>10. WorkOK(p)'
  BY <1>1, <1>3, <1>4, <1>5, <1>6, <1>7, <1>8, <1>9 DEF WorkOK, Counted, Has
<1> QED
  BY <1>1, <1>10, StepOf

LEMMA RefuseStep ==
  ASSUME Inv, TypeOK', NEW p \in Proc, Refuse(p)
  PROVE  Inv'
<1>1. /\ db' = db /\ pc[p] = "prepared" /\ pc'[p] = "refused" /\ binary' = binary
      /\ \A q \in Proc \ {p} : /\ pc'[q] = pc[q] /\ work'[q] = work[q]
                                /\ allow'[q] = allow[q] /\ binary'[q] = binary[q]
  BY DEF Refuse, Inv, TypeOK
<1>2. work[p].rows = db.rows /\ allow[p] = db.legacy
  BY <1>1 DEF Inv, WorkOK
<1>3. ~Accepts(binary[p], db, db.legacy)
  BY <1>2, AcceptsReadsRows DEF Refuse
<1>4. RefusedForCause'
  BY <1>1, <1>3 DEF Inv, RefusedForCause
<1>5. RanAsRecorded' /\ OpenFits'
  BY <1>1 DEF Inv, RanAsRecorded, OpenFits
<1>6. ASSUME NEW q \in Proc PROVE WorkOK(q)'
  <2>1. CASE q = p
    BY <1>1, <2>1 DEF WorkOK
  <2>2. CASE q # p
    BY <1>1, <2>2, WorkElsewhere DEF Inv
  <2> QED
    BY <2>1, <2>2
<1> QED
  BY <1>4, <1>5, <1>6 DEF Inv

\* There is one next version.
LEMMA NextIsOne ==
  ASSUME Inv, NEW p \in Proc, NEW v \in Version, NEW w \in Version,
         NextOf(p, v), NextOf(p, w)
  PROVE  v = w
  BY MigrationsAssumption DEF NextOf, Version

LEMMA RunStep ==
  ASSUME Inv, TypeOK', NEW p \in Proc, NEW v \in Version, Run(p, v)
  PROVE  Inv'
<1>1. /\ db' = db /\ pc[p] = "applying" /\ pc'[p] = "ran" /\ binary' = binary
      /\ \A q \in Proc \ {p} : /\ pc'[q] = pc[q] /\ work'[q] = work[q]
                                /\ allow'[q] = allow[q] /\ binary'[q] = binary[q]
  BY DEF Run, Inv, TypeOK
<1>2. /\ work'[p].rows = work[p].rows /\ work'[p].legacy = work[p].legacy
      /\ work'[p].ran = [work[p].ran EXCEPT ![v] = @ + 1]
      /\ work[p].ran \in [Version -> Nat]
  BY DEF Run, Inv, TypeOK, Database
<1>3. \A w \in Version : NextOf(p, w)' <=> NextOf(p, w)
  BY <1>1, <1>2 DEF NextOf, Has
<1>4. NextOf(p, v) /\ ~Has(work[p], v)
  BY DEF Run, NextOf
<1>5. Unrecorded(p)' = {v}
  BY <1>1, <1>3, <1>4, NextIsOne DEF Unrecorded
<1>6. \A w \in Version : work[p].ran[w] = IF Has(work[p], w) THEN 1 ELSE 0
  BY <1>1 DEF Inv, WorkOK, Counted, Unrecorded
<1>7. Counted(work[p], Unrecorded(p))'
  BY <1>2, <1>4, <1>5, <1>6 DEF Counted, Has
<1>8. WorkOK(p)'
  BY <1>1, <1>2, <1>7 DEF WorkOK, Has, Inv
<1> QED
  BY <1>1, <1>8, StepOf

LEMMA RecordStep ==
  ASSUME Inv, TypeOK', NEW p \in Proc, NEW v \in Version, Record(p, v)
  PROVE  Inv'
<1> DEFINE b == binary[p]
<1>1. /\ db' = db /\ pc[p] = "ran" /\ pc'[p] = "applying" /\ binary' = binary
      /\ b \in Binary
      /\ \A q \in Proc \ {p} : /\ pc'[q] = pc[q] /\ work'[q] = work[q]
                                /\ allow'[q] = allow[q] /\ binary'[q] = binary[q]
  BY DEF Record, Inv, TypeOK
<1>2. /\ work'[p].rows = [work[p].rows EXCEPT ![v] = Manifest[b][v]]
      /\ work'[p].legacy = work[p].legacy /\ work'[p].ran = work[p].ran
      /\ DOMAIN work[p].rows = Version
  BY DEF Record, Inv, TypeOK, Database
<1>3. NextOf(p, v) /\ v <= Latest(b) /\ Manifest[b][v] \in Sum
  BY <1>1, ManifestTyped DEF Record, NextOf
<1>4. \A w \in Version : (work'[p].rows[w] # NoRow) <=> Has(work[p], w) \/ w = v
  BY <1>2, <1>3, MigrationsAssumption DEF Has
<1>5. Unrecorded(p) = {v} /\ Unrecorded(p)' = {}
  BY <1>1, <1>3, NextIsOne DEF Unrecorded
<1>6. Counted(work[p], Unrecorded(p))'
  BY <1>1, <1>2, <1>4, <1>5 DEF Counted, Has, Inv, WorkOK
<1>7. \A w \in Version : Has(work[p], w)' =>
        w <= Latest(b) /\ work'[p].rows[w] = Manifest[b][w]
  BY <1>1, <1>2, <1>3, <1>4 DEF Inv, WorkOK, Has
<1>8. \A w \in Version : Has(db, w) => Has(work[p], w)'
  BY <1>1, <1>4 DEF Inv, WorkOK, Has
<1>9. WorkOK(p)'
  BY <1>1, <1>2, <1>6, <1>7, <1>8 DEF WorkOK, Has, Inv
<1> QED
  BY <1>1, <1>9, StepOf

-----------------------------------------------------------------------------
(* What a commit makes of the ledger.                                      *)

LEMMA CommitMakes ==
  ASSUME Inv, NEW p \in Proc, Commit(p)
  PROVE  /\ db' = work[p] /\ lock = p /\ binary[p] \in Binary /\ ~db'.legacy
         /\ Accepts(binary[p], db, db.legacy)
         /\ \A v \in Version : Has(db, v)' <=> v <= Latest(binary[p])
         /\ \A v \in Version : v <= Latest(binary[p]) =>
              /\ db'.rows[v] = Manifest[binary[p]][v]
              /\ db'.rows[v] \in Sum /\ db'.rows[v] # Unknown
<1> DEFINE b == binary[p]
<1>1. db' = work[p] /\ pc[p] = "applying" /\ lock = p /\ b \in Binary
  BY DEF Commit, Inv, TypeOK, InTransaction
<1>2. /\ Accepts(b, db, db.legacy) /\ ~work[p].legacy
      /\ \A v \in Version : Has(work[p], v) =>
           v <= Latest(b) /\ work[p].rows[v] = Manifest[b][v]
  BY <1>1 DEF Inv, WorkOK
<1>3. \A v \in Version : v <= Latest(b) => Has(work[p], v)
  BY <1>1, ManifestTyped, MigrationsAssumption DEF Commit, Version
<1>4. \A v \in Version : v <= Latest(b) => Manifest[b][v] \in Sum
  BY <1>1, ManifestTyped
<1> QED
  BY <1>1, <1>2, <1>3, <1>4, MigrationsAssumption DEF Has

\* A row that was there is of a version of the build that commits, and has its
\* checksum, or none and may have none.
LEMMA CommitAgrees ==
  ASSUME Inv, NEW p \in Proc, Commit(p), NEW v \in Version, Has(db, v)
  PROVE  /\ v <= Latest(binary[p])
         /\ \A u \in 1 .. v : Has(db, u)
         /\ db.rows[v] = db'.rows[v] \/ (db.legacy /\ db.rows[v] = Unknown)
  BY CommitMakes DEF Accepts, SumFits

LEMMA CommitOpenFits ==
  ASSUME Inv, NEW p \in Proc, Commit(p)
  PROVE  OpenFits'
<1> SUFFICES ASSUME NEW q \in Proc, pc'[q] = "open",
                    NEW v \in 1 .. Latest(binary'[q])
             PROVE  db'.rows[v] = Manifest[binary'[q]][v]
  BY DEF OpenFits
<1>1. binary' = binary /\ binary[q] \in Binary
  BY DEF Commit, Inv, TypeOK
<1>2. v \in Version /\ Manifest[binary[q]][v] \in Sum
  BY <1>1, ManifestTyped
<1>3. CASE q = p
  BY <1>1, <1>2, <1>3, CommitMakes DEF Version
<1>4. CASE q # p
  <2>1. pc[q] = "open"
    BY <1>4 DEF Commit, Inv, TypeOK
  <2>2. db.rows[v] = Manifest[binary[q]][v]
    BY <1>1, <2>1 DEF Inv, OpenFits
  <2>3. Has(db, v) /\ db.rows[v] # Unknown
    BY <1>2, <2>2, MigrationsAssumption DEF Has
  <2> QED
    BY <1>1, <1>2, <2>2, <2>3, CommitAgrees
<1> QED
  BY <1>3, <1>4

LEMMA CommitRefused ==
  ASSUME Inv, NEW p \in Proc, Commit(p)
  PROVE  RefusedForCause'
<1> SUFFICES ASSUME NEW q \in Proc, pc'[q] = "refused"
             PROVE  ~Accepts(binary'[q], db', db'.legacy)
  BY DEF RefusedForCause
<1> DEFINE c == binary[q]
<1>1. binary' = binary /\ pc[q] = "refused"
  BY DEF Commit, Inv, TypeOK
<1>2. ~Accepts(c, db, db.legacy)
  BY <1>1 DEF Inv, RefusedForCause
<1>3. PICK v \in Version : /\ Has(db, v)
                          /\ \/ ~(v <= Latest(c))
                             \/ ~(\A u \in 1 .. v : Has(db, u))
                             \/ ~SumFits(c, db, v, db.legacy)
  BY <1>2 DEF Accepts
<1>4. /\ v <= Latest(binary[p]) /\ \A u \in 1 .. v : Has(db, u)
      /\ db.rows[v] = db'.rows[v] \/ (db.legacy /\ db.rows[v] = Unknown)
  BY <1>3, CommitAgrees
<1>5. Has(db', v) /\ db'.rows[v] # Unknown /\ ~db'.legacy
  BY <1>4, CommitMakes DEF Has
<1>6. CASE ~(v <= Latest(c))
  BY <1>1, <1>5, <1>6 DEF Accepts
<1>7. CASE ~SumFits(c, db, v, db.legacy)
  <2>1. db'.rows[v] # Manifest[c][v]
    BY <1>4, <1>7 DEF SumFits
  <2> QED
    BY <1>1, <1>5, <2>1 DEF Accepts, SumFits
<1> QED
  BY <1>3, <1>4, <1>6, <1>7

LEMMA CommitStep ==
  ASSUME Inv, TypeOK', NEW p \in Proc, Commit(p)
  PROVE  Inv'
<1>1. /\ pc[p] = "applying" /\ pc'[p] = "open" /\ db' = work[p] /\ lock = p
      /\ \A q \in Proc \ {p} : /\ pc'[q] = pc[q] /\ work'[q] = work[q]
                                /\ allow'[q] = allow[q] /\ binary'[q] = binary[q]
  BY CommitMakes DEF Commit, Inv, TypeOK
<1>2. RanAsRecorded'
  <2>1. Counted(work[p], {})
    BY <1>1 DEF Inv, WorkOK, Unrecorded, Counted
  <2> QED
    BY <1>1, <2>1 DEF Counted, RanAsRecorded, Has
<1>3. ASSUME NEW q \in Proc PROVE WorkOK(q)'
  <2>1. CASE q = p
    BY <1>1, <2>1 DEF WorkOK
  <2>2. CASE q # p
    BY <1>1, <2>2, WorkElsewhere DEF Inv
  <2> QED
    BY <2>1, <2>2
<1> QED
  BY <1>2, <1>3, CommitOpenFits, CommitRefused DEF Inv

-----------------------------------------------------------------------------
(* The theorems.                                                           *)

LEMMA InvNext == Inv /\ [Next]_vars => Inv'
<1> SUFFICES ASSUME Inv, [Next]_vars PROVE Inv'
  OBVIOUS
<1>1. TypeOK'
  BY TypeNext DEF Inv
<1>2. ASSUME Next PROVE Inv'
  BY <1>1, <1>2, OutsideStep, BeginStep, PrepareStep, AcceptStep, RefuseStep,
     RunStep, RecordStep, CommitStep DEF Next
<1>3. CASE UNCHANGED vars
  BY <1>3 DEF vars, Inv, TypeOK, WorkOK, Unrecorded, NextOf, Counted, RanAsRecorded,
     OpenFits, RefusedForCause
<1> QED
  BY <1>2, <1>3

THEOREM Invariant == Spec => []Inv
  BY InvInit, InvNext, PTL DEF Spec

\* RanAsRecorded, for every instance: whatever was killed or failed where, the
\* SQL of a version has been run once if it is in the ledger, else never.
THEOREM EachRunOnce == Spec => []RanAsRecorded
<1>1. Inv => RanAsRecorded
  BY DEF Inv
<1> QED
  BY <1>1, Invariant, PTL

\* OpenFits, for every instance: a command at work has the schema it was built
\* for, or one that continues it.
THEOREM SchemaFits == Spec => []OpenFits
<1>1. Inv => OpenFits
  BY DEF Inv
<1> QED
  BY <1>1, Invariant, PTL

\* RefusedForCause, for every instance: no build is turned away that could use
\* the database, then or later.
THEOREM RefusalsStand == Spec => []RefusedForCause
<1>1. Inv => RefusedForCause
  BY DEF Inv
<1> QED
  BY <1>1, Invariant, PTL

\* Only a commit changes the database.
LEMMA OnlyCommits ==
  ASSUME [Next]_vars
  PROVE  db' = db \/ \E p \in Proc : Commit(p)
  BY DEF Next, vars, Open, Begin, GiveUp, Prepare, Accept, Refuse, Run, Record,
         Rollback, End

\* RowsKept, for every instance: the ledger only grows, and only the checksums
\* that old rows lack are filled in.
THEOREM LedgerGrows == Spec => RowsKept
<1>1. ASSUME Inv, [Next]_vars
      PROVE  [\A v \in Version : Has(db, v) =>
               \/ db'.rows[v] = db.rows[v]
               \/ db.rows[v] = Unknown /\ db'.rows[v] \in Sum]_db
  <2>1. ASSUME NEW p \in Proc, Commit(p), NEW v \in Version, Has(db, v)
        PROVE  \/ db'.rows[v] = db.rows[v]
               \/ db.rows[v] = Unknown /\ db'.rows[v] \in Sum
    BY <1>1, <2>1, CommitAgrees, CommitMakes
  <2> QED
    BY <1>1, <2>1, OnlyCommits
<1> QED
  BY <1>1, Invariant, PTL DEF Spec, RowsKept

\* DamagedUntouched, for every instance: nobody changes a ledger with a gap or
\* with a row whose checksum is missing for no reason.
THEOREM DamageIsLeft == Spec => DamagedUntouched
<1>1. ASSUME Inv, [Next]_vars
      PROVE  [\A v \in Version : Has(db, v) =>
               /\ \A u \in 1 .. v : Has(db, u)
               /\ db.rows[v] = Unknown => db.legacy]_db
  <2>1. ASSUME NEW p \in Proc, Commit(p), NEW v \in Version, Has(db, v)
        PROVE  /\ \A u \in 1 .. v : Has(db, u)
               /\ db.rows[v] = Unknown => db.legacy
    BY <1>1, <2>1, CommitAgrees, CommitMakes
  <2> QED
    BY <1>1, <2>1, OnlyCommits
<1> QED
  BY <1>1, Invariant, PTL DEF Spec, DamagedUntouched

\* NotLockedOut, for every instance: a build loses a database only to what
\* another build has committed.
THEOREM OnlyCommitsLockOut == Spec => NotLockedOut
<1> DEFINE LockOut ==
      \A b \in Binary :
        Accepts(b, db, db.legacy) /\ ~Accepts(b, db', db'.legacy) =>
          \E v \in Version :
            /\ db'.rows[v] \in Sum
            /\ v <= Latest(b) => db'.rows[v] # Manifest[b][v]
<1>1. ASSUME Inv, [Next]_vars PROVE [LockOut]_db
  <2>1. ASSUME NEW p \in Proc, Commit(p), NEW b \in Binary,
               ~Accepts(b, db', db'.legacy)
        PROVE  \E v \in Version :
                 /\ db'.rows[v] \in Sum
                 /\ v <= Latest(b) => db'.rows[v] # Manifest[b][v]
    <3>1. PICK v \in Version : /\ Has(db', v)
                              /\ \/ ~(v <= Latest(b))
                                 \/ ~(\A u \in 1 .. v : Has(db', u))
                                 \/ ~SumFits(b, db', v, db'.legacy)
      BY <2>1 DEF Accepts
    <3>2. /\ v <= Latest(binary[p]) /\ db'.rows[v] \in Sum
          /\ \A w \in Version : Has(db', w) <=> w <= Latest(binary[p])
      BY <1>1, <2>1, <3>1, CommitMakes DEF Has
    <3>3. \A u \in 1 .. v : u \in Version /\ u <= Latest(binary[p])
      BY <1>1, <2>1, <3>2, CommitMakes, ManifestTyped, MigrationsAssumption DEF Version
    <3>4. \A u \in 1 .. v : Has(db', u)
      BY <3>2, <3>3
    <3> QED
      BY <3>1, <3>2, <3>4 DEF SumFits
  <2> QED
    BY <1>1, <2>1, OnlyCommits
<1> QED
  BY <1>1, Invariant, PTL DEF Spec, NotLockedOut
=============================================================================
