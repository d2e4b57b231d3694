-------------------------- MODULE CheckpointsProofs -------------------------
(***************************************************************************)
(* What holds of Checkpoints for every set of repositories, sessions,      *)
(* processes and commits, and every placement of the repositories.         *)
(***************************************************************************)
EXTENDS Checkpoints, SequenceTheorems, TLAPS

\* The length and the elements of a sequence that has one row more.
LEMMA AppendRow ==
  ASSUME NEW S, NEW q \in Seq(S), NEW e \in S
  PROVE  /\ Append(q, e) \in Seq(S)
         /\ Len(Append(q, e)) = Len(q) + 1
         /\ DOMAIN q = 1 .. Len(q)
         /\ DOMAIN Append(q, e) = 1 .. Len(q) + 1
         /\ \A i \in 1 .. Len(q) : Append(q, e)[i] = q[i]
         /\ Append(q, e)[Len(q) + 1] = e
  BY AppendProperties, LenProperties

\* A process step keeps the types of the processes.
LEMMA GotoType ==
  ASSUME TypeOK, NEW p \in Proc, NEW to, NEW r, Goto(p, to, r),
         to \in {"idle", "create", "head", "sessions", "auto", "several"},
         r \in Register,
         to = "head" => r.place \in Place,
         to \in {"create", "sessions", "auto", "several"} =>
           r.repo \in Repo /\ r.rev \in Revision,
         to = "auto" => r.sess \in Session,
         to \in {"head", "sessions", "auto"} => r.msg = AutoMessage
  PROVE  ProcessesOK'
  BY DEF Goto, TypeOK, ProcessesOK, RegisterOK

LEMMA BlankType == Blank \in Register /\ Blank.msg = AutoMessage
  BY IdsAssumption DEF Blank, Register

LEMMA FinishType ==
  ASSUME TypeOK, NEW p \in Proc, Finish(p)
  PROVE  ProcessesOK'
  BY GotoType, BlankType DEF Finish

\* A transaction that inserts a checkpoint keeps the types of the tables.
LEMMA InsertType ==
  ASSUME TypeOK, NEW row \in CheckpointRow, InsertCheckpoint(row)
  PROVE  /\ sessions' \in [Session -> SessionRow \cup {NoSession}]
         /\ checkpoints' \in Seq(CheckpointRow)
         /\ ambiguous' \in SUBSET (Repo \X Revision)
<1>1. checkpoints' \in Seq(CheckpointRow)
  BY AppendRow DEF InsertCheckpoint, TypeOK
<1>2. Len(checkpoints) + 1 \in Nat
  BY LenProperties DEF TypeOK
<1>3. sessions' \in [Session -> SessionRow \cup {NoSession}]
  <2>1. CASE row.sess = None
    BY <2>1 DEF InsertCheckpoint, TypeOK
  <2>2. CASE row.sess # None
    <3>1. row.sess \in Session /\ sessions[row.sess] \in SessionRow
      BY <2>2 DEF InsertCheckpoint, TypeOK, CheckpointRow, NoSession
    <3>2. [sessions[row.sess] EXCEPT !.latest = Len(checkpoints) + 1] \in SessionRow
      BY <1>2, <3>1 DEF SessionRow
    <3> QED
      BY <2>2, <3>1, <3>2 DEF InsertCheckpoint, TypeOK
  <2> QED
    BY <2>1, <2>2
<1> QED
  BY <1>1, <1>3 DEF InsertCheckpoint, TypeOK

LEMMA RowOfType ==
  ASSUME TypeOK, NEW p \in Proc, pc[p] \in {"create", "auto"},
         NEW via \in {"create", "auto"}
  PROVE  RowOf(p, via) \in CheckpointRow
  BY DEF RowOf, CheckpointRow, TypeOK, ProcessesOK, RegisterOK, Register

LEMMA TypeInit == Init => TypeOK
<1> SUFFICES ASSUME Init PROVE TypeOK
  OBVIOUS
<1>1. checkpoints \in Seq(CheckpointRow)
  BY EmptySeq DEF Init
<1>2. ProcessesOK
  BY BlankType DEF Init, ProcessesOK, RegisterOK
<1> QED
  BY <1>1, <1>2 DEF Init, TypeOK

LEMMA TypeStep == TypeOK /\ [Next]_vars => TypeOK'
<1> SUFFICES ASSUME TypeOK, [Next]_vars PROVE TypeOK'
  OBVIOUS
<1> USE DEF git, db
<1>1. ASSUME NEW p \in Proc, NEW c \in Place, NEW k \in Commit, GitCommit(p, c, k)
      PROVE  TypeOK'
  <2>1. /\ head' \in [Place -> Commit \cup {None}]
        /\ objects' \in [Place -> SUBSET Commit]
    BY <1>1, PlacesAssumption DEF GitCommit, TypeOK
  <2>2. CASE c \in Hooked
    <3> DEFINE r == [Blank EXCEPT !.place = c,
                                  !.gitdir = IF c \in Linked THEN c ELSE None]
    <3>1. r \in Register /\ r.place \in Place /\ r.msg = AutoMessage
      BY BlankType DEF Register
    <3>2. Goto(p, "head", r)
      BY <1>1, <2>2 DEF GitCommit
    <3> HIDE DEF r
    <3>3. ProcessesOK'
      BY <3>1, <3>2, GotoType
    <3> QED
      BY <1>1, <2>1, <3>3 DEF GitCommit, TypeOK
  <2>3. CASE c \notin Hooked
    BY <1>1, <2>1, <2>3 DEF GitCommit, TypeOK, ProcessesOK, RegisterOK
  <2> QED
    BY <2>2, <2>3
<1>2. ASSUME NEW c \in Place, NEW k \in Commit, MoveHead(c, k)
      PROVE  TypeOK'
  BY <1>2 DEF MoveHead, TypeOK, ProcessesOK, RegisterOK
<1>15. ASSUME NEW c \in Place, NEW n \in RevName, NEW k \in Commit \cup {None},
              MoveName(c, n, k)
       PROVE  TypeOK'
  <2>1. refs' \in [Place -> [RevName -> Commit \cup {None}]]
    BY <1>15, PlacesAssumption DEF MoveName, TypeOK
  <2> QED
    BY <1>15, <2>1 DEF MoveName, TypeOK, ProcessesOK, RegisterOK
<1>3. ASSUME NEW s \in Session, NEW r \in Repo, InsertSession(s, r)
      PROVE  TypeOK'
  <2>1. [state |-> "active", repo |-> r, latest |-> None] \in SessionRow
    BY DEF SessionRow
  <2> QED
    BY <1>3, <2>1 DEF InsertSession, TypeOK, ProcessesOK, RegisterOK
<1>4. ASSUME NEW s \in Session, CloseSession(s)
      PROVE  TypeOK'
  <2>1. [sessions[s] EXCEPT !.state = "closed"] \in SessionRow
    BY <1>4 DEF CloseSession, TypeOK, SessionRow, NoSession
  <2> QED
    BY <1>4, <2>1 DEF CloseSession, TypeOK, ProcessesOK, RegisterOK
<1>5. ASSUME NEW p \in Proc, NEW r \in Repo, NEW s \in Session \cup {None},
             NEW m \in Message, NEW rev \in Revision,
             Goto(p, "create", [Blank EXCEPT !.repo = r, !.sess = s, !.msg = m,
                                             !.rev = rev]),
             UNCHANGED <<git, db>>
      PROVE  TypeOK'
  <2> DEFINE j == [Blank EXCEPT !.repo = r, !.sess = s, !.msg = m, !.rev = rev]
  <2>1. j \in Register /\ j.repo \in Repo /\ j.rev \in Revision
    BY BlankType DEF Register
  <2>2. Goto(p, "create", j)
    BY <1>5
  <2> HIDE DEF j
  <2>3. ProcessesOK'
    BY <2>1, <2>2, GotoType
  <2> QED
    BY <1>5, <2>3 DEF TypeOK
<1>6. ASSUME NEW p \in Proc, NEW r \in Repo, NEW s \in Session \cup {None},
             NEW m \in Message, CreateAtHead(p, r, s, m)
      PROVE  TypeOK'
  <2>1. ResolveRevision(r, HeadRef) \in Revision
    BY <1>6, PlacesAssumption DEF CreateAtHead, ResolveRevision, TypeOK, Revision
  <2> QED
    BY <1>5, <1>6, <2>1 DEF CreateAtHead
<1>7. ASSUME NEW p \in Proc, NEW r \in Repo, NEW rev \in Revision,
             NEW s \in Session \cup {None}, NEW m \in Message,
             CreateAtRevision(p, r, rev, s, m)
      PROVE  TypeOK'
  BY <1>5, <1>7 DEF CreateAtRevision
<1>8. ASSUME NEW p \in Proc, Finish(p), UNCHANGED <<git, db>>
      PROVE  TypeOK'
  BY <1>8, FinishType DEF TypeOK
<1>9. ASSUME NEW p \in Proc, NEW via \in {"create", "auto"},
             pc[p] \in {"create", "auto"},
             InsertCheckpoint(RowOf(p, via)), Finish(p), UNCHANGED git
      PROVE  TypeOK'
  <2>1. RowOf(p, via) \in CheckpointRow
    BY <1>9, RowOfType
  <2> QED
    BY <1>9, <2>1, InsertType, FinishType DEF TypeOK
<1>10. ASSUME NEW p \in Proc, NEW c \in Place, RunHook(p, c)
       PROVE  TypeOK'
  <2> DEFINE r == [Blank EXCEPT !.place = c]
  <2>1. r \in Register /\ r.place \in Place /\ r.msg = AutoMessage
    BY BlankType DEF Register
  <2>2. Goto(p, "head", r)
    BY <1>10 DEF RunHook
  <2> HIDE DEF r
  <2>3. ProcessesOK'
    BY <2>1, <2>2, GotoType
  <2> QED
    BY <1>10, <2>3 DEF RunHook, TypeOK
<1>11. ASSUME NEW p \in Proc, NEW r \in Repo, HookHead(p, r)
       PROVE  TypeOK'
  <2> DEFINE h == HookRevision(r, reg[p].place, reg[p].gitdir)
             j == [reg[p] EXCEPT !.repo = r, !.rev = h]
  <2>1. h \in Commit
    <3>1. reg[p].gitdir \in Place \cup {None}
      BY DEF TypeOK, ProcessesOK, Register
    <3>2. \A c \in Place : objects[ObjectDb[c]] \subseteq Commit
      BY PlacesAssumption DEF TypeOK
    <3> QED
      BY <1>11, <3>1, <3>2, PlacesAssumption DEF HookHead, HookRevision
  <2>2. /\ j \in Register /\ j.repo \in Repo /\ j.rev \in Revision
        /\ j.msg = AutoMessage
    <3> HIDE DEF h
    <3> QED
      BY <1>11, <2>1 DEF HookHead, TypeOK, ProcessesOK, RegisterOK, Register, Revision
  <2>3. Goto(p, "sessions", j)
    BY <1>11 DEF HookHead
  <2> HIDE DEF j
  <2>4. ProcessesOK'
    BY <2>2, <2>3, GotoType
  <2> QED
    BY <1>11, <2>4 DEF HookHead, TypeOK
<1>12. ASSUME NEW p \in Proc, HookSessions(p)
       PROVE  TypeOK'
  <2>1. CASE Finish(p)
    BY <1>8, <1>12, <2>1 DEF HookSessions
  <2>2. ASSUME NEW s \in Session, Goto(p, "auto", [reg[p] EXCEPT !.sess = s])
        PROVE  TypeOK'
    <3> DEFINE j == [reg[p] EXCEPT !.sess = s]
    <3>1. /\ j \in Register /\ j.repo \in Repo /\ j.rev \in Revision
          /\ j.msg = AutoMessage /\ j.sess \in Session
      BY <1>12 DEF HookSessions, TypeOK, ProcessesOK, RegisterOK, Register
    <3> HIDE DEF j
    <3>2. Goto(p, "auto", j)
      BY <2>2 DEF j
    <3> QED
      BY <1>12, <3>1, <3>2, GotoType DEF HookSessions, TypeOK
  <2>3. CASE Goto(p, "several", reg[p])
    <3>1. reg[p] \in Register /\ reg[p].repo \in Repo /\ reg[p].rev \in Revision
      BY <1>12 DEF HookSessions, TypeOK, ProcessesOK, RegisterOK
    <3> QED
      BY <1>12, <2>3, <3>1, GotoType DEF HookSessions, TypeOK
  <2> QED
    BY <1>12, <2>1, <2>2, <2>3 DEF HookSessions, ActiveSessions
<1>13. ASSUME NEW p \in Proc, HookAmbiguous(p)
       PROVE  TypeOK'
  <2>1. <<reg[p].repo, reg[p].rev>> \in Repo \X Revision
    BY <1>13 DEF HookAmbiguous, TypeOK, ProcessesOK, RegisterOK
  <2> QED
    BY <1>13, <2>1, FinishType DEF HookAmbiguous, TypeOK
<1>14. CASE UNCHANGED vars
  BY <1>14 DEF vars, TypeOK, ProcessesOK, RegisterOK
<1> QED
  BY <1>1, <1>2, <1>3, <1>4, <1>6, <1>7, <1>8, <1>9, <1>10, <1>11, <1>12, <1>13, <1>14,
     <1>15
     DEF Next, GitStep, SessionStep, StartSession, ForkSession, CreateStep,
         CreateCommit, CreateRejected, HookStep, HookUnmatched, HookRecord,
         HookNothing, Abort

\* The tables and the processes are always well typed: in particular a
\* transaction never inserts a row whose repository or revision was not settled.
THEOREM TypeCorrect == Spec => []TypeOK
  BY TypeInit, TypeStep, PTL DEF Spec

-----------------------------------------------------------------------------
(* The checkpoints of a session, its link, and the hook's rows.            *)

\* Every step either leaves the two tables alone, or opens or closes one
\* session, or inserts one row under the guards of its transaction.
NewRowAllowed(row) ==
  /\ row \in CheckpointRow
  /\ row.sess # None => /\ sessions[row.sess].state = "active"
                        /\ sessions[row.sess].repo = row.repo
  /\ row.via = "auto" =>
       /\ row.sess # None
       /\ row.msg = AutoMessage
       /\ \A i \in DOMAIN checkpoints :
            ~ /\ checkpoints[i].repo = row.repo
              /\ checkpoints[i].rev = row.rev
              /\ checkpoints[i].sess = row.sess
              /\ checkpoints[i].msg = row.msg

\* The case split that the proofs below share.
LEMMA StepKinds ==
  ASSUME TypeOK, [Next]_vars
  PROVE  \/ UNCHANGED <<sessions, checkpoints>>
         \/ \E s \in Session, r \in Repo : InsertSession(s, r)
         \/ \E s \in Session : CloseSession(s)
         \/ \E row : NewRowAllowed(row) /\ InsertCheckpoint(row)
<1> USE DEF git, db
<1>1. ASSUME NEW p \in Proc, CreateCommit(p)
      PROVE  NewRowAllowed(RowOf(p, "create"))
  <2>1. RowOf(p, "create") \in CheckpointRow
    BY <1>1, RowOfType DEF CreateCommit
  <2> QED
    BY <1>1, <2>1
       DEF CreateCommit, CreateAllowed, SessionMustBelong, NewRowAllowed, RowOf
<1>2. ASSUME NEW p \in Proc, HookRecord(p)
      PROVE  NewRowAllowed(RowOf(p, "auto"))
  <2>1. RowOf(p, "auto") \in CheckpointRow
    BY <1>2, RowOfType DEF HookRecord
  <2>2. reg[p].sess # None /\ reg[p].msg = AutoMessage
    BY <1>2, IdsAssumption DEF HookRecord, TypeOK, ProcessesOK, RegisterOK
  <2> QED
    BY <1>2, <2>1, <2>2
       DEF HookRecord, SessionMustBelong, NewRowAllowed, RowOf, AlreadyRecorded
<1>3. ASSUME NEW p \in Proc, CreateStep(p)
      PROVE  \/ UNCHANGED <<sessions, checkpoints>>
             \/ \E row : NewRowAllowed(row) /\ InsertCheckpoint(row)
  BY <1>1, <1>3
     DEF CreateStep, CreateAtHead, CreateAtRevision, CreateCommit, CreateRejected
<1>4. ASSUME NEW p \in Proc, HookStep(p)
      PROVE  \/ UNCHANGED <<sessions, checkpoints>>
             \/ \E row : NewRowAllowed(row) /\ InsertCheckpoint(row)
  BY <1>2, <1>4
     DEF HookStep, HookHead, HookUnmatched, HookSessions, HookRecord, HookNothing,
         HookAmbiguous
<1> QED
  BY <1>3, <1>4
     DEF Next, vars, GitStep, GitCommit, MoveHead, MoveName, SessionStep, StartSession,
         ForkSession, RunHook, Abort

Inv == TypeOK /\ LatestIsLast /\ AutoOnce

LEMMA InvInit == Init => Inv
<1> SUFFICES ASSUME Init PROVE Inv
  OBVIOUS
<1>1. TypeOK
  BY TypeInit
<1>2. DOMAIN checkpoints = {}
  BY DEF Init
<1>3. LatestIsLast
  BY <1>2 DEF Init, LatestIsLast, RowsOf, NoSession
<1>4. AutoOnce
  BY <1>2 DEF AutoOnce
<1> QED
  BY <1>1, <1>3, <1>4 DEF Inv

\* The new row is the last of its session and the link follows it.
LEMMA InsertKeepsInv ==
  ASSUME Inv, NEW row, NewRowAllowed(row), InsertCheckpoint(row), TypeOK'
  PROVE  Inv'
<1> DEFINE n == Len(checkpoints) + 1
<1>1. /\ row \in CheckpointRow
      /\ checkpoints \in Seq(CheckpointRow)
      /\ checkpoints' = Append(checkpoints, row)
      /\ sessions \in [Session -> SessionRow \cup {NoSession}]
  BY DEF Inv, TypeOK, NewRowAllowed, InsertCheckpoint
<1>2. /\ n \in Nat
      /\ DOMAIN checkpoints = 1 .. Len(checkpoints)
      /\ DOMAIN checkpoints' = 1 .. n
      /\ \A i \in DOMAIN checkpoints :
           i \in DOMAIN checkpoints' /\ i < n /\ checkpoints'[i] = checkpoints[i]
      /\ n \in DOMAIN checkpoints' /\ checkpoints'[n] = row
      /\ \A i \in DOMAIN checkpoints' : i = n \/ i \in DOMAIN checkpoints
  BY <1>1, AppendRow, LenProperties
<1>3. ASSUME NEW s \in Session
      PROVE  /\ RowsOf(s)' = IF s = row.sess THEN RowsOf(s) \cup {n} ELSE RowsOf(s)
             /\ sessions'[s].latest = IF s = row.sess THEN n ELSE sessions[s].latest
             /\ sessions'[s].repo = sessions[s].repo
  <2> HIDE DEF n
  <2>1. RowsOf(s)' = IF s = row.sess THEN RowsOf(s) \cup {n} ELSE RowsOf(s)
    BY <1>2 DEF RowsOf
  <2>2. row.sess = s => s # None /\ sessions[s] \in SessionRow
    BY <1>1, IdsAssumption DEF NewRowAllowed, NoSession
  <2>3. /\ sessions'[s].latest = IF s = row.sess THEN n ELSE sessions[s].latest
        /\ sessions'[s].repo = sessions[s].repo
    BY <1>1, <2>2 DEF InsertCheckpoint, SessionRow, n
  <2> QED
    BY <2>1, <2>3
<1> HIDE DEF n
<1>4. LatestIsLast'
  <2> SUFFICES ASSUME NEW s \in Session
               PROVE  /\ RowsOf(s)' = {} => sessions'[s].latest = None
                      /\ RowsOf(s)' # {} =>
                           /\ sessions'[s].latest \in RowsOf(s)'
                           /\ \A i \in RowsOf(s)' : i <= sessions'[s].latest
                      /\ \A i \in RowsOf(s)' : checkpoints'[i].repo = sessions'[s].repo
    BY DEF LatestIsLast
  <2>1. RowsOf(s) \subseteq DOMAIN checkpoints
    BY DEF RowsOf
  <2>2. \A i \in RowsOf(s) : i \in Nat /\ i <= n
    BY <1>2, <2>1
  <2>3. CASE s = row.sess
    <3>1. sessions[s].repo = row.repo
      BY <2>3, IdsAssumption DEF NewRowAllowed
    <3> QED
      BY <1>2, <1>3, <2>1, <2>2, <2>3, <3>1 DEF Inv, LatestIsLast
  <2>4. CASE s # row.sess
    BY <1>2, <1>3, <2>1, <2>4 DEF Inv, LatestIsLast
  <2> QED
    BY <2>3, <2>4
<1>5. AutoOnce'
  <2> SUFFICES ASSUME NEW i \in DOMAIN checkpoints', NEW j \in DOMAIN checkpoints',
                      i < j, checkpoints'[j].via = "auto",
                      checkpoints'[i].repo = checkpoints'[j].repo,
                      checkpoints'[i].rev = checkpoints'[j].rev,
                      checkpoints'[i].sess = checkpoints'[j].sess,
                      checkpoints'[i].msg = checkpoints'[j].msg
               PROVE  FALSE
    BY DEF AutoOnce
  <2>1. i \in DOMAIN checkpoints
    BY <1>2
  <2>2. CASE j = n
    BY <1>2, <2>1, <2>2 DEF NewRowAllowed
  <2>3. CASE j \in DOMAIN checkpoints
    BY <1>2, <2>1, <2>3 DEF Inv, AutoOnce
  <2> QED
    BY <1>2, <2>2, <2>3
<1> QED
  BY <1>4, <1>5 DEF Inv

LEMMA InvStep == Inv /\ [Next]_vars => Inv'
<1> SUFFICES ASSUME Inv, [Next]_vars PROVE Inv'
  OBVIOUS
<1>1. TypeOK /\ TypeOK'
  BY TypeStep DEF Inv
<1>2. CASE UNCHANGED <<sessions, checkpoints>>
  BY <1>1, <1>2 DEF Inv, LatestIsLast, AutoOnce, RowsOf
<1>3. ASSUME NEW s \in Session, NEW r \in Repo, InsertSession(s, r)
      PROVE  Inv'
  <2>1. sessions[s] = NoSession
    BY <1>1, <1>3 DEF InsertSession, TypeOK, SessionRow, NoSession
  <2>2. RowsOf(s) = {}
    <3>1. RowsOf(s) \subseteq Nat
      BY <1>1, LenProperties DEF RowsOf, TypeOK
    <3> QED
      BY <2>1, <3>1, IdsAssumption DEF Inv, LatestIsLast, NoSession
  <2>3. LatestIsLast'
    BY <1>1, <1>3, <2>1, <2>2
       DEF Inv, LatestIsLast, InsertSession, RowsOf, TypeOK, NoSession
  <2> QED
    BY <1>1, <1>3, <2>3 DEF Inv, AutoOnce, InsertSession
<1>4. ASSUME NEW s \in Session, CloseSession(s)
      PROVE  Inv'
  <2>1. \A t \in Session : /\ sessions'[t].latest = sessions[t].latest
                           /\ sessions'[t].repo = sessions[t].repo
                           /\ RowsOf(t)' = RowsOf(t)
    BY <1>1, <1>4 DEF CloseSession, TypeOK, SessionRow, NoSession, RowsOf
  <2>2. LatestIsLast'
    BY <1>4, <2>1 DEF Inv, LatestIsLast, CloseSession
  <2> QED
    BY <1>1, <1>4, <2>2 DEF Inv, AutoOnce, CloseSession
<1>5. ASSUME NEW row, NewRowAllowed(row), InsertCheckpoint(row)
      PROVE  Inv'
  BY <1>1, <1>5, InsertKeepsInv
<1> QED
  BY <1>1, <1>2, <1>3, <1>4, <1>5, StepKinds

LEMMA InvCorrect == Spec => []Inv
  BY InvInit, InvStep, PTL DEF Spec

\* latest_checkpoint_id of every session is the row inserted last of those that
\* name it, and all of them are of the session's repository.
THEOREM LatestCorrect == Spec => []LatestIsLast
  BY InvCorrect, PTL DEF Inv

\* However many hooks run at once, a commit of a session is recorded once.
THEOREM AutoOnceCorrect == Spec => []AutoOnce
  BY InvCorrect, PTL DEF Inv

-----------------------------------------------------------------------------
(* Closed sessions.                                                        *)

LEMMA ClosedStep == TypeOK /\ [Next]_vars => ClosedStays
<1> SUFFICES ASSUME TypeOK, [Next]_vars,
                    NEW s \in Session, sessions[s].state = "closed"
             PROVE  sessions'[s] = sessions[s] /\ RowsOf(s)' = RowsOf(s)
  BY DEF ClosedStays
<1>1. CASE UNCHANGED <<sessions, checkpoints>>
  BY <1>1 DEF RowsOf
<1>2. ASSUME NEW t \in Session, NEW r \in Repo, InsertSession(t, r)
      PROVE  sessions'[s] = sessions[s] /\ RowsOf(s)' = RowsOf(s)
  BY <1>2 DEF InsertSession, RowsOf, TypeOK
<1>3. ASSUME NEW t \in Session, CloseSession(t)
      PROVE  sessions'[s] = sessions[s] /\ RowsOf(s)' = RowsOf(s)
  BY <1>3 DEF CloseSession, RowsOf, TypeOK, SessionRow, NoSession
<1>4. ASSUME NEW row, NewRowAllowed(row), InsertCheckpoint(row)
      PROVE  sessions'[s] = sessions[s] /\ RowsOf(s)' = RowsOf(s)
  <2>1. row.sess # s
    BY <1>4, IdsAssumption DEF NewRowAllowed
  <2>2. /\ row \in CheckpointRow
        /\ checkpoints \in Seq(CheckpointRow)
        /\ checkpoints' = Append(checkpoints, row)
    BY <1>4 DEF NewRowAllowed, InsertCheckpoint, TypeOK
  <2>3. /\ \A i \in DOMAIN checkpoints :
             i \in DOMAIN checkpoints' /\ checkpoints'[i] = checkpoints[i]
        /\ \A i \in DOMAIN checkpoints' :
             i \in DOMAIN checkpoints \/ checkpoints'[i] = row
    BY <2>2, AppendRow, LenProperties
  <2> QED
    BY <1>4, <2>1, <2>3 DEF InsertCheckpoint, RowsOf, TypeOK
<1> QED
  BY <1>1, <1>2, <1>3, <1>4, StepKinds

\* Whatever a command read while a session was active, after the close it adds
\* nothing to the session and does not move its link.
THEOREM ClosedFinal == Spec => ClosedIsFinal
  BY TypeCorrect, ClosedStep, PTL DEF Spec, ClosedIsFinal

-----------------------------------------------------------------------------
(* What a hook reads: the repository it works on and the commit it names.  *)

\* HEAD of a place is a commit its object database has.
HeadsOK == \A c \in Place : head[c] = None \/ head[c] \in objects[ObjectDb[c]]

\* GIT_DIR names the linked work tree that a hook runs in.
GitdirsOK ==
  \A p \in Proc : pc[p] = "head" /\ reg[p].gitdir # None =>
    reg[p].gitdir = reg[p].place /\ reg[p].gitdir \in Linked

\* What a process carries to its transaction is there.
CarriedOK ==
  \A p \in Proc :
    /\ pc[p] = "create" => Exists(reg[p].repo, reg[p].rev, "create")
    /\ pc[p] \in {"sessions", "auto", "several"} =>
         Exists(reg[p].repo, reg[p].rev, "auto")

RevisionInv == HeadsOK /\ GitdirsOK /\ CarriedOK /\ RevisionExists

\* The same, after a step.
ExistsNext(r, rev, via) ==
  via = "auto" \/ rev \in Commit =>
    \E d \in GitDirs(r, via) : rev \in objects'[ObjectDb[d]]

\* git does not lose a commit.
LEMMA ObjectsStay ==
  ASSUME TypeOK, [Next]_vars, NEW c \in Place
  PROVE  objects[c] \subseteq objects'[c]
<1> USE DEF git, db
<1>1. ASSUME NEW p \in Proc, NEW d \in Place, NEW k \in Commit, GitCommit(p, d, k)
      PROVE  objects[c] \subseteq objects'[c]
  BY <1>1, PlacesAssumption DEF GitCommit, TypeOK
<1>2. CASE UNCHANGED objects
  BY <1>2
<1> QED
  BY <1>1, <1>2
     DEF Next, vars, GitStep, MoveHead, MoveName, SessionStep, StartSession, ForkSession,
         InsertSession, CloseSession, RunHook, CreateStep, CreateAtHead,
         CreateAtRevision, CreateCommit, CreateRejected, HookStep, HookHead,
         HookUnmatched, HookSessions, HookRecord, HookNothing, HookAmbiguous, Abort

LEMMA ExistsStays ==
  ASSUME TypeOK, [Next]_vars, NEW r \in Repo, NEW rev, NEW via, Exists(r, rev, via)
  PROVE  ExistsNext(r, rev, via)
<1>1. \A d \in GitDirs(r, via) : ObjectDb[d] \in Place
  BY PlacesAssumption DEF GitDirs
<1> QED
  BY <1>1, ObjectsStay DEF Exists, ExistsNext

LEMMA HeadsNext == TypeOK /\ HeadsOK /\ [Next]_vars => HeadsOK'
<1> SUFFICES ASSUME TypeOK, HeadsOK, [Next]_vars PROVE HeadsOK'
  OBVIOUS
<1> USE DEF git, db
<1>1. ASSUME NEW p \in Proc, NEW c \in Place, NEW k \in Commit, GitCommit(p, c, k)
      PROVE  HeadsOK'
  <2> SUFFICES ASSUME NEW d \in Place
               PROVE  head'[d] = None \/ head'[d] \in objects'[ObjectDb[d]]
    BY DEF HeadsOK
  <2>1. objects[ObjectDb[d]] \subseteq objects'[ObjectDb[d]]
    BY PlacesAssumption, ObjectsStay
  <2>2. CASE d = c
    BY <1>1, <2>2, PlacesAssumption DEF GitCommit, TypeOK
  <2>3. CASE d # c
    BY <1>1, <2>1, <2>3 DEF GitCommit, TypeOK, HeadsOK
  <2> QED
    BY <2>2, <2>3
<1>2. ASSUME NEW c \in Place, NEW k \in Commit, MoveHead(c, k)
      PROVE  HeadsOK'
  BY <1>2 DEF MoveHead, HeadsOK, TypeOK
<1>3. CASE UNCHANGED <<head, objects>>
  BY <1>3 DEF HeadsOK
<1> QED
  BY <1>1, <1>2, <1>3
     DEF Next, vars, GitStep, MoveName, SessionStep, StartSession, ForkSession,
         InsertSession, CloseSession, RunHook, CreateStep, CreateAtHead,
         CreateAtRevision, CreateCommit, CreateRejected, HookStep, HookHead,
         HookUnmatched, HookSessions, HookRecord, HookNothing, HookAmbiguous, Abort

\* How a process may come to stand where it stands after a step.
LEMMA ProcessKinds ==
  ASSUME TypeOK, [Next]_vars, NEW p \in Proc
  PROVE  \/ pc'[p] = pc[p] /\ reg'[p] = reg[p]
         \/ pc'[p] = "idle"
         \/ \E c \in Place : /\ pc'[p] = "head" /\ reg'[p].place = c
                            /\ reg'[p].gitdir \in {None} \cup ({c} \cap Linked)
         \/ \E r \in Repo : CreateAtHead(p, r, reg'[p].sess, reg'[p].msg)
         \/ \E r \in Repo, rev \in Revision :
              CreateAtRevision(p, r, rev, reg'[p].sess, reg'[p].msg)
         \/ \E r \in Repo : HookHead(p, r)
         \/ /\ pc[p] = "sessions" /\ pc'[p] \in {"auto", "several"}
            /\ reg'[p].repo = reg[p].repo /\ reg'[p].rev = reg[p].rev
            /\ pc'[p] = "auto" => reg'[p].sess \in ActiveSessions(reg[p].repo)
<1> USE DEF git, db
<1>0. pc \in [Proc -> {"idle", "create", "head", "sessions", "auto", "several"}]
      /\ reg \in [Proc -> Register]
  BY DEF TypeOK, ProcessesOK
<1>1. ASSUME NEW q \in Proc, q # p, NEW to, NEW j, Goto(q, to, j)
      PROVE  pc'[p] = pc[p] /\ reg'[p] = reg[p]
  BY <1>0, <1>1 DEF Goto
<1>2. ASSUME NEW q \in Proc, Finish(q)
      PROVE  pc'[p] = "idle" \/ (pc'[p] = pc[p] /\ reg'[p] = reg[p])
  BY <1>0, <1>2 DEF Goto, Finish
<1>3. ASSUME NEW q \in Proc, NEW c \in Place, NEW k \in Commit, GitCommit(q, c, k)
      PROVE  \/ pc'[p] = pc[p] /\ reg'[p] = reg[p]
             \/ /\ pc'[p] = "head" /\ reg'[p].place = c
                /\ reg'[p].gitdir \in {None} \cup ({c} \cap Linked)
  <2>1. CASE c \notin Hooked
    BY <1>3, <2>1 DEF GitCommit
  <2>2. CASE c \in Hooked
    <3> DEFINE j == [Blank EXCEPT !.place = c,
                                  !.gitdir = IF c \in Linked THEN c ELSE None]
    <3>1. j.place = c /\ j.gitdir \in {None} \cup ({c} \cap Linked)
      BY DEF Blank
    <3>2. Goto(q, "head", j)
      BY <1>3, <2>2 DEF GitCommit
    <3> HIDE DEF j
    <3> QED
      BY <1>0, <3>1, <3>2 DEF Goto
  <2> QED
    BY <2>1, <2>2
<1>4. ASSUME NEW q \in Proc, NEW c \in Place, RunHook(q, c)
      PROVE  \/ pc'[p] = pc[p] /\ reg'[p] = reg[p]
             \/ /\ pc'[p] = "head" /\ reg'[p].place = c
                /\ reg'[p].gitdir \in {None} \cup ({c} \cap Linked)
  BY <1>0, <1>4 DEF RunHook, Goto, Blank
<1>5. ASSUME NEW r \in Repo, NEW s \in Session \cup {None}, NEW m \in Message,
             CreateAtHead(p, r, s, m)
      PROVE  s = reg'[p].sess /\ m = reg'[p].msg
  BY <1>0, <1>5 DEF CreateAtHead, Goto, Blank
<1>6. ASSUME NEW r \in Repo, NEW rev \in Revision, NEW s \in Session \cup {None},
             NEW m \in Message, CreateAtRevision(p, r, rev, s, m)
      PROVE  s = reg'[p].sess /\ m = reg'[p].msg
  BY <1>0, <1>6 DEF CreateAtRevision, Goto, Blank
<1>7. ASSUME HookSessions(p), pc'[p] # "idle"
      PROVE  /\ pc[p] = "sessions" /\ pc'[p] \in {"auto", "several"}
             /\ reg'[p].repo = reg[p].repo /\ reg'[p].rev = reg[p].rev
             /\ pc'[p] = "auto" => reg'[p].sess \in ActiveSessions(reg[p].repo)
  BY <1>0, <1>7 DEF HookSessions, Goto, Finish, Register
<1>8. ASSUME NEW q \in Proc, CreateStep(q) \/ HookStep(q) \/ Abort(q), q # p
      PROVE  pc'[p] = pc[p] /\ reg'[p] = reg[p]
  BY <1>1, <1>8 DEF Finish, CreateStep, CreateAtHead, CreateAtRevision, CreateCommit,
     CreateRejected, HookStep, HookHead, HookUnmatched, HookSessions, HookRecord,
     HookNothing, HookAmbiguous, Abort
<1>9. CASE CreateStep(p) \/ HookStep(p) \/ Abort(p)
  BY <1>2, <1>5, <1>6, <1>7, <1>9 DEF CreateStep, CreateCommit,
     CreateRejected, HookStep, HookUnmatched, HookRecord,
     HookNothing, HookAmbiguous, Abort
<1>10. CASE \/ SessionStep \/ UNCHANGED vars
            \/ \E c \in Place, k \in Commit : MoveHead(c, k)
            \/ \E c \in Place, n \in RevName, k \in Commit \cup {None} : MoveName(c, n, k)
  BY <1>10 DEF SessionStep, StartSession, ForkSession, InsertSession, CloseSession, vars,
     MoveHead, MoveName
<1> QED
  BY <1>3, <1>4, <1>8, <1>9, <1>10 DEF Next, GitStep

LEMMA GitdirsNext == TypeOK /\ GitdirsOK /\ [Next]_vars => GitdirsOK'
<1> SUFFICES ASSUME TypeOK, GitdirsOK, [Next]_vars, NEW p \in Proc,
                    pc'[p] = "head", reg'[p].gitdir # None
             PROVE  reg'[p].gitdir = reg'[p].place /\ reg'[p].gitdir \in Linked
  BY DEF GitdirsOK
<1>1. CASE pc'[p] = pc[p] /\ reg'[p] = reg[p]
  BY <1>1 DEF GitdirsOK
<1>2. ASSUME NEW c \in Place, reg'[p].place = c,
             reg'[p].gitdir \in {None} \cup ({c} \cap Linked)
      PROVE  reg'[p].gitdir = reg'[p].place /\ reg'[p].gitdir \in Linked
  BY <1>2
<1>3. ASSUME \/ \E r \in Repo : CreateAtHead(p, r, reg'[p].sess, reg'[p].msg)
             \/ \E r \in Repo, rev \in Revision :
                  CreateAtRevision(p, r, rev, reg'[p].sess, reg'[p].msg)
             \/ \E r \in Repo : HookHead(p, r)
      PROVE  pc'[p] # "head"
  BY <1>3 DEF CreateAtHead, CreateAtRevision, HookHead, Goto, TypeOK, ProcessesOK
<1> QED
  BY <1>1, <1>2, <1>3, ProcessKinds

\* What HookHead reads: GIT_DIR, where it is there, names a linked work tree that
\* has been matched to the repository.
LEMMA HookReadsExisting ==
  ASSUME TypeOK, GitdirsOK, NEW p \in Proc, NEW r \in Repo, HookHead(p, r)
  PROVE  Exists(r, HookRevision(r, reg[p].place, reg[p].gitdir), "auto")
<1> DEFINE h    == HookRevision(r, reg[p].place, reg[p].gitdir)
           seen == IF reg[p].gitdir = None THEN r ELSE reg[p].gitdir
<1>1. pc[p] = "head" /\ Matched(r, reg[p].place) /\ h # None
  BY DEF HookHead
<1>2. h \in objects[ObjectDb[seen]]
  BY <1>1 DEF HookRevision
<1>3. seen \in GitDirs(r, "auto")
  BY <1>1 DEF GitDirs, GitdirsOK
<1> HIDE DEF h, seen
<1>4. Exists(r, h, "auto")
  BY <1>2, <1>3 DEF Exists
<1> QED
  BY <1>4 DEF h

LEMMA CarriedNext ==
  ASSUME TypeOK, TypeOK', HeadsOK, GitdirsOK, CarriedOK, [Next]_vars
  PROVE  CarriedOK'
<1> USE DEF git, db
<1> SUFFICES ASSUME NEW p \in Proc
             PROVE  /\ pc'[p] = "create" =>
                         ExistsNext(reg'[p].repo, reg'[p].rev, "create")
                    /\ pc'[p] \in {"sessions", "auto", "several"} =>
                         ExistsNext(reg'[p].repo, reg'[p].rev, "auto")
  BY DEF CarriedOK, Exists, ExistsNext, GitDirs
<1> DEFINE Goal == /\ pc'[p] = "create" =>
                        ExistsNext(reg'[p].repo, reg'[p].rev, "create")
                   /\ pc'[p] \in {"sessions", "auto", "several"} =>
                        ExistsNext(reg'[p].repo, reg'[p].rev, "auto")
<1>1. CASE pc'[p] = pc[p] /\ reg'[p] = reg[p]
  <2>1. pc[p] \in {"create", "sessions", "auto", "several"} => reg[p].repo \in Repo
    BY DEF TypeOK, ProcessesOK, RegisterOK
  <2> QED
    BY <1>1, <2>1, ExistsStays DEF CarriedOK
<1>2. CASE /\ pc[p] = "sessions" /\ pc'[p] \in {"auto", "several"}
           /\ reg'[p].repo = reg[p].repo /\ reg'[p].rev = reg[p].rev
  <2>1. reg[p].repo \in Repo /\ Exists(reg[p].repo, reg[p].rev, "auto")
    BY <1>2 DEF TypeOK, ProcessesOK, RegisterOK, CarriedOK
  <2> QED
    BY <1>2, <2>1, ExistsStays
<1>3. ASSUME NEW r \in Repo, CreateAtHead(p, r, reg'[p].sess, reg'[p].msg)
      PROVE  Goal
  <2>1. head[r] # None /\ head[r] \in objects[ObjectDb[r]]
    BY <1>3, PlacesAssumption DEF CreateAtHead, ResolveRevision, HeadsOK
  <2>2. Exists(r, head[r], "create")
    BY <2>1 DEF Exists, GitDirs
  <2>3. pc'[p] = "create" /\ reg'[p].repo = r /\ reg'[p].rev = head[r]
    BY <1>3 DEF CreateAtHead, Goto, Blank, ResolveRevision, TypeOK, ProcessesOK
  <2> QED
    BY <2>2, <2>3, ExistsStays
<1>4. ASSUME NEW r \in Repo, NEW rev \in Revision,
             CreateAtRevision(p, r, rev, reg'[p].sess, reg'[p].msg)
      PROVE  Goal
  <2>1. Exists(r, rev, "create")
    BY <1>4, IdsAssumption DEF CreateAtRevision, ResolveRevision, Exists, GitDirs
  <2>2. pc'[p] = "create" /\ reg'[p].repo = r /\ reg'[p].rev = rev
    BY <1>4 DEF CreateAtRevision, Goto, Blank, TypeOK, ProcessesOK
  <2> QED
    BY <2>1, <2>2, ExistsStays
<1>5. ASSUME NEW r \in Repo, HookHead(p, r)
      PROVE  Goal
  <2> DEFINE h == HookRevision(r, reg[p].place, reg[p].gitdir)
  <2>1. Exists(r, h, "auto")
    BY <1>5, HookReadsExisting
  <2> HIDE DEF h
  <2>2. reg'[p].repo = r /\ reg'[p].rev = h /\ pc'[p] = "sessions"
    BY <1>5 DEF HookHead, Goto, TypeOK, ProcessesOK, Register, h
  <2> QED
    BY <2>1, <2>2, ExistsStays
<1>6. CASE pc'[p] \in {"idle", "head"}
  BY <1>6
<1> QED
  BY <1>1, <1>2, <1>3, <1>4, <1>5, <1>6, ProcessKinds

\* A row is inserted with what its process carries.
LEMMA Inserts ==
  ASSUME [Next]_vars
  PROVE  \/ UNCHANGED checkpoints
         \/ \E p \in Proc, via \in {"create", "auto"} :
              /\ pc[p] = via
              /\ checkpoints' = Append(checkpoints, RowOf(p, via))
              /\ UNCHANGED git
<1> USE DEF git, db
<1>1. ASSUME NEW p \in Proc, CreateCommit(p)
      PROVE  /\ pc[p] = "create" /\ UNCHANGED git
             /\ checkpoints' = Append(checkpoints, RowOf(p, "create"))
  BY <1>1 DEF CreateCommit, InsertCheckpoint
<1>2. ASSUME NEW p \in Proc, HookRecord(p)
      PROVE  /\ pc[p] = "auto" /\ UNCHANGED git
             /\ checkpoints' = Append(checkpoints, RowOf(p, "auto"))
  BY <1>2 DEF HookRecord, InsertCheckpoint
<1> QED
  BY <1>1, <1>2
     DEF Next, vars, GitStep, GitCommit, MoveHead, MoveName, SessionStep, StartSession, ForkSession,
         InsertSession, CloseSession, RunHook, CreateStep, CreateAtHead, CreateAtRevision,
         CreateRejected, HookStep, HookHead, HookUnmatched, HookSessions, HookNothing,
         HookAmbiguous, Abort

LEMMA RowsExist ==
  ASSUME TypeOK, CarriedOK, RevisionExists, [Next]_vars
  PROVE  RevisionExists'
<1> USE DEF git, db
<1> DEFINE Ok(row) == ExistsNext(row.repo, row.rev, row.via)
<1>1. checkpoints \in Seq(CheckpointRow) /\ DOMAIN checkpoints = 1 .. Len(checkpoints)
  BY LenProperties DEF TypeOK
<1>2. ASSUME NEW i \in DOMAIN checkpoints
      PROVE  Ok(checkpoints[i])
  <2>1. checkpoints[i] \in CheckpointRow
    BY <1>1, ElementOfSeq
  <2>2. checkpoints[i].repo \in Repo
    BY <2>1 DEF CheckpointRow
  <2> QED
    BY <2>2, ExistsStays DEF RevisionExists
<1>3. RevisionExists' <=> \A i \in DOMAIN checkpoints' : Ok(checkpoints'[i])
  BY DEF RevisionExists, Exists, ExistsNext, GitDirs
<1> HIDE DEF Ok
<1>4. CASE UNCHANGED checkpoints
  BY <1>2, <1>3, <1>4
<1>5. ASSUME NEW p \in Proc, NEW via \in {"create", "auto"}, pc[p] = via,
             checkpoints' = Append(checkpoints, RowOf(p, via))
      PROVE  RevisionExists'
  <2> DEFINE row == RowOf(p, via)
  <2>1. row \in CheckpointRow
    BY <1>5, RowOfType
  <2>2. Exists(row.repo, row.rev, row.via)
    BY <1>5 DEF CarriedOK, RowOf
  <2>3. row.repo \in Repo
    BY <2>1 DEF CheckpointRow
  <2> HIDE DEF row
  <2>4. Ok(row)
    BY <2>2, <2>3, ExistsStays DEF Ok
  <2>5. checkpoints' = Append(checkpoints, row)
    BY <1>5 DEF row
  <2>6. \A i \in DOMAIN checkpoints' :
          checkpoints'[i] = row \/ (i \in DOMAIN checkpoints /\ checkpoints'[i] = checkpoints[i])
    BY <1>1, <2>1, <2>5, AppendRow, LenProperties
  <2> QED
    BY <1>2, <1>3, <2>4, <2>6
<1> QED
  BY <1>4, <1>5, Inserts

\* A checkpoint of a hook, or with a hash for its revision, names a commit that
\* its repository has, or a linked work tree that was matched to it, however HEAD
\* moved, names came and went, and other commands ran between its being read and
\* recorded.
THEOREM RevisionsExist == Spec => []RevisionExists
<1>1. Init => TypeOK /\ RevisionInv
  <2> SUFFICES ASSUME Init PROVE RevisionInv
    BY TypeInit
  <2>1. DOMAIN checkpoints = {}
    BY DEF Init
  <2> QED
    BY <2>1 DEF Init, RevisionInv, HeadsOK, GitdirsOK, CarriedOK, RevisionExists
<1>2. TypeOK /\ RevisionInv /\ [Next]_vars => TypeOK' /\ RevisionInv'
  BY TypeStep, HeadsNext, GitdirsNext, CarriedNext, RowsExist DEF RevisionInv
<1>3. RevisionInv => RevisionExists
  BY DEF RevisionInv
<1> QED
  BY <1>1, <1>2, <1>3, PTL DEF Spec

-----------------------------------------------------------------------------
(* What becomes of a hook that counted one active session.                 *)

\* The session it was given is one of its repository.
OwnSession ==
  \A p \in Proc : pc[p] = "auto" => sessions[reg[p].sess].repo = reg[p].repo

LEMMA OwnerStays ==
  ASSUME TypeOK, [Next]_vars, NEW s \in Session, sessions[s].repo \in Repo
  PROVE  sessions'[s].repo = sessions[s].repo
<1>1. sessions[s].state # "none" /\ sessions[s] \in SessionRow
  BY PlacesAssumption DEF TypeOK, SessionRow, NoSession
<1>2. ASSUME NEW t \in Session, NEW r \in Repo, InsertSession(t, r)
      PROVE  sessions'[s].repo = sessions[s].repo
  BY <1>1, <1>2 DEF InsertSession, TypeOK
<1>3. ASSUME NEW t \in Session, CloseSession(t)
      PROVE  sessions'[s].repo = sessions[s].repo
  BY <1>1, <1>3 DEF CloseSession, TypeOK, SessionRow
<1>4. ASSUME NEW row, InsertCheckpoint(row)
      PROVE  sessions'[s].repo = sessions[s].repo
  BY <1>1, <1>4 DEF InsertCheckpoint, TypeOK, SessionRow
<1> QED
  BY <1>2, <1>3, <1>4, StepKinds

LEMMA OwnSessionNext == TypeOK /\ OwnSession /\ [Next]_vars => OwnSession'
<1> SUFFICES ASSUME TypeOK, OwnSession, [Next]_vars, NEW p \in Proc, pc'[p] = "auto"
             PROVE  sessions'[reg'[p].sess].repo = reg'[p].repo
  BY DEF OwnSession
<1>1. CASE pc'[p] = pc[p] /\ reg'[p] = reg[p]
  <2>1. reg[p].sess \in Session /\ reg[p].repo \in Repo
    BY <1>1 DEF TypeOK, ProcessesOK, RegisterOK
  <2> QED
    BY <1>1, <2>1, OwnerStays DEF OwnSession
<1>2. CASE /\ pc[p] = "sessions" /\ reg'[p].repo = reg[p].repo
           /\ reg'[p].sess \in ActiveSessions(reg[p].repo)
  <2>1. reg[p].repo \in Repo
    BY <1>2 DEF TypeOK, ProcessesOK, RegisterOK
  <2> QED
    BY <1>2, <2>1, OwnerStays DEF ActiveSessions
<1>3. ASSUME \/ \E r \in Repo : CreateAtHead(p, r, reg'[p].sess, reg'[p].msg)
             \/ \E r \in Repo, rev \in Revision :
                  CreateAtRevision(p, r, rev, reg'[p].sess, reg'[p].msg)
             \/ \E r \in Repo : HookHead(p, r)
      PROVE  FALSE
  BY <1>3 DEF CreateAtHead, CreateAtRevision, HookHead, Goto, TypeOK, ProcessesOK
<1> QED
  BY <1>1, <1>2, <1>3, ProcessKinds

LEMMA AnswerStep == TypeOK /\ OwnSession /\ [Next]_vars => HookAnswered
<1> SUFFICES ASSUME TypeOK, OwnSession, NEW p \in Proc, pc[p] = "auto", HookStep(p)
             PROVE  \/ sessions[reg[p].sess].state = "closed"
                    \/ \E i \in DOMAIN checkpoints' :
                         /\ checkpoints'[i].repo = reg[p].repo
                         /\ checkpoints'[i].rev = reg[p].rev
                         /\ checkpoints'[i].sess = reg[p].sess
  BY DEF HookAnswered
<1>1. CASE HookRecord(p)
  <2> DEFINE row == RowOf(p, "auto")
  <2>1. row \in CheckpointRow /\ checkpoints \in Seq(CheckpointRow)
    BY <1>1, RowOfType DEF HookRecord, TypeOK
  <2>2. checkpoints' = Append(checkpoints, row)
    BY <1>1 DEF HookRecord, InsertCheckpoint
  <2>3. row.repo = reg[p].repo /\ row.rev = reg[p].rev /\ row.sess = reg[p].sess
    BY DEF RowOf
  <2> HIDE DEF row
  <2>4. /\ Len(checkpoints) + 1 \in DOMAIN checkpoints'
        /\ checkpoints'[Len(checkpoints) + 1] = row
    BY <2>1, <2>2, AppendRow, LenProperties
  <2> QED
    BY <2>3, <2>4
<1>2. CASE HookNothing(p) /\ AlreadyRecorded(p)
  BY <1>2 DEF HookNothing, AlreadyRecorded, db
<1>3. CASE HookNothing(p) /\ ~SessionMustBelong(reg[p].repo, reg[p].sess, TRUE)
  <2>1. reg[p].sess \in Session /\ reg[p].repo \in Repo
    BY DEF TypeOK, ProcessesOK, RegisterOK
  <2>2. sessions[reg[p].sess].repo = reg[p].repo
    BY DEF OwnSession
  <2>3. sessions[reg[p].sess] \in SessionRow
    BY <2>1, <2>2, PlacesAssumption DEF TypeOK, NoSession
  <2> QED
    BY <1>3, <2>2, <2>3 DEF SessionMustBelong, SessionRow
<1> QED
  BY <1>1, <1>2, <1>3
     DEF HookStep, HookHead, HookUnmatched, HookSessions, HookNothing, HookAmbiguous

\* The transaction of a hook that counted one active session leaves the row of
\* that commit and session, or finds the session closed, whatever the sessions,
\* other hooks and creates did since it counted.
THEOREM HooksAnswer == Spec => HookAnswers
<1>1. Init => TypeOK /\ OwnSession
  BY TypeInit DEF Init, OwnSession
<1>2. TypeOK /\ OwnSession /\ [Next]_vars => TypeOK' /\ OwnSession'
  BY TypeStep, OwnSessionNext
<1>3. TypeOK /\ OwnSession /\ [Next]_vars => HookAnswered
  BY AnswerStep
<1> QED
  BY <1>1, <1>2, <1>3, PTL DEF Spec, HookAnswers

-----------------------------------------------------------------------------
(* Refinement.                                                             *)

LEMMA LedgerInit == Init => Ledger!Init
<1> SUFFICES ASSUME Init PROVE Ledger!Init
  OBVIOUS
<1> QED
  BY DEF Init, Ledger!Init, NoSession

LEMMA LedgerStep == Inv /\ [Next]_vars => [Ledger!Next]_(Ledger!vars)
<1> SUFFICES ASSUME Inv, [Next]_vars
             PROVE  Ledger!Next \/ UNCHANGED Ledger!vars
  OBVIOUS
<1>0. TypeOK
  BY DEF Inv
<1>1. CASE UNCHANGED <<sessions, checkpoints>>
  BY <1>1 DEF Ledger!vars
<1>2. ASSUME NEW s \in Session, NEW r \in Repo, InsertSession(s, r)
      PROVE  Ledger!Open(s, r)
  <2>1. sessions[s] = NoSession
    BY <1>0, <1>2 DEF InsertSession, TypeOK, SessionRow, NoSession
  <2>2. \A t \in Session :
          /\ sessions'[t].repo = IF t = s THEN r ELSE sessions[t].repo
          /\ sessions'[t].latest = sessions[t].latest
          /\ sessions'[t].state = "active" <=> t = s \/ sessions[t].state = "active"
    BY <1>0, <1>2, <2>1 DEF InsertSession, TypeOK, NoSession
  <2>3. [t \in Session |-> sessions[t].repo][s] = None
    BY <2>1 DEF NoSession
  <2>4. [t \in Session |-> sessions'[t].repo] =
          [[t \in Session |-> sessions[t].repo] EXCEPT ![s] = r]
    BY <2>2
  <2>5. {t \in Session : sessions'[t].state = "active"} =
          {t \in Session : sessions[t].state = "active"} \cup {s}
    BY <2>2
  <2>6. [t \in Session |-> sessions'[t].latest] = [t \in Session |-> sessions[t].latest]
    BY <2>2
  <2> QED
    BY <1>2, <2>3, <2>4, <2>5, <2>6 DEF InsertSession, Ledger!Open
<1>3. ASSUME NEW s \in Session, CloseSession(s)
      PROVE  Ledger!Close(s)
  BY <1>0, <1>3 DEF CloseSession, Ledger!Close, TypeOK, SessionRow, NoSession
<1>4. ASSUME NEW row, NewRowAllowed(row), InsertCheckpoint(row)
      PROVE  row \in Ledger!Entry /\ Ledger!Record(row)
  <2>1. row \in Ledger!Entry
    BY <1>4 DEF NewRowAllowed, CheckpointRow, Ledger!Entry
  <2>2. /\ row.sess # None =>
             /\ row.sess \in {s \in Session : sessions[s].state = "active"}
             /\ [s \in Session |-> sessions[s].repo][row.sess] = row.repo
        /\ row.via = "auto" =>
             /\ row.sess # None
             /\ row.msg = AutoMessage
             /\ \A i \in DOMAIN checkpoints : ~Ledger!SameCommit(checkpoints[i], row)
    BY <1>4 DEF NewRowAllowed, CheckpointRow, Ledger!SameCommit
  <2>3. /\ checkpoints' = Append(checkpoints, row)
        /\ \A s \in Session :
             /\ sessions'[s].latest =
                  IF s = row.sess THEN Len(checkpoints) + 1 ELSE sessions[s].latest
             /\ sessions'[s].repo = sessions[s].repo
             /\ sessions'[s].state = sessions[s].state
    BY <1>0, <1>4, IdsAssumption
       DEF NewRowAllowed, InsertCheckpoint, TypeOK, SessionRow, NoSession
  <2> QED
    BY <2>1, <2>2, <2>3 DEF Ledger!Record
<1> QED
  BY <1>0, <1>1, <1>2, <1>3, <1>4, StepKinds DEF Ledger!Next

\* The commands, whatever order their reads and transactions run in, implement
\* the ledger.
THEOREM LedgerImplemented == Spec => ImplementsLedger
  BY LedgerInit, LedgerStep, InvCorrect, PTL DEF Spec, ImplementsLedger, Ledger!Spec
=============================================================================
