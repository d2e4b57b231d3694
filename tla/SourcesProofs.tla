--------------------------- MODULE SourcesProofs ----------------------------
(***************************************************************************)
(* What holds of Sources for every set of repositories, sessions, origins, *)
(* native ids and processes.                                               *)
(***************************************************************************)
EXTENDS Sources, SequenceTheorems, TLAPS

\* The rows after a transaction that inserts one.
LEMMA AppendedRows ==
  ASSUME NEW q \in Seq(SourceRow), NEW e \in SourceRow
  PROVE  /\ Append(q, e) \in Seq(SourceRow)
         /\ Len(q) \in Nat
         /\ DOMAIN q = 1 .. Len(q)
         /\ DOMAIN Append(q, e) = 1 .. Len(q) + 1
         /\ \A i \in DOMAIN q : Append(q, e)[i] = q[i] /\ q[i] \in SourceRow
         /\ Append(q, e)[Len(q) + 1] = e
  BY AppendProperties, LenProperties

LEMMA TableDomain ==
  TypeOK => /\ Len(sources) \in Nat
            /\ DOMAIN sources = 1 .. Len(sources)
            /\ \A i \in DOMAIN sources : sources[i] \in SourceRow
  BY LenProperties DEF TypeOK

\* The row a process inserts.
LEMMA NewRowType ==
  ASSUME TypeOK, NEW p \in Proc, pc[p] # "idle"
  PROVE  /\ NewRow(req[p]) \in SourceRow
         /\ NewRow(req[p]).supersededBy = None
         /\ ~NewRow(req[p]).deleted
  BY DEF NewRow, SourceRow, TypeOK, ProcessesOK, Request

\* The rows after the transaction of an import.
LEMMA ImportedRows ==
  ASSUME TypeOK, NEW p \in Proc, ImportCommit(p)
  PROVE  LET new == Len(sources) + 1
         IN  /\ sources' \in Seq(SourceRow)
             /\ DOMAIN sources' = 1 .. new
             /\ sources'[new] = NewRow(req[p])
             /\ \A i \in DOMAIN sources :
                  /\ i \in Superseded(req[p]) =>
                       sources'[i] = [sources[i] EXCEPT !.supersededBy = new]
                  /\ i \notin Superseded(req[p]) => sources'[i] = sources[i]
<1> DEFINE new == Len(sources) + 1
           Row(i) == CASE i = new -> NewRow(req[p])
                       [] i \in Superseded(req[p]) -> [sources[i] EXCEPT !.supersededBy = new]
                       [] OTHER -> sources[i]
<1>1. sources' = [i \in 1 .. new |-> Row(i)]
  BY DEF ImportCommit
<1>2. /\ new \in Nat
      /\ DOMAIN sources = 1 .. Len(sources)
      /\ \A i \in DOMAIN sources : sources[i] \in SourceRow
  BY TableDomain
<1>3. NewRow(req[p]) \in SourceRow
  BY NewRowType DEF ImportCommit
<1>4. Row(new) = NewRow(req[p])
  <2>1. new \notin Superseded(req[p])
    BY <1>2 DEF Superseded
  <2> QED
    BY <2>1
<1>5. ASSUME NEW i \in DOMAIN sources
      PROVE  /\ i \in 1 .. new /\ i # new
             /\ i \in Superseded(req[p]) => Row(i) = [sources[i] EXCEPT !.supersededBy = new]
             /\ i \notin Superseded(req[p]) => Row(i) = sources[i]
             /\ Row(i) \in SourceRow
  <2>1. i \in 1 .. new /\ i # new
    BY <1>2, <1>5
  <2>2. [sources[i] EXCEPT !.supersededBy = new] \in SourceRow
    BY <1>2, <1>5 DEF SourceRow
  <2> HIDE DEF new
  <2> QED
    BY <1>2, <2>1, <2>2
<1>6. \A i \in 1 .. new : Row(i) \in SourceRow
  BY <1>2, <1>3, <1>4, <1>5
<1> HIDE DEF Row
<1>7. sources' \in [1 .. new -> SourceRow]
  BY <1>1, <1>6
<1>8. sources' \in Seq(SourceRow)
  BY <1>2, <1>7, SeqDef
<1> QED
  BY <1>1, <1>2, <1>4, <1>5, <1>7, <1>8

-----------------------------------------------------------------------------
(* Types.                                                                  *)

LEMMA BlankType == Blank \in Request
  BY DEF Blank, Request

LEMMA GotoType ==
  ASSUME TypeOK, NEW p \in Proc, NEW to, NEW r, Goto(p, to, r),
         to \in {"idle", "import", "start"}, r \in Request,
         to # "idle" => r.repo \in Repo /\ r.origin \in Origin,
         to = "start" => r.kind = "session" /\ r.sess \in Session
  PROVE  ProcessesOK'
  BY DEF Goto, TypeOK, ProcessesOK

LEMMA FinishType ==
  ASSUME TypeOK, NEW p \in Proc, Finish(p)
  PROVE  ProcessesOK'
  BY GotoType, BlankType DEF Finish

LEMMA TypeInit == Init => TypeOK
  BY EmptySeq, BlankType DEF Init, TypeOK, ProcessesOK

LEMMA TypeStep == TypeOK /\ [Next]_vars => TypeOK'
<1> SUFFICES ASSUME TypeOK, [Next]_vars PROVE TypeOK'
  OBVIOUS
<1>1. ASSUME NEW i \in DOMAIN sources, DeleteSource(i)
      PROVE  TypeOK'
  <2>1. [sources[i] EXCEPT !.deleted = TRUE] \in SourceRow
    BY <1>1, TableDomain DEF SourceRow
  <2>2. sources' \in [1 .. Len(sources) -> SourceRow] /\ DOMAIN sources' = DOMAIN sources
    BY <1>1, <2>1, TableDomain DEF DeleteSource
  <2>3. sources' \in Seq(SourceRow)
    BY <2>2, TableDomain, SeqDef
  <2> QED
    BY <1>1, <2>2, <2>3 DEF DeleteSource, TypeOK, ProcessesOK
<1>2. ASSUME NEW s \in Session, CloseSession(s)
      PROVE  TypeOK'
  BY <1>2 DEF CloseSession, TypeOK, ProcessesOK, NoSession
<1>3. ASSUME NEW s \in Session, NEW r \in Repo, NEW parent \in Session,
             ForkSession(s, r, parent)
      PROVE  TypeOK'
  BY <1>3 DEF ForkSession, TypeOK, ProcessesOK
<1>4. ASSUME NEW p \in Proc, NEW to \in {"import", "start"}, NEW r \in Request,
             r.repo \in Repo, r.origin \in Origin,
             to = "start" => r.kind = "session" /\ r.sess \in Session,
             Goto(p, to, r), UNCHANGED tables
      PROVE  TypeOK'
  <2>1. ProcessesOK'
    BY <1>4, GotoType
  <2> QED
    BY <1>4, <2>1 DEF TypeOK, tables
<1>5. ASSUME NEW p \in Proc, NEW r \in Repo, NEW k \in Kind, NEW o \in Origin,
             NEW n \in Native \cup {None}, SourceImport(p, r, k, o, n)
      PROVE  TypeOK'
  BY <1>4, <1>5 DEF SourceImport, ImportBegin, Request
<1>6. ASSUME NEW p \in Proc, NEW r \in Repo, NEW o \in Origin, NEW s \in Session,
             ImportSession(p, r, o, s)
      PROVE  TypeOK'
  BY <1>4, <1>6, IdsAssumption DEF ImportSession, ImportBegin, Request
<1>7. ASSUME NEW p \in Proc, NEW r \in Repo, NEW o \in Origin,
             NEW n \in Native \cup {None}, NEW s \in Session, StartBegin(p, r, o, n, s)
      PROVE  TypeOK'
  BY <1>4, <1>7 DEF StartBegin, Request
<1>8. ASSUME NEW p \in Proc, ImportCommit(p)
      PROVE  TypeOK'
  <2>1. sources' \in Seq(SourceRow) /\ DOMAIN sources' = 1 .. Len(sources) + 1
    BY <1>8, ImportedRows
  <2>2. DOMAIN sources \subseteq DOMAIN sources' /\ Len(sources) + 1 \in DOMAIN sources'
    BY <2>1, TableDomain
  <2>3. ProcessesOK'
    BY <1>8, FinishType DEF ImportCommit
  <2> QED
    BY <1>8, <2>1, <2>2, <2>3 DEF ImportCommit, TypeOK
<1>9. ASSUME NEW p \in Proc, StartCommit(p)
      PROVE  TypeOK'
  <2>1. sources' = Append(sources, NewRow(req[p])) /\ NewRow(req[p]) \in SourceRow
    BY <1>9, NewRowType DEF StartCommit
  <2>2. sources' \in Seq(SourceRow) /\ DOMAIN sources \subseteq DOMAIN sources'
    BY <2>1, AppendedRows DEF TypeOK
  <2>3. ProcessesOK'
    BY <1>9, FinishType DEF StartCommit
  <2>4. sessions' \in [Session -> [state : {"active", "closed"}, repo : Repo] \cup {NoSession}]
    BY <1>9 DEF StartCommit, TypeOK, ProcessesOK
  <2> QED
    BY <1>9, <2>2, <2>3, <2>4 DEF StartCommit, TypeOK
<1>10. ASSUME NEW p \in Proc, GiveUp(p)
       PROVE  TypeOK'
  BY <1>10, FinishType DEF GiveUp, TypeOK, tables
<1>11. CASE UNCHANGED vars
  BY <1>11 DEF vars, TypeOK, ProcessesOK
<1> QED
  BY <1>1, <1>2, <1>3, <1>5, <1>6, <1>7, <1>8, <1>9, <1>10, <1>11
     DEF Next, ImportStep, StartStep

\* The tables and the processes of the commands hold only what they may.
THEOREM SourcesTyped == Spec => []TypeOK
  BY TypeInit, TypeStep, PTL DEF Spec

-----------------------------------------------------------------------------
\* The steps that write the sources, their events or the index.
LEMMA StepKinds ==
  [Next]_vars => \/ \E i \in DOMAIN sources : DeleteSource(i)
                 \/ \E p \in Proc : ImportCommit(p) \/ StartCommit(p)
                 \/ UNCHANGED <<sources, events, index>>
<1> SUFFICES ASSUME [Next]_vars,
                    ~ \E i \in DOMAIN sources : DeleteSource(i),
                    ~ \E p \in Proc : ImportCommit(p) \/ StartCommit(p)
             PROVE  UNCHANGED <<sources, events, index>>
  OBVIOUS
<1>1. CASE UNCHANGED vars
  BY <1>1 DEF vars
<1>2. ASSUME NEW s \in Session, NEW parent \in Session, NEW r \in Repo,
             ForkSession(s, r, parent)
      PROVE  UNCHANGED <<sources, events, index>>
  BY <1>2 DEF ForkSession
<1>3. ASSUME NEW p \in Proc, ImportStep(p)
      PROVE  UNCHANGED <<sources, events, index>>
  BY <1>3 DEF ImportStep, SourceImport, ImportSession, ImportBegin, tables
<1>4. ASSUME NEW p \in Proc, StartStep(p)
      PROVE  UNCHANGED <<sources, events, index>>
  BY <1>4 DEF StartStep, StartBegin, tables
<1>5. ASSUME NEW p \in Proc, GiveUp(p)
      PROVE  UNCHANGED <<sources, events, index>>
  BY <1>5 DEF GiveUp, tables
<1>6. ASSUME NEW s \in Session, CloseSession(s)
      PROVE  UNCHANGED <<sources, events, index>>
  BY <1>6 DEF CloseSession
<1> QED
  BY <1>1, <1>2, <1>3, <1>4, <1>5, <1>6 DEF Next

-----------------------------------------------------------------------------
(* The index.  Each part of IndexInv needs the others: that the new import  *)
(* supersedes every searchable one of its native id follows from IndexExact.*)

IndexInv == TypeOK /\ IndexExact /\ NewestSearched /\ SupersededByLater

LEMMA IndexInit == Init => IndexInv
  BY TypeInit DEF Init, IndexInv, IndexExact, NewestSearched, SupersededByLater

\* A new row that is neither an import nor superseding anything.
LEMMA StartKeepsIndex ==
  ASSUME IndexInv, NEW p \in Proc, StartCommit(p)
  PROVE  IndexExact' /\ NewestSearched' /\ SupersededByLater'
<1>1. /\ sources' = Append(sources, NewRow(req[p]))
      /\ NewRow(req[p]) \in SourceRow
      /\ NewRow(req[p]).supersededBy = None
      /\ UNCHANGED <<events, index>>
  BY NewRowType DEF StartCommit, IndexInv
<1>2. /\ DOMAIN sources' = 1 .. Len(sources) + 1
      /\ DOMAIN sources = 1 .. Len(sources) /\ Len(sources) \in Nat
      /\ \A i \in DOMAIN sources : sources'[i] = sources[i]
      /\ sources'[Len(sources) + 1].supersededBy = None
  BY <1>1, AppendedRows DEF IndexInv, TypeOK
<1>3. events \subseteq DOMAIN sources /\ index \subseteq DOMAIN sources
  BY DEF IndexInv, TypeOK
<1>4. IndexExact'
  BY <1>1, <1>2, <1>3 DEF IndexInv, IndexExact
<1>5. NewestSearched'
  BY <1>1, <1>2, <1>3 DEF IndexInv, NewestSearched, SameNative
<1>6. SupersededByLater'
  BY <1>2 DEF IndexInv, SupersededByLater, SameNative
<1> QED
  BY <1>4, <1>5, <1>6

LEMMA ImportKeepsIndex ==
  ASSUME IndexInv, NEW p \in Proc, ImportCommit(p)
  PROVE  IndexExact' /\ NewestSearched' /\ SupersededByLater'
<1> DEFINE new == Len(sources) + 1
           S   == Superseded(req[p])
<1>1. /\ DOMAIN sources' = 1 .. new
      /\ sources'[new] = NewRow(req[p])
      /\ \A i \in DOMAIN sources :
           /\ i \in S => sources'[i] = [sources[i] EXCEPT !.supersededBy = new]
           /\ i \notin S => sources'[i] = sources[i]
  BY ImportedRows DEF IndexInv
<1>2. /\ Len(sources) \in Nat /\ DOMAIN sources = 1 .. Len(sources)
      /\ \A i \in DOMAIN sources : sources[i] \in SourceRow
      /\ events \subseteq DOMAIN sources /\ index \subseteq DOMAIN sources
  BY TableDomain DEF IndexInv, TypeOK
<1>3. /\ NewRow(req[p]).supersededBy = None /\ ~NewRow(req[p]).deleted
      /\ NewRow(req[p]).repo = req[p].repo /\ NewRow(req[p]).native = req[p].native
  BY NewRowType DEF IndexInv, ImportCommit, NewRow
<1>4. events' = events \cup {new} /\ index' = (index \ S) \cup {new}
  BY DEF ImportCommit
<1>5. /\ new \in Nat /\ new # None /\ new \notin DOMAIN sources
      /\ \A i \in DOMAIN sources : i < new
  BY <1>2, IdsAssumption
<1>6. \A i \in DOMAIN sources :
        /\ sources'[i].repo = sources[i].repo
        /\ sources'[i].native = sources[i].native
        /\ sources'[i].deleted = sources[i].deleted
        /\ i \in S => sources'[i].supersededBy = new
        /\ i \notin S => sources'[i].supersededBy = sources[i].supersededBy
  BY <1>1, <1>2 DEF SourceRow
<1>7. \A i \in DOMAIN sources :
        i \in S <=> /\ req[p].native # None /\ sources[i].repo = req[p].repo
                   /\ sources[i].native = req[p].native
                   /\ sources[i].supersededBy = None /\ ~sources[i].deleted
  BY DEF Superseded
<1>8. S \subseteq DOMAIN sources
  BY DEF Superseded
<1> HIDE DEF S, new
<1>9. IndexExact'
  BY <1>1, <1>2, <1>3, <1>4, <1>5, <1>6, <1>8 DEF IndexInv, IndexExact
<1>10. NewestSearched'
  <2> SUFFICES ASSUME NEW i \in index', NEW j \in events', SameNative(i, j)'
               PROVE  j <= i
    BY DEF NewestSearched
  <2>1. CASE i = new
    BY <1>2, <1>4, <1>5, <2>1
  <2>2. CASE i # new /\ j # new
    <3>1. i \in index /\ j \in events /\ SameNative(i, j)
      BY <1>2, <1>4, <1>6, <2>2 DEF SameNative
    <3> QED
      BY <3>1 DEF IndexInv, NewestSearched
  <2>3. CASE i # new /\ j = new
    <3>1. /\ i \in index /\ i \notin S /\ i \in DOMAIN sources
          /\ sources[i].supersededBy = None /\ ~sources[i].deleted
      BY <1>2, <1>4, <2>3 DEF IndexInv, IndexExact
    <3>2. /\ sources[i].repo = req[p].repo /\ sources[i].native # None
          /\ sources[i].native = req[p].native
      BY <1>1, <1>3, <1>6, <2>3, <3>1 DEF SameNative
    <3> QED
      BY <1>7, <3>1, <3>2
  <2> QED
    BY <2>1, <2>2, <2>3
<1>11. SupersededByLater'
  <2> SUFFICES ASSUME NEW i \in DOMAIN sources', sources'[i].supersededBy # None
               PROVE  /\ i < sources'[i].supersededBy
                      /\ sources'[i].supersededBy \in DOMAIN sources'
                      /\ SameNative(i, sources[i].supersededBy)'
    BY DEF SupersededByLater
  <2>1. i \in DOMAIN sources
    BY <1>1, <1>2, <1>3, <1>5 DEF new
  <2>2. CASE i \in S
    BY <1>1, <1>2, <1>3, <1>5, <1>6, <1>7, <2>1, <2>2 DEF SameNative
  <2>3. CASE i \notin S
    BY <1>1, <1>2, <1>5, <1>6, <2>1, <2>3 DEF IndexInv, SupersededByLater, SameNative, new
  <2> QED
    BY <2>2, <2>3
<1> QED
  BY <1>9, <1>10, <1>11

LEMMA DeleteKeepsIndex ==
  ASSUME IndexInv, NEW d \in DOMAIN sources, DeleteSource(d)
  PROVE  IndexExact' /\ NewestSearched' /\ SupersededByLater'
<1>1. /\ DOMAIN sources' = DOMAIN sources
      /\ \A i \in DOMAIN sources :
           /\ sources'[i].repo = sources[i].repo
           /\ sources'[i].native = sources[i].native
           /\ sources'[i].supersededBy = sources[i].supersededBy
           /\ i # d => sources'[i].deleted = sources[i].deleted
  BY TableDomain DEF IndexInv, DeleteSource, SourceRow
<1>2. events' = events \ {d} /\ index' = index \ {d}
  BY DEF DeleteSource
<1>3. events \subseteq DOMAIN sources /\ index \subseteq DOMAIN sources
  BY DEF IndexInv, TypeOK
<1>4. IndexExact'
  BY <1>1, <1>2, <1>3 DEF IndexInv, IndexExact
<1>5. NewestSearched'
  BY <1>1, <1>2, <1>3 DEF IndexInv, NewestSearched, SameNative
<1>6. SupersededByLater'
  BY <1>1 DEF IndexInv, SupersededByLater, SameNative
<1> QED
  BY <1>4, <1>5, <1>6

LEMMA IndexStep == IndexInv /\ [Next]_vars => IndexInv'
<1> SUFFICES ASSUME IndexInv, [Next]_vars PROVE IndexInv'
  OBVIOUS
<1>1. TypeOK'
  BY TypeStep DEF IndexInv
<1>2. CASE UNCHANGED <<sources, events, index>>
  BY <1>1, <1>2 DEF IndexInv, IndexExact, NewestSearched, SupersededByLater, SameNative
<1>3. ASSUME NEW i \in DOMAIN sources, DeleteSource(i) PROVE IndexInv'
  BY <1>1, <1>3, DeleteKeepsIndex DEF IndexInv
<1>4. ASSUME NEW p \in Proc, ImportCommit(p) PROVE IndexInv'
  BY <1>1, <1>4, ImportKeepsIndex DEF IndexInv
<1>5. ASSUME NEW p \in Proc, StartCommit(p) PROVE IndexInv'
  BY <1>1, <1>5, StartKeepsIndex DEF IndexInv
<1> QED
  BY <1>2, <1>3, <1>4, <1>5, StepKinds

LEMMA IndexCorrect == Spec => []IndexInv
  BY IndexInit, IndexStep, PTL DEF Spec

\* Search sees the live, unsuperseded imports and nothing else.
THEOREM IndexIsExact == Spec => []IndexExact
  BY IndexCorrect, PTL DEF IndexInv

\* Of one native id only the last import can be searched.
THEOREM NewestIsSearched == Spec => []NewestSearched
  BY IndexCorrect, PTL DEF IndexInv

\* Supersession leads forward, so following it ends.
THEOREM SupersessionForward == Spec => []SupersededByLater
  BY IndexCorrect, PTL DEF IndexInv

-----------------------------------------------------------------------------
(* Deletion and closed sessions: what one step does.                       *)

LEMMA DurableStep ==
  ASSUME IndexInv, [Next]_vars
  PROVE  NothingResurrected /\ DeletedStayDeleted
<1>1. /\ Len(sources) \in Nat /\ DOMAIN sources = 1 .. Len(sources)
      /\ \A i \in DOMAIN sources : sources[i] \in SourceRow
      /\ events \subseteq DOMAIN sources
      /\ \A i \in events : ~sources[i].deleted
  BY TableDomain DEF IndexInv, IndexExact, TypeOK
<1>2. CASE UNCHANGED <<sources, events, index>>
  BY <1>1, <1>2 DEF NothingResurrected, DeletedStayDeleted
<1>3. ASSUME NEW i \in DOMAIN sources, DeleteSource(i)
      PROVE  NothingResurrected /\ DeletedStayDeleted
  BY <1>1, <1>3 DEF DeleteSource, NothingResurrected, DeletedStayDeleted
<1>4. ASSUME NEW p \in Proc, ImportCommit(p)
      PROVE  NothingResurrected /\ DeletedStayDeleted
  <2>1. /\ DOMAIN sources' = 1 .. Len(sources) + 1
        /\ sources'[Len(sources) + 1] = NewRow(req[p])
        /\ \A i \in DOMAIN sources :
             i \notin Superseded(req[p]) => sources'[i] = sources[i]
    BY <1>4, ImportedRows DEF IndexInv
  <2>2. events' = events \cup {Len(sources) + 1} /\ ~Tombstoned(req[p])
    BY <1>4 DEF ImportCommit, ImportAllowed
  <2>3. \A i \in DOMAIN sources : sources[i].deleted => i \notin Superseded(req[p])
    BY DEF Superseded
  <2>4. DeletedStayDeleted
    BY <1>1, <2>1, <2>2, <2>3 DEF DeletedStayDeleted
  <2>5. NothingResurrected
    BY <1>1, <2>1, <2>2 DEF NothingResurrected, Tombstoned, NewRow
  <2> QED
    BY <2>4, <2>5
<1>5. ASSUME NEW p \in Proc, StartCommit(p)
      PROVE  NothingResurrected /\ DeletedStayDeleted
  <2>1. /\ DOMAIN sources' = 1 .. Len(sources) + 1
        /\ sources'[Len(sources) + 1] = NewRow(req[p])
        /\ \A i \in DOMAIN sources : sources'[i] = sources[i]
    BY <1>5, NewRowType, AppendedRows DEF StartCommit, IndexInv, TypeOK
  <2>2. events' = events /\ (req[p].native # None => ~Tombstoned(req[p]))
    BY <1>5 DEF StartCommit
  <2>3. DeletedStayDeleted
    BY <1>1, <2>1, <2>2 DEF DeletedStayDeleted
  <2>4. NothingResurrected
    BY <1>1, <2>1, <2>2 DEF NothingResurrected, Tombstoned, NewRow
  <2> QED
    BY <2>3, <2>4
<1> QED
  BY <1>2, <1>3, <1>4, <1>5, StepKinds

LEMMA ClosedStep ==
  ASSUME IndexInv, [Next]_vars
  PROVE  NoSourceForClosed
<1>1. Len(sources) \in Nat /\ DOMAIN sources = 1 .. Len(sources)
  BY TableDomain DEF IndexInv
<1>2. CASE UNCHANGED <<sources, events, index>>
  BY <1>2 DEF NoSourceForClosed
<1>3. ASSUME NEW i \in DOMAIN sources, DeleteSource(i)
      PROVE  NoSourceForClosed
  BY <1>1, <1>3 DEF DeleteSource, NoSourceForClosed
<1>4. ASSUME NEW p \in Proc, ImportCommit(p)
      PROVE  NoSourceForClosed
  <2>1. /\ DOMAIN sources' = 1 .. Len(sources) + 1
        /\ sources'[Len(sources) + 1] = NewRow(req[p])
    BY <1>4, ImportedRows DEF IndexInv
  <2> QED
    BY <1>1, <1>4, <2>1, IdsAssumption
       DEF ImportCommit, ImportAllowed, NewRow, NoSourceForClosed
<1>5. ASSUME NEW p \in Proc, StartCommit(p)
      PROVE  NoSourceForClosed
  <2>1. /\ DOMAIN sources' = 1 .. Len(sources) + 1
        /\ sources'[Len(sources) + 1] = NewRow(req[p])
    BY <1>5, NewRowType, AppendedRows DEF StartCommit, IndexInv, TypeOK
  <2> QED
    BY <1>1, <1>5, <2>1 DEF StartCommit, NewRow, NoSession, NoSourceForClosed
<1> QED
  BY <1>2, <1>3, <1>4, <1>5, StepKinds

\* Whatever was checked before a deletion, nothing of the deleted identity is
\* recorded after it.
THEOREM DeletionDurable == Spec => DeletionIsDurable
<1>1. IndexInv /\ [Next]_vars => [NothingResurrected /\ DeletedStayDeleted]_vars
  BY DurableStep
<1> QED
  BY <1>1, IndexCorrect, PTL DEF Spec, DeletionIsDurable

\* A closed session gains no source.
THEOREM ClosedGains == Spec => ClosedGainsNothing
<1>1. IndexInv /\ [Next]_vars => [NoSourceForClosed]_vars
  BY ClosedStep
<1> QED
  BY <1>1, IndexCorrect, PTL DEF Spec, ClosedGainsNothing
=============================================================================
