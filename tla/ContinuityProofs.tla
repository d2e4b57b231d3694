-------------------------- MODULE ContinuityProofs --------------------------
(***************************************************************************)
(* Theorems about Continuity, for any number of memories, commands and     *)
(* documents: types, the index, the finality of supersession, what a       *)
(* document quotes, the link of a checkpoint to its last pack, and what    *)
(* the greedy selection of a pack adds up to.                              *)
(***************************************************************************)
EXTENDS Continuity, Integers, FiniteSetTheorems, SequenceTheorems, WellFoundedInduction,
        TLAPS

\* What a command has read stays good enough: the session's last checkpoint only
\* moves on, superseded memories stay superseded, and rows stay where they are.
ReadOK(p) ==
  pc[p] # "idle" =>
    LET q == reg[p]
    IN  /\ q \in Quotes
        /\ q.doc = "handoff" => q.session # None
        /\ q.before.superseded \subseteq Superseded
        /\ q.before.latest # None =>
             q.session # None /\ latest[q.session] # None
               /\ q.before.latest <= latest[q.session]
        /\ pc[p] # "checkpoint" =>
             /\ q.checkpoint # None => q.checkpoint \in DOMAIN checkpoints
             /\ q.named = None /\ q.before.latest # None =>
                  q.checkpoint # None /\ q.checkpoint >= q.before.latest
        /\ pc[p] \in {"verifications", "write"} =>
             \A i \in DOMAIN q.memories :
               /\ q.memories[i] \in DOMAIN memories \ q.before.superseded
               /\ memories[q.memories[i]].state # "candidate"
        /\ pc[p] = "write" =>
             \A i \in DOMAIN q.evidence : q.evidence[i] \in DOMAIN evidence

\* A pack was made of a checkpoint that is there.
PacksOfCheckpoints ==
  \A k \in DOMAIN manifests :
    manifests[k].checkpoint # None => manifests[k].checkpoint \in DOMAIN checkpoints

Inv ==
  /\ TypeOK /\ IndexExact /\ LinkIsLast /\ PacksOfCheckpoints
  /\ \A p \in Proc : ReadOK(p)

\* A supersession is never undone, and no memory is ever deleted.
MemoriesGo ==
  /\ DOMAIN memories \subseteq DOMAIN memories'
  /\ \A m \in Superseded : memories'[m] = memories[m]
  /\ \A m \in DOMAIN memories :
       memories[m].state # "candidate" => memories'[m].state # "candidate"

\* ORDER BY ... DESC LIMIT n lists rows.
LEMMA NewestLists ==
  ASSUME NEW N \in Nat, NEW S \in SUBSET (1..N), NEW n \in Nat, NEW q \in Newest(S, n)
  PROVE  q \in Seq(S)
<1>1. IsFiniteSet(1..N)
  BY FS_Interval
<1>2. IsFiniteSet(S)
  BY <1>1, FS_Subset
<1>3. Cardinality(S) \in Nat
  BY <1>2, FS_CardinalityType
<1> DEFINE k == IF Cardinality(S) < n THEN Cardinality(S) ELSE n
<1>4. k \in Nat /\ q \in [1..k -> S]
  BY <1>3 DEF Newest
<1>5. QED
  BY <1>4

\* One row of a table is changed.
LEMMA ChangedRow ==
  ASSUME NEW Row, NEW q \in Seq(Row), NEW i \in DOMAIN q, NEW e \in Row
  PROVE  /\ [q EXCEPT ![i] = e] \in Seq(Row)
         /\ DOMAIN [q EXCEPT ![i] = e] = DOMAIN q
         /\ [q EXCEPT ![i] = e][i] = e
         /\ \A j \in DOMAIN q \ {i} : [q EXCEPT ![i] = e][j] = q[j]
         /\ q[i] \in Row
  BY ExceptSeq, LenProperties

\* Init is in the invariant.
LEMMA InitInv == Init => Inv
<1> SUFFICES ASSUME Init PROVE Inv
  OBVIOUS
<1>1. TypeOK
  BY DEF Init, TypeOK
<1>2. IndexExact /\ LinkIsLast /\ PacksOfCheckpoints /\ \A p \in Proc : ReadOK(p)
  BY DEF Init, IndexExact, LinkIsLast, PacksOfCheckpoints, ReadOK, Superseded
<1>3. QED
  BY <1>1, <1>2 DEF Inv

\* A memory is added, approved or superseded: the tables of memories.
LEMMA MemoryTables ==
  ASSUME ContinuityAssumption, Inv, UNCHANGED <<checkpoints, latest, evidence,
           manifests, handoffs, pc, reg>>,
         \/ \E r \in Repo, c \in Cost["memory"] : MemoryCreate(r, c)
         \/ \E m \in DOMAIN memories : MemoryApprove(m)
         \/ \E old, new \in DOMAIN memories : MemorySupersede(old, new)
  PROVE  /\ memories' \in Seq(Memory) /\ (\A m \in DOMAIN memories' : ReplacementOK(m)')
         /\ index' = DOMAIN memories' \ Superseded'
         /\ MemoriesGo
<1> USE DEF Inv, TypeOK, IndexExact
<1>1. ASSUME NEW r \in Repo, NEW c \in Cost["memory"], MemoryCreate(r, c)
      PROVE  /\ memories' \in Seq(Memory) /\ (\A m \in DOMAIN memories' : ReplacementOK(m)')
             /\ index' = DOMAIN memories' \ Superseded'
             /\ MemoriesGo
  <2> DEFINE row == [repo |-> r, state |-> "candidate", by |-> None, cost |-> c]
  <2>1. row \in Memory
    BY DEF Memory
  <2>2. /\ memories' = Append(memories, row) /\ memories' \in Seq(Memory)
        /\ DOMAIN memories' = DOMAIN memories \cup {Len(memories) + 1}
        /\ \A m \in DOMAIN memories : memories'[m] = memories[m]
        /\ memories'[Len(memories) + 1] = row
        /\ Len(memories) + 1 \notin DOMAIN memories
    BY <1>1, <2>1 DEF MemoryCreate
  <2>3. Superseded' = Superseded
    BY <2>2 DEF Superseded
  <2>4. index' = DOMAIN memories' \ Superseded'
    BY <1>1, <2>2, <2>3 DEF MemoryCreate, Superseded
  <2>5. \A m \in DOMAIN memories' : ReplacementOK(m)'
    <3>1. ASSUME NEW m \in DOMAIN memories PROVE ReplacementOK(m)'
      <4>1. ReplacementOK(m) /\ memories'[m] = memories[m]
        BY <2>2
      <4>2. QED
        BY <4>1, <2>2 DEF ReplacementOK
    <3>2. ASSUME NEW m, m = Len(memories) + 1 PROVE ReplacementOK(m)'
      BY <2>2, <3>2 DEF ReplacementOK
    <3>3. QED
      BY <3>1, <3>2, <2>2
  <2>6. MemoriesGo
    BY <2>2 DEF MemoriesGo, Superseded
  <2>7. QED
    BY <2>2, <2>4, <2>5, <2>6
<1>2. ASSUME NEW m \in DOMAIN memories, MemoryApprove(m)
      PROVE  /\ memories' \in Seq(Memory) /\ (\A x \in DOMAIN memories' : ReplacementOK(x)')
             /\ index' = DOMAIN memories' \ Superseded'
             /\ MemoriesGo
  <2> DEFINE row == [memories[m] EXCEPT !.state = "approved"]
  <2>1. /\ memories' = [memories EXCEPT ![m] = row] /\ index' = index \cup {m}
        /\ memories[m] \in Memory /\ memories[m].state = "candidate"
    BY <1>2, ChangedRow DEF MemoryApprove
  <2>2. /\ row \in Memory /\ row.state = "approved" /\ row.by = memories[m].by
        /\ row.repo = memories[m].repo
    BY <2>1 DEF Memory
  <2>a. /\ memories' \in Seq(Memory) /\ DOMAIN memories' = DOMAIN memories
        /\ memories'[m] = row
        /\ \A x \in DOMAIN memories \ {m} : memories'[x] = memories[x]
    BY <2>1, <2>2, ChangedRow
  <2> HIDE DEF row
  <2>3. Superseded' = Superseded /\ m \notin Superseded
    BY <2>1, <2>2, <2>a DEF Superseded
  <2>4. \A x \in DOMAIN memories' : ReplacementOK(x)'
    BY <2>1, <2>2, <2>a DEF ReplacementOK
  <2>5. MemoriesGo
    BY <2>1, <2>2, <2>a, <2>3 DEF MemoriesGo
  <2>6. QED
    BY <2>1, <2>a, <2>3, <2>4, <2>5
<1>3. ASSUME NEW old \in DOMAIN memories, NEW new \in DOMAIN memories,
             MemorySupersede(old, new)
      PROVE  /\ memories' \in Seq(Memory) /\ (\A x \in DOMAIN memories' : ReplacementOK(x)')
             /\ index' = DOMAIN memories' \ Superseded'
             /\ MemoriesGo
  <2> DEFINE row == [memories[old] EXCEPT !.state = "superseded", !.by = new]
  <2>0. memories[old] \in Memory /\ new \in Nat
    BY LenProperties
  <2>1. /\ memories' = [memories EXCEPT ![old] = row] /\ index' = index \ {old}
        /\ old # new /\ memories[old].repo = memories[new].repo
        /\ memories[old] \in Memory /\ memories[old].state # "superseded"
        /\ new \in Nat
    BY <1>3, <2>0 DEF MemorySupersede
  <2>2. /\ row \in Memory /\ row.state = "superseded" /\ row.by = new
        /\ row.repo = memories[old].repo
    BY <2>1 DEF Memory
  <2>a. /\ memories' \in Seq(Memory) /\ DOMAIN memories' = DOMAIN memories
        /\ memories'[old] = row
        /\ \A x \in DOMAIN memories \ {old} : memories'[x] = memories[x]
    BY <2>1, <2>2, ChangedRow
  <2> HIDE DEF row
  <2>3. Superseded' = Superseded \cup {old} /\ old \notin Superseded
    BY <2>1, <2>2, <2>a DEF Superseded
  <2>4. \A x \in DOMAIN memories' : ReplacementOK(x)'
    <3>1. \A x \in DOMAIN memories : memories'[x].repo = memories[x].repo
      BY <2>1, <2>2, <2>a
    <3>2. ReplacementOK(old)'
      BY <2>1, <2>2, <2>a, <3>1 DEF ReplacementOK
    <3>3. ASSUME NEW x \in DOMAIN memories \ {old} PROVE ReplacementOK(x)'
      <4>1. memories'[x] = memories[x] /\ ReplacementOK(x)
        BY <2>a
      <4>2. QED
        BY <4>1, <2>a, <3>1 DEF ReplacementOK
    <3>4. QED
      BY <3>2, <3>3, <2>a
  <2>5. MemoriesGo
    BY <2>1, <2>2, <2>a, <2>3 DEF MemoriesGo
  <2>6. QED
    BY <2>1, <2>a, <2>3, <2>4, <2>5
<1>4. QED
  BY <1>1, <1>2, <1>3
\* What the tables of memories, checkpoints and verifications may do.
TablesGo ==
  /\ MemoriesGo
  /\ DOMAIN checkpoints \subseteq DOMAIN checkpoints'
  /\ DOMAIN evidence \subseteq DOMAIN evidence'
  /\ \A s \in Session : latest[s] # None => latest'[s] # None /\ latest[s] <= latest'[s]

LEMMA TablesStay ==
  ASSUME TypeOK, UNCHANGED <<memories, checkpoints, latest, evidence>>
  PROVE  TablesGo
<1>1. latest \in [Session -> Nat \cup {None}]
  BY LenProperties DEF TypeOK
<1>2. QED
  BY <1>1 DEF TablesGo, MemoriesGo

\* A command that does not move keeps what it has read.
LEMMA ReadsKeep ==
  ASSUME ContinuityAssumption, TypeOK, TablesGo, TypeOK',
         NEW p \in Proc, ReadOK(p), pc'[p] = pc[p], reg'[p] = reg[p]
  PROVE  ReadOK(p)'
<1> SUFFICES ASSUME pc[p] # "idle" PROVE ReadOK(p)'
  BY DEF ReadOK
<1> DEFINE q == reg[p]
<1>1. q \in Quotes
  BY DEF ReadOK
<1>2. Superseded \subseteq Superseded'
  BY DEF Superseded, TablesGo, MemoriesGo
<1>3. q.before.superseded \subseteq Superseded'
  BY <1>2 DEF ReadOK
<1>4. q.before.latest # None =>
        q.session # None /\ latest'[q.session] # None
          /\ q.before.latest <= latest'[q.session]
  <2> SUFFICES ASSUME q.before.latest # None
               PROVE  q.session # None /\ latest'[q.session] # None
                        /\ q.before.latest <= latest'[q.session]
    OBVIOUS
  <2>1. q.session \in Session /\ latest[q.session] # None /\ q.before.latest <= latest[q.session]
    BY <1>1 DEF ReadOK, Quotes
  <2>2. latest'[q.session] # None /\ latest[q.session] <= latest'[q.session]
    BY <2>1 DEF TablesGo
  <2>3. q.before.latest \in Nat /\ latest[q.session] \in Nat /\ latest'[q.session] \in Nat
    <3>1. latest \in [Session -> Nat \cup {None}] /\ latest' \in [Session -> Nat \cup {None}]
      BY LenProperties DEF TypeOK
    <3>2. QED
      BY <1>1, <2>1, <2>2, <3>1 DEF Quotes
  <2>4. QED
    BY <2>1, <2>2, <2>3
<1>5. ASSUME pc[p] \in {"verifications", "write"}, NEW i \in DOMAIN q.memories
      PROVE  /\ q.memories[i] \in DOMAIN memories' \ q.before.superseded
             /\ memories'[q.memories[i]].state # "candidate"
  BY <1>5 DEF ReadOK, TablesGo, MemoriesGo
<1>6. QED
  BY <1>1, <1>3, <1>4, <1>5 DEF ReadOK, TablesGo

\* The other tables.
LEMMA AppendedRow ==
  ASSUME NEW Row, NEW q \in Seq(Row), NEW e \in Row
  PROVE  /\ Append(q, e) \in Seq(Row) /\ Len(q) \in Nat
         /\ DOMAIN q = 1..Len(q) /\ DOMAIN Append(q, e) = 1..Len(q) + 1
         /\ \A i \in DOMAIN q : Append(q, e)[i] = q[i]
         /\ Append(q, e)[Len(q) + 1] = e
  BY AppendProperties, LenProperties

LEMMA CheckpointAdded ==
  ASSUME ContinuityAssumption, Inv,
         NEW r \in Repo, NEW s \in Session \cup {None}, NEW c \in Cost["checkpoint"],
         CheckpointCreate(r, s, c)
  PROVE  TypeOK' /\ TablesGo /\ LinkIsLast' /\ PacksOfCheckpoints'
<1> USE DEF Inv
<1> DEFINE row == [repo |-> r, cost |-> c, pack |-> None]
           n == Len(checkpoints) + 1
<1>1. row \in Checkpoint
  BY DEF Checkpoint
<1>2. /\ checkpoints' \in Seq(Checkpoint) /\ n \in Nat
      /\ DOMAIN checkpoints = 1..(n - 1) /\ DOMAIN checkpoints' = 1..n
      /\ \A x \in DOMAIN checkpoints : checkpoints'[x] = checkpoints[x]
      /\ checkpoints'[n] = row
  BY <1>1, AppendedRow DEF CheckpointCreate, TypeOK
<1>3. /\ latest' \in [Session -> DOMAIN checkpoints' \cup {None}]
      /\ latest' = [t \in Session |-> IF t = s THEN n ELSE latest[t]]
      /\ latest \in [Session -> 1..(n - 1) \cup {None}]
  BY <1>2 DEF CheckpointCreate, TypeOK
<1>4. \A t \in Session : latest'[t] # None => checkpoints'[latest'[t]].repo = RepoOf[t]
  <2>1. ASSUME NEW t \in Session, t = s PROVE checkpoints'[latest'[t]].repo = RepoOf[t]
    BY <2>1, <1>2, <1>3 DEF CheckpointCreate, ContinuityAssumption
  <2>2. ASSUME NEW t \in Session, t # s, latest'[t] # None
        PROVE checkpoints'[latest'[t]].repo = RepoOf[t]
    <3>1. latest'[t] = latest[t] /\ latest[t] \in DOMAIN checkpoints
      BY <2>2, <1>2, <1>3
    <3>2. QED
      BY <3>1, <2>2, <1>2 DEF TypeOK
  <2>3. QED
    BY <2>1, <2>2
<1>5. TypeOK'
  <2>1. \A m \in DOMAIN memories' : ReplacementOK(m)'
    BY DEF CheckpointCreate, TypeOK, ReplacementOK
  <2>2. QED
    BY <1>2, <1>3, <1>4, <2>1 DEF CheckpointCreate, TypeOK
<1>6. TablesGo
  BY <1>2, <1>3 DEF TablesGo, MemoriesGo, CheckpointCreate, ContinuityAssumption
<1>7. PacksOfCheckpoints'
  BY <1>2 DEF PacksOfCheckpoints, CheckpointCreate
<1>8. LinkIsLast'
  <2> DEFINE Packs(x) == {k \in DOMAIN manifests : manifests[k].checkpoint = x}
  <2>1. Packs(n) = {} /\ checkpoints'[n].pack = None
    BY <1>2 DEF PacksOfCheckpoints, ContinuityAssumption
  <2>2. \A x \in DOMAIN checkpoints : checkpoints'[x].pack = checkpoints[x].pack
    BY <1>2
  <2>3. DOMAIN checkpoints' = DOMAIN checkpoints \cup {n} /\ manifests' = manifests
    BY <1>2 DEF CheckpointCreate
  <2>4. QED
    BY <2>1, <2>2, <2>3 DEF LinkIsLast
<1>9. QED
  BY <1>5, <1>6, <1>7, <1>8

LEMMA VerificationAdded ==
  ASSUME ContinuityAssumption, Inv,
         NEW r \in Repo, NEW c \in Cost["verification"], VerifyAdd(r, c)
  PROVE  TypeOK' /\ TablesGo /\ LinkIsLast' /\ PacksOfCheckpoints'
<1> USE DEF Inv
<1>1. [repo |-> r, cost |-> c] \in Evidence
  BY DEF Evidence
<1>2. evidence' \in Seq(Evidence) /\ DOMAIN evidence \subseteq DOMAIN evidence'
  BY <1>1, AppendedRow DEF VerifyAdd, TypeOK
<1>3. \A m \in DOMAIN memories' : ReplacementOK(m)'
  BY DEF VerifyAdd, TypeOK, ReplacementOK
<1>4. TypeOK'
  BY <1>2, <1>3 DEF VerifyAdd, TypeOK
<1>5. latest \in [Session -> Nat \cup {None}]
  BY LenProperties DEF TypeOK
<1>6. TablesGo
  BY <1>2, <1>5 DEF TablesGo, MemoriesGo, VerifyAdd
<1>7. LinkIsLast' /\ PacksOfCheckpoints'
  BY DEF LinkIsLast, PacksOfCheckpoints, VerifyAdd
<1>8. QED
  BY <1>4, <1>6, <1>7
\* The tables stay, one process moves.
LEMMA ProcessMoves ==
  ASSUME ContinuityAssumption, Inv, UNCHANGED tables, NEW p \in Proc,
         NEW to \in {"idle", "checkpoint", "memories", "verifications", "write"},
         NEW q \in Quotes \cup {None}, to # "idle" => q \in Quotes,
         Goto(p, to, q), ReadOK(p)'
  PROVE  Inv' /\ TablesGo
<1> USE DEF Inv
<1>1. UNCHANGED <<memories, index, checkpoints, latest, evidence, manifests, handoffs>>
  BY DEF tables
<1>2. /\ pc' = [pc EXCEPT ![p] = to] /\ reg' = [reg EXCEPT ![p] = q]
      /\ pc \in [Proc -> {"idle", "checkpoint", "memories", "verifications", "write"}]
      /\ reg \in [Proc -> Quotes \cup {None}]
      /\ \A x \in Proc : pc[x] # "idle" => reg[x] \in Quotes
  BY DEF Goto, TypeOK
<1>3. /\ pc' \in [Proc -> {"idle", "checkpoint", "memories", "verifications", "write"}]
      /\ reg' \in [Proc -> Quotes \cup {None}]
      /\ \A x \in Proc : pc'[x] # "idle" => reg'[x] \in Quotes
      /\ \A x \in Proc \ {p} : pc'[x] = pc[x] /\ reg'[x] = reg[x]
  BY <1>2
<1>4. \A m \in DOMAIN memories' : ReplacementOK(m)'
  BY <1>1 DEF TypeOK, ReplacementOK
<1>5. TypeOK'
  BY <1>1, <1>3, <1>4 DEF TypeOK
<1>6. TablesGo
  BY <1>1, TablesStay
<1>7. \A x \in Proc : ReadOK(x)'
  BY <1>3, <1>5, <1>6, ReadsKeep
<1>8. IndexExact' /\ LinkIsLast' /\ PacksOfCheckpoints'
  BY <1>1 DEF IndexExact, Superseded, LinkIsLast, PacksOfCheckpoints
<1>9. QED
  BY <1>5, <1>6, <1>7, <1>8

LEMMA BeginKeeps ==
  ASSUME ContinuityAssumption, Inv, NEW p \in Proc,
         \/ \E r \in Repo, s \in Session \cup {None}, b \in Budget,
               c \in DOMAIN checkpoints \cup {None} : PackBegin(p, r, s, c, b)
         \/ \E s \in Session : HandoffBegin(p, s)
  PROVE  Inv' /\ TablesGo
<1>1. PICK doc \in Document, r \in Repo, s \in Session \cup {None},
           c \in DOMAIN checkpoints \cup {None}, b \in Nat :
        Begin(p, doc, r, s, c, b) /\ (doc = "handoff" => s # None)
  BY DEF PackBegin, HandoffBegin, Document, ContinuityAssumption
<1> DEFINE q == [doc |-> doc, repo |-> r, session |-> s, named |-> c, budget |-> b,
                 checkpoint |-> None, memories |-> <<>>, evidence |-> <<>>,
                 before |-> [superseded |-> Superseded,
                             latest |-> IF s = None THEN None ELSE latest[s]]]
<1>2. /\ latest \in [Session -> Nat \cup {None}]
      /\ DOMAIN checkpoints \subseteq Nat /\ DOMAIN memories \subseteq Nat
  BY LenProperties DEF Inv, TypeOK
<1>3. q \in Quotes
  BY <1>2 DEF Quotes, Superseded
<1>4. Goto(p, "checkpoint", q) /\ UNCHANGED tables
  BY <1>1 DEF Begin
<1>6. ReadOK(p)'
  <2>1. pc'[p] = "checkpoint" /\ reg'[p] = q /\ latest' = latest /\ Superseded' = Superseded
    BY <1>4 DEF Goto, tables, Superseded, Inv, TypeOK
  <2>2. q.before.latest # None => s \in Session /\ q.before.latest = latest[s]
    OBVIOUS
  <2>3. QED
    BY <2>1, <2>2, <1>1, <1>2, <1>3 DEF ReadOK
<1>7. QED
  BY <1>3, <1>4, <1>6, ProcessMoves
LEMMA GiveUpKeeps ==
  ASSUME ContinuityAssumption, Inv, NEW p \in Proc, GiveUp(p)
  PROVE  Inv' /\ TablesGo
<1>1. Goto(p, "idle", None) /\ UNCHANGED tables
  BY DEF GiveUp
<1>2. ReadOK(p)'
  BY <1>1 DEF Goto, ReadOK, Inv, TypeOK
<1>3. QED
  BY <1>1, <1>2, ProcessMoves

LEMMA ReadCheckpointKeeps ==
  ASSUME ContinuityAssumption, Inv, NEW p \in Proc, ReadCheckpoint(p)
  PROVE  Inv' /\ TablesGo
<1> DEFINE q == reg[p]
           c == IF q.named # None \/ q.session = None THEN q.named ELSE latest[q.session]
           r == [q EXCEPT !.checkpoint = c]
<1>1. /\ pc[p] = "checkpoint" /\ Goto(p, "memories", r) /\ UNCHANGED tables
      /\ c # None => c \in DOMAIN checkpoints
  BY DEF ReadCheckpoint
<1>2. q \in Quotes /\ ReadOK(p)
  BY <1>1 DEF Inv, TypeOK
<1>3. DOMAIN checkpoints \subseteq Nat /\ latest \in [Session -> Nat \cup {None}]
  BY LenProperties DEF Inv, TypeOK
<1>4. /\ r \in Quotes /\ r.checkpoint = c /\ r.before = q.before /\ r.doc = q.doc
      /\ r.session = q.session /\ r.named = q.named /\ r.memories = q.memories
      /\ r.evidence = q.evidence
  BY <1>1, <1>2, <1>3 DEF Quotes
<1>5. q.named = None /\ q.before.latest # None => c # None /\ c >= q.before.latest
  <2>1. q.before.latest # None => q.session # None /\ latest[q.session] # None
          /\ q.before.latest <= latest[q.session]
    BY <1>1, <1>2 DEF ReadOK
  <2>2. q.before.latest \in Nat \cup {None} /\ q.session \in Session \cup {None}
    BY <1>2 DEF Quotes
  <2>3. QED
    BY <2>1, <2>2, <1>3
<1>6. ReadOK(p)'
  <2>1. pc'[p] = "memories" /\ reg'[p] = r
    BY <1>1 DEF Goto, Inv, TypeOK
  <2>2. checkpoints' = checkpoints /\ latest' = latest /\ Superseded' = Superseded
    BY <1>1 DEF tables, Superseded
  <2> HIDE DEF r, c
  <2>3. QED
    BY <1>1, <1>2, <1>4, <1>5, <2>1, <2>2 DEF ReadOK
<1>7. QED
  BY <1>1, <1>4, <1>6, ProcessMoves

LEMMA ReadMemoriesKeeps ==
  ASSUME ContinuityAssumption, Inv, NEW p \in Proc, ReadMemories(p)
  PROVE  Inv' /\ TablesGo
<1> DEFINE q == reg[p]
<1>1. /\ pc[p] = "memories" /\ UNCHANGED tables
      /\ q \in Quotes /\ ReadOK(p)
  BY DEF ReadMemories, Inv, TypeOK
<1>2. PICK list \in Newest(Citable(q.repo), MemoryLimit[q.doc]) :
        Goto(p, "verifications", [q EXCEPT !.memories = list])
  BY DEF ReadMemories
<1> DEFINE r == [q EXCEPT !.memories = list]
<1>3. /\ DOMAIN memories = 1..Len(memories) /\ Len(memories) \in Nat
      /\ MemoryLimit[q.doc] \in Nat
  BY <1>1, LenProperties DEF Inv, TypeOK, Quotes, ContinuityAssumption
<1>4. list \in Seq(Citable(q.repo))
  <2>1. Citable(q.repo) \in SUBSET (1..Len(memories))
    BY <1>3 DEF Citable
  <2>2. QED
    BY <2>1, <1>3, NewestLists
<1>5. \A i \in DOMAIN list : list[i] \in Citable(q.repo)
  BY <1>4
<1>6. list \in Seq(Nat)
  <2>1. Citable(q.repo) \subseteq Nat
    BY <1>3 DEF Citable
  <2>2. QED
    BY <2>1, <1>4
<1>7. /\ r \in Quotes /\ r.memories = list /\ r.before = q.before /\ r.doc = q.doc
      /\ r.session = q.session /\ r.named = q.named /\ r.checkpoint = q.checkpoint
  BY <1>1, <1>6 DEF Quotes
<1>8. ReadOK(p)'
  <2>1. pc'[p] = "verifications" /\ reg'[p] = r
    BY <1>2 DEF Goto, Inv, TypeOK
  <2>2. /\ memories' = memories /\ checkpoints' = checkpoints /\ latest' = latest
        /\ Superseded' = Superseded
    BY <1>1 DEF tables, Superseded
  <2>3. \A i \in DOMAIN list : /\ list[i] \in DOMAIN memories \ q.before.superseded
                               /\ memories[list[i]].state # "candidate"
    BY <1>1, <1>5 DEF Citable, ReadOK, Superseded
  <2> HIDE DEF r
  <2>4. QED
    BY <1>1, <1>7, <2>1, <2>2, <2>3 DEF ReadOK
<1>9. QED
  BY <1>1, <1>2, <1>7, <1>8, ProcessMoves

LEMMA ReadVerificationsKeeps ==
  ASSUME ContinuityAssumption, Inv, NEW p \in Proc, ReadVerifications(p)
  PROVE  Inv' /\ TablesGo
<1> DEFINE q == reg[p]
           S == {v \in DOMAIN evidence : evidence[v].repo = q.repo}
<1>1. /\ pc[p] = "verifications" /\ UNCHANGED tables
      /\ q \in Quotes /\ ReadOK(p)
  BY DEF ReadVerifications, Inv, TypeOK
<1>2. PICK list \in Newest(S, EvidenceLimit[q.doc]) :
        Goto(p, "write", [q EXCEPT !.evidence = list])
  BY DEF ReadVerifications
<1> DEFINE r == [q EXCEPT !.evidence = list]
<1>3. /\ DOMAIN evidence = 1..Len(evidence) /\ Len(evidence) \in Nat
      /\ EvidenceLimit[q.doc] \in Nat /\ S \in SUBSET (1..Len(evidence))
  BY <1>1, LenProperties DEF Inv, TypeOK, Quotes, ContinuityAssumption
<1>4. list \in Seq(S)
  <2> HIDE DEF S
  <2>1. QED
    BY <1>3, NewestLists
<1>5. /\ \A i \in DOMAIN list : list[i] \in DOMAIN evidence
      /\ list \in Seq(Nat)
  BY <1>3, <1>4
<1>6. /\ r \in Quotes /\ r.evidence = list /\ r.before = q.before /\ r.doc = q.doc
      /\ r.session = q.session /\ r.named = q.named /\ r.checkpoint = q.checkpoint
      /\ r.memories = q.memories
  BY <1>1, <1>5 DEF Quotes
<1>7. ReadOK(p)'
  <2>1. pc'[p] = "write" /\ reg'[p] = r
    BY <1>2 DEF Goto, Inv, TypeOK
  <2>2. /\ memories' = memories /\ checkpoints' = checkpoints /\ latest' = latest
        /\ Superseded' = Superseded /\ evidence' = evidence
    BY <1>1 DEF tables, Superseded
  <2> HIDE DEF r
  <2>3. QED
    BY <1>1, <1>5, <1>6, <2>1, <2>2 DEF ReadOK
<1>8. QED
  BY <1>1, <1>2, <1>6, <1>7, ProcessMoves

\* What a pack is made of.
LEMMA QuotedTyped ==
  ASSUME ContinuityAssumption, Inv, NEW p \in Proc, pc[p] = "write"
  PROVE  Quoted(reg[p]) \in Seq(Item)
<1> DEFINE q == reg[p]
           Quote(kind, refs, rows) ==
             [i \in DOMAIN refs |-> [kind |-> kind, ref |-> refs[i],
                                     cost |-> rows[refs[i]].cost, included |-> TRUE]]
           boundary == IF q.checkpoint = None THEN <<>> ELSE <<q.checkpoint>>
<1>1. q \in Quotes /\ ReadOK(p)
  BY DEF Inv, TypeOK
<1>2. /\ \A m \in DOMAIN memories : memories[m].cost \in Nat
      /\ \A c \in DOMAIN checkpoints : checkpoints[c].cost \in Nat
      /\ \A v \in DOMAIN evidence : evidence[v].cost \in Nat
  <2>1. /\ \A m \in DOMAIN memories : memories[m] \in Memory
        /\ \A c \in DOMAIN checkpoints : checkpoints[c] \in Checkpoint
        /\ \A v \in DOMAIN evidence : evidence[v] \in Evidence
    BY DEF Inv, TypeOK
  <2>2. QED
    BY <2>1 DEF Memory, Checkpoint, Evidence, Kind, ContinuityAssumption
<1>3. ASSUME NEW kind \in Kind, NEW refs \in Seq(Nat), NEW rows,
             \A i \in DOMAIN refs : rows[refs[i]].cost \in Nat
      PROVE  Quote(kind, refs, rows) \in Seq(Item)
  <2>1. Len(refs) \in Nat /\ DOMAIN refs = 1..Len(refs) /\ \A i \in 1..Len(refs) : refs[i] \in Nat
    BY LenProperties
  <2>2. \A i \in 1..Len(refs) :
          [kind |-> kind, ref |-> refs[i], cost |-> rows[refs[i]].cost,
           included |-> TRUE] \in Item
    BY <2>1, <1>3 DEF Item
  <2>3. QED
    BY <2>1, <2>2
<1>4. boundary \in Seq(Nat) /\ \A i \in DOMAIN boundary : checkpoints[boundary[i]].cost \in Nat
  <2>1. q.checkpoint # None => q.checkpoint \in DOMAIN checkpoints /\ q.checkpoint \in Nat
    BY <1>1 DEF ReadOK, Quotes
  <2>2. QED
    BY <2>1, <1>2
<1>5. /\ q.memories \in Seq(Nat)
      /\ \A i \in DOMAIN q.memories : memories[q.memories[i]].cost \in Nat
      /\ q.evidence \in Seq(Nat)
      /\ \A i \in DOMAIN q.evidence : evidence[q.evidence[i]].cost \in Nat
  BY <1>1, <1>2 DEF ReadOK, Quotes
<1>6. Quoted(q) = Quote("checkpoint", boundary, checkpoints)
                    \o Quote("memory", q.memories, memories)
                    \o Quote("verification", q.evidence, evidence)
  BY DEF Quoted
<1>7. Quoted(q) \in Seq(Item)
  <2>1. /\ Quote("checkpoint", boundary, checkpoints) \in Seq(Item)
        /\ Quote("memory", q.memories, memories) \in Seq(Item)
        /\ Quote("verification", q.evidence, evidence) \in Seq(Item)
    BY <1>3, <1>4, <1>5 DEF Kind
  <2> HIDE DEF Quote, boundary
  <2>2. QED
    BY <1>6, <2>1, ConcatProperties
<1>8. QED
  BY <1>7

-----------------------------------------------------------------------------
(* The selection.  What it has spent is defined from one item to the next. *)

\* Every set of natural numbers that is not empty has a least one.
LEMMA LeastOne ==
  ASSUME NEW T, T \subseteq Nat, T # {}
  PROVE  \E x \in T : \A y \in T : x <= y
<1> DEFINE R == OpToRel(<, Nat)
<1>0. R = {ss \in Nat \X Nat : ss[1] < ss[2]}
  BY DEF OpToRel
<1>1. IsWellFoundedOn(R, Nat)
  BY NatLessThanWellFounded
<1> HIDE DEF R
<1>2. \E x \in T : \A y \in T : ~ (<<y, x>> \in R)
  BY <1>1, WFMin
<1>3. PICK x \in T : \A y \in T : ~ (<<y, x>> \in R)
  BY <1>2
<1>4. ASSUME NEW y \in T PROVE x <= y
  <2>1. x \in Nat /\ y \in Nat
    OBVIOUS
  <2>2. <<y, x>> \notin R
    BY <1>3
  <2>3. ~ (y < x)
    BY <2>1, <2>2, <1>0
  <2> QED
    BY <2>1, <2>3
<1> QED
  BY <1>4

\* f is defined from each number to the next.
Iterate(f, N, S, base, step) ==
  /\ f \in [0..N -> S]
  /\ f[0] = base
  /\ \A i \in 1..N : f[i] = step[i][f[i - 1]]

\* Whatever is defined from one number to the next is defined.
LEMMA Iterates ==
  ASSUME NEW N \in Nat, NEW S, NEW base \in S, NEW step \in [1..N -> [S -> S]]
  PROVE  \E f : Iterate(f, N, S, base, step)
<1> DEFINE Upto(n) == \E f \in [0..n -> S] :
                        f[0] = base /\ \A i \in 1..n : f[i] = step[i][f[i - 1]]
           T == {n \in 0..N : ~Upto(n)}
<1>1. T = {}
  <2> SUFFICES ASSUME T # {} PROVE FALSE
    OBVIOUS
  <2>1. PICK n \in T : \A m \in T : n <= m
    <3>1. T \subseteq Nat
      OBVIOUS
    <3> QED
      BY <3>1, LeastOne
  <2>2. n \in 0..N /\ ~Upto(n)
    OBVIOUS
  <2>3. n # 0
    <3>1. [i \in 0..0 |-> base] \in [0..0 -> S]
      OBVIOUS
    <3>2. [i \in 0..0 |-> base][0] = base
      OBVIOUS
    <3>3. 1..0 = {}
      OBVIOUS
    <3> QED
      BY <2>2, <3>1, <3>2, <3>3
  <2>4. n - 1 \in 0..N /\ n - 1 \notin T
    BY <2>1, <2>2, <2>3
  <2>5. PICK f \in [0..(n - 1) -> S] :
          f[0] = base /\ \A i \in 1..(n - 1) : f[i] = step[i][f[i - 1]]
    BY <2>4
  <2> DEFINE g == [i \in 0..n |-> IF i = n THEN step[n][f[n - 1]] ELSE f[i]]
  <2>6. step[n][f[n - 1]] \in S
    <3>1. n \in 1..N /\ n - 1 \in 0..(n - 1)
      BY <2>2, <2>3
    <3> QED
      BY <3>1
  <2>7. g \in [0..n -> S]
    BY <2>2, <2>6
  <2>8. g[0] = base
    BY <2>2, <2>3, <2>5
  <2>9. ASSUME NEW i \in 1..n PROVE g[i] = step[i][g[i - 1]]
    <3>1. i - 1 \in 0..n /\ i - 1 # n /\ i \in 0..n
      BY <2>2
    <3>2. g[i - 1] = f[i - 1]
      BY <3>1
    <3>3. CASE i = n
      BY <3>1, <3>2, <3>3
    <3>4. CASE i # n
      <4>1. i \in 1..(n - 1)
        BY <2>2, <3>4
      <4> QED
        BY <3>1, <3>2, <3>4, <4>1, <2>5
    <3> QED
      BY <3>3, <3>4
  <2> HIDE DEF g
  <2> QED
    BY <2>2, <2>7, <2>8, <2>9
<1>2. Upto(N)
  BY <1>1
<1> QED
  BY <1>2 DEF Iterate

LEMMA Counts ==
  ASSUME NEW N \in Nat, NEW step \in [1..N -> [Nat -> Nat]]
  PROVE  \E f \in [0..N -> Nat] : f[0] = 0 /\ \A i \in 1..N : f[i] = step[i][f[i - 1]]
<1>1. 0 \in Nat
  OBVIOUS
<1>2. PICK f : Iterate(f, N, Nat, 0, step)
  BY <1>1, Iterates
<1> QED
  BY <1>2 DEF Iterate

\* The loop of context pack, and what a reader of the manifest adds up.
LEMMA LoopDefined ==
  ASSUME NEW items \in Seq(Item), NEW b \in Nat
  PROVE  \E used \in [0..Len(items) -> Nat] :
           /\ used[0] = 0
           /\ \A i \in 1..Len(items) :
                used[i] = IF used[i - 1] + items[i].cost > b THEN used[i - 1]
                          ELSE used[i - 1] + items[i].cost
           /\ Selected(items, b) =
                [i \in 1..Len(items) |->
                   [items[i] EXCEPT !.included = used[i - 1] + items[i].cost \in 0..b]]
<1> DEFINE N == Len(items)
           Rec(f) == f = [i \in 0..N |->
                            IF i = 0 THEN 0
                            ELSE IF f[i - 1] + items[i].cost > b THEN f[i - 1]
                            ELSE f[i - 1] + items[i].cost]
           step == [i \in 1..N |-> [x \in Nat |->
                      IF x + items[i].cost > b THEN x ELSE x + items[i].cost]]
           used[i \in 0..N] ==
             IF i = 0 THEN 0
             ELSE IF used[i - 1] + items[i].cost > b THEN used[i - 1]
             ELSE used[i - 1] + items[i].cost
<1>1. N \in Nat /\ DOMAIN items = 1..N /\ \A i \in 1..N : items[i].cost \in Nat
  <2>1. N \in Nat /\ DOMAIN items = 1..N /\ \A i \in 1..N : items[i] \in Item
    BY LenProperties, ElementOfSeq
  <2> QED
    BY <2>1 DEF Item
<1>2. step \in [1..N -> [Nat -> Nat]]
  BY <1>1
<1> HIDE DEF step
<1>3. PICK f \in [0..N -> Nat] : f[0] = 0 /\ \A i \in 1..N : f[i] = step[i][f[i - 1]]
  <2>1. N \in Nat /\ 0 \in Nat
    BY <1>1
  <2> HIDE DEF N, Rec, used
  <2> QED
    BY <1>2, <2>1, Counts
<1>4. Rec(f)
  <2>1. \A i \in 0..N : i # 0 => i \in 1..N /\ i - 1 \in 0..N
    BY <1>1
  <2> HIDE DEF N
  <2> QED
    BY <1>1, <1>3, <2>1 DEF step
<1>5. used = CHOOSE g : Rec(g)
  OBVIOUS
<1>6. Rec(used)
  <2> HIDE DEF Rec, used
  <2> QED
    BY <1>4, <1>5
<1>7. Selected(items, b) =
        [i \in DOMAIN items |->
           [items[i] EXCEPT !.included = used[i - 1] + items[i].cost \in 0..b]]
  BY DEF Selected, N
<1> HIDE DEF used, N
<1>8. /\ used[0] = 0
      /\ \A i \in 1..N :
           used[i] = IF used[i - 1] + items[i].cost > b THEN used[i - 1]
                     ELSE used[i - 1] + items[i].cost
  <2>1. 0 \in 0..N /\ \A i \in 1..N : i \in 0..N /\ i # 0
    BY <1>1
  <2>2. used = [i \in 0..N |->
                  IF i = 0 THEN 0
                  ELSE IF used[i - 1] + items[i].cost > b THEN used[i - 1]
                  ELSE used[i - 1] + items[i].cost]
    BY <1>6
  <2>3. used[0] = 0
    BY <2>1, <2>2
  <2>4. ASSUME NEW i \in 1..N
        PROVE  used[i] = IF used[i - 1] + items[i].cost > b THEN used[i - 1]
                         ELSE used[i - 1] + items[i].cost
    <3>1. i \in 0..N /\ i # 0
      BY <2>1
    <3> QED
      BY <2>2, <3>1
  <2> HIDE DEF Rec
  <2> QED
    BY <2>3, <2>4
<1>9. used \in [0..N -> Nat]
  <2>1. \A i \in 0..N : i - 1 \in 0..N \/ i = 0
    BY <1>1
  <2>2. {i \in 0..N : used[i] \notin Nat} = {}
    <3> SUFFICES ASSUME {i \in 0..N : used[i] \notin Nat} # {} PROVE FALSE
      OBVIOUS
    <3>1. PICK n \in {i \in 0..N : used[i] \notin Nat} :
                 \A m \in {i \in 0..N : used[i] \notin Nat} : n <= m
      <4>1. {i \in 0..N : used[i] \notin Nat} \subseteq Nat
        BY <1>1
      <4> QED
        BY <4>1, LeastOne
    <3>2. n \in 1..N /\ n - 1 \in 0..N /\ used[n] \notin Nat
      BY <1>1, <1>8, <3>1
    <3>3. used[n - 1] \in Nat
      BY <1>1, <3>1, <3>2
    <3>4. /\ items[n].cost \in Nat
          /\ used[n] = IF used[n - 1] + items[n].cost > b THEN used[n - 1]
                       ELSE used[n - 1] + items[n].cost
      BY <1>1, <1>8, <3>2
    <3> QED
      BY <3>2, <3>3, <3>4
  <2>3. used = [i \in 0..N |-> used[i]]
    BY <1>6
  <2> QED
    BY <2>2, <2>3
<1>10. N = Len(items)
  BY DEF N
<1> QED
  BY <1>1, <1>7, <1>8, <1>9, <1>10

\* What a reader of the items adds up.
LEMMA SpentDefined ==
  ASSUME NEW items \in Seq(Item)
  PROVE  /\ Spent(items) \in [0..Len(items) -> Nat]
         /\ Spent(items)[0] = 0
         /\ \A i \in 1..Len(items) :
              Spent(items)[i] = IF items[i].included
                                THEN Spent(items)[i - 1] + items[i].cost
                                ELSE Spent(items)[i - 1]
<1> DEFINE N == Len(items)
           Rec(f) == f = [i \in 0..N |->
                            IF i = 0 THEN 0
                            ELSE IF items[i].included THEN f[i - 1] + items[i].cost
                            ELSE f[i - 1]]
           step == [i \in 1..N |-> [x \in Nat |->
                      IF items[i].included THEN x + items[i].cost ELSE x]]
<1>1. N \in Nat /\ DOMAIN items = 1..N /\ \A i \in 1..N : items[i].cost \in Nat
  <2>1. N \in Nat /\ DOMAIN items = 1..N /\ \A i \in 1..N : items[i] \in Item
    BY LenProperties, ElementOfSeq
  <2> QED
    BY <2>1 DEF Item
<1>2. step \in [1..N -> [Nat -> Nat]]
  BY <1>1
<1> HIDE DEF step
<1>3. PICK f \in [0..N -> Nat] : f[0] = 0 /\ \A i \in 1..N : f[i] = step[i][f[i - 1]]
  <2>1. N \in Nat /\ 0 \in Nat
    BY <1>1
  <2> HIDE DEF N, Rec
  <2> QED
    BY <1>2, <2>1, Counts
<1>4. Rec(f)
  <2>1. \A i \in 0..N : i # 0 => i \in 1..N /\ i - 1 \in 0..N
    BY <1>1
  <2> HIDE DEF N
  <2> QED
    BY <1>1, <1>3, <2>1 DEF step
<1>5. Spent(items) = CHOOSE g : Rec(g)
  BY DEF Spent
<1>6. Rec(Spent(items))
  <2> HIDE DEF Rec
  <2> QED
    BY <1>4, <1>5
<1> HIDE DEF N
<1> DEFINE spent == Spent(items)
<1>7. /\ spent[0] = 0
      /\ \A i \in 1..N :
           spent[i] = IF items[i].included THEN spent[i - 1] + items[i].cost
                      ELSE spent[i - 1]
  BY <1>1, <1>6
<1>8. {i \in 0..N : spent[i] \notin Nat} = {}
  <2> SUFFICES ASSUME {i \in 0..N : spent[i] \notin Nat} # {} PROVE FALSE
    OBVIOUS
  <2>1. PICK n \in {i \in 0..N : spent[i] \notin Nat} :
               \A m \in {i \in 0..N : spent[i] \notin Nat} : n <= m
    <3>1. {i \in 0..N : spent[i] \notin Nat} \subseteq Nat
      BY <1>1
    <3> QED
      BY <3>1, LeastOne
  <2>2. n \in 1..N /\ n - 1 \in 0..N /\ spent[n] \notin Nat
    BY <1>1, <1>7, <2>1
  <2>3. spent[n - 1] \in Nat
    BY <1>1, <2>1, <2>2
  <2>4. /\ items[n].cost \in Nat
        /\ spent[n] = IF items[n].included THEN spent[n - 1] + items[n].cost
                      ELSE spent[n - 1]
    BY <1>1, <1>7, <2>2
  <2> DEFINE c == items[n].cost
             s == spent[n - 1]
  <2>5. c + s \in Nat
    BY <2>3, <2>4
  <2> HIDE DEF c, s
  <2> QED
    BY <2>2, <2>3, <2>4, <2>5
<1>9. spent = [i \in 0..N |-> spent[i]]
  BY <1>6
<1>10. N = Len(items)
  BY DEF N
<1> HIDE DEF spent
<1>11. spent \in [0..N -> Nat]
  BY <1>8, <1>9
<1> QED
  BY <1>7, <1>10, <1>11 DEF spent

\* What is included adds up to what the loop has counted, and that fits.
LEMMA SelectionHolds ==
  ASSUME NEW items \in Seq(Item), NEW b \in Nat
  PROVE  /\ Selected(items, b) \in Seq(Item)
         /\ WithinBudget(Selected(items, b), b)
<1> DEFINE N == Len(items)
           sel == Selected(items, b)
           spent == Spent(sel)
<1>1. N \in Nat /\ DOMAIN items = 1..N /\ \A i \in 1..N : items[i] \in Item
  BY LenProperties, ElementOfSeq
<1>2. PICK used \in [0..N -> Nat] :
        /\ used[0] = 0
        /\ \A i \in 1..N :
             used[i] = IF used[i - 1] + items[i].cost > b THEN used[i - 1]
                       ELSE used[i - 1] + items[i].cost
        /\ sel = [i \in 1..N |->
                    [items[i] EXCEPT !.included = used[i - 1] + items[i].cost \in 0..b]]
  BY LoopDefined
<1>3. ASSUME NEW i \in 1..N
      PROVE  /\ i - 1 \in 0..N /\ used[i - 1] \in Nat /\ items[i].cost \in Nat
             /\ sel[i] \in Item /\ sel[i].cost = items[i].cost
             /\ (sel[i].included <=> used[i - 1] + items[i].cost <= b)
  <2>1. i - 1 \in 0..N /\ items[i] \in Item
    BY <1>1
  <2>2. used[i - 1] \in Nat /\ items[i].cost \in Nat
    BY <2>1 DEF Item
  <2>3. (used[i - 1] + items[i].cost \in 0..b) = (used[i - 1] + items[i].cost <= b)
    BY <2>2
  <2>4. sel[i] = [items[i] EXCEPT !.included = used[i - 1] + items[i].cost <= b]
    BY <1>2, <2>3
  <2> DEFINE inc == used[i - 1] + items[i].cost <= b
  <2>5. inc \in BOOLEAN
    OBVIOUS
  <2> HIDE DEF inc, sel
  <2>6. sel[i] = [items[i] EXCEPT !.included = inc]
    BY <2>4 DEF inc
  <2>7. sel[i] \in Item /\ sel[i].cost = items[i].cost /\ sel[i].included = inc
    BY <2>1, <2>5, <2>6 DEF Item
  <2> QED
    BY <2>1, <2>2, <2>7 DEF inc
<1> HIDE DEF N
<1>4. sel \in Seq(Item) /\ Len(sel) = N /\ DOMAIN sel = 1..N
  <2>1. sel = [i \in 1..N |-> sel[i]]
    BY <1>2
  <2> HIDE DEF sel
  <2>2. sel \in [1..N -> Item]
    BY <1>3, <2>1
  <2> QED
    BY <1>1, <2>2
<1>5. /\ spent \in [0..N -> Nat] /\ spent[0] = 0
      /\ \A i \in 1..N : spent[i] = IF sel[i].included THEN spent[i - 1] + sel[i].cost
                                    ELSE spent[i - 1]
  <2> HIDE DEF sel
  <2> QED
    BY <1>4, SpentDefined
<1> HIDE DEF sel, spent
<1>6. {i \in 0..N : ~(spent[i] = used[i] /\ used[i] <= b)} = {}
  <2> SUFFICES ASSUME {i \in 0..N : ~(spent[i] = used[i] /\ used[i] <= b)} # {} PROVE FALSE
    OBVIOUS
  <2>1. PICK n \in {i \in 0..N : ~(spent[i] = used[i] /\ used[i] <= b)} :
               \A m \in {i \in 0..N : ~(spent[i] = used[i] /\ used[i] <= b)} : n <= m
    <3>1. {i \in 0..N : ~(spent[i] = used[i] /\ used[i] <= b)} \subseteq Nat
      BY <1>1
    <3> QED
      BY <3>1, LeastOne
  <2>2. n \in 1..N /\ n - 1 \in 0..N /\ ~(spent[n] = used[n] /\ used[n] <= b)
    BY <1>1, <1>2, <1>5, <2>1
  <2>3. spent[n - 1] = used[n - 1] /\ used[n - 1] <= b
    BY <1>1, <2>1, <2>2
  <2>4. /\ used[n - 1] \in Nat /\ items[n].cost \in Nat
        /\ sel[n].cost = items[n].cost
        /\ (sel[n].included <=> used[n - 1] + items[n].cost <= b)
    BY <1>3, <2>2
  <2>5. /\ spent[n] = IF sel[n].included THEN spent[n - 1] + sel[n].cost ELSE spent[n - 1]
        /\ used[n] = IF used[n - 1] + items[n].cost > b THEN used[n - 1]
                     ELSE used[n - 1] + items[n].cost
    BY <1>2, <1>5, <2>2
  <2> DEFINE c == items[n].cost
             u == used[n - 1]
             inc == sel[n].included
  <2>6. /\ u \in Nat /\ c \in Nat /\ u <= b /\ (inc <=> u + c <= b)
        /\ spent[n] = IF inc THEN u + c ELSE u
        /\ used[n] = IF u + c > b THEN u ELSE u + c
        /\ ~(spent[n] = used[n] /\ used[n] <= b)
    BY <2>2, <2>3, <2>4, <2>5
  <2> HIDE DEF c, u, inc
  <2> QED
    BY <2>6
<1>7. Spent(sel)[Len(sel)] <= b
  BY <1>1, <1>4, <1>6 DEF spent
<1>8. ASSUME NEW i \in 1..N, ~sel[i].included PROVE spent[i - 1] + sel[i].cost > b
  <2>1. spent[i - 1] = used[i - 1]
    BY <1>3, <1>6
  <2>2. /\ used[i - 1] \in Nat /\ items[i].cost \in Nat /\ sel[i].cost = items[i].cost
        /\ ~(used[i - 1] + items[i].cost <= b)
    BY <1>3, <1>8
  <2> QED
    BY <2>1, <2>2
<1>9. WithinBudget(sel, b)
  BY <1>4, <1>7, <1>8 DEF WithinBudget, spent
<1> QED
  BY <1>4, <1>9 DEF sel

LEMMA PackWriteKeeps ==
  ASSUME ContinuityAssumption, Inv, NEW p \in Proc, PackWrite(p)
  PROVE  Inv' /\ TablesGo
<1> DEFINE q == reg[p]
           n == Len(manifests) + 1
           row == [checkpoint |-> q.checkpoint, budget |-> q.budget,
                   items |-> Selected(Quoted(q), q.budget)]
<1>1. /\ pc[p] = "write" /\ q \in Quotes /\ ReadOK(p)
      /\ manifests' = Append(manifests, row)
      /\ checkpoints' = Linked(q.checkpoint, n)
      /\ Goto(p, "idle", None)
      /\ UNCHANGED <<memories, index, latest, evidence, handoffs>>
  BY DEF PackWrite, Inv, TypeOK
<1>2. row \in Manifest
  <2>1. Selected(Quoted(q), q.budget) \in Seq(Item)
    BY <1>1, QuotedTyped, SelectionHolds DEF Quotes
  <2>2. q.checkpoint \in Nat \cup {None} /\ q.budget \in Nat
    BY <1>1 DEF Quotes
  <2>3. QED
    BY <2>1, <2>2 DEF Manifest
<1> HIDE DEF row
<1>3. /\ manifests' \in Seq(Manifest) /\ n \in Nat
      /\ DOMAIN manifests = 1..(n - 1) /\ DOMAIN manifests' = 1..n
      /\ \A k \in DOMAIN manifests : manifests'[k] = manifests[k]
      /\ manifests'[n] = row /\ row.checkpoint = q.checkpoint
  BY <1>1, <1>2, AppendedRow DEF Inv, TypeOK, row
<1>4. /\ checkpoints' \in Seq(Checkpoint) /\ DOMAIN checkpoints' = DOMAIN checkpoints
      /\ \A c \in DOMAIN checkpoints : checkpoints'[c].repo = checkpoints[c].repo
      /\ \A c \in DOMAIN checkpoints : c # q.checkpoint => checkpoints'[c] = checkpoints[c]
      /\ q.checkpoint # None =>
           q.checkpoint \in DOMAIN checkpoints /\ checkpoints'[q.checkpoint].pack = n
  <2>1. CASE q.checkpoint = None
    BY <1>1, <2>1 DEF Linked, Inv, TypeOK
  <2>2. CASE q.checkpoint # None
    <3> DEFINE c == q.checkpoint
               new == [checkpoints[c] EXCEPT !.pack = n]
    <3>1. c \in DOMAIN checkpoints /\ checkpoints[c] \in Checkpoint
      BY <1>1, <2>2 DEF ReadOK, Inv, TypeOK
    <3>2. new \in Checkpoint /\ new.pack = n /\ new.repo = checkpoints[c].repo
      BY <3>1, <1>3 DEF Checkpoint
    <3>3. checkpoints' = [checkpoints EXCEPT ![c] = new]
      BY <1>1, <2>2 DEF Linked
    <3> HIDE DEF new
    <3>4. /\ checkpoints' \in Seq(Checkpoint) /\ DOMAIN checkpoints' = DOMAIN checkpoints
          /\ checkpoints'[c] = new
          /\ \A x \in DOMAIN checkpoints \ {c} : checkpoints'[x] = checkpoints[x]
      BY <3>1, <3>2, <3>3, ChangedRow DEF Inv, TypeOK
    <3>5. QED
      BY <3>1, <3>2, <3>4, <2>2
  <2>3. QED
    BY <2>1, <2>2
<1>5. \A x \in Proc : pc'[x] = "idle" \/ (pc'[x] = pc[x] /\ reg'[x] = reg[x])
  BY <1>1 DEF Goto, Inv, TypeOK
<1>6. TypeOK'
  <2>1. \A m \in DOMAIN memories' : ReplacementOK(m)'
    BY <1>1 DEF Inv, TypeOK, ReplacementOK
  <2>2. \A s \in Session : latest'[s] # None => checkpoints'[latest'[s]].repo = RepoOf[s]
    BY <1>1, <1>4 DEF Inv, TypeOK
  <2>3. latest' \in [Session -> DOMAIN checkpoints' \cup {None}]
    BY <1>1, <1>4 DEF Inv, TypeOK
  <2>4. /\ pc' \in [Proc -> {"idle", "checkpoint", "memories", "verifications", "write"}]
        /\ reg' \in [Proc -> Quotes \cup {None}]
        /\ \A x \in Proc : pc'[x] # "idle" => reg'[x] \in Quotes
    BY <1>1, <1>5 DEF Goto, Inv, TypeOK
  <2>5. QED
    BY <1>1, <1>3, <1>4, <2>1, <2>2, <2>3, <2>4 DEF Inv, TypeOK
<1>7. TablesGo
  <2>1. latest \in [Session -> Nat \cup {None}]
    BY LenProperties DEF Inv, TypeOK
  <2>2. QED
    BY <1>1, <1>4, <2>1 DEF TablesGo, MemoriesGo
<1>8. \A x \in Proc : ReadOK(x)'
  <2>1. ASSUME NEW x \in Proc, pc'[x] = "idle" PROVE ReadOK(x)'
    BY <2>1 DEF ReadOK
  <2>2. ASSUME NEW x \in Proc, pc'[x] = pc[x], reg'[x] = reg[x] PROVE ReadOK(x)'
    BY <2>2, <1>6, <1>7, ReadsKeep DEF Inv
  <2>3. QED
    BY <1>5, <2>1, <2>2
<1>9. PacksOfCheckpoints'
  BY <1>3, <1>4 DEF PacksOfCheckpoints, Inv
<1>10. LinkIsLast'
  <2> DEFINE Packs(c) == {k \in DOMAIN manifests : manifests[k].checkpoint = c}
             Link(c) == checkpoints[c].pack
  <2>1. ASSUME NEW c \in DOMAIN checkpoints, c = q.checkpoint
        PROVE  /\ n \in Packs(c)' /\ Link(c)' = n
               /\ \A k \in Packs(c)' : k <= n
    <3>1. c # None
      BY LenProperties DEF Inv, TypeOK, ContinuityAssumption
    <3>2. QED
      BY <2>1, <3>1, <1>3, <1>4
  <2>2. ASSUME NEW c \in DOMAIN checkpoints, c # q.checkpoint
        PROVE  Packs(c)' = Packs(c) /\ Link(c)' = Link(c)
    BY <2>2, <1>3, <1>4
  <2>3. ASSUME NEW c \in DOMAIN checkpoints'
        PROVE  IF Packs(c)' = {} THEN Link(c)' = None
               ELSE Link(c)' \in Packs(c)' /\ \A k \in Packs(c)' : k <= Link(c)'
    <3>1. CASE c = q.checkpoint
      BY <3>1, <2>1, <1>4
    <3>2. CASE c # q.checkpoint
      BY <3>2, <2>2, <1>4 DEF Inv, LinkIsLast
    <3>3. QED
      BY <3>1, <3>2
  <2>4. QED
    BY <2>3 DEF LinkIsLast
<1>11. IndexExact'
  BY <1>1 DEF Inv, IndexExact, Superseded
<1>12. QED
  BY <1>6, <1>7, <1>8, <1>9, <1>10, <1>11 DEF Inv

LEMMA HandoffWriteKeeps ==
  ASSUME ContinuityAssumption, Inv, NEW p \in Proc, HandoffWrite(p)
  PROVE  Inv' /\ TablesGo
<1> DEFINE q == reg[p]
           row == [session |-> q.session, checkpoint |-> q.checkpoint,
                   memories |-> q.memories, evidence |-> q.evidence]
<1>1. /\ pc[p] = "write" /\ q \in Quotes /\ ReadOK(p) /\ q.doc = "handoff"
      /\ handoffs' = Append(handoffs, row) /\ Goto(p, "idle", None)
      /\ UNCHANGED <<memories, index, checkpoints, latest, evidence, manifests>>
  BY DEF HandoffWrite, Inv, TypeOK
<1>2. row \in Handoff
  BY <1>1 DEF Quotes, Handoff, ReadOK
<1>3. handoffs' \in Seq(Handoff)
  BY <1>1, <1>2, AppendedRow DEF Inv, TypeOK
<1>4. \A x \in Proc : pc'[x] = "idle" \/ (pc'[x] = pc[x] /\ reg'[x] = reg[x])
  BY <1>1 DEF Goto, Inv, TypeOK
<1>5. TypeOK'
  <2>1. \A m \in DOMAIN memories' : ReplacementOK(m)'
    BY <1>1 DEF Inv, TypeOK, ReplacementOK
  <2>2. /\ pc' \in [Proc -> {"idle", "checkpoint", "memories", "verifications", "write"}]
        /\ reg' \in [Proc -> Quotes \cup {None}]
        /\ \A x \in Proc : pc'[x] # "idle" => reg'[x] \in Quotes
    BY <1>1, <1>4 DEF Goto, Inv, TypeOK
  <2>3. QED
    BY <1>1, <1>3, <2>1, <2>2 DEF Inv, TypeOK
<1>6. TablesGo
  BY <1>1, TablesStay DEF Inv
<1>7. \A x \in Proc : ReadOK(x)'
  <2>1. ASSUME NEW x \in Proc, pc'[x] = "idle" PROVE ReadOK(x)'
    BY <2>1 DEF ReadOK
  <2>2. ASSUME NEW x \in Proc, pc'[x] = pc[x], reg'[x] = reg[x] PROVE ReadOK(x)'
    BY <2>2, <1>5, <1>6, ReadsKeep DEF Inv
  <2>3. QED
    BY <1>4, <2>1, <2>2
<1>8. IndexExact' /\ LinkIsLast' /\ PacksOfCheckpoints'
  BY <1>1 DEF Inv, IndexExact, Superseded, LinkIsLast, PacksOfCheckpoints
<1>9. QED
  BY <1>5, <1>6, <1>7, <1>8 DEF Inv

\* A command on memories disturbs no document and no checkpoint.
LEMMA MemoryKeeps ==
  ASSUME ContinuityAssumption, Inv,
         UNCHANGED <<checkpoints, latest, evidence, manifests, handoffs, pc, reg>>,
         \/ \E r \in Repo, c \in Cost["memory"] : MemoryCreate(r, c)
         \/ \E m \in DOMAIN memories : MemoryApprove(m)
         \/ \E old, new \in DOMAIN memories : MemorySupersede(old, new)
  PROVE  Inv' /\ TablesGo
<1>1. /\ memories' \in Seq(Memory) /\ (\A m \in DOMAIN memories' : ReplacementOK(m)')
      /\ index' = DOMAIN memories' \ Superseded'
      /\ MemoriesGo
  BY MemoryTables
<1>2. TypeOK'
  BY <1>1 DEF Inv, TypeOK
<1>3. TablesGo
  <2>1. latest \in [Session -> Nat \cup {None}]
    BY LenProperties DEF Inv, TypeOK
  <2>2. QED
    BY <1>1, <2>1 DEF TablesGo
<1>4. ASSUME NEW p \in Proc PROVE ReadOK(p)'
  BY <1>2, <1>3, ReadsKeep DEF Inv
<1>5. IndexExact'
  BY <1>1 DEF IndexExact
<1>6. LinkIsLast' /\ PacksOfCheckpoints'
  BY DEF Inv, LinkIsLast, PacksOfCheckpoints
<1>7. QED
  BY <1>2, <1>3, <1>4, <1>5, <1>6 DEF Inv

\* Every step keeps the invariant and undoes no supersession.
LEMMA NextKeeps == ContinuityAssumption /\ Inv /\ Next => Inv' /\ TablesGo
<1> SUFFICES ASSUME ContinuityAssumption, Inv, Next PROVE Inv' /\ TablesGo
  OBVIOUS
<1>1. CASE \/ \E r \in Repo, c \in Cost["memory"] : MemoryCreate(r, c)
           \/ \E m \in DOMAIN memories : MemoryApprove(m)
           \/ \E old, new \in DOMAIN memories : MemorySupersede(old, new)
  <2>1. UNCHANGED <<checkpoints, latest, evidence, manifests, handoffs, pc, reg>>
    BY <1>1 DEF MemoryCreate, MemoryApprove, MemorySupersede
  <2>2. QED
    BY <1>1, <2>1, MemoryKeeps
<1>2. ASSUME NEW r \in Repo, NEW c \in Cost["verification"], VerifyAdd(r, c)
      PROVE  Inv' /\ TablesGo
  <2>1. TypeOK' /\ TablesGo /\ LinkIsLast' /\ PacksOfCheckpoints'
    BY <1>2, VerificationAdded
  <2>2. ASSUME NEW p \in Proc PROVE ReadOK(p)'
    BY <1>2, <2>1, ReadsKeep DEF Inv, VerifyAdd
  <2>3. IndexExact'
    BY <1>2 DEF VerifyAdd, Inv, IndexExact, Superseded
  <2>4. QED
    BY <2>1, <2>2, <2>3 DEF Inv
<1>3. ASSUME NEW r \in Repo, NEW s \in Session \cup {None}, NEW c \in Cost["checkpoint"],
             CheckpointCreate(r, s, c)
      PROVE  Inv' /\ TablesGo
  <2>1. TypeOK' /\ TablesGo /\ LinkIsLast' /\ PacksOfCheckpoints'
    BY <1>3, CheckpointAdded
  <2>2. ASSUME NEW p \in Proc PROVE ReadOK(p)'
    BY <1>3, <2>1, ReadsKeep DEF Inv, CheckpointCreate
  <2>3. IndexExact'
    BY <1>3 DEF CheckpointCreate, Inv, IndexExact, Superseded
  <2>4. QED
    BY <2>1, <2>2, <2>3 DEF Inv
<1>4. ASSUME NEW p \in Proc, NEW r \in Repo, NEW s \in Session \cup {None},
             NEW b \in Budget, NEW c \in DOMAIN checkpoints \cup {None},
             PackBegin(p, r, s, c, b)
      PROVE  Inv' /\ TablesGo
  <2>1. c \in Nat \cup {None} /\ b \in Nat
    BY LenProperties DEF Inv, TypeOK, ContinuityAssumption
  <2>2. QED
    BY <1>4, <2>1, BeginKeeps DEF PackBegin, Document
<1>5. ASSUME NEW p \in Proc, NEW s \in Session, HandoffBegin(p, s)
      PROVE  Inv' /\ TablesGo
  <2>1. RepoOf[s] \in Repo /\ s # None
    BY DEF ContinuityAssumption
  <2>2. QED
    BY <1>5, <2>1, BeginKeeps DEF HandoffBegin, Document
<1>6. ASSUME NEW p \in Proc, Read(p) PROVE Inv' /\ TablesGo
  BY <1>6, ReadCheckpointKeeps, ReadMemoriesKeeps, ReadVerificationsKeeps DEF Read
<1>7. ASSUME NEW p \in Proc, PackWrite(p) PROVE Inv' /\ TablesGo
  BY <1>7, PackWriteKeeps
<1>8. ASSUME NEW p \in Proc, HandoffWrite(p) PROVE Inv' /\ TablesGo
  BY <1>8, HandoffWriteKeeps
<1>9. ASSUME NEW p \in Proc, GiveUp(p) PROVE Inv' /\ TablesGo
  BY <1>9, GiveUpKeeps
<1>10. QED
  BY <1>1, <1>2, <1>3, <1>4, <1>5, <1>6, <1>7, <1>8, <1>9 DEF Next

LEMMA InvHolds == Spec => []Inv
<1>1. Inv /\ UNCHANGED vars => Inv'
  <2> SUFFICES ASSUME Inv, UNCHANGED vars PROVE Inv'
    OBVIOUS
  <2>1. UNCHANGED <<memories, index, checkpoints, latest, evidence, manifests,
                    handoffs, pc, reg>>
    BY DEF vars
  <2>2. (\A m \in DOMAIN memories : ReplacementOK(m)) =>
          \A m \in DOMAIN memories' : ReplacementOK(m)'
    BY <2>1 DEF ReplacementOK
  <2>3. TypeOK' /\ IndexExact' /\ LinkIsLast' /\ PacksOfCheckpoints'
    BY <2>1, <2>2 DEF Inv, TypeOK, IndexExact, Superseded, LinkIsLast, PacksOfCheckpoints
  <2>4. \A p \in Proc : ReadOK(p)'
    BY <2>1 DEF Inv, ReadOK, Superseded
  <2>5. QED
    BY <2>3, <2>4 DEF Inv
<1>2. Inv /\ [Next]_vars => Inv'
  BY <1>1, NextKeeps, ContinuityAssumption
<1>3. QED
  BY <1>2, InitInv, PTL DEF Spec

\* Every reachable state is well typed: a superseded memory names another one of
\* its repository, and a session's last checkpoint is one of its repository.
THEOREM TypeCorrect == Spec => []TypeOK
<1>1. Inv => TypeOK
  BY DEF Inv
<1>2. QED
  BY <1>1, InvHolds, PTL

\* Search always finds exactly the memories that are not superseded.
THEOREM SearchFindsLiveMemories == Spec => []IndexExact
<1>1. Inv => IndexExact
  BY DEF Inv
<1>2. QED
  BY <1>1, InvHolds, PTL

\* A checkpoint is always linked to the pack that was written last for it, of
\* any number of packs and in any order of their commands.
THEOREM CheckpointLinksLastPack == Spec => []LinkIsLast
<1>1. Inv => LinkIsLast
  BY DEF Inv
<1>2. QED
  BY <1>1, InvHolds, PTL

\* No document that is about to be written quotes what was out of date when its
\* command began, whatever other commands did between its reads.
THEOREM DocumentsQuoteNothingStale == Spec => []NothingStale
<1>1. Inv => NothingStale
  BY DEF Inv, ReadOK, NothingStale
<1>2. QED
  BY <1>1, InvHolds, PTL

\* No command undoes a supersession or changes its replacement.
THEOREM SupersessionIsFinal == Spec => SupersededIsFinal
<1>1. Inv /\ [Next]_vars =>
        [\A m \in Superseded : m \in DOMAIN memories' /\ memories'[m] = memories[m]]_vars
  <2> SUFFICES ASSUME Inv, Next
               PROVE  \A m \in Superseded : m \in DOMAIN memories' /\ memories'[m] = memories[m]
    OBVIOUS
  <2>1. MemoriesGo
    BY NextKeeps, ContinuityAssumption DEF TablesGo
  <2>2. QED
    BY <2>1 DEF MemoriesGo, Superseded
<1>2. QED
  BY <1>1, InvHolds, PTL DEF Spec, SupersededIsFinal
\* A manifest is only ever added, and what is in it stays.
LEMMA BudgetNext ==
  ASSUME ContinuityAssumption, Inv, BudgetHeld, [Next]_vars
  PROVE  BudgetHeld'
<1>1. ASSUME UNCHANGED manifests PROVE BudgetHeld'
  BY <1>1 DEF BudgetHeld
<1>2. ASSUME NEW p \in Proc, PackWrite(p) PROVE BudgetHeld'
  <2> DEFINE q == reg[p]
             row == [checkpoint |-> q.checkpoint, budget |-> q.budget,
                     items |-> Selected(Quoted(q), q.budget)]
  <2>1. /\ pc[p] = "write" /\ q \in Quotes /\ manifests' = Append(manifests, row)
        /\ manifests \in Seq(Manifest)
    BY <1>2 DEF PackWrite, Inv, TypeOK
  <2>2. q.checkpoint \in Nat \cup {None} /\ q.budget \in Nat
    BY <2>1 DEF Quotes
  <2>3. /\ Selected(Quoted(q), q.budget) \in Seq(Item)
        /\ WithinBudget(Selected(Quoted(q), q.budget), q.budget)
    BY <2>1, <2>2, QuotedTyped, SelectionHolds
  <2>4. /\ row \in Manifest /\ row.budget = q.budget
        /\ row.items = Selected(Quoted(q), q.budget)
    BY <2>2, <2>3 DEF Manifest
  <2> HIDE DEF row
  <2>5. /\ DOMAIN manifests' = DOMAIN manifests \cup {Len(manifests) + 1}
        /\ \A k \in DOMAIN manifests : manifests'[k] = manifests[k]
        /\ manifests'[Len(manifests) + 1] = row
    BY <2>1, <2>4, AppendedRow
  <2>6. ASSUME NEW k \in DOMAIN manifests'
        PROVE  WithinBudget(manifests'[k].items, manifests'[k].budget)
    <3>1. CASE k \in DOMAIN manifests
      BY <3>1, <2>5 DEF BudgetHeld
    <3>2. CASE k = Len(manifests) + 1
      BY <3>2, <2>3, <2>4, <2>5
    <3>3. QED
      BY <3>1, <3>2, <2>5, <2>6
  <2>7. QED
    BY <2>6 DEF BudgetHeld
<1>3. QED
  BY <1>1, <1>2
  DEF Next, vars, tables, Begin, Goto, MemoryCreate, MemoryApprove, MemorySupersede, VerifyAdd,
      CheckpointCreate, PackBegin, HandoffBegin, Read, HandoffWrite, GiveUp,
      ReadCheckpoint, ReadMemories, ReadVerifications

\* What is included of any context pack fits its budget, and nothing that would
\* still have fitted was left out, for any number of items of any cost.
THEOREM PacksFitTheirBudget == Spec => []BudgetHeld
<1>1. Init => BudgetHeld
  BY DEF Init, BudgetHeld
<1>2. Inv /\ BudgetHeld /\ [Next]_vars => BudgetHeld'
  BY BudgetNext, ContinuityAssumption
<1>3. QED
  BY <1>1, <1>2, InvHolds, PTL DEF Spec
=============================================================================
