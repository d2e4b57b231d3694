----------------------------- MODULE Continuity -----------------------------
(***************************************************************************)
(* Memories, and the documents that quote them: context packs and handoffs *)
(* (internal/cli/continuity.go, context_commands.go).                      *)
(*                                                                         *)
(* A memory is a candidate, approved, or superseded by another memory.     *)
(* Each of these commands is one transaction.  A context pack or a handoff *)
(* reads the session's last checkpoint, the approved memories and the      *)
(* verifications one after the other, outside any transaction, and then    *)
(* inserts what it has read: each read is a step of a process.             *)
(*                                                                         *)
(* Rows are numbered in the order of their created_at or started_at.       *)
(***************************************************************************)
EXTENDS Naturals, Sequences, FiniteSets

CONSTANTS
  Repo,          \* repository ids
  Session,       \* session ids
  RepoOf,        \* the repository of each session; it never changes
  Proc,          \* concurrently running across commands
  Cost,          \* estimateTokens of what a document quotes, by its kind
  Budget,        \* --budget of context pack
  MemoryLimit,   \* LIMIT of the memories a document quotes
  EvidenceLimit, \* LIMIT of the verifications a document quotes
  MaxMemories, MaxCheckpoints, MaxEvidence, MaxDocuments,  \* bounds of a run
  None           \* NULL, the empty string

Document == {"pack", "handoff"}
Kind == {"checkpoint", "memory", "verification"}

ASSUME ContinuityAssumption ==
  /\ RepoOf \in [Session -> Repo]
  /\ Cost \in [Kind -> SUBSET (Nat \ {0})]   \* a title and body are never empty
  /\ Budget \subseteq Nat \ {0}
  /\ MemoryLimit \in [Document -> Nat] /\ EvidenceLimit \in [Document -> Nat]
  /\ None \notin Nat /\ None \notin Session /\ None \notin Repo
  /\ {MaxMemories, MaxCheckpoints, MaxEvidence, MaxDocuments} \subseteq Nat

VARIABLES
  memories,      \* the memories table: [repo, state, by, cost]
  index,         \* the memories that have a search_index row
  checkpoints,   \* the checkpoints table: [repo, cost, pack]
  latest,        \* sessions.latest_checkpoint_id
  evidence,      \* the verifications table: [repo, cost]
  manifests,     \* context_manifests with their context_items
  handoffs,      \* the handoffs table
  pc,            \* where each process stands
  reg            \* what each process has read so far

tables == <<memories, index, checkpoints, latest, evidence, manifests, handoffs>>
vars == <<memories, index, checkpoints, latest, evidence, manifests, handoffs, pc, reg>>

Memory ==
  [repo : Repo, state : {"candidate", "approved", "superseded"},
   by : Nat \cup {None}, cost : Cost["memory"]]

Checkpoint == [repo : Repo, cost : Cost["checkpoint"], pack : Nat \cup {None}]

Evidence == [repo : Repo, cost : Cost["verification"]]

Item == [kind : Kind, ref : Nat, cost : Nat, included : BOOLEAN]

\* What a command has read so far.  before is a history: the memories that were
\* superseded, and the session's last checkpoint, when the command began.
Quotes ==
  [doc : Document, repo : Repo, session : Session \cup {None},
   named : Nat \cup {None}, budget : Nat, checkpoint : Nat \cup {None},
   memories : Seq(Nat), evidence : Seq(Nat),
   before : [superseded : SUBSET Nat, latest : Nat \cup {None}]]

Manifest == [checkpoint : Nat \cup {None}, budget : Nat, items : Seq(Item)]

Handoff == [session : Session, checkpoint : Nat \cup {None},
            memories : Seq(Nat), evidence : Seq(Nat)]

Superseded == {m \in DOMAIN memories : memories[m].state = "superseded"}

ReplacementOK(m) ==
  IF memories[m].state = "superseded"
    THEN /\ memories[m].by \in DOMAIN memories \ {m}
         /\ memories[memories[m].by].repo = memories[m].repo
    ELSE memories[m].by = None

TypeOK ==
  /\ memories \in Seq(Memory)
  /\ \A m \in DOMAIN memories : ReplacementOK(m)
  /\ index \subseteq DOMAIN memories
  /\ checkpoints \in Seq(Checkpoint)
  /\ latest \in [Session -> DOMAIN checkpoints \cup {None}]
  /\ \A s \in Session : latest[s] # None => checkpoints[latest[s]].repo = RepoOf[s]
  /\ evidence \in Seq(Evidence)
  /\ manifests \in Seq(Manifest)
  /\ handoffs \in Seq(Handoff)
  /\ pc \in [Proc -> {"idle", "checkpoint", "memories", "verifications", "write"}]
  /\ reg \in [Proc -> Quotes \cup {None}]
  /\ \A p \in Proc : pc[p] # "idle" => reg[p] \in Quotes

Init ==
  /\ memories = <<>>
  /\ index = {}
  /\ checkpoints = <<>>
  /\ latest = [s \in Session |-> None]
  /\ evidence = <<>>
  /\ manifests = <<>>
  /\ handoffs = <<>>
  /\ pc = [p \in Proc |-> "idle"]
  /\ reg = [p \in Proc |-> None]

Goto(p, to, q) ==
  /\ pc' = [pc EXCEPT ![p] = to]
  /\ reg' = [reg EXCEPT ![p] = q]

-----------------------------------------------------------------------------
(* Memories.  Each command is one transaction.                             *)

MemoryCreate(r, c) ==
  /\ Len(memories) < MaxMemories
  /\ memories' = Append(memories, [repo |-> r, state |-> "candidate",
                                   by |-> None, cost |-> c])
  /\ index' = index \cup {Len(memories) + 1}
  /\ UNCHANGED <<checkpoints, latest, evidence, manifests, handoffs, pc, reg>>

\* Faulty variant: only an approved memory is refused.
MemoryApproveAny(m) ==
  /\ memories[m].state # "approved"
  /\ memories' = [memories EXCEPT ![m].state = "approved"]
  /\ index' = index \cup {m}
  /\ UNCHANGED <<checkpoints, latest, evidence, manifests, handoffs, pc, reg>>

\* writeIndex replaces the entry that create has made.
MemoryApprove(m) ==
  /\ memories[m].state = "candidate"
  /\ memories' = [memories EXCEPT ![m].state = "approved"]
  /\ index' = index \cup {m}
  /\ UNCHANGED <<checkpoints, latest, evidence, manifests, handoffs, pc, reg>>

\* Faulty variant: the entry of the old memory is left to be found.
MemorySupersedeIndexed(old, new) ==
  /\ old # new
  /\ memories[old].repo = memories[new].repo
  /\ memories[old].state # "superseded"
  /\ memories' = [memories EXCEPT ![old] = [@ EXCEPT !.state = "superseded", !.by = new]]
  /\ UNCHANGED <<index, checkpoints, latest, evidence, manifests, handoffs, pc, reg>>

\* The old memory may be a candidate, the new one may be superseded itself.
MemorySupersede(old, new) ==
  /\ old # new
  /\ memories[old].repo = memories[new].repo
  /\ memories[old].state # "superseded"
  /\ memories' = [memories EXCEPT ![old] = [@ EXCEPT !.state = "superseded", !.by = new]]
  /\ index' = index \ {old}
  /\ UNCHANGED <<checkpoints, latest, evidence, manifests, handoffs, pc, reg>>

-----------------------------------------------------------------------------
(* What else a document quotes (modelled in Checkpoints and MergeQueue).   *)

CheckpointCreate(r, s, c) ==
  /\ Len(checkpoints) < MaxCheckpoints
  /\ s # None => RepoOf[s] = r
  /\ checkpoints' = Append(checkpoints, [repo |-> r, cost |-> c, pack |-> None])
  /\ latest' = [t \in Session |-> IF t = s THEN Len(checkpoints) + 1 ELSE latest[t]]
  /\ UNCHANGED <<memories, index, evidence, manifests, handoffs, pc, reg>>

VerifyAdd(r, c) ==
  /\ Len(evidence) < MaxEvidence
  /\ evidence' = Append(evidence, [repo |-> r, cost |-> c])
  /\ UNCHANGED <<memories, index, checkpoints, latest, manifests, handoffs, pc, reg>>

-----------------------------------------------------------------------------
(* Reading what a context pack or a handoff quotes.                        *)

Busy == {p \in Proc : pc[p] # "idle"}

Begin(p, doc, r, s, named, b) ==
  /\ pc[p] = "idle"
  /\ Len(manifests) + Len(handoffs) + Cardinality(Busy) < MaxDocuments
  /\ Goto(p, "checkpoint",
       [doc |-> doc, repo |-> r, session |-> s, named |-> named, budget |-> b,
        checkpoint |-> None, memories |-> <<>>, evidence |-> <<>>,
        before |-> [superseded |-> Superseded,
                    latest |-> IF s = None THEN None ELSE latest[s]]])
  /\ UNCHANGED tables

\* context pack --repo r [--session s] [--checkpoint named] --budget b
PackBegin(p, r, s, named, b) ==
  /\ s # None => RepoOf[s] = r
  /\ Begin(p, "pack", r, s, named, b)

\* handoff --session s; a handoff has no budget.
HandoffBegin(p, s) == Begin(p, "handoff", RepoOf[s], s, None, 0)

\* The checkpoint named, or else the last one of the session.
ReadCheckpoint(p) ==
  /\ pc[p] = "checkpoint"
  /\ LET q == reg[p]
         c == IF q.named # None \/ q.session = None THEN q.named ELSE latest[q.session]
     IN /\ c # None => c \in DOMAIN checkpoints /\ checkpoints[c].repo = q.repo
        /\ Goto(p, "memories", [q EXCEPT !.checkpoint = c])
  /\ UNCHANGED tables

\* ORDER BY ... DESC LIMIT n: the newest n of the rows in S, newest first.
Newest(S, n) ==
  LET k == IF Cardinality(S) < n THEN Cardinality(S) ELSE n
  IN  {q \in [1..k -> S] :
         /\ \A i, j \in 1..k : i < j => q[i] > q[j]
         /\ \A m \in S : \/ \E i \in 1..k : q[i] = m
                         \/ \A i \in 1..k : q[i] > m}

\* Faulty variant: whatever has not been superseded.
CitableLive(r) ==
  {m \in DOMAIN memories : memories[m].repo = r /\ memories[m].state # "superseded"}

Citable(r) ==
  {m \in DOMAIN memories : memories[m].repo = r /\ memories[m].state = "approved"}

ReadMemories(p) ==
  /\ pc[p] = "memories"
  /\ \E list \in Newest(Citable(reg[p].repo), MemoryLimit[reg[p].doc]) :
       Goto(p, "verifications", [reg[p] EXCEPT !.memories = list])
  /\ UNCHANGED tables

ReadVerifications(p) ==
  /\ pc[p] = "verifications"
  /\ \E list \in Newest({v \in DOMAIN evidence : evidence[v].repo = reg[p].repo},
                        EvidenceLimit[reg[p].doc]) :
       Goto(p, "write", [reg[p] EXCEPT !.evidence = list])
  /\ UNCHANGED tables

\* An error, or a kill.
GiveUp(p) ==
  /\ pc[p] # "idle"
  /\ Goto(p, "idle", None)
  /\ UNCHANGED tables

-----------------------------------------------------------------------------
(* The budget, and the one transaction at the end.                         *)

\* The items of a pack in their order, all of them marked as included.
Quoted(q) ==
  LET Quote(kind, refs, rows) ==
        [i \in DOMAIN refs |-> [kind |-> kind, ref |-> refs[i],
                                cost |-> rows[refs[i]].cost, included |-> TRUE]]
      boundary == IF q.checkpoint = None THEN <<>> ELSE <<q.checkpoint>>
  IN  Quote("checkpoint", boundary, checkpoints)
        \o Quote("memory", q.memories, memories)
        \o Quote("verification", q.evidence, evidence)

\* Faulty variant: an item that does not fit is counted all the same.
SelectedCountingAll(items, b) ==
  LET used[i \in 0..Len(items)] == IF i = 0 THEN 0 ELSE used[i - 1] + items[i].cost
  IN  [i \in DOMAIN items |-> [items[i] EXCEPT !.included = used[i] \in 0..b]]

\* Each item in turn: one that does not fit any more is kept as not included,
\* and smaller ones after it may still be.
Selected(items, b) ==
  LET used[i \in 0..Len(items)] ==
        IF i = 0 THEN 0
        ELSE IF used[i - 1] + items[i].cost > b THEN used[i - 1]
        ELSE used[i - 1] + items[i].cost
  IN  [i \in DOMAIN items |->
         [items[i] EXCEPT !.included = used[i - 1] + items[i].cost \in 0..b]]

\* Faulty variant: a checkpoint keeps the link to its first pack.
LinkedFirst(c, k) ==
  IF c = None \/ checkpoints[c].pack # None THEN checkpoints
  ELSE [checkpoints EXCEPT ![c].pack = k]

\* checkpoints.context_manifest_id names the pack.
Linked(c, k) ==
  IF c = None THEN checkpoints ELSE [checkpoints EXCEPT ![c].pack = k]

PackWrite(p) ==
  /\ pc[p] = "write" /\ reg[p].doc = "pack"
  /\ LET q == reg[p]
     IN /\ manifests' = Append(manifests,
             [checkpoint |-> q.checkpoint, budget |-> q.budget,
              items |-> Selected(Quoted(q), q.budget)])
        /\ checkpoints' = Linked(q.checkpoint, Len(manifests) + 1)
  /\ Goto(p, "idle", None)
  /\ UNCHANGED <<memories, index, latest, evidence, handoffs>>

HandoffWrite(p) ==
  /\ pc[p] = "write" /\ reg[p].doc = "handoff"
  /\ LET q == reg[p]
     IN handoffs' = Append(handoffs,
          [session |-> q.session, checkpoint |-> q.checkpoint,
           memories |-> q.memories, evidence |-> q.evidence])
  /\ Goto(p, "idle", None)
  /\ UNCHANGED <<memories, index, checkpoints, latest, evidence, manifests>>

-----------------------------------------------------------------------------
Read(p) == ReadCheckpoint(p) \/ ReadMemories(p) \/ ReadVerifications(p)

Next ==
  \/ \E r \in Repo, c \in Cost["memory"] : MemoryCreate(r, c)
  \/ \E r \in Repo, c \in Cost["verification"] : VerifyAdd(r, c)
  \/ \E m \in DOMAIN memories : MemoryApprove(m)
  \/ \E old, new \in DOMAIN memories : MemorySupersede(old, new)
  \/ \E r \in Repo, s \in Session \cup {None}, c \in Cost["checkpoint"] :
       CheckpointCreate(r, s, c)
  \/ \E p \in Proc :
       \/ \E r \in Repo, s \in Session \cup {None}, b \in Budget,
             c \in DOMAIN checkpoints \cup {None} : PackBegin(p, r, s, c, b)
       \/ \E s \in Session : HandoffBegin(p, s)
       \/ Read(p) \/ PackWrite(p) \/ HandoffWrite(p) \/ GiveUp(p)

Spec == Init /\ [][Next]_vars

-----------------------------------------------------------------------------
(* Safety.                                                                 *)

\* Search finds the memories that are not superseded, and no others, whatever
\* order candidates are approved and superseded in (writeIndex, memory supersede).
IndexExact == index = DOMAIN memories \ Superseded

\* A superseded memory stays superseded, by the memory it was superseded by:
\* neither an approval nor a second supersession undoes it.
SupersededIsFinal ==
  [][\A m \in Superseded : m \in DOMAIN memories' /\ memories'[m] = memories[m]]_vars

\* A document that is about to be written quotes nothing that was out of date
\* when its command began: no memory that was superseded by then or was never
\* approved, and no checkpoint of the session older than the last one of that
\* time, whatever commands change between its reads (context pack, handoff).
NothingStale ==
  \A p \in Proc : pc[p] = "write" =>
    LET q == reg[p]
    IN  /\ \A i \in DOMAIN q.memories :
             /\ q.memories[i] \in DOMAIN memories \ q.before.superseded
             /\ memories[q.memories[i]].state # "candidate"
        /\ q.named = None /\ q.before.latest # None =>
             q.checkpoint # None /\ q.checkpoint >= q.before.latest

\* What the items up to each of them add up to, of those that are included.
Spent(items) ==
  LET spent[n \in 0..Len(items)] ==
        IF n = 0 THEN 0
        ELSE IF items[n].included THEN spent[n - 1] + items[n].cost
        ELSE spent[n - 1]
  IN  spent

WithinBudget(items, b) ==
  /\ Spent(items)[Len(items)] <= b
  /\ \A i \in DOMAIN items : ~items[i].included => Spent(items)[i - 1] + items[i].cost > b

\* What is included of a pack fits the budget, and what is left out did not fit
\* beside what was included before it (context pack).
BudgetHeld ==
  \A k \in DOMAIN manifests : WithinBudget(manifests[k].items, manifests[k].budget)

\* The pack a checkpoint is linked to is the one that was written last for it,
\* of packs that overlap as well (context pack).
LinkIsLast ==
  \A c \in DOMAIN checkpoints :
    LET packs == {k \in DOMAIN manifests : manifests[k].checkpoint = c}
    IN  IF packs = {} THEN checkpoints[c].pack = None
        ELSE checkpoints[c].pack \in packs /\ \A k \in packs : k <= checkpoints[c].pack
=============================================================================
