---------------------------- MODULE Checkpoints -----------------------------
(***************************************************************************)
(* Sessions, checkpoints and the post-commit hook                          *)
(* (internal/cli/session.go, checkpoint.go, helpers.go).                   *)
(*                                                                         *)
(* Every CLI command is a process.  withTx runs a function between         *)
(* BEGIN IMMEDIATE and COMMIT, so a transaction is one step; what a        *)
(* command reads from git or from the database before its transaction is   *)
(* a step of its own, and any other command may run in between.            *)
(***************************************************************************)
EXTENDS Naturals, Sequences

CONSTANTS
  Place,          \* git directories: work trees and hosted bare repositories
  Repo,           \* the places that are canonical_path of a repositories row
  Rank,           \* Rank[r]: the rowid order of that row
  CommonDir,      \* what `git rev-parse --git-common-dir` prints in a place
  PathPrefix,     \* <<r, c>>: the path of r is a proper string prefix of c's
  Linked,         \* linked work trees: git exports GIT_DIR to their hooks
  ObjectDb,       \* ObjectDb[c]: the place whose object database c uses
  Hooked,         \* places whose commits run `across hook post-commit`
  Session,        \* session ids
  Proc,           \* concurrently running across commands
  Commit,         \* commit hashes
  HeadRef,        \* the symbolic revision "HEAD"
  RevName,        \* other revisions that are not hashes: branches, tags
  Message,        \* checkpoint messages
  AutoMessage,    \* the constant autoCheckpointMessage
  MaxCheckpoints, \* bound: with that many rows no further create starts
  MayFail,        \* whether commands may be killed or find the database busy
  None            \* NULL, the empty string, no row

ASSUME PlacesAssumption ==
  /\ Repo \subseteq Place /\ Hooked \subseteq Place /\ Linked \subseteq Place
  /\ None \notin Repo /\ None \notin Place
  /\ Rank \in [Repo -> Nat]
  /\ \A q, r \in Repo : Rank[q] = Rank[r] => q = r
  /\ ObjectDb \in [Place -> Place]

ASSUME IdsAssumption ==
  /\ None \notin Session /\ None \notin Commit /\ None \notin Nat
  /\ HeadRef \notin Commit /\ HeadRef # None
  /\ RevName \cap (Commit \cup {HeadRef, None}) = {}
  /\ AutoMessage \in Message
  /\ MaxCheckpoints \in Nat
  /\ MayFail \in BOOLEAN

VARIABLES
  head,           \* head[c]: the commit HEAD of c points to, None when unborn
  objects,        \* objects[c]: the commits that came into the object database c
  refs,           \* refs[c][n]: the commit that n names there, None when it does not
  sessions,       \* the sessions table; state "none" when there is no row yet
  checkpoints,    \* the checkpoints table in insertion order; the id is the index
  ambiguous,      \* <<repo, rev>> of the "checkpoint.ambiguous" activities
  pc,             \* where each process stands
  reg             \* what each process has read so far

git  == <<head, objects, refs>>
db   == <<sessions, checkpoints, ambiguous>>
vars == <<head, objects, refs, sessions, checkpoints, ambiguous, pc, reg>>

\* What the text of a revision may be: a full hash, HEAD, or a name.
Revision == Commit \cup {HeadRef} \cup RevName

NoSession == [state |-> "none", repo |-> None, latest |-> None]

SessionRow ==
  [state : {"active", "closed"}, repo : Repo, latest : Nat \cup {None}]

\* via is the kind of the activity that the same transaction logs for the row.
CheckpointRow ==
  [repo : Repo, rev : Revision, sess : Session \cup {None},
   msg : Message, via : {"create", "auto"}]

\* The local variables of a command: the place a hook runs in, the place that
\* the GIT_DIR in its environment names, and the repository, revision, session
\* and message it has settled on.
Register ==
  [place : Place \cup {None}, gitdir : Place \cup {None},
   repo : Repo \cup {None}, rev : Revision \cup {None},
   sess : Session \cup {None}, msg : Message]

Blank ==
  [place |-> None, gitdir |-> None, repo |-> None, rev |-> None,
   sess |-> None, msg |-> AutoMessage]

\* A process that is about to use what it has read has read it.
RegisterOK(p) ==
  /\ pc[p] = "head" => reg[p].place \in Place
  /\ pc[p] \in {"create", "sessions", "auto", "several"} =>
       reg[p].repo \in Repo /\ reg[p].rev \in Revision
  /\ pc[p] = "auto" => reg[p].sess \in Session
  /\ pc[p] \in {"head", "sessions", "auto"} => reg[p].msg = AutoMessage

ProcessesOK ==
  /\ pc \in [Proc -> {"idle", "create", "head", "sessions", "auto", "several"}]
  /\ reg \in [Proc -> Register]
  /\ \A p \in Proc : RegisterOK(p)

TypeOK ==
  /\ head \in [Place -> Commit \cup {None}]
  /\ objects \in [Place -> SUBSET Commit]
  /\ refs \in [Place -> [RevName -> Commit \cup {None}]]
  /\ sessions \in [Session -> SessionRow \cup {NoSession}]
  /\ checkpoints \in Seq(CheckpointRow)
  /\ ambiguous \in SUBSET (Repo \X Revision)
  /\ ProcessesOK

Init ==
  /\ head = [c \in Place |-> None]
  /\ objects = [c \in Place |-> {}]
  /\ refs = [c \in Place |-> [n \in RevName |-> None]]
  /\ sessions = [s \in Session |-> NoSession]
  /\ checkpoints = <<>>
  /\ ambiguous = {}
  /\ pc = [p \in Proc |-> "idle"]
  /\ reg = [p \in Proc |-> Blank]

-----------------------------------------------------------------------------
(* Process steps.                                                          *)

Goto(p, to, r) ==
  /\ pc' = [pc EXCEPT ![p] = to]
  /\ reg' = [reg EXCEPT ![p] = r]

Finish(p) == Goto(p, "idle", Blank)

\* A killed process, or BEGIN IMMEDIATE that gives up after busy_timeout:
\* the transaction is rolled back and nothing of it remains.
Abort(p) ==
  /\ MayFail
  /\ pc[p] # "idle"
  /\ Finish(p)
  /\ UNCHANGED <<git, db>>

-----------------------------------------------------------------------------
(* git: what the users of the repositories do.                             *)

\* ResolveRevision: git rev-parse --verify REV^{commit}, None when it fails.
ResolveRevision(r, rev) ==
  IF rev = HeadRef THEN head[r]
  ELSE IF rev \in RevName THEN refs[ObjectDb[r]][rev]
  ELSE IF rev \in objects[ObjectDb[r]] THEN rev ELSE None

\* `git commit` in place c; when the Across hook is installed there, p is the
\* hook process git starts afterwards.
GitCommit(p, c, k) ==
  /\ \A d \in Place : k \notin objects[d]
  /\ head' = [head EXCEPT ![c] = k]
  /\ objects' = [objects EXCEPT ![ObjectDb[c]] = @ \cup {k}]
  /\ IF c \in Hooked
     THEN /\ pc[p] = "idle"
          /\ Goto(p, "head", [Blank EXCEPT !.place = c,
                                           !.gitdir = IF c \in Linked THEN c ELSE None])
     ELSE UNCHANGED <<pc, reg>>
  /\ UNCHANGED <<refs, db>>

\* checkout, reset, or a push into a hosted repository: HEAD moves, no hook.
MoveHead(c, k) ==
  /\ k \in objects[ObjectDb[c]] \ {head[c]}
  /\ head' = [head EXCEPT ![c] = k]
  /\ UNCHANGED <<objects, refs, db, pc, reg>>

\* git branch, git tag: a name of an object database is made, moved, or deleted.
MoveName(c, n, k) ==
  /\ ObjectDb[c] = c
  /\ k \in (objects[c] \cup {None}) \ {refs[c][n]}
  /\ refs' = [refs EXCEPT ![c][n] = k]
  /\ UNCHANGED <<head, objects, db, pc, reg>>

-----------------------------------------------------------------------------
(* Sessions.                                                               *)

SessionMustBelong(r, s, active) ==
  /\ sessions[s].state # "none"
  /\ sessions[s].repo = r
  /\ active => sessions[s].state = "active"

ActiveSessions(r) ==
  {s \in Session : sessions[s].repo = r /\ sessions[s].state = "active"}

\* Faulty variant: INSERT OR REPLACE.
ReplaceSession(s, r) ==
  /\ sessions' = [sessions EXCEPT ![s] =
                    [state |-> "active", repo |-> r, latest |-> None]]
  /\ UNCHANGED <<git, checkpoints, ambiguous, pc, reg>>

InsertSession(s, r) ==
  /\ sessions[s].state = "none"
  /\ sessions' = [sessions EXCEPT ![s] =
                    [state |-> "active", repo |-> r, latest |-> None]]
  /\ UNCHANGED <<git, checkpoints, ambiguous, pc, reg>>

\* session start: nothing keeps a second session of a repository from starting.
StartSession(s, r) == InsertSession(s, r)

\* session fork: the parent may be closed already.
ForkSession(s, r, parent) ==
  /\ SessionMustBelong(r, parent, FALSE)
  /\ InsertSession(s, r)

\* session close: the UPDATE has no condition on the state.
CloseSession(s) ==
  /\ sessions[s].state # "none"
  /\ sessions' = [sessions EXCEPT ![s].state = "closed"]
  /\ UNCHANGED <<git, checkpoints, ambiguous, pc, reg>>

-----------------------------------------------------------------------------
(* Checkpoints.                                                            *)

\* Faulty variant: the link is set for the first checkpoint only.
InsertCheckpointFirstLink(row) ==
  /\ row.sess # None => sessions[row.sess].state = "active"
  /\ checkpoints' = Append(checkpoints, row)
  /\ sessions' = IF row.sess = None \/ sessions[row.sess].latest # None THEN sessions
                 ELSE [sessions EXCEPT ![row.sess].latest = Len(checkpoints) + 1]
  /\ UNCHANGED ambiguous

\* insertCheckpointMutation: the row, and for a session the link to it, which
\* the UPDATE sets only while the session is active.
InsertCheckpoint(row) ==
  /\ row.sess # None => sessions[row.sess].state = "active"
  /\ checkpoints' = Append(checkpoints, row)
  /\ sessions' = IF row.sess = None THEN sessions
                 ELSE [sessions EXCEPT ![row.sess].latest = Len(checkpoints) + 1]
  /\ UNCHANGED ambiguous

\* What the transaction of process p would insert.
RowOf(p, via) ==
  [repo |-> reg[p].repo, rev |-> reg[p].rev, sess |-> reg[p].sess,
   msg |-> reg[p].msg, via |-> via]

\* checkpoint create without --revision: HEAD is resolved before the
\* transaction and the commit it names is what will be stored.
CreateAtHead(p, r, s, m) ==
  /\ pc[p] = "idle" /\ Len(checkpoints) < MaxCheckpoints
  /\ ResolveRevision(r, HeadRef) # None
  /\ Goto(p, "create", [Blank EXCEPT !.repo = r, !.sess = s, !.msg = m,
                                     !.rev = ResolveRevision(r, HeadRef)])
  /\ UNCHANGED <<git, db>>

\* checkpoint create --revision REV: REV has to resolve, and is stored as given:
\* a name stays a name, whatever it names when the row is written or later.
CreateAtRevision(p, r, rev, s, m) ==
  /\ pc[p] = "idle" /\ Len(checkpoints) < MaxCheckpoints
  /\ ResolveRevision(r, rev) # None
  /\ Goto(p, "create",
          [Blank EXCEPT !.repo = r, !.sess = s, !.msg = m, !.rev = rev])
  /\ UNCHANGED <<git, db>>

CreateAllowed(p) ==
  reg[p].sess # None => SessionMustBelong(reg[p].repo, reg[p].sess, TRUE)

\* The transaction of checkpoint create.
CreateCommit(p) ==
  /\ pc[p] = "create"
  /\ CreateAllowed(p)
  /\ InsertCheckpoint(RowOf(p, "create"))
  /\ Finish(p)
  /\ UNCHANGED git

\* It ends with an error when the session was closed meanwhile.
CreateRejected(p) ==
  /\ pc[p] = "create"
  /\ ~CreateAllowed(p)
  /\ Finish(p)
  /\ UNCHANGED <<git, db>>

-----------------------------------------------------------------------------
(* across hook post-commit.                                                *)

\* `across hook post-commit` typed by hand in place c.
RunHook(p, c) ==
  /\ pc[p] = "idle"
  /\ Goto(p, "head", [Blank EXCEPT !.place = c])
  /\ UNCHANGED <<git, db>>

\* The scan over the repositories rows stops at the first row whose path is
\* the work tree or whose recorded common dir is what git prints there;
\* failing that, the last row whose path is a prefix of the work tree's.
FullMatch(r, c) == r = c \/ CommonDir[r] = CommonDir[c]

Matched(r, c) ==
  \/ /\ FullMatch(r, c)
     /\ \A q \in Repo : FullMatch(q, c) => Rank[r] <= Rank[q]
  \/ /\ \A q \in Repo : ~FullMatch(q, c)
     /\ <<r, c>> \in PathPrefix
     /\ \A q \in Repo : <<q, c>> \in PathPrefix => Rank[q] <= Rank[r]

\* Faulty variant: the revision is not resolved in the repository.
HookRevisionUnresolved(r, c, gitdir) ==
  LET seen == IF gitdir = None THEN r ELSE gitdir
  IN  IF head[seen] # None THEN head[seen] ELSE head[c]

\* git.Head and ResolveRevision run in the matched repository, but with GIT_DIR
\* exported git answers for the place that names.  A repository that is unborn
\* leaves the HEAD of the work tree, if it knows that commit.
HookRevision(r, c, gitdir) ==
  LET seen == IF gitdir = None THEN r ELSE gitdir
      h    == IF head[seen] # None THEN head[seen] ELSE head[c]
  IN  IF h \in objects[ObjectDb[seen]] THEN h ELSE None

\* Which repository, and which revision.
HookHead(p, r) ==
  LET h == HookRevision(r, reg[p].place, reg[p].gitdir)
  IN  /\ pc[p] = "head"
      /\ Matched(r, reg[p].place)
      /\ h # None
      /\ Goto(p, "sessions", [reg[p] EXCEPT !.repo = r, !.rev = h])
      /\ UNCHANGED <<git, db>>

\* Without either the hook just ends.
HookUnmatched(p) ==
  /\ pc[p] = "head"
  /\ \A r \in Repo : Matched(r, reg[p].place) =>
       HookRevision(r, reg[p].place, reg[p].gitdir) = None
  /\ Finish(p)
  /\ UNCHANGED <<git, db>>

\* The active sessions are read outside any transaction.
HookSessions(p) ==
  LET active == ActiveSessions(reg[p].repo)
  IN  /\ pc[p] = "sessions"
      /\ \/ active = {} /\ Finish(p)
         \/ \E s \in active :
              active = {s} /\ Goto(p, "auto", [reg[p] EXCEPT !.sess = s])
         \/ \E s, t \in active : s # t /\ Goto(p, "several", reg[p])
      /\ UNCHANGED <<git, db>>

\* Faulty variants: only the latest checkpoint of the session is compared; the
\* session is not compared.
LatestRecorded(p) ==
  LET i == sessions[reg[p].sess].latest
  IN  i # None /\ checkpoints[i].rev = reg[p].rev /\ checkpoints[i].msg = AutoMessage

RecordedForAny(p) ==
  \E i \in DOMAIN checkpoints :
    /\ checkpoints[i].repo = reg[p].repo
    /\ checkpoints[i].rev = reg[p].rev
    /\ checkpoints[i].msg = AutoMessage

AlreadyRecorded(p) ==
  \E i \in DOMAIN checkpoints :
    /\ checkpoints[i].repo = reg[p].repo
    /\ checkpoints[i].rev = reg[p].rev
    /\ checkpoints[i].sess = reg[p].sess
    /\ checkpoints[i].msg = AutoMessage

\* createAutoCheckpoint: the whole of it is one transaction.
HookRecord(p) ==
  /\ pc[p] = "auto"
  /\ SessionMustBelong(reg[p].repo, reg[p].sess, TRUE)
  /\ ~AlreadyRecorded(p)
  /\ InsertCheckpoint(RowOf(p, "auto"))
  /\ Finish(p)
  /\ UNCHANGED git

\* The session is no longer active, or the row is there already.
HookNothing(p) ==
  /\ pc[p] = "auto"
  /\ \/ ~SessionMustBelong(reg[p].repo, reg[p].sess, TRUE)
     \/ AlreadyRecorded(p)
  /\ Finish(p)
  /\ UNCHANGED <<git, db>>

HookAmbiguous(p) ==
  /\ pc[p] = "several"
  /\ ambiguous' = ambiguous \cup {<<reg[p].repo, reg[p].rev>>}
  /\ Finish(p)
  /\ UNCHANGED <<git, sessions, checkpoints>>

-----------------------------------------------------------------------------
GitStep ==
  \/ \E p \in Proc, c \in Place, k \in Commit : GitCommit(p, c, k)
  \/ \E c \in Place, k \in Commit : MoveHead(c, k)
  \/ \E c \in Place, n \in RevName, k \in Commit \cup {None} : MoveName(c, n, k)

SessionStep ==
  \/ \E s \in Session, r \in Repo : StartSession(s, r)
  \/ \E s, parent \in Session, r \in Repo : ForkSession(s, r, parent)
  \/ \E s \in Session : CloseSession(s)

CreateStep(p) ==
  \/ \E r \in Repo, s \in Session \cup {None}, m \in Message :
       CreateAtHead(p, r, s, m)
  \/ \E r \in Repo, rev \in Revision, s \in Session \cup {None}, m \in Message :
       CreateAtRevision(p, r, rev, s, m)
  \/ CreateCommit(p)
  \/ CreateRejected(p)

HookStep(p) ==
  \/ \E r \in Repo : HookHead(p, r)
  \/ HookUnmatched(p)
  \/ HookSessions(p)
  \/ HookRecord(p)
  \/ HookNothing(p)
  \/ HookAmbiguous(p)

Next ==
  \/ GitStep
  \/ SessionStep
  \/ \E p \in Proc, c \in Place : RunHook(p, c)
  \/ \E p \in Proc : CreateStep(p) \/ HookStep(p) \/ Abort(p)

Spec == Init /\ [][Next]_vars

-----------------------------------------------------------------------------
(* Properties.                                                             *)

RowsOf(s) == {i \in DOMAIN checkpoints : checkpoints[i].sess = s}

\* Safety: the hook never adds a row for a commit, session and message that has
\* one already, however many hooks and creates run at the same time
\* (createAutoCheckpoint looks and inserts in one transaction).
AutoOnce ==
  \A i, j \in DOMAIN checkpoints :
    i < j /\ checkpoints[j].via = "auto" =>
      ~ /\ checkpoints[i].repo = checkpoints[j].repo
        /\ checkpoints[i].rev = checkpoints[j].rev
        /\ checkpoints[i].sess = checkpoints[j].sess
        /\ checkpoints[i].msg = checkpoints[j].msg

\* Safety: latest_checkpoint_id of a session, which brief, handoff and context
\* pack follow, is the row inserted last of those that name the session, and
\* every such row is of the session's own repository.
LatestIsLast ==
  \A s \in Session :
    /\ RowsOf(s) = {} => sessions[s].latest = None
    /\ RowsOf(s) # {} =>
         /\ sessions[s].latest \in RowsOf(s)
         /\ \A i \in RowsOf(s) : i <= sessions[s].latest
    /\ \A i \in RowsOf(s) : checkpoints[i].repo = sessions[s].repo

\* The git directories that may have answered for a row: its repository, and for
\* a hook the linked work trees that are matched to it, because of GIT_DIR.
GitDirs(r, via) == {r} \cup {c \in Linked : via = "auto" /\ Matched(r, c)}

Exists(r, rev, via) ==
  via = "auto" \/ rev \in Commit =>
    \E d \in GitDirs(r, via) : rev \in objects[ObjectDb[d]]

\* Safety: every checkpoint of a hook, and every other one that has a hash for
\* its revision (as all have that were created without --revision), names a
\* commit of the repository of its row, or of a linked work tree that was taken
\* for one of it, wherever HEAD went between reading it and recording it.  A row
\* with a name is not promised anything: the name may be gone.
RevisionExists ==
  \A i \in DOMAIN checkpoints :
    Exists(checkpoints[i].repo, checkpoints[i].rev, checkpoints[i].via)

\* What ClosedIsFinal says of one step.  Action property: a closed session is
\* closed for good, and nothing that was
\* read while it was active adds a checkpoint to it or moves its link.
ClosedStays ==
  \A s \in Session : sessions[s].state = "closed" =>
    sessions'[s] = sessions[s] /\ RowsOf(s)' = RowsOf(s)

ClosedIsFinal == [][ClosedStays]_vars

\* What README.md:94-98 promises of a repository whose hook is installed, with a
\* session started for it: a commit gets its checkpoint.  So the hook has to work
\* on the repository the commit was made in.  The code takes the first row with
\* the common dir that git prints, which is ".git" in every ordinary clone.
HookOwnRepository ==
  \A p \in Proc : pc[p] \in {"sessions", "auto", "several"} =>
    ObjectDb[reg[p].repo] = ObjectDb[reg[p].place]

\* What HookAnswers says of one step.  Action property: the transaction of a hook
\* that counted one active session, unless it is rolled back, leaves a checkpoint
\* of that commit for that session, or found the session closed; a row of another
\* session or of a create does not count.
HookAnswered ==
  \A p \in Proc : pc[p] = "auto" /\ HookStep(p) =>
    \/ sessions[reg[p].sess].state = "closed"
    \/ \E i \in DOMAIN checkpoints' : /\ checkpoints'[i].repo = reg[p].repo
                                      /\ checkpoints'[i].rev = reg[p].rev
                                      /\ checkpoints'[i].sess = reg[p].sess

HookAnswers == [][HookAnswered]_vars

\* Refinement: the tables are the ledger of CheckpointLedger, and every process
\* step is one step of it or none.
Ledger == INSTANCE CheckpointLedger WITH
  owner  <- [s \in Session |-> sessions[s].repo],
  open   <- {s \in Session : sessions[s].state = "active"},
  tip    <- [s \in Session |-> sessions[s].latest],
  ledger <- checkpoints

ImplementsLedger == Ledger!Spec
=============================================================================
