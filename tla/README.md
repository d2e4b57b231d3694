# Across, modelled and proved in TLA+

Across (`src/`) is a command line program that keeps engineering history beside
git: sessions, checkpoints, evidence imported from agents' transcripts,
memories, verifications, changes and reviews, in one SQLite database under an
*Across home*. Every command is a short-lived process; any number of them may
run at the same time: users, agents, git hooks, the HTTP and the MCP server.

This directory models the parts of Across where that matters, checks them with
TLC on small instances, and proves the main results for every instance with
TLAPS. `PROJECT.json` maps every definition to the lines it models, lists the
runs, a mutant of the code for every property, the hazards, the findings and
the theorems.

    tlc -workers 2 -config CkSessions.cfg MCCheckpoints     # a run
    tlapm CheckpointsProofs.tla                             # the proofs of a module

## Concurrency and failure in Across

* `withTx` (`internal/cli/helpers.go`) runs a function between `BEGIN IMMEDIATE`
  and `COMMIT`. Only one process holds the write lock, so a transaction is one
  step. A killed process leaves nothing of its transaction; one that waits
  longer than the busy timeout (5 s) ends with an error and leaves nothing.
* What a command reads *before* its transaction (rows, git revisions, files), and
  every single statement outside one, is a step of its own.
* Files, git and the database are changed one after the other. Nothing
  locks a hooks directory, an Across home or a repository.

Every model therefore has a program counter `pc[p]` and the local variables of
each process (`reg`, `req`, ...), and one action per transaction, per read that
is used later, per rename, per git command.

## Inventory

| Component | State it keeps | Operations | Interacts with | Hard part | What makes it correct |
|---|---|---|---|---|---|
| Sessions, checkpoints, post-commit hook (`cli/session.go`, `cli/checkpoint.go`, `git/git.go`) | `sessions`, `checkpoints`, activities | session start, fork, close; checkpoint create; `hook post-commit` | git (HEAD, hooks, work trees), Sources | what is read before the transaction; two hooks for one commit; which repository a hook is in | automatic rows once, links follow the last row, a closed session is final, a row names an existing commit |
| Sources, events, index, tombstones (`cli/session.go`, `cli/agent.go`) | `sources`, `source_events`, `search_index`, `tombstones` | source import, import-session, source delete, session start | Sessions | a delete or close while a transcript is read; two imports of one native id | deletion is durable, the index is exact, supersession leads forward |
| Hook installer (`git/hook.go`) | two files per hook | install, upgrade, uninstall | the user, git, branch rules | a kill between two renames, two installers | no hook of the user's is lost; success means what it says |
| Backup restore (`cli/backup.go`, `config`, `store.Open`) | the directory at a path and beside it | restore, opening a home | every other command | look-then-rename, rollback, a home made again in between | nobody's data is deleted; replaced only as allowed |
| Changes, reviews, rules, verifications, merge queue (`cli/collab.go`, `cli/verify.go`) | `changes`, `change_approvals`, `branch_rules`, `verifications`, clones | change create, approve, request-changes; branch-rule add; verify add, run; queue merge | git, hook installer | no transaction at all: branch, rule, reviews, evidence read in turn | the gate holds, the merge is made on the base it names |
| Backup archives (`cli/backup.go`) | a tar stream, a snapshot, a manifest | create; verify and restore up to their verdict | commands that write meanwhile | snapshot, names and bytes taken at three times; members in any order; limits of writer and reader | what is created agrees with its manifest and with its snapshot; exactly what agrees is accepted |
| Plugins (`cli/plugin.go`) | a file and a row with its digest | install, remove; run and list only read | backups | file before row, truncated before written, removed while open | a plugin whose last command ended alone is as its row says |
| Memories (`cli/continuity.go`) | `memories`, index | create, approve, supersede | context packs, search | superseding back and forth, an approval that comes late | supersession is final; search finds what is not superseded |
| Handoffs, context packs (`cli/continuity.go`, `cli/context_commands.go`) | `handoffs`, `context_manifests`, `context_items`, a checkpoint's link | `context pack`, `handoff` | everything they quote | several reads, one write; packs that overlap | nothing out of date is quoted; the budget holds; the link is the last pack |
| Workspaces, version sets, checkpoint restore (`cli/workspace.go`, `cli/checkpoint.go`, `cli/checkpoint_bundle.go`) | git work trees and `workspaces` rows | create, remove, restore, export | git | git commands, removals and rows in several steps, with errors that are ignored | a row says of its directory what is so; a restore is all or nothing |
| Repositories and mirrors (`cli/repo.go`) | `repositories` rows and bare directories | add, create, mirror, sync | everything | look, directory and row in three steps | a row has its directory, whole |
| Bounded runner (`cli/exec.go`) | a child and its pipes | `execBounded`, `verify run` | the command it runs | output at its limit, the 30 s, two goroutines and one buffer | the recorded exit code is the command's; what is kept is the beginning; Run comes back |
| Schema migrations (`store/migrate.go`) | the ledger `schema_migrations` | run on every open | every command | two openers, builds of different versions, a kill between | SQL is run once; a command at work has the schema it was built for |
| Event parsing, partials (`internal/event`) | none | parse, collapse | Sources | streamed partials | the collapsed sequence is that of the final texts |
| Code graph, control plane, MCP, HTTP, adapters, system commands | derived or read-only | queries, reports | | | |

## Modules

| Module | Extends / instantiates | Contents |
|---|---|---|
| `CheckpointLedger` | | abstract: an append-only ledger with sessions that open, close and have a tip |
| `Checkpoints` | instantiates `CheckpointLedger` | sessions, checkpoints, hook; git's HEAD, names, object databases and work trees |
| `Sources` | | imports, deletes, session sources, the index, tombstones |
| `HookFiles` | | one hook and its `.across-orig`, rename by rename |
| `RestoreCommit` | | directories and names, restores, commands that open the home |
| `MergeQueue` | | changes, reviews, rules, verifications, merges |
| `Continuity` | | memories, and the context packs and handoffs that quote them, read by read |
| `Backups` | | backup create, verify and restore's reader, plugin install and remove, step by step |
| `Runner` | | one command under the bounded runner: child, pipes, copying goroutines, limit, timeout, exit code |
| `Migrations` | | opening a home with several builds of the program: the ledger of migrations, statement by statement |
| `Workspaces` | | hosted repositories, workspaces, restored checkpoints: git commands, removals and rows |
| `MC...` | the module | values for TLC and symmetry sets |
| `...Proofs` | the module, TLAPS | theorems |

Definitions marked *Faulty variant* are not part of any specification: each is
the definition after it with a plausible bug, and the property named in
`PROJECT.json` (`mutants`) fails when it takes that definition's place.

### Checkpoints

`sessions` and `checkpoints` are the tables (the id of a row is its place in the
sequence), `ambiguous` the `checkpoint.ambiguous` activities. `head`, `refs` and
`objects` are git's: what HEAD of a place names, what each name (a branch, a tag)
does, which commits an object database has. A *place* is a work tree or a bare repository; `Linked` places
export `GIT_DIR` to their hooks, so `git.Head` and `ResolveRevision` answer for
the place `GIT_DIR` names and not for the directory they run in
(`HookRevision`). `CommonDir` is what `git rev-parse --git-common-dir` prints,
`.git` in every ordinary clone, which `Matched` compares as the code does.

`CreateAtHead`/`CreateAtRevision` are what `checkpoint create` does before
`withTx`, `CreateCommit`/`CreateRejected` its transaction. `HookHead`,
`HookSessions`, `HookRecord`/`HookNothing`/`HookAmbiguous` are
`runPostCommitHook` and `createAutoCheckpoint`. `Abort` is a kill or a busy
database. Timestamps, agents and the text of activities are left out, and the
`repositories` table does not change. git does not drop commits, but names move
and are deleted (`MoveName`). The revision of a row is the text that is stored: a
hash where Across resolved it (a hook, a create without `--revision`), otherwise
what was given, a name included (`Revision`). So `RevisionExists` is about the rows
of hooks and those with a hash. A linked work tree may be taken for one of another
repository (it lies below that one's path and its own is not registered, say); its
hook then stores a commit of its own under that repository, since `GIT_DIR`
decides where git looks. `GitDirs` names the places a row's commit may be in.

`ImplementsLedger` is a refinement: `owner`, `open`, `tip` and `ledger` of
`CheckpointLedger` are read off the tables, and every step of every process is a
step of the ledger or none.

### Sources

A process holds the request `req[p]` between its checks (`ImportBegin`,
`StartBegin`) and its transaction (`ImportCommit`, `StartCommit`); in between
the transcript is read. `sources` is the table, `events` and `index` are the
sources that have event rows and an index row. A tombstone is inserted exactly
when a row is marked `deleted` and both are never removed, so `Tombstoned` reads
the mark. The parsing of transcripts and their confinement to the repository
only decide whether the command gives up (`GiveUp`).

### HookFiles

`hook` and `original` (`<hook>.across-orig`) are the two files. A script is
what matters of it: the user's, or Across's own, alone or running the original
(`Wrapper`). Every rename is an action, with what it does when it fails, and
`Die` kills a command between any two. `owned` is a history variable: the hooks
the user wrote and did not take away. The user edits hooks only while no
command runs. What a failed command has set aside stays under a private name
and is forgotten; the original is never among it.

### RestoreCommit

`kind` and `at` say what each directory is and where: at the target, under a
name beside it, staged, or gone. `OpenBegin` to `Write` are any command:
`EnsureHome` makes the home and its subdirectories by path, SQLite makes the
database, and a write goes to the directory in which the connection was opened,
wherever that is now. `RestoreBegin` to `Swap`/`SwapFails` are `backup restore`
(`restoreBackupWithOptions`, `commitRestore`). Directories are created fresh:
the number of directories bounds a run. `overlap`, chosen at the start, says
whether commands may overlap in this behaviour. A killed restore leaks its staged
directory, which nothing looks at again, so the model drops it.

### MergeQueue

One repository. `tip[b]` is how far branch `b` has come; `Push` moves it and is
turned away by the pre-receive hook (`Refused`). `MergeBegin` to `Mark` are
`queue merge`: the branch is read, the rule, the reviews, each required
verification, the clone is made, the branch is read again, the commit is made
and reported, the change is marked. `reported` is a history variable: what was
printed as prepared, how many rules and which runs there were when the rule was
chosen, and whether it could be read: the error of that query is not looked at,
so a failed one is as no rule (`ReadRuleFails`). A merge that git refuses, a gate
that blocks and a kill are all `GiveUp`. What was prepared for a change had, for
each verification its rule asks for, a latest row that was a passing run Across
executed, at some time after the rule was read (`Executed`); a later run may have
failed since.
`VerifyBegin`/`VerifyEnd` are `verify run`, whose row is inserted at the end
with the time of the start; `clock` is that time, always distinct (the code's
timestamps have nanoseconds). A branch and a pattern are the same names: the
code compares them for equality. `merge_queue` rows are written by `queue add`
and read by nothing, and issues are read by nothing; both are left out.

### Continuity

`memories` and `index` are the memories with what search finds; `memory create`,
`approve` and `supersede` are one transaction each. A context pack or a handoff
(`PackBegin`, `HandoffBegin`) reads the checkpoint, the memories and the
verifications, one after the other and outside any transaction, into `reg[p]`,
and one transaction at the end inserts the document and, for a pack, links its
checkpoint to it (`PackWrite`, `Linked`). `checkpoints`, `latest` and
`evidence` are here only what a document needs of them; which session may get a
checkpoint is a matter of `Checkpoints`. Rows are numbered in the order of the
times the queries sort by; the code takes these times just before the
transaction, so two creates within that gap may sort the other way. A quoted row
is its number and its estimated tokens; `Selected` is the loop that takes what
fits. `reg[p].before` is a history variable: what was out of date when the
command began. The rendering, the hash and `--output` of a document, and the link
from a memory to a source, which nothing reads, are left out.

### Backups

`file` is what each file of a home holds, `row` the digests of the `plugins`
table. A plugin is installed by truncating its file, writing it and inserting
its row (`Truncate`, `Fill`, `Record`), and removed in the other steps
(`Delete`, `Forget`); a writer whose file has been unlinked meanwhile writes
where nobody looks (`lost`). `Decoded` is what JSON makes of a name: `encoding/json` writes U+FFFD for bytes that
are no UTF-8, the tar header keeps them, so the name in the manifest may not be
the member's (`Packed`). `OtherWrites` and `OtherRemoves` are what is not
under `src/` or not about plugins: git in hosted repositories, the token of a
server. A backup takes its database snapshot, collects names, then looks at,
opens and copies one file after the other (`TakeSnapshot` to `Publish`); what
is copied from a file that is being written is any bytes of the size that was
seen (`Copied`). `ReadBegin` to `ReadEnd` are `readBackupArchive`, member by
member and entry by entry. A body stands for bytes and mode, a name is the
sequence of its parts, and the sizes are numbers. `Given` are archives from
elsewhere, one of which may be at `--output` from the start; once something is
there, the run lets the home rest. `alone`, `settled`, `kept` and `steady` are
history: who was alone on a plugin, which plugins nobody has touched since
their last command ended or since a snapshot, which files have been there since
a snapshot. What becomes of the directory an archive is read into is in
`RestoreCommit`.

### Runner

One `verify run` or plugin (`kind`). The command is started, or cannot be
(`Start`, `StartFails`): then there is no child, and `verify run` records an
executed run with exit code 1 all the same. The child writes to two pipes, each of
which a goroutine of `os/exec` copies (`CopierReads`, `CopierWrites`) into a
`limitedWriter` with `room` left (`Passed`). `verify run` has a buffer per
stream, `execBounded` one for both (`Sink`): when two goroutines are in it at a
time it is `garbled`, from where on a write may go over what is there, or the
program `Panic`. The write that reaches the limit is reported as shorter than
it was, so that `io.Copy` gives up and closes the pipe (`short`); the child gets a
signal or goes on. `Timeout` is the context's 30 s: it kills the child, or finds one that
has ended and not been waited for. `RunError` is the order in which `Wait`
prefers errors, `ExitCode` what `verify run` makes of them. Output is counted in
units of any size; a `background` process holds the pipes open after the child.

### Migrations

`db` is the committed database, `work[p]` that of a transaction: whether the
ledger has its checksum column (`legacy`), the checksum of each row, and how
often the SQL of each version has been run (`ran`). A command is of some build,
with the manifest of its migrations. `Begin` to `Commit` are `Migrate`:
`Prepare` adds the column, `Accept`/`Refuse` read the ledger and fill in empty
checksums, `Run`/`Record` apply what is missing. Any statement may fail
(`Rollback`), any command be killed (`End`), and the database of the start is
any: a ledger with gaps, other checksums or none included. Inside a transaction
nobody else writes; the steps are apart because each may be the last.

### Workspaces

`bare` and `rows` are the directory and the rows of each hosted repository,
`tree`, `at`, `registered` and `row` the directory, the commit checked out in it,
git's own entry and the row of each workspace. Each git command, removal and
statement of `repo create` (`HostLook` to `HostRow`), `workspace create`
(`CreateBegin` to `CreateRow`), `checkpoint restore` (`RestoreBegin` to
`RestoreRow`, `UndoGit` to `Prune`) and `workspace remove` (`RemoveBegin` to
`RemoveRow`) is an action that may fail; where the code ignores the error, the
command goes on. `RemoveAll` may fail with all or a part of the tree left, and
`Prune` to no effect. `Kill` ends a command anywhere, git in
the middle of what it makes. `lookedAlone`, `made` and `removing` are history:
the names no two creates looked at together, how the command that makes a
workspace ended, which removals have begun; and so are `undeleted` and `unpruned`,
the workspaces whose directory the last `RemoveAll` left, and those after which
`git worktree prune` failed. Ids are fresh, so a workspace
is made by one command. The branch of `workspace create --branch` is left out.

## Runs

Every passing run has its properties' mutants, so each property is seen to fail
when the code is wrong in the way the mutant is.

| Run | Question | Instance |
|---|---|---|
| `CkSessions` | are the tables an append-only ledger, are automatic rows unique and of existing commits, links right; does a hook answer for the session it was given? | 2 clones (the hook takes the first row for both) and a linked work tree, 1 commit, 1 branch, 2 sessions, 2 processes that may fail |
| `SrcImports` | deletion, supersession and the index under overlapping imports, starts and deletes | 2 repositories, 2 sessions, whose ids are the native ids, 2 processes, 3 rows |
| `HkCrash` | install and uninstall, killed or rolled back anywhere | 2 user hooks, one command at a time |
| `RsRestores` | is anything anyone stored deleted? one at a time: replaced only as allowed, put back on failure? | 2 overlapping commands or 1, 4 directories, 2 names |
| `MqGate` | gate and base with overlapping merges and verifications | hosted `main`, 1 change, 1 push, 1 rule, 2 verifications, 1 report, 2 processes |
| `CtPacks` | is anything out of date quoted; budget, links, index and the finality of supersession | 1 repository, 1 session, 2 memories, 2 checkpoints, 1 verification, 2 documents, which may overlap, 2 processes that may fail |
| `BkCreate` | is a plugin as its row says, a backup as its snapshot and its manifest say; is exactly what agrees accepted | 1 plugin of 4 bodies, 3 other files, one with a name that is no UTF-8, 2 processes of which one makes a backup, or one of about 4700 archives of up to 5 members |
| `RnRuns` | is a recorded exit code the command's, what is kept the beginning, a plugin with one stream safe; does Run come back? | 1 command, which may not start, limit 3 units, excerpt 2, pipe and chunk 2, up to 4 units a stream, fair |
| `MgOpens` | is SQL run once, does a command have its schema, is who is refused refused for good, who is locked out locked out by a commit? | 4 builds (one adds a migration, one another, one has an edited one), 3 versions, any ledger, 2 processes |
| `WsTrees` | does a row say of its directory what is so, is a restore all or nothing, is what is checked out what is recorded? | 1 hosted repository, 2 workspaces, 2 commits, 2 processes |

`CkClones` and `HkConcurrent` find documented statements violated (see *Findings*).

Type invariants are proved of every module; the runs of `Runner` and
`Workspaces` check theirs too. Likewise proved and in no run: `ClosedIsFinal`, most
of which `ImplementsLedger` says as well, `SupersededByLater`, `RowsKept` and
`DamagedUntouched`.

**Why the bounds are enough.** Every hazard modelled is between two commands,
or a command and its environment (git, the user, a single statement): two
processes show every such pair, and `HookFiles` with one at a time any sequence
of commands and kills. Two rows that agree and one that does not (3 sources, 2
creates, 2 verifications) are what uniqueness, order and choice can tell apart. The
counters that are capped (`MaxCheckpoints`, `MaxSources`, `MaxTip`,
`MaxReviews`, `MaxRules`, `MaxRuns`, `MaxReports`, and the number of commits and directories)
only grow in the code. The theorems hold without these bounds' being small; several rules for one
branch, of which the first counts, and several merges that are prepared are left
to `GatesHold`. `MaxDocuments` counts documents with those under way, so in
`CtPacks` two packs of one checkpoint overlap at every pair of their steps; that
its sessions and memories are of one repository leaves out only the refusals of
ids of another. A memory costs the whole
budget and everything else half of it, so each item may be the one that does not
fit, with one after it that does.
`BkCreate` has one
backup at a time (`MaxBackups`): backups share nothing but the home, and the
theorems are about any number. Its limits are such that a plugin may be too large
for a backup, a backup with a written plugin is by one too large for a reader
and one without is not, and archives from elsewhere exceed the limits of a
member, of the manifest and of the number of members by one.

In `RnRuns` the limit is no multiple of a chunk, so that it is passed within a
chunk (units 3 and 4 at once) or reached at the end of one, with more to come
after it; an excerpt is shorter than the limit. In
`MgOpens` a build can be behind, ahead and beside another, and two processes are
enough, since a transaction has the database to itself. In `WsTrees` two commands
on one workspace or two are all that overlap, and two commits tell the one
recorded from the one HEAD has moved to.

**Deadlock** is checked except in `SrcImports`, `CtPacks`, `MqGate`, `RnRuns` and
`WsTrees`: the bounds on rows, documents, reviews and runs, or the end of the one
command, end everything there is to do, and in `WsTrees` a hosted directory that
is half made blocks its name for ever.

**Symmetry** is used only in runs of safety and step properties, over ids that no
definition orders.

**Fairness.** Only `RnRuns` needs some. In `Runner`, `FairSpec` is weak fairness of
each copying goroutine, of the timer and the wait, and of the caller that gets
Run's result: Go schedules runnable goroutines, and a timer fires. Nothing is
assumed of the command: it may hang, fill its pipes and ignore signals. `Ends` has
the premise that no process it started keeps the pipes open for ever, since then
Run does not return.

## Proofs

| Module | Theorems | Argument |
|---|---|---|
| `CheckpointsProofs` | `TypeOK`, `AutoOnce`, `LatestIsLast`, `ClosedIsFinal`, `RevisionExists`, `HookAnswers`, `ImplementsLedger`, for any placement of repositories and work trees | the invariant joins the types with the links of sessions and rows: a row that names a session is of its repository, and the link is the last such row. Each transaction is looked at once (`StepKinds`): it appends one row, opens or closes a session, or leaves the tables; each kind keeps the invariant and is a step of the ledger. What a hook or a create reads is a commit of a git directory that may answer for the row (`HeadsOK`, `GitdirsOK`) and is still there when it is recorded (`CarriedOK`), because git drops no commits. The session a hook carries stays one of its repository (`OwnSession`), so a transaction that finds it unfit finds it closed |
| `SourcesProofs` | `TypeOK`, `IndexExact`, `NewestSearched`, `SupersededByLater`, `DeletionIsDurable`, `ClosedGainsNothing` | `IndexExact` and `NewestSearched` need each other: an import takes all live sources of its native id out of the index *because* the index has only unsuperseded ones. Durability follows from the check that the transaction repeats, not from the one before it |
| `FilesProofs`, of HookFiles | `TypeOK` for any commands; `NeverOverwritten`, `InstallChains`, `UninstallGivesBack` with `~Concurrent` | without overlap what the running command saw is still so; the invariant says for each step where the user's hook is. `HkConcurrent` shows that the assumption is needed |
| `FilesProofs`, of RestoreCommit | `TypeOK`, `NothingDestroyed`, for any number of overlapping commands; `ReplacedOnlyAsAllowed`, `FailureKeepsTarget` of one at a time | one directory per path; no two restores have the same directory staged or aside (`Apart`); an empty directory holds nobody's data and an open database is in a home that is somewhere (`DataInv`), so the only removals (staged directories, and `os.Remove` of one still empty) remove nothing of anyone's. Without overlap what `RestoreBegin` saw at the target is still so at each rename (`AloneInv`) |
| `MergeQueueProofs`, of MergeQueue | `TypeOK`; `GateHeld`; `PreparedOnSaid` with `~Resets` | reviews, rules, verifications and changes only grow (`Grows`), so what a merge has established stays established (`Gated`): the rule it chose stays the first, each name it no longer looks up had a passing executed run as its latest row at a time since (`Executed`). Branches only grow, so said <= onto <= tip until the check makes them equal (`Based`). With resets a branch may go away and come back between the two reads, hence the assumption |
| `MergeQueueProofs`, of Runner | `RunTypeOK`, `KeptIsPrefix`, `CodeIsOwn`, `OneStreamSafe`, for any limit, chunk, pipe and output | each copier has passed on what it has taken but for what it holds, and has stopped short only over the limit (`CopierOK`); a buffer that is one stream's own holds exactly the beginning of it (`OwnBuffer`); only two streams with output garble a shared one (`GarbledOK`); who was never started has written nothing; what is reported is read off when both copiers have stopped (`ReportOK`) |
| `ContinuityProofs` | `TypeOK`, `IndexExact`, `SupersededIsFinal`, `NothingStale`, `LinkIsLast`, `BudgetHeld`, for any number of overlapping commands | what a command has read stays good enough (`ReadOK`) because the tables only move on (`TablesGo`): superseded stays superseded, approved is never a candidate again, a session's last checkpoint is never an older one. Each action is shown to keep the invariant and `TablesGo` together. For the budget: what the loop has used and what a reader adds up are the same number after each item, and that number fits (`SelectionHolds`, by the least item where it would not) |
| `BackupsProofs` | `TypeOK`, `PluginAsRecorded`, `SnapshotBacked`, `CreatedReadable`, `ReaderExact`, for any number of overlapping commands and archives of any size | a command that is alone on its plugin finds the file as it left it, and nobody works on a settled plugin (`PluginInv`); a plugin nobody touched is as the snapshot has it, so what is collected and copied is that (`SinceSnapshot`); a half-made archive lists its members as they are (`Sound`), because the checksum is taken of what is written, and its manifest agrees with them as far as `Decoded` leaves their names alone; what a reader has got through is as it should be, and what is left of its limit is the limit without the bytes up to there (`ReadInv`), which only grow (`BytesGrow`): so a member that does not fit shows that the whole does not |
| `WorkspacesProofs` | `TypeOK`, `DirectoriesAsRecorded`, `RestoreAllOrNothing`, `CheckedOutAsRecorded`, for any number of repositories, workspaces and commands, each of which may fail or be killed anywhere | for each step of the command that makes a workspace, what it has done so far is there, and no other command makes it (`MakerOf`, `CommandInv`), so that what it removes when a step fails is its own, and what is left of it is among `undeleted` or `unpruned`; there is nothing of a workspace that nobody has begun, and only one that has a row is removed (`RowInv`, `RemoverOf`); who looked alone at a hosted name is still alone there, with no row yet, and one past git init has a whole directory (`HostInv`) |
| `MigrationsProofs` | `TypeOK`, `RanAsRecorded`, `OpenFits`, `RefusedForCause`, `NotLockedOut`, `RowsKept`, `DamagedUntouched`, for any number of commands, builds and versions | who is in a transaction has the lock, so nobody else has changed the database since: each stage of a transaction says how its copy may differ from what is committed (`WorkOK`: nothing but the column; filled checksums; rows and runs of versions that were missing, in step but for the one being applied). A commit therefore adds rows behind an accepted prefix, and nothing else ever writes. A refusal stands because gaps and other checksums stay, and a ledger only grows |

The assumptions are the ones the modules name (`PlacesAssumption`,
`IdsAssumption`, `HooksAssumption`, `RestoreAssumption`, `MergeAssumption`,
`ContinuityAssumption`, `BackupsAssumption`, `MigrationsAssumption`,
`RunnerAssumption`, `WorkspacesAssumption`):
`None` is no id, sets of ids do not clash, bounds are numbers, and a home's files
are finitely many, none of which is a directory of another. TLC evaluates
them on every run.

`~Concurrent`, `~Resets` and commands one at a time, where the table names them,
are the only other hypotheses.

Induction. What recursive functions add up to (`Selected`, `Spent`,
`BytesUpto`) is proved by least counterexample: a set of natural numbers that is
not empty has a least element (`LeastOne`), and a function defined from each number
to the next exists (`Iterates`), so that its definition is an equation.

`Runner` and `MergeQueue` share a module of proofs, hence the names `RunInit`,
`RunNext`, `RunSpec`, `RunTypeOK`; so do `HookFiles` and `RestoreCommit`.

Only model-checked: `Ends`, which is liveness.

## Findings

Runs that violate a statement of the repository; `PROJECT.json` quotes it.

* `HkConcurrent`: an install moves the user's hook aside; an uninstall that runs
  now sees only the original and gives it back; the install renames its wrapper over
  it. Nothing locks the hooks directory.
* `CkClones`: git prints `.git` as the common directory of every ordinary clone
  (`Matched`), so the first registered clone is taken for every other: a commit in
  the second works on the first one's HEAD and sessions. `CkSessions` shows what
  still holds there.

Weaker than they read, seen while modelling and in the models, but with no run
of their own:

* The hook counts active sessions before its transaction (`HookSessions`); with one started
  in between there are two, and the checkpoint is attributed to the first,
  where `cli/checkpoint.go:378` says "no guessed attribution".
* A verification whose command passed is recorded with another exit code when it
  wrote more than 1 MiB to a stream, or when the 30 s were over before it was
  waited for (`CodeIsOwn`). A process left behind with the pipes open keeps Run
  waiting past the 30 s (`Ends`).
* A plugin that writes to both streams at a time may have its output garbled, or
  make Across panic (`Panic`); `OneStreamSafe` is about the others.
* Empty checksums of an old ledger are filled in with those of whichever build
  comes first (`Filled`); nobody knows what SQL was run then.
* `workspace create` and `workspace remove` print success whatever becomes of
  their row (`CreateRow`, `RemoveRow`).
* A `repo create` cut off in git init blocks its name for ever, and two that
  overlap leave two rows of one directory (`lookedAlone`).
* `checkpoint create --revision REV` stores the text of REV, not the commit it
  resolved to (`CreateAtRevision`): a row for `HEAD` or a branch moves on, and one
  for a branch that is deleted names nothing (`RevisionExists` leaves them out).
* The hook of a linked work tree that is matched to another repository stores a
  commit which that repository has not (`GitDirs`).
* `queue merge` ignores an error of its rule query (`cli/collab.go:298`) and goes on
  as if there were no rule (`ReadRuleFails`); `GateHeld` leaves such merges out.
* `verify run` of a command that cannot be started records an executed run with exit
  code 1 (`StartFails`), which is no command's code.
* A backup of a file whose name is no UTF-8 is created, and then refused by its own
  reader: the manifest has another name than the archive (`cli/backup.go:304`,
  `Packed`).
* `workspace remove` marks the row removed when the directory could not be deleted
  (`cli/workspace.go:90`), and a restore that is undone says nothing of a directory
  or an entry in git's list that it could not remove (`cli/checkpoint.go:241`): the
  exceptions `undeleted` and `unpruned`.
* A `workspace create` whose `git worktree add` fails, or that is killed, may leave a
  tree without a row; no property asks for the reverse of `ActiveHasTree`.
* A deleted origin can be imported again under another kind: `DeletionIsDurable`
  speaks of kind and origin, as `docs/SECURITY.md:31` does.
* A directory that was empty when `commitRestore` inspected it is set aside
  without `--force` when it has been filled since: `ReplacedOnlyAsAllowed` holds
  of one command at a time, `NothingDestroyed` of any number.
* Only the first rule of a branch is enforced, and rules cannot be changed or
  removed; `GateHeld` speaks of the first.
* Two memories may supersede each other, one after the other, and then neither is
  found by search nor quoted (`MemorySupersede`).
* `context pack --session S --checkpoint C` does not ask whether C is a checkpoint
  of S (`PackBegin`).
* The base may move between the second comparison and the mark (`Mark`).
* The hook that a rule installs on a hosted repository turns away every push to its
  branch (`Refused`), also that of the merge that `queue merge` prepared
  (`cli/collab.go:259`, `README.md:397`).
* A backup counts the bytes of its members and a reader those of the whole stream,
  headers included: one just under the limit is created and cannot be read
  (`Total`, `StreamSize`; `CreatedReadable` leaves it out).
* Files are copied in the order of their names, so a push to a hosted repository
  during a backup may leave a ref in it whose commit is not.
* Installs that overlap, or a kill between file and row, leave a plugin whose file
  is not what its row says until the next command on it; `plugin run` does not
  compare them. `PluginAsRecorded` speaks of commands that were alone and ended.

## Not modelled, and the plan

In the order in which they come next:

1. `Dedup`: collapsing of streamed partials as an operator, against a reference
   definition over bounded inputs.
2. Composition of `Backups` and `RestoreCommit`: a home that is restored from a
   backup that was created is a home; and of `Migrations` and `RestoreCommit`: a home
   that is swapped while a command migrates it.
3. The rest of `repo.go` and `workspace.go`: mirrors (one git command, then one
   statement that says it was done), version sets (single statements that
   nothing reads), the branch of a workspace.
4. `SnapshotBacked` down to the restored home: that what a reader accepted of a
   created backup is what the home held, as one theorem over both modules.

Out of the plan: provider formats, redaction patterns and code heuristics
(text); the code graph (rebuilt by one command); the control plane, MCP, HTTP
and adapters (single statements or read-only). Liveness stays with TLC.
