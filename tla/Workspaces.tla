----------------------------- MODULE Workspaces -----------------------------
(***************************************************************************)
(* Workspaces: hosted repositories, work trees of them and restored        *)
(* checkpoints, each a directory that git makes and a row that Across      *)
(* inserts (internal/cli/repo.go, workspace.go, checkpoint.go).            *)
(*                                                                         *)
(* Git commands, removals of directories and statements are steps of their *)
(* own; any of them may fail, and a command may be killed between two.     *)
(***************************************************************************)
EXTENDS Naturals

CONSTANTS
  Name,         \* names of hosted repositories
  Workspace,    \* ids of workspaces (each is made once)
  Commit,       \* commits
  HeadRef,      \* a revision that is not a commit id, as HEAD
  Proc,         \* running commands
  None

ASSUME WorkspacesAssumption ==
  None \notin Name \cup Workspace \cup Commit \cup {HeadRef} /\ HeadRef \notin Commit

VARIABLES
  bare,         \* the directory of each hosted repository
  rows,         \* how many rows of repositories name it
  objects,      \* the commits it has
  head,         \* the commit of its HEAD
  tree,         \* the directory of each workspace
  at,           \* the commit that is checked out there
  registered,   \* whether git has it among the work trees of its repository
  row,          \* its row: none, active or removed
  rev,          \* the revision in that row
  pc, reg,      \* where each command stands, and its local variables
  lookedAlone,  \* history: the names no two creates have looked at together
  made,         \* history: how the command that makes each workspace ended
  removing,     \* history: the workspaces whose removal has begun
  undeleted,    \* history: those whose directory os.RemoveAll could not remove
  unpruned      \* history: those after which git worktree prune failed

repository == <<bare, rows, objects, head, lookedAlone>>
leftovers  == <<undeleted, unpruned>>
workspace  == <<tree, at, registered, row, rev, removing, undeleted, unpruned>>
vars       == <<repository, workspace, pc, reg, made>>

Revision == Commit \cup {HeadRef}

Blank == [name |-> None, ws |-> None, rev |-> None, at |-> None]

Hosting  == {"init", "hostrow"}
Making   == {"add", "addrow", "restore", "checkout", "restorerow",
             "undogit", "undodir", "prune"}
Removing == {"removegit", "removedir", "removerow"}
Step     == {"idle"} \cup Hosting \cup Making \cup Removing

Register == [name : Name \cup {None}, ws : Workspace \cup {None},
             rev : Revision \cup {None}, at : Commit \cup {None}]

Ending == {"created", "refused", "restored", "failed", "cut"}

TypeOK ==
  /\ bare \in [Name -> {"none", "partial", "whole"}]
  /\ rows \in [Name -> Nat]
  /\ objects \in [Name -> SUBSET Commit]
  /\ head \in [Name -> Commit \cup {None}]
  /\ \A n \in Name : head[n] \in objects[n] \cup {None}
  /\ tree \in [Workspace -> {"none", "partial", "worktree", "clone"}]
  /\ at \in [Workspace -> Commit \cup {None}]
  /\ \A w \in Workspace : tree[w] \in {"worktree", "clone"} => at[w] # None
  /\ registered \in [Workspace -> BOOLEAN]
  /\ row \in [Workspace -> {"none", "active", "removed"}]
  /\ rev \in [Workspace -> Revision \cup {None}]
  /\ pc \in [Proc -> Step]
  /\ reg \in [Proc -> Register]
  /\ lookedAlone \subseteq Name
  /\ made \in [Workspace -> {"unused", "begun"} \cup Ending]
  /\ removing \subseteq Workspace
  /\ undeleted \subseteq Workspace /\ unpruned \subseteq Workspace

Init ==
  /\ bare = [n \in Name |-> "none"] /\ rows = [n \in Name |-> 0]
  /\ objects = [n \in Name |-> {}] /\ head = [n \in Name |-> None]
  /\ tree = [w \in Workspace |-> "none"] /\ at = [w \in Workspace |-> None]
  /\ registered = [w \in Workspace |-> FALSE]
  /\ row = [w \in Workspace |-> "none"] /\ rev = [w \in Workspace |-> None]
  /\ pc = [p \in Proc |-> "idle"] /\ reg = [p \in Proc |-> Blank]
  /\ lookedAlone = Name
  /\ made = [w \in Workspace |-> "unused"]
  /\ removing = {} /\ undeleted = {} /\ unpruned = {}

Goto(p, step) == pc' = [pc EXCEPT ![p] = step]

\* The command ends.
End(p) == Goto(p, "idle") /\ reg' = [reg EXCEPT ![p] = Blank]

\* The command that makes workspace w ends.
EndMaking(p, how) ==
  End(p) /\ made' = [made EXCEPT ![reg[p].ws] = how]

Resolve(n, r) == IF r = HeadRef THEN head[n]
                 ELSE IF r \in objects[n] THEN r ELSE None

-----------------------------------------------------------------------------
(* repo create.  What is pushed to a repository is git's.                  *)

HostLook(p, n) ==
  /\ pc[p] = "idle" /\ bare[n] = "none"
  /\ Goto(p, "init")
  /\ reg' = [reg EXCEPT ![p].name = n]
  /\ lookedAlone' = IF \E q \in Proc : pc[q] \in Hosting /\ reg[q].name = n
                    THEN lookedAlone \ {n} ELSE lookedAlone
  /\ UNCHANGED <<bare, rows, objects, head, workspace, made>>

HostInit(p) ==
  LET n == reg[p].name IN
  /\ pc[p] = "init"
  /\ bare' = [bare EXCEPT ![n] = "whole"]
  /\ Goto(p, "hostrow")
  /\ UNCHANGED <<rows, objects, head, lookedAlone, workspace, reg, made>>

\* git init fails, and leaves what it has made by then.
HostInitFails(p) ==
  LET n == reg[p].name IN
  /\ pc[p] = "init"
  /\ bare' = [bare EXCEPT ![n] = IF @ = "none" THEN "partial" ELSE @]
  /\ End(p)
  /\ UNCHANGED <<rows, objects, head, lookedAlone, workspace, made>>

HostRow(p) ==
  /\ pc[p] = "hostrow"
  /\ \/ rows' = [rows EXCEPT ![reg[p].name] = @ + 1]
     \/ UNCHANGED rows
  /\ End(p)
  /\ UNCHANGED <<bare, objects, head, lookedAlone, workspace, made>>

Push(n, c) ==
  /\ bare[n] = "whole"
  /\ objects' = [objects EXCEPT ![n] = @ \cup {c}]
  /\ head' = [head EXCEPT ![n] = c]
  /\ UNCHANGED <<bare, rows, lookedAlone, workspace, pc, reg, made>>

-----------------------------------------------------------------------------
(* workspace create.                                                       *)

\* Without --revision it is what HEAD is now.
CreateBegin(p, w, n, r) ==
  /\ pc[p] = "idle" /\ rows[n] > 0 /\ made[w] = "unused"
  /\ reg' = [reg EXCEPT ![p] = [name |-> n, ws |-> w, rev |-> r, at |-> None]]
  /\ made' = [made EXCEPT ![w] = "begun"]
  /\ Goto(p, "add")
  /\ UNCHANGED <<repository, workspace>>

\* Faulty variant: a revision that names nothing.
AddTreeUnresolved(p, r) ==
  LET w == reg[p].ws IN
  /\ tree' = [tree EXCEPT ![w] = "worktree"]
  /\ at' = [at EXCEPT ![w] = Resolve(reg[p].name, r)]
  /\ registered' = [registered EXCEPT ![w] = TRUE]
  /\ UNCHANGED <<row, rev, removing, leftovers>>

\* git worktree add of revision r.
AddTree(p, r) ==
  LET w == reg[p].ws
      c == Resolve(reg[p].name, r) IN
  /\ c # None
  /\ tree' = [tree EXCEPT ![w] = "worktree"]
  /\ at' = [at EXCEPT ![w] = c]
  /\ registered' = [registered EXCEPT ![w] = TRUE]
  /\ UNCHANGED <<row, rev, removing, leftovers>>

CreateAdd(p) ==
  /\ pc[p] = "add"
  /\ AddTree(p, reg[p].rev)
  /\ Goto(p, "addrow")
  /\ UNCHANGED <<repository, reg, made>>

\* Git fails, also with the tree made: what post-checkout returns is its status.
CreateAddFails(p) ==
  /\ pc[p] = "add"
  /\ AddTree(p, reg[p].rev) \/ UNCHANGED workspace
  /\ EndMaking(p, "refused")
  /\ UNCHANGED repository

InsertRow(p) ==
  LET w == reg[p].ws IN
  /\ row' = [row EXCEPT ![w] = "active"]
  /\ rev' = [rev EXCEPT ![w] = reg[p].rev]
  /\ UNCHANGED <<tree, at, registered, removing, leftovers>>

\* The error of the INSERT is ignored: the path is printed either way.
CreateRow(p) ==
  /\ pc[p] = "addrow"
  /\ InsertRow(p) \/ UNCHANGED workspace
  /\ EndMaking(p, "created")
  /\ UNCHANGED repository

-----------------------------------------------------------------------------
(* checkpoint restore, of a checkpoint of repository n at revision r.      *)

RestoreBegin(p, w, n, r) ==
  /\ pc[p] = "idle" /\ rows[n] > 0 /\ made[w] = "unused"
  /\ Resolve(n, r) # None
  /\ reg' = [reg EXCEPT ![p] = [name |-> n, ws |-> w, rev |-> r, at |-> Resolve(n, r)]]
  /\ made' = [made EXCEPT ![w] = "begun"]
  /\ Goto(p, "restore")
  /\ UNCHANGED <<repository, workspace>>

RestoreAdd(p) ==
  /\ pc[p] = "restore"
  /\ AddTree(p, reg[p].at)
  /\ Goto(p, "restorerow")
  /\ UNCHANGED <<repository, reg, made>>

\* If git worktree add fails, what there is of the directory is removed and the
\* repository is cloned; a clone that fails may leave a part of itself, or of
\* the tree if that could not be removed.  The list may keep the tree.
RestoreClone(p) ==
  LET w == reg[p].ws IN
  /\ pc[p] = "restore"
  /\ registered' \in {registered, [registered EXCEPT ![w] = TRUE]}
  /\ \/ /\ tree' = [tree EXCEPT ![w] = "clone"]
        /\ at' = [at EXCEPT ![w] = head[reg[p].name]]
        /\ Goto(p, "checkout")
     \/ /\ tree' \in {tree, [tree EXCEPT ![w] = "partial"]}
        /\ UNCHANGED at
        /\ Goto(p, "undogit")
  /\ UNCHANGED <<repository, row, rev, removing, leftovers, reg, made>>

\* Faulty variant: the error of git checkout is ignored.
RestoreCheckoutIgnored(p) ==
  /\ pc[p] = "checkout"
  /\ at' \in {at, [at EXCEPT ![reg[p].ws] = reg[p].at]}
  /\ Goto(p, "restorerow")
  /\ UNCHANGED <<repository, tree, registered, row, rev, removing, leftovers, reg, made>>

RestoreCheckout(p) ==
  /\ pc[p] = "checkout"
  /\ \/ /\ at' = [at EXCEPT ![reg[p].ws] = reg[p].at]
        /\ Goto(p, "restorerow")
     \/ UNCHANGED at /\ Goto(p, "undogit")
  /\ UNCHANGED <<repository, tree, registered, row, rev, removing, leftovers, reg, made>>

RestoreRow(p) ==
  /\ pc[p] = "restorerow"
  /\ \/ InsertRow(p) /\ EndMaking(p, "restored")
     \/ UNCHANGED <<workspace, reg, made>> /\ Goto(p, "undogit")
  /\ UNCHANGED repository

\* git worktree remove --force: only of a work tree it knows, which it takes off
\* the list also if files of the tree remain.
RemoveByGit(w) ==
  \/ /\ registered[w]
     /\ \/ tree' = [tree EXCEPT ![w] = "none"]
        \/ tree[w] # "none" /\ tree' = [tree EXCEPT ![w] = "partial"]
     /\ registered' = [registered EXCEPT ![w] = FALSE]
  \/ UNCHANGED <<tree, registered>>

\* os.RemoveAll, whose error is ignored: then the tree or a part of it remains.
RemoveAll(w) ==
  \/ /\ tree' = [tree EXCEPT ![w] = "none"]
     /\ undeleted' = undeleted \ {w}
  \/ /\ tree[w] # "none"
     /\ tree' \in {tree, [tree EXCEPT ![w] = "partial"]}
     /\ undeleted' = undeleted \cup {w}

\* cleanupRestoreWorkspace: git worktree remove, RemoveAll, git worktree prune,
\* each whatever the one before it said.
UndoGit(p) ==
  /\ pc[p] = "undogit"
  /\ RemoveByGit(reg[p].ws)
  /\ Goto(p, "undodir")
  /\ UNCHANGED <<repository, at, row, rev, removing, leftovers, reg, made>>

\* Faulty variant: the directory is left to git.
UndoDirNot(p) ==
  /\ pc[p] = "undodir"
  /\ Goto(p, "prune")
  /\ UNCHANGED <<repository, workspace, reg, made>>

UndoDir(p) ==
  /\ pc[p] = "undodir"
  /\ RemoveAll(reg[p].ws)
  /\ Goto(p, "prune")
  /\ UNCHANGED <<repository, at, registered, row, rev, removing, unpruned, reg, made>>

\* Git drops from its list the trees that are not there; of others, and of those
\* of which a part is left, it may drop some too.  It may fail, to no effect.
Prune(p) ==
  LET w == reg[p].ws IN
  /\ pc[p] = "prune"
  /\ \/ \E gone \in SUBSET {v \in Workspace : tree[v] \in {"none", "partial"}} :
          /\ tree[w] = "none" => w \in gone
          /\ registered' = [v \in Workspace |-> registered[v] /\ v \notin gone]
          /\ UNCHANGED unpruned
     \/ UNCHANGED registered /\ unpruned' = unpruned \cup {w}
  /\ EndMaking(p, "failed")
  /\ UNCHANGED <<repository, tree, at, row, rev, removing, undeleted>>

-----------------------------------------------------------------------------
(* workspace remove.                                                       *)

RemoveBegin(p, w) ==
  /\ pc[p] = "idle" /\ row[w] # "none"
  /\ reg' = [reg EXCEPT ![p].ws = w]
  /\ removing' = removing \cup {w}
  /\ Goto(p, "removegit")
  /\ UNCHANGED <<repository, tree, at, registered, row, rev, leftovers, made>>

RemoveGit(p) ==
  /\ pc[p] = "removegit"
  /\ RemoveByGit(reg[p].ws)
  /\ Goto(p, "removedir")
  /\ UNCHANGED <<repository, at, row, rev, removing, leftovers, reg, made>>

\* Faulty variant: the directory is left to git, which does not know clones.
RemoveDirNot(p) ==
  /\ pc[p] = "removedir"
  /\ Goto(p, "removerow")
  /\ UNCHANGED <<repository, workspace, reg, made>>

RemoveDir(p) ==
  /\ pc[p] = "removedir"
  /\ RemoveAll(reg[p].ws)
  /\ Goto(p, "removerow")
  /\ UNCHANGED <<repository, at, registered, row, rev, removing, unpruned, reg, made>>

\* Whatever has become of the tree; the error of the UPDATE is ignored too.
RemoveRow(p) ==
  /\ pc[p] = "removerow"
  /\ \/ row' = [row EXCEPT ![reg[p].ws] = "removed"]
     \/ UNCHANGED row
  /\ End(p)
  /\ UNCHANGED <<repository, tree, at, registered, rev, removing, leftovers, made>>

-----------------------------------------------------------------------------
\* Git may be killed with its command, in the middle of what it makes or removes.
Kill(p) ==
  LET w == reg[p].ws IN
  /\ pc[p] # "idle"
  /\ made' = IF pc[p] \in Making THEN [made EXCEPT ![w] = "cut"] ELSE made
  /\ \/ UNCHANGED <<bare, tree, registered>>
     \/ /\ \/ pc[p] \in {"add", "restore"}
           \/ pc[p] \in {"undogit", "undodir", "removegit", "removedir"} /\ tree[w] # "none"
        /\ tree' = [tree EXCEPT ![w] = "partial"]
        /\ registered' \in {registered, [registered EXCEPT ![w] = pc[p] \in {"add", "restore"}]}
        /\ UNCHANGED bare
     \/ /\ pc[p] = "init" /\ bare[reg[p].name] = "none"
        /\ bare' = [bare EXCEPT ![reg[p].name] = "partial"]
        /\ UNCHANGED <<tree, registered>>
  /\ End(p)
  /\ UNCHANGED <<rows, objects, head, lookedAlone, at, row, rev, removing, leftovers>>

Next ==
  \/ \E n \in Name, c \in Commit : Push(n, c)
  \/ \E p \in Proc :
       \/ \E n \in Name : HostLook(p, n)
       \/ HostInit(p) \/ HostInitFails(p) \/ HostRow(p)
       \/ \E w \in Workspace, n \in Name, r \in Revision :
            CreateBegin(p, w, n, r) \/ RestoreBegin(p, w, n, r)
       \/ CreateAdd(p) \/ CreateAddFails(p) \/ CreateRow(p)
       \/ RestoreAdd(p) \/ RestoreClone(p) \/ RestoreCheckout(p) \/ RestoreRow(p)
       \/ UndoGit(p) \/ UndoDir(p) \/ Prune(p)
       \/ \E w \in Workspace : RemoveBegin(p, w)
       \/ RemoveGit(p) \/ RemoveDir(p) \/ RemoveRow(p)
       \/ Kill(p)

Spec == Init /\ [][Next]_vars

-----------------------------------------------------------------------------
(* Properties.                                                             *)

\* A hosted repository that has a row is whole; and it has one row, unless two
\* creates of one name had both looked before either had made the directory.
HostedWhole ==
  \A n \in Name : /\ rows[n] > 0 => bare[n] = "whole"
                  /\ n \in lookedAlone => rows[n] <= 1

\* An active workspace has its tree, and git knows it if it is one of its work
\* trees, until somebody begins to remove it.
ActiveHasTree ==
  \A w \in Workspace : row[w] = "active" /\ w \notin removing =>
    tree[w] = "clone" \/ (tree[w] = "worktree" /\ registered[w])

\* A workspace that is marked removed has no tree, and never gets one again,
\* unless the last RemoveAll of it failed: the row is marked all the same, and
\* the next `workspace remove` of it may still take the tree away.
RemovedIsGone ==
  \A w \in Workspace : row[w] = "removed" => tree[w] = "none" \/ w \in undeleted

\* A row says of its directory what is so, whichever git command or statement
\* failed, or was killed, in the command that makes or removes it, and also if
\* git would not remove a tree, or two commands remove it at a time; the one
\* exception is a directory that could not be deleted.
DirectoriesAsRecorded == HostedWhole /\ ActiveHasTree /\ RemovedIsGone

\* A restore that succeeds has a row, one that fails has none, whichever of its
\* steps failed, with or without the clone; and nothing is left of its tree
\* unless RemoveAll failed while it was undone, nor in git's list unless that or
\* git worktree prune did.  Only one that is killed leaves more half done.
RestoreAllOrNothing ==
  \A w \in Workspace :
    /\ made[w] = "restored" => row[w] # "none"
    /\ made[w] = "failed" =>
         /\ row[w] = "none"
         /\ tree[w] = "none" \/ w \in undeleted
         /\ registered[w] => w \in undeleted \cup unpruned

\* What is checked out in a workspace is the commit its row names, if that is a
\* commit id (the row of a checkpoint may say HEAD), wherever HEAD is by now
\* and whichever way the tree was made.
CheckedOutAsRecorded ==
  \A w \in Workspace :
    (row[w] # "none" /\ tree[w] # "none" /\ rev[w] \in Commit) => at[w] = rev[w]
=============================================================================
