---------------------------- MODULE RestoreCommit ---------------------------
(***************************************************************************)
(* RestoreCommit: putting a restored Across home where another directory   *)
(* may be (internal/cli/backup.go, config/config.go, store/store.go).      *)
(*                                                                         *)
(* A restore looks at the target, unpacks the archive beside it, looks     *)
(* again and renames.  Other across commands create the same home by path, *)
(* in steps, and hold its database open.  os.Rename never replaces a       *)
(* directory.                                                              *)
(***************************************************************************)
CONSTANTS
  Dir,          \* directories that can come into being
  Name,         \* the names beside the target that a previous home may be given
  Proc,         \* running across commands, restores among them
  Target,       \* the path --target-home names
  Staged,       \* the private name of a directory being unpacked
  None          \* no such directory

ASSUME RestoreAssumption ==
  /\ Target \notin Name /\ Staged \notin Name /\ None \notin Name
  /\ Target # Staged /\ Target # None /\ Staged # None
  /\ None \notin Dir

VARIABLES
  kind,         \* what each directory is; "tree" has files but no across.db
  at,           \* where it is
  used,         \* those holding what a user or a command has put there
  pc,           \* where each command stands
  force,        \* whether a restore was given --force
  mine,         \* the directory it has staged, or whose database it has open
  aside,        \* the directory it has renamed out of the way
  wasEmpty,     \* whether that was empty when it looked
  before,       \* what was at the target when the restore began
  overlap       \* whether commands and the user may act at the same time; constant

dirs  == <<kind, at, used>>
local == <<force, mine, aside, wasEmpty, before>>
vars  == <<kind, at, used, pc, force, mine, aside, wasEmpty, before, overlap>>

Vacant(path) == \A d \in Dir : at[d] # path

OnePerPath ==
  \A c, d \in Dir : at[c] = at[d] /\ at[c] \in Name \cup {Target} => c = d

\* A restore that is about to rename has something to rename.
RegisterOK(p) ==
  /\ pc[p] \in {"commit", "place", "setaside", "swap"} =>
       mine[p] \in Dir /\ at[mine[p]] = Staged /\ kind[mine[p]] = "home"
  /\ pc[p] = "swap" => aside[p] \in Dir /\ at[aside[p]] \in Name

TypeOK ==
  /\ kind \in [Dir -> {"unused", "empty", "tree", "home"}]
  /\ at \in [Dir -> Name \cup {Target, Staged, None}]
  /\ used \subseteq Dir
  /\ \A d \in Dir : kind[d] = "unused" <=> at[d] = None
  /\ OnePerPath
  /\ pc \in [Proc -> {"idle", "root", "subs", "db", "open",
                      "stage", "commit", "place", "setaside", "swap"}]
  /\ force \in [Proc -> BOOLEAN]
  /\ mine \in [Proc -> Dir \cup {None}]
  /\ aside \in [Proc -> Dir \cup {None}]
  /\ wasEmpty \in [Proc -> BOOLEAN]
  /\ before \in [Proc -> Dir \cup {None}]
  /\ overlap \in BOOLEAN
  /\ \A p \in Proc : RegisterOK(p)

Init ==
  /\ kind = [d \in Dir |-> "unused"]
  /\ at = [d \in Dir |-> None]
  /\ used = {}
  /\ pc = [p \in Proc |-> "idle"]
  /\ force = [p \in Proc |-> FALSE]
  /\ mine = [p \in Proc |-> None]
  /\ aside = [p \in Proc |-> None]
  /\ wasEmpty = [p \in Proc |-> FALSE]
  /\ before = [p \in Proc |-> None]
  /\ overlap \in BOOLEAN

MayAct == overlap \/ \A p \in Proc : pc[p] = "idle"

MayBegin(p) == pc[p] = "idle" /\ MayAct

Goto(p, to) == pc' = [pc EXCEPT ![p] = to] /\ UNCHANGED overlap

\* The end of a command; a staged directory is removed with it.
Unstage(p) ==
  IF mine[p] # None /\ at[mine[p]] = Staged
  THEN /\ kind' = [kind EXCEPT ![mine[p]] = "unused"]
       /\ at' = [at EXCEPT ![mine[p]] = None]
  ELSE UNCHANGED <<kind, at>>

Forget(p) ==
  /\ mine' = [mine EXCEPT ![p] = None]
  /\ aside' = [aside EXCEPT ![p] = None]
  /\ wasEmpty' = [wasEmpty EXCEPT ![p] = FALSE]
  /\ before' = [before EXCEPT ![p] = None]
  /\ force' = [force EXCEPT ![p] = FALSE]

Finish(p) == Goto(p, "idle") /\ Forget(p)

\* A command is killed, or ends with an error and leaves things as they are.  A
\* killed restore leaks its staged directory, which nothing looks at again.
GiveUp(p) ==
  /\ pc[p] # "idle"
  /\ Unstage(p)
  /\ Finish(p)
  /\ UNCHANGED used

-----------------------------------------------------------------------------
(* The user: a directory at the target's path, and files of his own in it. *)

MakeDirectory(d) ==
  /\ kind[d] = "unused"
  /\ Vacant(Target)
  /\ kind' = [kind EXCEPT ![d] = "empty"]
  /\ at' = [at EXCEPT ![d] = Target]

UserMakes(d) ==
  /\ MayAct
  /\ MakeDirectory(d)
  /\ UNCHANGED <<used, pc, local, overlap>>

UserFills(d) ==
  /\ MayAct
  /\ at[d] = Target /\ kind[d] = "empty"
  /\ kind' = [kind EXCEPT ![d] = "tree"]
  /\ used' = used \cup {d}
  /\ UNCHANGED <<at, pc, local, overlap>>

-----------------------------------------------------------------------------
(* store.Open of any command: EnsureHome makes the home and its            *)
(* subdirectories, then SQLite makes the database.                         *)

OpenBegin(p) ==
  /\ MayBegin(p)
  /\ Goto(p, "root")
  /\ UNCHANGED <<dirs, local>>

EnsureRoot(p) ==
  /\ pc[p] = "root"
  /\ IF Vacant(Target) THEN \E d \in Dir : MakeDirectory(d) ELSE UNCHANGED <<kind, at>>
  /\ Goto(p, "subs")
  /\ UNCHANGED <<used, local>>

\* The subdirectories; their parent is made again when it has gone meanwhile.
EnsureSubdirectories(p) ==
  /\ pc[p] = "subs"
  /\ IF Vacant(Target)
     THEN \E d \in Dir : /\ kind[d] = "unused"
                         /\ kind' = [kind EXCEPT ![d] = "tree"]
                         /\ at' = [at EXCEPT ![d] = Target]
     ELSE \E d \in Dir : /\ at[d] = Target
                         /\ kind' = IF kind[d] = "empty" THEN [kind EXCEPT ![d] = "tree"]
                                    ELSE kind
                         /\ UNCHANGED at
  /\ Goto(p, "db")
  /\ UNCHANGED <<used, local>>

OpenDatabase(p) ==
  /\ pc[p] = "db"
  /\ \E d \in Dir : /\ at[d] = Target
                    /\ kind' = [kind EXCEPT ![d] = "home"]
                    /\ mine' = [mine EXCEPT ![p] = d]
  /\ Goto(p, "open")
  /\ UNCHANGED <<at, used, force, aside, wasEmpty, before>>

\* A connection writes into the directory it was opened in, wherever that is
\* now; a later connection of the pool is opened by path.
Write(p, d) ==
  /\ pc[p] = "open"
  /\ \/ d = mine[p]
     \/ at[d] = Target /\ kind[d] = "home"
  /\ used' = used \cup {d}
  /\ Finish(p)
  /\ UNCHANGED <<kind, at>>

-----------------------------------------------------------------------------
(* across backup restore.                                                  *)

\* Faulty variant: any directory may be replaced with --force.
AllowedIfForced(f) ==
  \A d \in Dir : at[d] = Target => kind[d] = "empty" \/ f

\* inspectRestoreTarget and restoreTargetAllowed: a missing or empty target, or
\* with --force an Across home.
Allowed(f) ==
  \A d \in Dir : at[d] = Target =>
    \/ kind[d] = "empty"
    \/ kind[d] = "home" /\ f

\* What inspectRestoreTarget finds.
Found == IF Vacant(Target) THEN {None} ELSE {d \in Dir : at[d] = Target}

RestoreBegin(p, f) ==
  /\ MayBegin(p)
  /\ Allowed(f)
  /\ Goto(p, "stage")
  /\ force' = [force EXCEPT ![p] = f]
  /\ \E d \in Found : before' = [before EXCEPT ![p] = d]
  /\ UNCHANGED <<dirs, mine, aside, wasEmpty>>

\* readBackupArchive, validateSQLiteSnapshot and EnsureHome, in the staged
\* directory; an archive that fails them ends the command (GiveUp).
Stage(p, d) ==
  /\ pc[p] = "stage"
  /\ kind[d] = "unused"
  /\ kind' = [kind EXCEPT ![d] = "home"]
  /\ at' = [at EXCEPT ![d] = Staged]
  /\ mine' = [mine EXCEPT ![p] = d]
  /\ Goto(p, "commit")
  /\ UNCHANGED <<used, force, aside, wasEmpty, before>>

\* commitRestore looks again; what is not allowed now ends it (GiveUp).
Commit(p) ==
  /\ pc[p] = "commit"
  /\ Allowed(force[p])
  /\ Goto(p, IF Vacant(Target) THEN "place" ELSE "setaside")
  /\ wasEmpty' = [wasEmpty EXCEPT ![p] =
                    \E d \in Dir : at[d] = Target /\ kind[d] = "empty"]
  /\ UNCHANGED <<dirs, force, mine, aside, before>>

\* Nothing was there; the rename fails when something is there now (GiveUp).
Place(p) ==
  /\ pc[p] = "place"
  /\ Vacant(Target)
  /\ at' = [at EXCEPT ![mine[p]] = Target]
  /\ Finish(p)
  /\ UNCHANGED <<kind, used>>

\* The directory at the target, whatever it is by now, gets an unused name.
SetAside(p, d, name) ==
  /\ pc[p] = "setaside"
  /\ at[d] = Target /\ Vacant(name)
  /\ at' = [at EXCEPT ![d] = name]
  /\ aside' = [aside EXCEPT ![p] = d]
  /\ Goto(p, "swap")
  /\ UNCHANGED <<kind, used, force, mine, wasEmpty, before>>

\* Faulty variant: RemoveAll of the directory that was empty.
SwapRemovingAll(p) ==
  /\ pc[p] = "swap"
  /\ Vacant(Target)
  /\ IF wasEmpty[p]
     THEN /\ at' = [at EXCEPT ![mine[p]] = Target, ![aside[p]] = None]
          /\ kind' = [kind EXCEPT ![aside[p]] = "unused"]
     ELSE /\ at' = [at EXCEPT ![mine[p]] = Target]
          /\ UNCHANGED kind
  /\ Finish(p)
  /\ UNCHANGED used

\* The restored home takes its place.  os.Remove deletes the old directory only
\* if it is still empty.
Swap(p) ==
  /\ pc[p] = "swap"
  /\ Vacant(Target)
  /\ IF wasEmpty[p] /\ kind[aside[p]] = "empty"
     THEN /\ at' = [at EXCEPT ![mine[p]] = Target, ![aside[p]] = None]
          /\ kind' = [kind EXCEPT ![aside[p]] = "unused"]
     ELSE /\ at' = [at EXCEPT ![mine[p]] = Target]
          /\ UNCHANGED kind
  /\ Finish(p)
  /\ UNCHANGED used

\* Faulty variant: no rollback.
SwapFailsForGood(p) ==
  /\ pc[p] = "swap"
  /\ kind' = [kind EXCEPT ![mine[p]] = "unused"]
  /\ at' = [at EXCEPT ![mine[p]] = None]
  /\ Finish(p)
  /\ UNCHANGED used

\* The second rename fails, because of the disk or because another command has
\* made the target again.  The first one is undone if it can be.
SwapFails(p) ==
  /\ pc[p] = "swap"
  /\ kind' = [kind EXCEPT ![mine[p]] = "unused"]
  /\ at' = IF Vacant(Target)
           THEN [at EXCEPT ![mine[p]] = None, ![aside[p]] = Target]
           ELSE [at EXCEPT ![mine[p]] = None]
  /\ Finish(p)
  /\ UNCHANGED used

-----------------------------------------------------------------------------
CommandStep(p) ==
  \/ OpenBegin(p) \/ EnsureRoot(p) \/ EnsureSubdirectories(p) \/ OpenDatabase(p)
  \/ \E d \in Dir : Write(p, d)

RestoreStep(p) ==
  \/ \E f \in BOOLEAN : RestoreBegin(p, f)
  \/ \E d \in Dir : Stage(p, d)
  \/ Commit(p)
  \/ Place(p)
  \/ \E d \in Dir, name \in Name : SetAside(p, d, name)
  \/ Swap(p)
  \/ SwapFails(p)

Next ==
  \/ \E d \in Dir : UserMakes(d) \/ UserFills(d)
  \/ \E p \in Proc : CommandStep(p) \/ RestoreStep(p) \/ GiveUp(p)

Spec == Init /\ [][Next]_vars

-----------------------------------------------------------------------------
(* Properties.                                                             *)

\* Safety: what a user or a command has put into a directory is at the target
\* or under a name beside it, whatever restores and commands overlap and
\* wherever they are killed (docs/SECURITY.md:26).
NothingDestroyed == \A d \in used : at[d] \in Name \cup {Target}

\* Action property: a directory leaves the target only if it is empty, or an
\* Across home and the restore has --force (README.md:330), when nobody acts
\* between the look and the rename.
ReplacedOnlyAsAllowed ==
  [][\A d \in Dir : ~overlap /\ at[d] = Target /\ at'[d] # Target =>
       \/ kind[d] = "empty"
       \/ kind[d] = "home" /\ \E p \in Proc : pc[p] = "setaside" /\ force[p]]_vars

\* Action property: a restore that fails after it has renamed leaves at the
\* target what was there when it began, when nobody acts in between.
FailureKeepsTarget ==
  [][\A p \in Proc : ~overlap /\ SwapFails(p) => at'[before[p]] = Target]_vars
=============================================================================
