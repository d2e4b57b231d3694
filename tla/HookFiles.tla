------------------------------ MODULE HookFiles -----------------------------
(***************************************************************************)
(* HookFiles: installing and removing one Across hook beside a hook that   *)
(* the user has (internal/git/hook.go).                                    *)
(*                                                                         *)
(* There is no lock on a hooks directory: a command looks at the two files *)
(* and then renames, and each look and each rename is a step.  A command   *)
(* can be killed between any two of them.  (Names are told apart from      *)
(* those of RestoreCommit: FilesProofs extends both modules.)              *)
(***************************************************************************)
CONSTANTS
  UserHook,     \* contents of hooks that are not Across's
  Command,      \* running hook install and hook uninstall commands
  Concurrent,   \* whether two commands may run at the same time
  NoFile        \* no such file

\* The two contents InstallHook writes: the Across commands alone, and the
\* wrapper that also runs the file <hook>.across-orig.
Plain   == "plain"
Wrapper == "wrapper"

\* isManagedHook: the marker line is in both.
Managed == {Plain, Wrapper}

ASSUME HooksAssumption ==
  /\ NoFile \notin UserHook /\ NoFile \notin Managed
  /\ UserHook \cap Managed = {}
  /\ Concurrent \in BOOLEAN

VARIABLES
  hook,         \* the file git runs
  original,     \* <hook>.across-orig
  owned,        \* the hooks the user wrote and did not take away again
  step,         \* where each command stands
  seen,         \* whether it saw <hook>.across-orig
  displaced,    \* the file it has renamed to an unused name
  result        \* how the last command of the process ended

files    == <<hook, original>>
hookVars == <<hook, original, owned, step, seen, displaced, result>>

Content == UserHook \cup Managed

\* The steps at which a command relies on what it saw of <hook>.across-orig.
SeenOK(p) ==
  /\ step[p] \in {"setaside", "restore", "giveback"} => seen[p]
  /\ step[p] \in {"preserve", "publish", "remove"} => ~seen[p]
  /\ step[p] \in {"upgrade", "restore"} => displaced[p] # NoFile

HookTypeOK ==
  /\ hook \in Content \cup {NoFile}
  /\ original \in Content \cup {NoFile}
  /\ owned \subseteq UserHook
  /\ step \in [Command -> {"idle", "install", "preserve", "publish", "replace", "fresh",
                      "displace", "upgrade", "uninstall", "setaside", "restore",
                      "giveback", "remove"}]
  /\ seen \in [Command -> BOOLEAN]
  /\ displaced \in [Command -> Content \cup {NoFile}]
  /\ result \in [Command -> {"none", "installed", "uninstalled", "failed"}]
  /\ \A p \in Command : SeenOK(p)

HookInit ==
  /\ hook = NoFile
  /\ original = NoFile
  /\ owned = {}
  /\ step = [p \in Command |-> "idle"]
  /\ seen = [p \in Command |-> FALSE]
  /\ displaced = [p \in Command |-> NoFile]
  /\ result = [p \in Command |-> "none"]

Quiet == \A p \in Command : step[p] = "idle"

-----------------------------------------------------------------------------
(* The user, with an editor or another tool, while no command runs.        *)

UserWrites(u) ==
  /\ Quiet
  /\ hook' = u
  /\ owned' = (owned \ {hook}) \cup {u}
  /\ UNCHANGED <<original, step, seen, displaced, result>>

UserRemoves ==
  /\ Quiet
  /\ hook # NoFile
  /\ hook' = NoFile
  /\ owned' = owned \ {hook}
  /\ UNCHANGED <<original, step, seen, displaced, result>>

-----------------------------------------------------------------------------
(* Steps of a command.                                                     *)

HookGoto(p, to) ==
  /\ step' = [step EXCEPT ![p] = to]
  /\ UNCHANGED <<owned, seen, result>>

End(p, how) ==
  /\ step' = [step EXCEPT ![p] = "idle"]
  /\ displaced' = [displaced EXCEPT ![p] = NoFile]
  /\ result' = [result EXCEPT ![p] = how]
  /\ UNCHANGED <<owned, seen>>

\* Both commands look for <hook>.across-orig first.
Begin(p, command) ==
  /\ step[p] = "idle" /\ (Concurrent \/ Quiet)
  /\ step' = [step EXCEPT ![p] = command]
  /\ seen' = [seen EXCEPT ![p] = original # NoFile]
  /\ result' = [result EXCEPT ![p] = "none"]
  /\ UNCHANGED <<hook, original, owned, displaced>>

\* A killed command, and one that cannot write its staged file.
Die(p) ==
  /\ step[p] # "idle"
  /\ End(p, "failed")
  /\ UNCHANGED files

-----------------------------------------------------------------------------
(* InstallHook.                                                            *)

\* Faulty variant: a user's hook is preserved whatever is there already.
InstallLookTrusting(p) ==
  /\ step[p] = "install"
  /\ IF hook \in UserHook THEN HookGoto(p, "preserve") /\ UNCHANGED displaced
     ELSE IF hook = NoFile /\ seen[p] THEN End(p, "failed")
     ELSE HookGoto(p, "replace") /\ UNCHANGED displaced
  /\ UNCHANGED files

\* Ownership is inconsistent when there is an original beside a hook that is
\* not managed, or beside none.
InstallLook(p) ==
  /\ step[p] = "install"
  /\ IF hook \notin Managed /\ seen[p] THEN End(p, "failed")
     ELSE /\ HookGoto(p, IF hook \in UserHook THEN "preserve" ELSE "replace")
          /\ UNCHANGED displaced
  /\ UNCHANGED files

\* installWithOriginal, with the wrapper staged: the user's hook is renamed to
\* <hook>.across-orig, over whatever has that name.
Preserve(p) ==
  /\ step[p] = "preserve"
  /\ IF hook # NoFile
     THEN /\ original' = hook /\ hook' = NoFile
          /\ HookGoto(p, "publish") /\ UNCHANGED displaced
     ELSE End(p, "failed") /\ UNCHANGED files

Publish(p) ==
  /\ step[p] = "publish"
  /\ hook' = Wrapper
  /\ End(p, "installed")
  /\ UNCHANGED original

\* When that rename fails the first one is undone.
PublishFails(p) ==
  /\ step[p] = "publish"
  /\ IF original # NoFile THEN hook' = original /\ original' = NoFile
                        ELSE UNCHANGED files
  /\ End(p, "failed")

\* replaceManagedHook stages what the install saw a need for and looks again.
ReplaceLook(p) ==
  /\ step[p] = "replace"
  /\ HookGoto(p, IF hook = NoFile THEN "fresh" ELSE "displace")
  /\ UNCHANGED <<hook, original, displaced>>

\* Faulty variant: an upgrade forgets the original.
NewHookPlain(p) == Plain

NewHook(p) == IF seen[p] THEN Wrapper ELSE Plain

\* Into the place that was empty, or over what came there meanwhile.
Fresh(p) ==
  /\ step[p] = "fresh"
  /\ hook' = NewHook(p)
  /\ End(p, "installed")
  /\ UNCHANGED original

\* The present hook goes to an unused name: here, and when uninstalling.
Displace(p, from, to) ==
  /\ step[p] = from
  /\ IF hook # NoFile
     THEN /\ displaced' = [displaced EXCEPT ![p] = hook] /\ hook' = NoFile
          /\ HookGoto(p, to)
     ELSE End(p, "failed") /\ UNCHANGED hook
  /\ UNCHANGED original

Upgrade(p) ==
  /\ step[p] = "upgrade"
  /\ hook' = NewHook(p)
  /\ End(p, "installed")
  /\ UNCHANGED original

\* A rename that fails is answered by renaming the file aside back: the second
\* rename of an upgrade, and the one of the original.
Rollback(p) ==
  /\ step[p] \in {"upgrade", "restore"}
  /\ hook' = displaced[p]
  /\ End(p, "failed")
  /\ UNCHANGED original

-----------------------------------------------------------------------------
(* UninstallHook.                                                          *)

\* Faulty variant: the original is not looked for.
UninstallLookHook(p) ==
  /\ step[p] = "uninstall"
  /\ CASE hook \in UserHook -> End(p, "failed")
       [] hook \in Managed  -> HookGoto(p, "remove") /\ UNCHANGED displaced
       [] hook = NoFile    -> IF seen[p] THEN HookGoto(p, "giveback") /\ UNCHANGED displaced
                               ELSE End(p, "uninstalled")
  /\ UNCHANGED files

UninstallLook(p) ==
  /\ step[p] = "uninstall"
  /\ CASE hook \in UserHook -> End(p, "failed")
       [] hook \in Managed  -> /\ HookGoto(p, IF seen[p] THEN "setaside" ELSE "remove")
                               /\ UNCHANGED displaced
       [] hook = NoFile    -> IF seen[p] THEN HookGoto(p, "giveback") /\ UNCHANGED displaced
                               ELSE End(p, "uninstalled")
  /\ UNCHANGED files

\* The original back in its place, after the wrapper was set aside or when
\* there is no hook at all, as a killed command may leave it.
Restore(p) ==
  /\ step[p] \in {"restore", "giveback"}
  /\ original # NoFile
  /\ hook' = original /\ original' = NoFile
  /\ End(p, "uninstalled")

Remove(p) ==
  /\ step[p] = "remove"
  /\ IF hook # NoFile THEN End(p, "uninstalled") ELSE End(p, "failed")
  /\ hook' = NoFile
  /\ UNCHANGED original

-----------------------------------------------------------------------------
InstallStep(p) ==
  \/ InstallLook(p)
  \/ Preserve(p) \/ Publish(p) \/ PublishFails(p)
  \/ ReplaceLook(p) \/ Fresh(p) \/ Displace(p, "displace", "upgrade") \/ Upgrade(p)

UninstallStep(p) ==
  \/ UninstallLook(p)
  \/ Displace(p, "setaside", "restore")
  \/ Restore(p) \/ Remove(p)

HookNext ==
  \/ \E u \in UserHook : UserWrites(u)
  \/ UserRemoves
  \/ \E p \in Command :
       \/ \E command \in {"install", "uninstall"} : Begin(p, command)
       \/ InstallStep(p) \/ UninstallStep(p) \/ Rollback(p) \/ Die(p)

HookSpec == HookInit /\ [][HookNext]_hookVars

-----------------------------------------------------------------------------
(* Properties.                                                             *)

\* Safety: hooks are chained, never silently overwritten (docs/SECURITY.md:21):
\* what the user wrote is the hook or the file beside it, through any sequence
\* of installs, upgrades and uninstalls cut off or rolled back anywhere.
NeverOverwritten == owned \subseteq {hook, original}

Ends(p, how) == result[p] # how /\ result'[p] = how

\* What a commit runs.
Runs == IF hook = Wrapper THEN {Wrapper, original} ELSE {hook}

\* Action property: an install that reports success leaves the Across hook in
\* place, and every hook of the user's among what it runs.
SuccessChains ==
  \A p \in Command : Ends(p, "installed") => hook' \in Managed /\ owned' \subseteq Runs'

InstallChains == [][SuccessChains]_hookVars

\* Action property: an uninstall that reports success leaves nothing of Across
\* behind, and no hook of the user's outside its place.
SuccessGivesBack ==
  \A p \in Command : Ends(p, "uninstalled") =>
    /\ hook' \notin Managed /\ original' = NoFile
    /\ owned' \subseteq {hook'}

UninstallGivesBack == [][SuccessGivesBack]_hookVars
=============================================================================
