--------------------------- MODULE WorkspacesProofs -------------------------
(***************************************************************************)
(* What holds of Workspaces for any number of repositories, workspaces,    *)
(* commits and commands, whatever fails and whoever is killed where.       *)
(***************************************************************************)
EXTENDS Workspaces, TLAPS

USE DEF leftovers

\* Git has made the directory, and knows it if it is a work tree.
Standing(w) == tree[w] = "clone" \/ (tree[w] = "worktree" /\ registered[w])

\* What `repo create` relies on.  Two commands are past the look at one name
\* only if they have looked together.
HostInv ==
  /\ \A n \in Name : objects[n] # {} => head[n] # None
  /\ \A p \in Proc : /\ pc[p] \in Hosting => reg[p].name \in Name
                     /\ pc[p] = "hostrow" => bare[reg[p].name] = "whole"
  /\ \A p \in Proc : pc[p] \in Hosting /\ reg[p].name \in lookedAlone =>
       /\ rows[reg[p].name] = 0
       /\ \A q \in Proc : pc[q] \in Hosting /\ reg[q].name = reg[p].name => q = p

\* What the command that makes workspace w has done so far.
MakerOf(p, w) ==
  /\ w \in Workspace /\ reg[p].name \in Name /\ reg[p].rev \in Revision
  /\ made[w] = "begun" /\ row[w] = "none"
  /\ pc[p] \in {"add", "restore"} => tree[w] = "none" /\ ~registered[w]
  /\ pc[p] = "addrow" => Standing(w) /\ (reg[p].rev \in Commit => at[w] = reg[p].rev)
  /\ pc[p] \in {"restore", "checkout", "restorerow"} =>
       reg[p].at # None /\ (reg[p].rev \in Commit => reg[p].at = reg[p].rev)
  /\ pc[p] = "restore" => head[reg[p].name] # None
  /\ pc[p] = "checkout" => tree[w] = "clone"
  /\ pc[p] = "restorerow" => Standing(w) /\ at[w] = reg[p].at
  /\ pc[p] = "prune" => tree[w] = "none" \/ w \in undeleted

\* What a command that removes workspace w has done so far.
RemoverOf(p, w) ==
  /\ w \in removing
  /\ pc[p] = "removerow" => tree[w] = "none" \/ w \in undeleted

CommandInv ==
  /\ \A p \in Proc : /\ pc[p] \in Making => MakerOf(p, reg[p].ws)
                     /\ pc[p] \in Removing => RemoverOf(p, reg[p].ws)
  /\ \A p, q \in Proc : pc[p] \in Making /\ pc[q] \in Making /\ reg[p].ws = reg[q].ws => p = q

\* Nothing is there of a workspace nobody has begun to make, and only one that
\* has a row is removed.
RowInv ==
  /\ \A w \in Workspace : made[w] = "unused" => tree[w] = "none" /\ row[w] = "none" /\ ~registered[w]
  /\ \A w \in removing : row[w] # "none"

WorkspacesInv ==
  /\ TypeOK /\ HostInv /\ CommandInv /\ RowInv
  /\ DirectoriesAsRecorded /\ RestoreAllOrNothing /\ CheckedOutAsRecorded

LEMMA WorkspacesInit == Init => WorkspacesInv
  BY WorkspacesAssumption
     DEF Init, WorkspacesInv, TypeOK, HostInv, CommandInv, RowInv, Blank, Hosting, Making,
         Removing, DirectoriesAsRecorded, HostedWhole, ActiveHasTree, RemovedIsGone,
         RestoreAllOrNothing, CheckedOutAsRecorded, Revision, Step, Register, Ending

\* The registers of a command that ends.
LEMMA Ended ==
  ASSUME TypeOK, NEW p \in Proc,
         pc' = [pc EXCEPT ![p] = "idle"], reg' = [reg EXCEPT ![p] = Blank]
  PROVE  /\ pc' \in [Proc -> Step]
         /\ reg' \in [Proc -> Register]
         /\ pc'[p] = "idle" /\ \A q \in Proc : q # p => pc'[q] = pc[q] /\ reg'[q] = reg[q]
  BY DEF TypeOK, Blank, Step, Register

-----------------------------------------------------------------------------
(* Repositories.                                                           *)

\* A step that leaves every workspace and every command on one alone.
LEMMA HostFrame ==
  ASSUME WorkspacesInv, TypeOK', HostInv', HostedWhole', UNCHANGED <<workspace, made>>,
         \A n \in Name : head[n] # None => head'[n] # None,
         \A p \in Proc : \/ pc'[p] = pc[p] /\ reg'[p] = reg[p]
                        \/ pc'[p] \in Hosting \cup {"idle"}
  PROVE  WorkspacesInv'
<1>1. CommandInv'
  <2>1. ASSUME NEW p \in Proc, pc'[p] \in Making \cup Removing
        PROVE  pc'[p] = pc[p] /\ reg'[p] = reg[p]
    BY <2>1 DEF Making, Removing, Hosting
  <2> QED
    BY <2>1 DEF WorkspacesInv, CommandInv, MakerOf, RemoverOf, Standing, workspace
<1>2. RowInv' /\ ActiveHasTree' /\ RemovedIsGone' /\ RestoreAllOrNothing' /\ CheckedOutAsRecorded'
  BY DEF WorkspacesInv, RowInv, DirectoriesAsRecorded, ActiveHasTree, RemovedIsGone,
     RestoreAllOrNothing, CheckedOutAsRecorded, workspace
<1> QED
  BY <1>1, <1>2 DEF WorkspacesInv, DirectoriesAsRecorded

LEMMA PushKeeps ==
  ASSUME WorkspacesInv, NEW n \in Name, NEW c \in Commit, Push(n, c)
  PROVE  WorkspacesInv'
<1>1. TypeOK'
  BY DEF WorkspacesInv, TypeOK, Push, workspace
<1>2. HostInv' /\ HostedWhole'
  <2>1. \A m \in Name : /\ objects'[m] = IF m = n THEN objects[m] \cup {c} ELSE objects[m]
                        /\ head'[m] = IF m = n THEN c ELSE head[m]
    BY DEF WorkspacesInv, TypeOK, Push
  <2>2. c # None
    BY WorkspacesAssumption
  <2>3. \A m \in Name : objects'[m] # {} => head'[m] # None
    BY <2>1, <2>2 DEF WorkspacesInv, HostInv
  <2> QED
    BY <2>3 DEF WorkspacesInv, HostInv, DirectoriesAsRecorded, HostedWhole, Push
<1>3. \A m \in Name : head[m] # None => head'[m] # None
  BY WorkspacesAssumption DEF WorkspacesInv, TypeOK, Push
<1> QED
  BY <1>1, <1>2, <1>3, HostFrame DEF Push

HostStep(p) ==
  (\E n \in Name : HostLook(p, n)) \/ HostInit(p) \/ HostInitFails(p) \/ HostRow(p)

LEMMA HostKeeps ==
  ASSUME WorkspacesInv, NEW p \in Proc, HostStep(p)
  PROVE  WorkspacesInv'
<1> USE DEF Goto, End, Blank, Hosting, Step, Register
<1>1. UNCHANGED <<workspace, made, objects, head>>
  BY DEF HostStep, HostLook, HostInit, HostInitFails, HostRow
<1>2. /\ pc'[p] \in Hosting \cup {"idle"}
      /\ \A q \in Proc : q # p => pc'[q] = pc[q] /\ reg'[q] = reg[q]
  BY DEF HostStep, HostLook, HostInit, HostInitFails, HostRow, WorkspacesInv, TypeOK
<1>3. ASSUME NEW n \in Name, HostLook(p, n) PROVE TypeOK' /\ HostInv' /\ HostedWhole'
  <2>1. TypeOK'
    BY <1>3 DEF HostLook, WorkspacesInv, TypeOK, workspace
  <2>2. pc'[p] = "init" /\ reg'[p].name = n /\ rows[n] = 0 /\ bare' = bare /\ rows' = rows
    BY <1>3 DEF HostLook, WorkspacesInv, TypeOK, DirectoriesAsRecorded, HostedWhole
  <2>3. lookedAlone' \subseteq lookedAlone
        /\ (n \in lookedAlone' => \A q \in Proc : ~(pc[q] \in Hosting /\ reg[q].name = n))
    BY <1>3 DEF HostLook
  <2>4. HostInv'
    BY <1>1, <1>2, <2>2, <2>3 DEF WorkspacesInv, HostInv
  <2> QED
    BY <2>1, <2>2, <2>3, <2>4 DEF WorkspacesInv, DirectoriesAsRecorded, HostedWhole
<1>4. ASSUME HostInit(p) \/ HostInitFails(p) PROVE TypeOK' /\ HostInv' /\ HostedWhole'
  <2>1. reg[p].name \in Name /\ rows' = rows /\ lookedAlone' = lookedAlone
    BY <1>4 DEF HostInit, HostInitFails, WorkspacesInv, HostInv
  <2>2. TypeOK'
    <3>1. bare' \in [Name -> {"none", "partial", "whole"}]
      BY <1>4, <2>1 DEF HostInit, HostInitFails, WorkspacesInv, TypeOK
    <3>2. reg' \in [Proc -> Register]
      BY <1>4 DEF HostInit, HostInitFails, WorkspacesInv, TypeOK
    <3>3. pc' \in [Proc -> Step]
      BY <1>4 DEF HostInit, HostInitFails, WorkspacesInv, TypeOK
    <3> QED
      BY <1>1, <2>1, <3>1, <3>2, <3>3 DEF WorkspacesInv, TypeOK, workspace
  <2>3. \A n \in Name : bare[n] = "whole" => bare'[n] = "whole"
    BY <1>4, <2>1 DEF HostInit, HostInitFails, WorkspacesInv, TypeOK
  <2>4. pc'[p] = "idle"
        \/ (pc'[p] = "hostrow" /\ reg'[p] = reg[p] /\ bare'[reg[p].name] = "whole" /\ pc[p] = "init")
    BY <1>4, <2>1 DEF HostInit, HostInitFails, WorkspacesInv, TypeOK
  <2>5. HostInv'
    BY <1>1, <1>2, <2>1, <2>3, <2>4 DEF WorkspacesInv, HostInv
  <2> QED
    BY <2>1, <2>2, <2>3, <2>5 DEF WorkspacesInv, DirectoriesAsRecorded, HostedWhole
<1>5. ASSUME HostRow(p) PROVE TypeOK' /\ HostInv' /\ HostedWhole'
  <2>1. /\ pc[p] = "hostrow" /\ reg[p].name \in Name /\ bare[reg[p].name] = "whole"
        /\ bare' = bare /\ lookedAlone' = lookedAlone
        /\ pc'[p] = "idle"
    BY <1>5 DEF HostRow, WorkspacesInv, HostInv, TypeOK
  <2>2. TypeOK'
    <3>1. rows' \in [Name -> Nat]
      BY <1>5, <2>1 DEF HostRow, WorkspacesInv, TypeOK
    <3> QED
      BY <1>1, <1>5, <2>1, <3>1, Ended DEF HostRow, WorkspacesInv, TypeOK, workspace
  <2>3. /\ \A n \in Name : n # reg[p].name => rows'[n] = rows[n]
        /\ rows'[reg[p].name] \in {rows[reg[p].name], rows[reg[p].name] + 1}
    BY <1>5, <2>1 DEF HostRow, WorkspacesInv, TypeOK
  <2>4. HostInv'
    BY <1>1, <1>2, <2>1, <2>3 DEF WorkspacesInv, HostInv
  <2>5. HostedWhole'
    BY <2>1, <2>3 DEF WorkspacesInv, TypeOK, HostInv, DirectoriesAsRecorded, HostedWhole
  <2> QED
    BY <2>2, <2>4, <2>5
<1> QED
  BY <1>1, <1>2, <1>3, <1>4, <1>5, HostFrame DEF HostStep

-----------------------------------------------------------------------------
(* Workspaces.                                                             *)

\* Another workspace than the one a command is at: it is left alone, or git
\* drops from its list a tree that is not there, or not whole.
LeftAlone(v) ==
  /\ tree'[v] = tree[v] /\ at'[v] = at[v] /\ row'[v] = row[v] /\ rev'[v] = rev[v]
  /\ made'[v] = made[v]
  /\ v \in undeleted' <=> v \in undeleted
  /\ v \in unpruned => v \in unpruned'
  /\ registered'[v] = registered[v] \/ (tree[v] \in {"none", "partial"} /\ ~registered'[v])

\* What the properties say of one workspace.
RowOK(w) ==
  /\ made[w] = "unused" => tree[w] = "none" /\ row[w] = "none" /\ ~registered[w]
  /\ row[w] = "active" /\ w \notin removing => Standing(w)
  /\ row[w] = "removed" => tree[w] = "none" \/ w \in undeleted
  /\ made[w] = "restored" => row[w] # "none"
  /\ made[w] = "failed" => /\ row[w] = "none"
                           /\ tree[w] = "none" \/ w \in undeleted
                           /\ registered[w] => w \in undeleted \cup unpruned
  /\ row[w] # "none" /\ tree[w] # "none" /\ rev[w] \in Commit => at[w] = rev[w]

LEMMA RowsOK ==
  WorkspacesInv <=> /\ TypeOK /\ HostInv /\ CommandInv /\ HostedWhole
                    /\ \A w \in removing : row[w] # "none"
                    /\ \A w \in Workspace : RowOK(w)
<1>1. (\A w \in Workspace : RowOK(w)) =>
        /\ \A w \in Workspace : made[w] = "unused" =>
             tree[w] = "none" /\ row[w] = "none" /\ ~registered[w]
        /\ ActiveHasTree /\ RemovedIsGone /\ RestoreAllOrNothing /\ CheckedOutAsRecorded
  <2> SUFFICES ASSUME \A w \in Workspace : RowOK(w)
               PROVE  /\ \A w \in Workspace : made[w] = "unused" =>
                           tree[w] = "none" /\ row[w] = "none" /\ ~registered[w]
                      /\ ActiveHasTree /\ RemovedIsGone /\ RestoreAllOrNothing /\ CheckedOutAsRecorded
    OBVIOUS
  <2>1. ActiveHasTree /\ CheckedOutAsRecorded
    BY DEF RowOK, Standing, ActiveHasTree, CheckedOutAsRecorded
  <2>2. RemovedIsGone
    BY DEF RowOK, RemovedIsGone
  <2>3. RestoreAllOrNothing
    BY DEF RowOK, RestoreAllOrNothing
  <2> QED
    BY <2>1, <2>2, <2>3 DEF RowOK
<1>2. ASSUME WorkspacesInv, NEW w \in Workspace PROVE RowOK(w)
  BY <1>2 DEF WorkspacesInv, RowInv, RowOK, Standing, DirectoriesAsRecorded, ActiveHasTree,
     RemovedIsGone, RestoreAllOrNothing, CheckedOutAsRecorded
<1> QED
  BY <1>1, <1>2 DEF WorkspacesInv, RowInv, DirectoriesAsRecorded

LEMMA RowsOKNext ==
  WorkspacesInv' <=> /\ TypeOK' /\ HostInv' /\ CommandInv' /\ HostedWhole'
                     /\ \A w \in removing' : row'[w] # "none"
                     /\ \A w \in Workspace : RowOK(w)'
<1>1. (\A w \in Workspace : RowOK(w)') =>
        /\ \A w \in Workspace : made'[w] = "unused" =>
             tree'[w] = "none" /\ row'[w] = "none" /\ ~registered'[w]
        /\ ActiveHasTree' /\ RemovedIsGone' /\ RestoreAllOrNothing' /\ CheckedOutAsRecorded'
  <2> SUFFICES ASSUME \A w \in Workspace : RowOK(w)'
               PROVE  /\ \A w \in Workspace : made'[w] = "unused" =>
                           tree'[w] = "none" /\ row'[w] = "none" /\ ~registered'[w]
                      /\ ActiveHasTree' /\ RemovedIsGone' /\ RestoreAllOrNothing' /\ CheckedOutAsRecorded'
    OBVIOUS
  <2>1. ActiveHasTree' /\ CheckedOutAsRecorded'
    BY DEF RowOK, Standing, ActiveHasTree, CheckedOutAsRecorded
  <2>2. RemovedIsGone'
    BY DEF RowOK, RemovedIsGone
  <2>3. RestoreAllOrNothing'
    BY DEF RowOK, RestoreAllOrNothing
  <2> QED
    BY <2>1, <2>2, <2>3 DEF RowOK
<1>2. ASSUME WorkspacesInv', NEW w \in Workspace PROVE RowOK(w)'
  BY <1>2 DEF WorkspacesInv, RowInv, RowOK, Standing, DirectoriesAsRecorded, ActiveHasTree,
     RemovedIsGone, RestoreAllOrNothing, CheckedOutAsRecorded
<1> QED
  BY <1>1, <1>2 DEF WorkspacesInv, RowInv, DirectoriesAsRecorded

\* A command on workspaces leaves what is said of repositories as it was.
LEMMA HostsStay ==
  ASSUME WorkspacesInv, UNCHANGED repository, NEW p \in Proc, pc'[p] \notin Hosting,
         \A q \in Proc : q # p => pc'[q] = pc[q] /\ reg'[q] = reg[q]
  PROVE  HostInv' /\ HostedWhole'
<1>1. \A q \in Proc : pc'[q] \in Hosting => pc'[q] = pc[q] /\ reg'[q] = reg[q]
  OBVIOUS
<1> QED
  BY <1>1 DEF repository, WorkspacesInv, HostInv, DirectoriesAsRecorded, HostedWhole, Hosting

\* A step of the command that makes workspace w.
LEMMA MakerFrame ==
  ASSUME WorkspacesInv, TypeOK', UNCHANGED <<repository, removing>>,
         NEW p \in Proc, NEW w \in Workspace, pc[p] \in Making, w = reg[p].ws,
         \A q \in Proc : q # p => pc'[q] = pc[q] /\ reg'[q] = reg[q],
         pc'[p] \in Making => reg'[p].ws = w /\ MakerOf(p, w)',
         pc'[p] \in Making \cup {"idle"},
         \A v \in Workspace : v # w => LeftAlone(v),
         RowOK(w)'
  PROVE  WorkspacesInv'
<1>1. HostInv' /\ HostedWhole'
  BY HostsStay DEF Making, Hosting
<1>2. made[w] = "begun" /\ row[w] = "none" /\ w \notin removing
  BY DEF WorkspacesInv, CommandInv, RowInv, MakerOf
<1>3. ASSUME NEW q \in Proc, q # p, pc[q] \in Making
      PROVE  MakerOf(q, reg[q].ws)' /\ reg[q].ws # w
  <2>1. MakerOf(q, reg[q].ws) /\ reg[q].ws # w
    BY <1>3 DEF WorkspacesInv, CommandInv
  <2>2. LeftAlone(reg[q].ws)
    BY <2>1 DEF MakerOf
  <2> QED
    BY <1>3, <2>1, <2>2 DEF MakerOf, LeftAlone, Standing, repository
<1>4. ASSUME NEW q \in Proc, q # p, pc[q] \in Removing
      PROVE  RemoverOf(q, reg[q].ws)'
  <2>1. RemoverOf(q, reg[q].ws) /\ reg[q].ws # w
    BY <1>2, <1>4 DEF WorkspacesInv, CommandInv, RemoverOf
  <2>2. LeftAlone(reg[q].ws)
    BY <2>1 DEF RemoverOf, WorkspacesInv, TypeOK
  <2> QED
    BY <1>4, <2>1, <2>2 DEF RemoverOf, LeftAlone
<1>5. CommandInv'
  BY <1>3, <1>4 DEF CommandInv, Making, Removing, WorkspacesInv
<1>6. ASSUME NEW v \in Workspace, v # w PROVE RowOK(v)'
  BY <1>6, RowsOK DEF RowOK, LeftAlone, Standing
<1>7. \A v \in removing' : row'[v] # "none"
  BY <1>2 DEF LeftAlone, WorkspacesInv, RowInv, TypeOK
<1> QED
  BY <1>1, <1>5, <1>6, <1>7, RowsOKNext

\* A step of a command that removes workspace w, which has a row.
LEMMA RemoverFrame ==
  ASSUME WorkspacesInv, TypeOK', UNCHANGED <<repository, at, rev, made>>,
         NEW p \in Proc, NEW w \in removing', row[w] # "none", row'[w] # "none",
         removing' = removing \cup {w},
         \A q \in Proc : q # p => pc'[q] = pc[q] /\ reg'[q] = reg[q],
         pc'[p] \in Removing => reg'[p].ws = w /\ RemoverOf(p, w)',
         pc'[p] \in Removing \cup {"idle"},
         tree'[w] \in {tree[w], "none", "partial"}, tree[w] = "none" => tree'[w] = "none",
         row'[w] = "removed" => tree'[w] = "none" \/ w \in undeleted',
         \A q \in Proc : pc[q] = "removerow" => tree'[w] = "none" \/ w \in undeleted' \/ reg[q].ws # w,
         \A v \in Workspace : v # w => LeftAlone(v)
  PROVE  WorkspacesInv'
<1>1. HostInv' /\ HostedWhole'
  BY HostsStay DEF Removing, Hosting
<1>2. ASSUME NEW q \in Proc, q # p, pc[q] \in Making
      PROVE  MakerOf(q, reg[q].ws)'
  <2>1. MakerOf(q, reg[q].ws) /\ reg[q].ws # w
    BY <1>2 DEF WorkspacesInv, CommandInv, MakerOf
  <2>2. LeftAlone(reg[q].ws)
    BY <2>1 DEF MakerOf
  <2> QED
    BY <1>2, <2>1, <2>2 DEF MakerOf, LeftAlone, Standing, repository
<1>3. ASSUME NEW q \in Proc, q # p, pc[q] \in Removing
      PROVE  RemoverOf(q, reg[q].ws)'
  <2>1. RemoverOf(q, reg[q].ws) /\ reg[q].ws \in Workspace
    BY <1>3 DEF WorkspacesInv, CommandInv, RemoverOf, TypeOK
  <2>2. LeftAlone(reg[q].ws) \/ reg[q].ws = w
    BY <2>1
  <2> QED
    BY <1>3, <2>1, <2>2 DEF RemoverOf, LeftAlone
<1>4. CommandInv'
  BY <1>2, <1>3 DEF CommandInv, Making, Removing, WorkspacesInv
<1>5. ASSUME NEW v \in Workspace, v # w PROVE RowOK(v)'
  BY <1>5, RowsOK DEF RowOK, LeftAlone, Standing
<1>6. RowOK(w)'
  <2>1. w \in Workspace /\ w \in removing'
    BY DEF TypeOK
  <2>2. RowOK(w)
    BY <2>1, RowsOK
  <2> QED
    BY <2>1, <2>2 DEF RowOK, TypeOK
<1>7. \A v \in removing' : row'[v] # "none"
  BY DEF LeftAlone, WorkspacesInv, RowInv, TypeOK
<1> QED
  BY <1>1, <1>4, <1>5, <1>6, <1>7, RowsOKNext

\* A command begins to make w: nobody else does, and nothing is there yet.
LEMMA BeginKeeps ==
  ASSUME WorkspacesInv, NEW p \in Proc, NEW w \in Workspace, NEW n \in Name, NEW r \in Revision,
         CreateBegin(p, w, n, r) \/ RestoreBegin(p, w, n, r)
  PROVE  WorkspacesInv'
<1>1. /\ pc[p] = "idle" /\ made[w] = "unused" /\ made' = [made EXCEPT ![w] = "begun"]
      /\ UNCHANGED <<repository, workspace>>
  BY DEF CreateBegin, RestoreBegin
<1>2. \A q \in Proc : q # p => pc'[q] = pc[q] /\ reg'[q] = reg[q]
  BY DEF CreateBegin, RestoreBegin, Goto, WorkspacesInv, TypeOK
<1>3. tree[w] = "none" /\ row[w] = "none" /\ ~registered[w]
  BY <1>1 DEF WorkspacesInv, RowInv
<1>4. /\ pc'[p] \in {"add", "restore"} /\ reg'[p].name = n /\ reg'[p].ws = w /\ reg'[p].rev = r
      /\ pc'[p] = "restore" =>
           Resolve(n, r) # None /\ reg'[p].at = Resolve(n, r)
  BY DEF CreateBegin, RestoreBegin, Goto, WorkspacesInv, TypeOK
<1>5. head[n] \in Commit \cup {None} /\ objects[n] \subseteq Commit
  BY DEF WorkspacesInv, TypeOK
<1>6. pc'[p] = "restore" => head[n] # None /\ reg'[p].at # None /\ (r \in Commit => reg'[p].at = r)
  BY <1>4, WorkspacesAssumption DEF Resolve, WorkspacesInv, HostInv
<1>7. TypeOK'
  <2>1. Resolve(n, r) \in Commit \cup {None}
    BY <1>5 DEF Resolve
  <2>2. reg' \in [Proc -> Register]
    BY <2>1 DEF CreateBegin, RestoreBegin, WorkspacesInv, TypeOK, Register
  <2>3. pc' = [pc EXCEPT ![p] = "add"] \/ pc' = [pc EXCEPT ![p] = "restore"]
    BY DEF CreateBegin, RestoreBegin, Goto
  <2>4. made' \in [Workspace -> {"unused", "begun"} \cup Ending]
    BY <1>1 DEF WorkspacesInv, TypeOK
  <2>5. pc' \in [Proc -> Step]
    BY <2>3 DEF WorkspacesInv, TypeOK, Step, Making
  <2> QED
    BY <1>1, <2>2, <2>4, <2>5 DEF WorkspacesInv, TypeOK, repository, workspace
<1>8. MakerOf(p, w)'
  BY <1>1, <1>3, <1>4, <1>6 DEF MakerOf, WorkspacesInv, TypeOK, repository, workspace
<1>9. CommandInv'
  <2>1. ASSUME NEW q \in Proc, q # p, pc[q] \in Making PROVE MakerOf(q, reg[q].ws)' /\ reg[q].ws # w
    BY <1>1, <1>2, <2>1 DEF WorkspacesInv, TypeOK, CommandInv, MakerOf, Standing, repository, workspace
  <2>2. ASSUME NEW q \in Proc, q # p, pc[q] \in Removing PROVE RemoverOf(q, reg[q].ws)'
    BY <1>1, <1>2, <2>2 DEF WorkspacesInv, CommandInv, RemoverOf, workspace
  <2> QED
    BY <1>2, <1>4, <1>8, <2>1, <2>2 DEF CommandInv, WorkspacesInv, Making, Removing
<1>10. HostInv' /\ HostedWhole'
  BY <1>1, <1>2, <1>4, HostsStay DEF Hosting
<1>11. ASSUME NEW v \in Workspace PROVE RowOK(v)'
  BY <1>1, <1>3, <1>11, RowsOK DEF RowOK, Standing, workspace, WorkspacesInv, TypeOK
<1>12. \A v \in removing' : row'[v] # "none"
  BY <1>1 DEF workspace, WorkspacesInv, RowInv
<1> QED
  BY <1>7, <1>9, <1>10, <1>11, <1>12, RowsOKNext

\* What AddTree(p, r) does to the workspace of the command.
LEMMA TreeAdded ==
  ASSUME WorkspacesInv, NEW p \in Proc, reg[p].ws \in Workspace, reg[p].name \in Name,
         NEW r, AddTree(p, r)
  PROVE  /\ tree' = [tree EXCEPT ![reg[p].ws] = "worktree"]
         /\ registered' = [registered EXCEPT ![reg[p].ws] = TRUE]
         /\ at' \in [Workspace -> Commit \cup {None}]
         /\ at'[reg[p].ws] # None /\ (r \in Commit => at'[reg[p].ws] = r)
         /\ \A v \in Workspace : v # reg[p].ws => at'[v] = at[v]
         /\ UNCHANGED <<row, rev, removing, leftovers>>
  BY WorkspacesAssumption DEF AddTree, Resolve, WorkspacesInv, TypeOK

CreateStep(p) == CreateAdd(p) \/ CreateAddFails(p) \/ CreateRow(p)

LEMMA CreateKeeps ==
  ASSUME WorkspacesInv, NEW p \in Proc, CreateStep(p)
  PROVE  WorkspacesInv'
<1>0. PICK w \in Workspace :
        /\ w = reg[p].ws /\ pc[p] \in {"add", "addrow"} /\ MakerOf(p, w) /\ RowOK(w)
        /\ UNCHANGED repository
  BY RowsOK DEF CreateStep, CreateAdd, CreateAddFails, CreateRow, WorkspacesInv, CommandInv,
     MakerOf, Making
<1>1. ASSUME CreateAdd(p) PROVE WorkspacesInv'
  <2>1. /\ reg[p].name \in Name /\ AddTree(p, reg[p].rev) /\ pc' = [pc EXCEPT ![p] = "addrow"]
        /\ UNCHANGED <<reg, made>>
    BY <1>0, <1>1 DEF CreateAdd, MakerOf, Goto
  <2>2. /\ tree' = [tree EXCEPT ![w] = "worktree"]
        /\ registered' = [registered EXCEPT ![w] = TRUE]
        /\ at' \in [Workspace -> Commit \cup {None}]
        /\ at'[w] # None /\ (reg[p].rev \in Commit => at'[w] = reg[p].rev)
        /\ \A v \in Workspace : v # w => at'[v] = at[v]
        /\ UNCHANGED <<row, rev, removing, leftovers>>
    BY <1>0, <2>1, TreeAdded
  <2>3. TypeOK'
    BY <1>0, <2>1, <2>2 DEF WorkspacesInv, TypeOK, repository, Step, Making
  <2>4. /\ tree'[w] = "worktree" /\ registered'[w] /\ pc'[p] = "addrow"
        /\ \A v \in Workspace : v # w => LeftAlone(v)
        /\ \A q \in Proc : q # p => pc'[q] = pc[q] /\ reg'[q] = reg[q]
    BY <1>0, <2>1, <2>2 DEF WorkspacesInv, TypeOK, LeftAlone
  <2>5. MakerOf(p, w)' /\ RowOK(w)'
    BY <1>0, <2>1, <2>2, <2>4 DEF MakerOf, RowOK, Standing
  <2> QED
    BY <1>0, <2>1, <2>2, <2>3, <2>4, <2>5, MakerFrame DEF Making
<1>2. ASSUME CreateAddFails(p) \/ CreateRow(p) PROVE WorkspacesInv'
  <2>1. /\ pc' = [pc EXCEPT ![p] = "idle"] /\ reg' = [reg EXCEPT ![p] = Blank]
        /\ UNCHANGED <<removing, leftovers>>
    BY <1>2 DEF CreateAddFails, AddTree, CreateRow, EndMaking, End, Goto, InsertRow, workspace
  <2>2. \/ /\ pc[p] = "add" /\ made' = [made EXCEPT ![w] = "refused"] /\ UNCHANGED <<row, rev>>
           /\ AddTree(p, reg[p].rev) \/ UNCHANGED <<tree, at, registered>>
        \/ /\ pc[p] = "addrow" /\ made' = [made EXCEPT ![w] = "created"]
           /\ UNCHANGED <<tree, at, registered>>
           /\ \/ /\ row' = [row EXCEPT ![w] = "active"]
                 /\ rev' = [rev EXCEPT ![w] = reg[p].rev]
              \/ UNCHANGED <<row, rev>>
    BY <1>0, <1>2 DEF CreateAddFails, AddTree, CreateRow, EndMaking, InsertRow, workspace
  <2>3. reg[p].rev \in Revision /\ reg[p].name \in Name
    BY <1>0 DEF MakerOf
  <2>4. /\ row' \in [Workspace -> {"none", "active", "removed"}]
        /\ rev' \in [Workspace -> Revision \cup {None}]
        /\ made' \in [Workspace -> {"unused", "begun"} \cup Ending]
        /\ \A v \in Workspace : v # w => row'[v] = row[v] /\ rev'[v] = rev[v] /\ made'[v] = made[v]
    BY <2>2, <2>3 DEF WorkspacesInv, TypeOK, Ending
  <2>5. \/ UNCHANGED <<tree, at, registered>>
        \/ /\ tree' = [tree EXCEPT ![w] = "worktree"]
           /\ registered' = [registered EXCEPT ![w] = TRUE]
           /\ at' \in [Workspace -> Commit \cup {None}] /\ at'[w] # None
           /\ \A v \in Workspace : v # w => at'[v] = at[v]
    BY <1>0, <2>2, <2>3, TreeAdded
  <2>6. /\ tree' \in [Workspace -> {"none", "partial", "worktree", "clone"}]
        /\ registered' \in [Workspace -> BOOLEAN] /\ at' \in [Workspace -> Commit \cup {None}]
        /\ \A v \in Workspace : tree'[v] \in {"worktree", "clone"} => at'[v] # None
        /\ \A v \in Workspace : v # w =>
             tree'[v] = tree[v] /\ at'[v] = at[v] /\ registered'[v] = registered[v]
    BY <2>5 DEF WorkspacesInv, TypeOK
  <2>7. TypeOK'
    BY <1>0, <2>1, <2>4, <2>6, Ended DEF WorkspacesInv, TypeOK, repository
  <2>8. /\ \A v \in Workspace : v # w => LeftAlone(v)
        /\ \A q \in Proc : q # p => pc'[q] = pc[q] /\ reg'[q] = reg[q]
        /\ pc'[p] = "idle"
    BY <2>1, <2>4, <2>6, Ended DEF WorkspacesInv, LeftAlone
  <2>9. RowOK(w)'
    BY <1>0, <2>1, <2>2 DEF MakerOf, RowOK, Standing, WorkspacesInv, TypeOK
  <2> QED
    BY <1>0, <2>1, <2>7, <2>8, <2>9, MakerFrame DEF Making
<1> QED
  BY <1>1, <1>2 DEF CreateStep

\* The steps of a restore that git takes part in.
LEMMA RestoreTreeKeeps ==
  ASSUME WorkspacesInv, NEW p \in Proc, RestoreAdd(p) \/ RestoreClone(p) \/ RestoreCheckout(p)
  PROVE  WorkspacesInv'
<1>0. PICK w \in Workspace :
        /\ w = reg[p].ws /\ pc[p] \in {"restore", "checkout"} /\ MakerOf(p, w) /\ RowOK(w)
        /\ UNCHANGED <<repository, row, rev, removing, leftovers, reg, made>>
  BY RowsOK DEF RestoreAdd, RestoreClone, RestoreCheckout, AddTree, WorkspacesInv, CommandInv,
     MakerOf, Making
<1>1. /\ reg[p].name \in Name /\ reg[p].rev \in Revision /\ reg[p].at \in Commit
      /\ reg[p].rev \in Commit => reg[p].at = reg[p].rev
      /\ made[w] = "begun" /\ row[w] = "none"
  BY <1>0 DEF MakerOf, WorkspacesInv, TypeOK, Register
<1>2. PICK to \in {"restorerow", "checkout", "undogit"} : pc' = [pc EXCEPT ![p] = to]
  BY DEF RestoreAdd, RestoreClone, RestoreCheckout, Goto
<1>3. /\ pc'[p] = to /\ pc' \in [Proc -> Step]
      /\ \A q \in Proc : q # p => pc'[q] = pc[q] /\ reg'[q] = reg[q]
  BY <1>0, <1>2 DEF WorkspacesInv, TypeOK, Step, Making
<1>4. SUFFICES /\ tree' \in [Workspace -> {"none", "partial", "worktree", "clone"}]
               /\ at' \in [Workspace -> Commit \cup {None}]
               /\ registered' \in [Workspace -> BOOLEAN]
               /\ \A v \in Workspace : v # w =>
                    tree'[v] = tree[v] /\ at'[v] = at[v] /\ registered'[v] = registered[v]
               /\ tree'[w] \in {"worktree", "clone"} => at'[w] # None
               /\ to = "checkout" => tree'[w] = "clone"
               /\ to = "restorerow" => Standing(w)' /\ at'[w] = reg[p].at
  <2>1. TypeOK'
    BY <1>0, <1>3, <1>4 DEF WorkspacesInv, TypeOK, repository
  <2>2. \A v \in Workspace : v # w => LeftAlone(v)
    BY <1>0, <1>4 DEF LeftAlone
  <2>3. MakerOf(p, w)' /\ RowOK(w)'
    BY <1>0, <1>1, <1>3, <1>4 DEF MakerOf, RowOK, WorkspacesInv, TypeOK
  <2> QED
    BY <1>0, <1>3, <2>1, <2>2, <2>3, MakerFrame DEF Making
<1>5. CASE RestoreAdd(p)
  <2>1. AddTree(p, reg[p].at) /\ to = "restorerow"
    BY <1>2, <1>3, <1>5 DEF RestoreAdd, Goto, WorkspacesInv, TypeOK
  <2>2. /\ tree' = [tree EXCEPT ![w] = "worktree"]
        /\ registered' = [registered EXCEPT ![w] = TRUE]
        /\ at' \in [Workspace -> Commit \cup {None}]
        /\ at'[w] # None /\ at'[w] = reg[p].at
        /\ \A v \in Workspace : v # w => at'[v] = at[v]
    BY <1>0, <1>1, <2>1, TreeAdded
  <2> QED
    BY <2>1, <2>2 DEF WorkspacesInv, TypeOK, Standing
<1>6. CASE RestoreClone(p)
  <2>1. head[reg[p].name] \in Commit
    BY <1>0, <1>1, <1>6 DEF RestoreClone, MakerOf, WorkspacesInv, TypeOK
  <2>2. \/ /\ tree' = [tree EXCEPT ![w] = "clone"] /\ at' = [at EXCEPT ![w] = head[reg[p].name]]
           /\ to = "checkout"
        \/ /\ tree' = tree \/ tree' = [tree EXCEPT ![w] = "partial"]
           /\ at' = at /\ to = "undogit"
    BY <1>0, <1>3, <1>6 DEF RestoreClone, Goto, WorkspacesInv, TypeOK
  <2> QED
    <3>1. /\ registered' \in [Workspace -> BOOLEAN]
          /\ \A v \in Workspace : v # w => registered'[v] = registered[v]
      BY <1>0, <1>6 DEF RestoreClone, WorkspacesInv, TypeOK
    <3> QED
      BY <1>0, <2>1, <2>2, <3>1, WorkspacesAssumption DEF WorkspacesInv, TypeOK
<1>7. CASE RestoreCheckout(p)
  <2>1. /\ pc[p] = "checkout" /\ UNCHANGED <<tree, registered>> /\ tree[w] = "clone"
        /\ \/ at' = [at EXCEPT ![w] = reg[p].at] /\ to = "restorerow"
           \/ at' = at /\ to = "undogit"
    BY <1>0, <1>3, <1>7 DEF RestoreCheckout, MakerOf, Goto, WorkspacesInv, TypeOK
  <2> QED
    BY <1>0, <1>1, <2>1, WorkspacesAssumption DEF Standing, WorkspacesInv, TypeOK
<1> QED
  BY <1>5, <1>6, <1>7

\* How a restore ends: with a row, or by undoing what it has made.
LEMMA RestoreRowKeeps ==
  ASSUME WorkspacesInv, NEW p \in Proc, RestoreRow(p)
  PROVE  WorkspacesInv'
<1>0. PICK w \in Workspace :
        /\ w = reg[p].ws /\ pc[p] = "restorerow" /\ MakerOf(p, w) /\ RowOK(w)
        /\ UNCHANGED <<repository, tree, at, registered, removing, leftovers>>
  BY RowsOK DEF RestoreRow, InsertRow, workspace, WorkspacesInv, CommandInv, MakerOf, Making
<1>1. CASE InsertRow(p) /\ EndMaking(p, "restored")
  <2>1. /\ row' = [row EXCEPT ![w] = "active"] /\ rev' = [rev EXCEPT ![w] = reg[p].rev]
        /\ made' = [made EXCEPT ![w] = "restored"] /\ reg[p].rev \in Revision
        /\ pc' = [pc EXCEPT ![p] = "idle"] /\ reg' = [reg EXCEPT ![p] = Blank]
    BY <1>0, <1>1 DEF InsertRow, EndMaking, End, Goto, MakerOf
  <2>2. TypeOK'
    <3>1. /\ row' \in [Workspace -> {"none", "active", "removed"}]
          /\ rev' \in [Workspace -> Revision \cup {None}]
          /\ made' \in [Workspace -> {"unused", "begun"} \cup Ending]
      BY <2>1 DEF WorkspacesInv, TypeOK, Ending
    <3> QED
      BY <1>0, <2>1, <3>1, Ended DEF WorkspacesInv, TypeOK, repository
  <2>3. RowOK(w)'
    BY <1>0, <2>1 DEF MakerOf, RowOK, Standing, WorkspacesInv, TypeOK
  <2>4. \A v \in Workspace : v # w => LeftAlone(v)
    BY <1>0, <2>1 DEF WorkspacesInv, TypeOK, LeftAlone
  <2>5. pc'[p] = "idle" /\ \A q \in Proc : q # p => pc'[q] = pc[q] /\ reg'[q] = reg[q]
    BY <2>1, Ended DEF WorkspacesInv
  <2> QED
    BY <1>0, <2>2, <2>3, <2>4, <2>5, MakerFrame DEF Making
<1>2. CASE UNCHANGED <<workspace, reg, made>> /\ Goto(p, "undogit")
  <2>1. /\ pc'[p] = "undogit" /\ pc' \in [Proc -> Step]
        /\ \A q \in Proc : q # p => pc'[q] = pc[q]
    BY <1>2 DEF Goto, WorkspacesInv, TypeOK, Step, Making
  <2>2. TypeOK' /\ MakerOf(p, w)' /\ RowOK(w)'
    BY <1>0, <1>2, <2>1 DEF WorkspacesInv, TypeOK, MakerOf, RowOK, Standing, repository, workspace
  <2>3. \A v \in Workspace : LeftAlone(v)
    BY <1>2 DEF LeftAlone, workspace
  <2> QED
    BY <1>0, <1>2, <2>1, <2>2, <2>3, MakerFrame DEF Making
<1> QED
  BY <1>1, <1>2 DEF RestoreRow

\* What git and os.RemoveAll leave of the directory of workspace w.
LEMMA TreeRemoved ==
  ASSUME WorkspacesInv, NEW w \in Workspace,
         \/ RemoveByGit(w) /\ UNCHANGED leftovers
         \/ RemoveAll(w) /\ UNCHANGED <<registered, unpruned>>
  PROVE  /\ tree' \in [Workspace -> {"none", "partial", "worktree", "clone"}]
         /\ registered' \in [Workspace -> BOOLEAN]
         /\ undeleted' \subseteq Workspace /\ unpruned' = unpruned
         /\ tree'[w] \in {tree[w], "none", "partial"} /\ (tree[w] = "none" => tree'[w] = "none")
         /\ tree[w] = "none" \/ w \in undeleted => tree'[w] = "none" \/ w \in undeleted'
         /\ RemoveAll(w) => tree'[w] = "none" \/ w \in undeleted'
         /\ \A v \in Workspace : v # w =>
              /\ tree'[v] = tree[v] /\ registered'[v] = registered[v]
              /\ v \in undeleted' <=> v \in undeleted
<1>1. CASE RemoveByGit(w) /\ UNCHANGED leftovers
  <2>1. /\ tree' \in {tree, [tree EXCEPT ![w] = "none"], [tree EXCEPT ![w] = "partial"]}
        /\ tree' = [tree EXCEPT ![w] = "partial"] => tree[w] # "none" \/ tree' = tree
        /\ registered' \in {registered, [registered EXCEPT ![w] = FALSE]}
    BY <1>1 DEF RemoveByGit, WorkspacesInv, TypeOK
  <2> QED
    BY <1>1, <2>1 DEF RemoveAll, WorkspacesInv, TypeOK
<1>2. CASE RemoveAll(w) /\ UNCHANGED <<registered, unpruned>>
  BY <1>2 DEF RemoveAll, WorkspacesInv, TypeOK
<1> QED
  BY <1>1, <1>2

LEMMA UndoKeeps ==
  ASSUME WorkspacesInv, NEW p \in Proc, UndoGit(p) \/ UndoDir(p)
  PROVE  WorkspacesInv'
<1>0. PICK w \in Workspace :
        /\ w = reg[p].ws /\ pc[p] \in {"undogit", "undodir"} /\ MakerOf(p, w) /\ RowOK(w)
        /\ UNCHANGED <<repository, at, row, rev, removing, unpruned, reg, made>>
  BY RowsOK DEF UndoGit, UndoDir, WorkspacesInv, CommandInv, MakerOf, Making
<1>1. \/ /\ pc' = [pc EXCEPT ![p] = "undodir"]
         /\ RemoveByGit(w) /\ UNCHANGED leftovers
      \/ /\ pc' = [pc EXCEPT ![p] = "prune"]
         /\ RemoveAll(w) /\ UNCHANGED registered
  BY <1>0 DEF UndoGit, UndoDir, Goto
<1>2. /\ tree' \in [Workspace -> {"none", "partial", "worktree", "clone"}]
      /\ registered' \in [Workspace -> BOOLEAN] /\ undeleted' \subseteq Workspace
      /\ tree'[w] \in {tree[w], "none", "partial"}
      /\ RemoveAll(w) => tree'[w] = "none" \/ w \in undeleted'
      /\ \A v \in Workspace : v # w =>
           /\ tree'[v] = tree[v] /\ registered'[v] = registered[v]
           /\ v \in undeleted' <=> v \in undeleted
  BY <1>0, <1>1, TreeRemoved
<1>3. /\ pc' \in [Proc -> Step] /\ pc'[p] \in {"undodir", "prune"}
      /\ pc'[p] = "prune" => tree'[w] = "none" \/ w \in undeleted'
      /\ \A q \in Proc : q # p => pc'[q] = pc[q]
  BY <1>1, <1>2 DEF WorkspacesInv, TypeOK, Step, Making
<1>4. TypeOK'
  BY <1>0, <1>2, <1>3 DEF WorkspacesInv, TypeOK, repository
<1>5. MakerOf(p, w)' /\ RowOK(w)'
  BY <1>0, <1>2, <1>3 DEF MakerOf, RowOK
<1>6. \A v \in Workspace : v # w => LeftAlone(v)
  BY <1>0, <1>2 DEF LeftAlone
<1> QED
  BY <1>0, <1>3, <1>4, <1>5, <1>6, MakerFrame DEF Making

\* git worktree prune takes trees that are not there out of the list, or fails.
LEMMA PruneKeeps ==
  ASSUME WorkspacesInv, NEW p \in Proc, Prune(p)
  PROVE  WorkspacesInv'
<1>0. PICK w \in Workspace :
        /\ w = reg[p].ws /\ pc[p] = "prune" /\ MakerOf(p, w) /\ RowOK(w)
        /\ UNCHANGED <<repository, tree, at, row, rev, removing, undeleted>>
        /\ made' = [made EXCEPT ![w] = "failed"]
  BY RowsOK DEF Prune, EndMaking, WorkspacesInv, CommandInv, MakerOf, Making
<1>1. pc' = [pc EXCEPT ![p] = "idle"] /\ reg' = [reg EXCEPT ![p] = Blank]
  BY DEF Prune, EndMaking, End, Goto
<1>2. /\ registered' \in [Workspace -> BOOLEAN]
      /\ unpruned' = unpruned \/ unpruned' = unpruned \cup {w}
      /\ \A v \in Workspace :
           \/ registered'[v] = registered[v]
           \/ tree[v] \in {"none", "partial"} /\ ~registered'[v]
      /\ registered'[w] => tree[w] # "none" \/ w \in unpruned'
  <2>1. CASE UNCHANGED registered /\ unpruned' = unpruned \cup {w}
    BY <2>1 DEF WorkspacesInv, TypeOK
  <2>2. CASE \E gone \in SUBSET {v \in Workspace : tree[v] \in {"none", "partial"}} :
               /\ tree[w] = "none" => w \in gone
               /\ registered' = [v \in Workspace |-> registered[v] /\ v \notin gone]
               /\ UNCHANGED unpruned
    <3>1. PICK gone \in SUBSET {v \in Workspace : tree[v] \in {"none", "partial"}} :
               /\ tree[w] = "none" => w \in gone
               /\ registered' = [v \in Workspace |-> registered[v] /\ v \notin gone]
               /\ UNCHANGED unpruned
      BY <2>2
    <3>2. \A v \in Workspace : registered'[v] <=> registered[v] /\ v \notin gone
      BY <3>1
    <3>3. \A v \in Workspace : registered[v] \in BOOLEAN /\ registered'[v] \in BOOLEAN
      BY <3>1 DEF WorkspacesInv, TypeOK
    <3> QED
      BY <3>1, <3>2, <3>3
  <2> QED
    BY <1>0, <2>1, <2>2 DEF Prune
<1>3. TypeOK'
  <2>1. made' \in [Workspace -> {"unused", "begun"} \cup Ending] /\ unpruned' \subseteq Workspace
    BY <1>0, <1>2 DEF WorkspacesInv, TypeOK, Ending
  <2> QED
    BY <1>0, <1>1, <1>2, <2>1, Ended DEF WorkspacesInv, TypeOK, repository
<1>4. RowOK(w)'
  BY <1>0, <1>2 DEF MakerOf, RowOK, WorkspacesInv, TypeOK
<1>5. \A v \in Workspace : v # w => LeftAlone(v)
  BY <1>0, <1>2 DEF LeftAlone, WorkspacesInv, TypeOK
<1> QED
  BY <1>0, <1>1, <1>3, <1>4, <1>5, Ended, MakerFrame DEF Making, WorkspacesInv

RemoveStep(p) == RemoveGit(p) \/ RemoveDir(p) \/ RemoveRow(p)

LEMMA RemoveBeginKeeps ==
  ASSUME WorkspacesInv, NEW p \in Proc, NEW w \in Workspace, RemoveBegin(p, w)
  PROVE  WorkspacesInv'
<1>1. /\ row[w] # "none" /\ removing' = removing \cup {w}
      /\ pc' = [pc EXCEPT ![p] = "removegit"] /\ reg' = [reg EXCEPT ![p].ws = w]
      /\ UNCHANGED <<repository, tree, at, registered, row, rev, leftovers, made>>
  BY DEF RemoveBegin, Goto
<1>2. /\ pc'[p] = "removegit" /\ reg'[p].ws = w /\ pc' \in [Proc -> Step]
      /\ reg' \in [Proc -> Register]
      /\ \A q \in Proc : q # p => pc'[q] = pc[q] /\ reg'[q] = reg[q]
  BY <1>1 DEF WorkspacesInv, TypeOK, Step, Removing, Register
<1>3. TypeOK'
  BY <1>1, <1>2 DEF WorkspacesInv, TypeOK, repository
<1>4. RemoverOf(p, w)' /\ \A v \in Workspace : LeftAlone(v)
  BY <1>1, <1>2 DEF RemoverOf, LeftAlone
<1>5. row[w] = "removed" => tree[w] = "none" \/ w \in undeleted
  BY DEF WorkspacesInv, DirectoriesAsRecorded, RemovedIsGone
<1>6. \A q \in Proc : pc[q] = "removerow" => tree[w] = "none" \/ w \in undeleted \/ reg[q].ws # w
  BY DEF WorkspacesInv, CommandInv, RemoverOf, Removing
<1> QED
  BY <1>1, <1>2, <1>3, <1>4, <1>5, <1>6, RemoverFrame DEF Removing

LEMMA RemoveKeeps ==
  ASSUME WorkspacesInv, NEW p \in Proc, RemoveStep(p)
  PROVE  WorkspacesInv'
<1>0. PICK w \in removing :
        /\ w = reg[p].ws /\ w \in Workspace /\ pc[p] \in Removing /\ RemoverOf(p, w)
        /\ row[w] # "none" /\ (row[w] = "removed" => tree[w] = "none" \/ w \in undeleted)
        /\ UNCHANGED <<repository, at, rev, removing, unpruned, made>>
  BY DEF RemoveStep, RemoveGit, RemoveDir, RemoveRow, WorkspacesInv, CommandInv, RowInv,
     TypeOK, RemoverOf, Removing, DirectoriesAsRecorded, RemovedIsGone
<1>1. CASE RemoveGit(p) \/ RemoveDir(p)
  <2>1. /\ UNCHANGED <<row, reg, unpruned>>
        /\ \/ /\ pc' = [pc EXCEPT ![p] = "removedir"]
              /\ RemoveByGit(w) /\ UNCHANGED leftovers
           \/ /\ pc' = [pc EXCEPT ![p] = "removerow"]
              /\ RemoveAll(w) /\ UNCHANGED registered
    BY <1>0, <1>1 DEF RemoveGit, RemoveDir, Goto
  <2>2. /\ tree' \in [Workspace -> {"none", "partial", "worktree", "clone"}]
        /\ registered' \in [Workspace -> BOOLEAN] /\ undeleted' \subseteq Workspace
        /\ tree'[w] \in {tree[w], "none", "partial"} /\ (tree[w] = "none" => tree'[w] = "none")
        /\ tree[w] = "none" \/ w \in undeleted => tree'[w] = "none" \/ w \in undeleted'
        /\ RemoveAll(w) => tree'[w] = "none" \/ w \in undeleted'
        /\ \A v \in Workspace : v # w =>
             /\ tree'[v] = tree[v] /\ registered'[v] = registered[v]
             /\ v \in undeleted' <=> v \in undeleted
    BY <1>0, <2>1, TreeRemoved
  <2>3. /\ pc' \in [Proc -> Step] /\ pc'[p] \in {"removedir", "removerow"}
        /\ pc'[p] = "removerow" => tree'[w] = "none" \/ w \in undeleted'
        /\ \A q \in Proc : q # p => pc'[q] = pc[q]
    BY <1>0, <2>1, <2>2 DEF WorkspacesInv, TypeOK, Step, Removing
  <2>4. TypeOK'
    BY <1>0, <2>1, <2>2, <2>3 DEF WorkspacesInv, TypeOK, repository
  <2>5. RemoverOf(p, w)' /\ \A v \in Workspace : v # w => LeftAlone(v)
    BY <1>0, <2>1, <2>2, <2>3 DEF RemoverOf, LeftAlone
  <2>6. removing' = removing \cup {w} /\ w \in removing'
    BY <1>0
  <2>7. row'[w] # "none" /\ (row'[w] = "removed" => tree'[w] = "none" \/ w \in undeleted')
    BY <1>0, <2>1, <2>2
  <2>8. \A q \in Proc : pc[q] = "removerow" =>
          tree'[w] = "none" \/ w \in undeleted' \/ reg[q].ws # w
    BY <2>2 DEF WorkspacesInv, CommandInv, RemoverOf, Removing
  <2> QED
    BY <1>0, <2>1, <2>2, <2>3, <2>4, <2>5, <2>6, <2>7, <2>8, RemoverFrame DEF Removing
<1>2. CASE RemoveRow(p)
  <2>1. /\ pc[p] = "removerow" /\ UNCHANGED <<tree, registered, leftovers>>
        /\ row' = [row EXCEPT ![w] = "removed"] \/ row' = row
        /\ pc' = [pc EXCEPT ![p] = "idle"] /\ reg' = [reg EXCEPT ![p] = Blank]
    BY <1>0, <1>2 DEF RemoveRow, End, Goto
  <2>2. /\ row' \in [Workspace -> {"none", "active", "removed"}]
        /\ \A v \in Workspace : v # w => row'[v] = row[v]
        /\ row'[w] # "none" /\ (tree[w] = "none" \/ w \in undeleted)
    BY <1>0, <2>1 DEF WorkspacesInv, TypeOK, RemoverOf
  <2>3. TypeOK'
    BY <1>0, <2>1, <2>2, Ended DEF WorkspacesInv, TypeOK, repository
  <2>4. \A v \in Workspace : v # w => LeftAlone(v)
    BY <1>0, <2>1, <2>2 DEF LeftAlone
  <2>5. removing' = removing \cup {w} /\ w \in removing'
    BY <1>0
  <2>6. pc'[p] = "idle" /\ \A q \in Proc : q # p => pc'[q] = pc[q] /\ reg'[q] = reg[q]
    BY <2>1, Ended DEF WorkspacesInv
  <2>7. \A q \in Proc : pc[q] = "removerow" =>
          tree'[w] = "none" \/ w \in undeleted' \/ reg[q].ws # w
    BY <2>1, <2>2
  <2> QED
    BY <1>0, <2>1, <2>2, <2>3, <2>4, <2>5, <2>6, <2>7, RemoverFrame DEF Removing
<1> QED
  BY <1>1, <1>2 DEF RemoveStep

\* A command is killed: of what it was making at most a part is left.
LEMMA KillKeeps ==
  ASSUME WorkspacesInv, NEW p \in Proc, Kill(p)
  PROVE  WorkspacesInv'
<1>1. /\ pc' = [pc EXCEPT ![p] = "idle"] /\ reg' = [reg EXCEPT ![p] = Blank]
      /\ UNCHANGED <<rows, objects, head, lookedAlone, at, row, rev, removing, leftovers>>
  BY DEF Kill, End, Goto
<1>2. pc'[p] = "idle" /\ \A q \in Proc : q # p => pc'[q] = pc[q] /\ reg'[q] = reg[q]
  BY <1>1, Ended DEF WorkspacesInv
<1>3. ASSUME NEW w \in Workspace, w = reg[p].ws, bare' = bare,
             made' = [made EXCEPT ![w] = "cut"] \/ made' = made,
             \/ UNCHANGED <<tree, registered>>
             \/ /\ tree' = [tree EXCEPT ![w] = "partial"]
                /\ registered' \in {registered, [registered EXCEPT ![w] = TRUE],
                                   [registered EXCEPT ![w] = FALSE]}
      PROVE  /\ TypeOK' /\ \A v \in Workspace : v # w => LeftAlone(v)
             /\ tree'[w] \in {tree[w], "partial"}
  <2>1. /\ tree' \in [Workspace -> {"none", "partial", "worktree", "clone"}]
        /\ registered' \in [Workspace -> BOOLEAN]
        /\ made' \in [Workspace -> {"unused", "begun"} \cup Ending]
        /\ tree'[w] \in {tree[w], "partial"}
        /\ \A v \in Workspace : v # w =>
             tree'[v] = tree[v] /\ registered'[v] = registered[v] /\ made'[v] = made[v]
    BY <1>3 DEF WorkspacesInv, TypeOK, Ending
  <2>2. \A v \in Workspace : tree'[v] \in {"worktree", "clone"} => tree'[v] = tree[v]
    BY <2>1
  <2> QED
    BY <1>1, <1>3, <2>1, <2>2, Ended DEF WorkspacesInv, TypeOK, LeftAlone
<1>4. CASE pc[p] \in Making
  <2>0. PICK w \in Workspace : w = reg[p].ws /\ MakerOf(p, w) /\ RowOK(w)
    BY <1>4, RowsOK DEF WorkspacesInv, CommandInv, MakerOf
  <2>1. /\ made' = [made EXCEPT ![w] = "cut"] /\ bare' = bare
        /\ \/ UNCHANGED <<tree, registered>>
           \/ /\ tree' = [tree EXCEPT ![w] = "partial"]
              /\ registered' \in {registered, [registered EXCEPT ![w] = TRUE],
                                 [registered EXCEPT ![w] = FALSE]}
    BY <1>4, <2>0 DEF Kill, Making
  <2>2. TypeOK' /\ \A v \in Workspace : v # w => LeftAlone(v)
    BY <1>3, <2>0, <2>1
  <2>3. RowOK(w)'
    BY <1>1, <2>0, <2>1 DEF MakerOf, RowOK, WorkspacesInv, TypeOK
  <2> QED
    BY <1>1, <1>2, <1>4, <2>0, <2>1, <2>2, <2>3, MakerFrame DEF Making, repository
<1>5. CASE pc[p] \in Removing
  <2>0. PICK w \in removing :
          /\ w = reg[p].ws /\ w \in Workspace /\ row[w] # "none"
          /\ row[w] = "removed" => tree[w] = "none" \/ w \in undeleted
    BY <1>5 DEF WorkspacesInv, CommandInv, RowInv, TypeOK, RemoverOf, DirectoriesAsRecorded,
       RemovedIsGone
  <2>1. /\ made' = made /\ bare' = bare
        /\ \/ UNCHANGED <<tree, registered>>
           \/ /\ tree' = [tree EXCEPT ![w] = "partial"] /\ tree[w] # "none"
              /\ registered' \in {registered, [registered EXCEPT ![w] = FALSE]}
    <3>1. pc[p] \notin Making /\ pc[p] \notin {"add", "restore", "init"}
      BY <1>5 DEF Making, Removing
    <3>2. (pc[p] \in {"add", "restore"}) = FALSE
      BY <3>1
    <3> QED
      BY <2>0, <3>1, <3>2 DEF Kill
  <2>2. /\ TypeOK' /\ \A v \in Workspace : v # w => LeftAlone(v)
        /\ tree'[w] \in {tree[w], "partial"}
    BY <1>3, <2>0, <2>1
  <2>3. tree[w] = "none" => tree'[w] = "none"
    BY <2>1
  <2>4. \A q \in Proc : pc[q] = "removerow" =>
          tree'[w] = "none" \/ w \in undeleted' \/ reg[q].ws # w
    BY <1>1, <2>3 DEF WorkspacesInv, CommandInv, RemoverOf, Removing
  <2> QED
    BY <1>1, <1>2, <2>0, <2>1, <2>2, <2>3, <2>4, RemoverFrame DEF Removing, repository
<1>6. CASE pc[p] \notin Making \cup Removing
  <2>1. /\ made' = made /\ UNCHANGED <<tree, registered>>
        /\ \/ bare' = bare
           \/ /\ pc[p] = "init" /\ bare[reg[p].name] = "none"
              /\ bare' = [bare EXCEPT ![reg[p].name] = "partial"]
    BY <1>6 DEF Kill, Making, Removing
  <2>2. /\ bare' \in [Name -> {"none", "partial", "whole"}]
        /\ \A n \in Name : bare[n] = "whole" => bare'[n] = "whole"
    BY <2>1 DEF WorkspacesInv, TypeOK
  <2>3. TypeOK'
    BY <1>1, <2>1, <2>2, Ended DEF WorkspacesInv, TypeOK
  <2>4. HostInv' /\ HostedWhole'
    BY <1>1, <1>2, <2>2
       DEF WorkspacesInv, HostInv, DirectoriesAsRecorded, HostedWhole, Hosting
  <2> QED
    BY <1>1, <1>2, <2>1, <2>3, <2>4, HostFrame DEF workspace
<1> QED
  BY <1>4, <1>5, <1>6

LEMMA WorkspacesStep == WorkspacesInv /\ [Next]_vars => WorkspacesInv'
<1> SUFFICES ASSUME WorkspacesInv, [Next]_vars PROVE WorkspacesInv'
  OBVIOUS
<1>1. CASE UNCHANGED vars
  BY <1>1 DEF vars, repository, workspace, WorkspacesInv, TypeOK, HostInv, CommandInv, MakerOf,
     RemoverOf, Standing, RowInv, DirectoriesAsRecorded, HostedWhole, ActiveHasTree,
     RemovedIsGone, RestoreAllOrNothing, CheckedOutAsRecorded
<1>2. CASE Next
  BY <1>2, PushKeeps, HostKeeps, BeginKeeps, CreateKeeps, RestoreTreeKeeps, RestoreRowKeeps,
     UndoKeeps, PruneKeeps, RemoveBeginKeeps, RemoveKeeps, KillKeeps
     DEF Next, HostStep, CreateStep, RemoveStep
<1> QED
  BY <1>1, <1>2

LEMMA WorkspacesCorrect == Spec => []WorkspacesInv
  BY WorkspacesInit, WorkspacesStep, PTL DEF Spec

-----------------------------------------------------------------------------
\* Every row, directory and register has its type.
THEOREM WorkspacesTyped == Spec => []TypeOK
  BY WorkspacesCorrect, PTL DEF WorkspacesInv

\* A row says of its directory what is so, for any number of commands, of which
\* any may fail or be killed between any two steps.
THEOREM RowsTellTheTruth == Spec => []DirectoriesAsRecorded
  BY WorkspacesCorrect, PTL DEF WorkspacesInv

\* A restore that was not killed has made a workspace, or has left nothing.
THEOREM RestoresWholeOrNothing == Spec => []RestoreAllOrNothing
  BY WorkspacesCorrect, PTL DEF WorkspacesInv

\* The commit that is checked out is the one the row names.
THEOREM CheckoutsAreRecorded == Spec => []CheckedOutAsRecorded
  BY WorkspacesCorrect, PTL DEF WorkspacesInv
=============================================================================
