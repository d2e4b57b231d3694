------------------------------ MODULE FilesProofs ----------------------------
(***************************************************************************)
(* What holds of RestoreCommit for every number of directories, names and  *)
(* overlapping commands; and, below, of HookFiles for every set of hooks   *)
(* and commands when no two commands run at the same time, wherever they   *)
(* are killed.  Both protocols move files by their names.                  *)
(***************************************************************************)
EXTENDS RestoreCommit, HookFiles, TLAPS

Restoring == {"commit", "place", "setaside", "swap"}

\* No two restores have the same directory staged, or the same one aside, and
\* nobody else has one.
Apart ==
  /\ \A p \in Proc : mine[p] # None => pc[p] \in Restoring \cup {"open"}
  /\ \A p, q \in Proc : p # q /\ pc[p] \in Restoring /\ pc[q] \in Restoring =>
       mine[p] # mine[q]
  /\ \A p, q \in Proc : p # q /\ pc[p] = "swap" /\ pc[q] = "swap" =>
       aside[p] # aside[q]

\* An open database is in a home that is somewhere; an empty directory holds
\* nothing of anyone's.
DataInv ==
  /\ \A p \in Proc : pc[p] = "open" =>
       mine[p] \in Dir /\ kind[mine[p]] = "home" /\ at[mine[p]] \in Name \cup {Target}
  /\ \A d \in Dir : kind[d] = "empty" => d \notin used

RestoreInv == TypeOK /\ Apart /\ DataInv /\ NothingDestroyed

LEMMA RestoreInit == Init => RestoreInv
  BY RestoreAssumption
     DEF Init, RestoreInv, TypeOK, OnePerPath, RegisterOK, Apart, DataInv,
         NothingDestroyed, Restoring

\* The end of a command, whatever it has staged.
LEMMA GiveUpKeeps ==
  ASSUME RestoreInv, NEW p \in Proc, GiveUp(p)
  PROVE  RestoreInv'
<1> USE RestoreAssumption
<1>1. /\ pc' = [pc EXCEPT ![p] = "idle"] /\ mine' = [mine EXCEPT ![p] = None]
      /\ aside' = [aside EXCEPT ![p] = None] /\ used' = used
      /\ force' = [force EXCEPT ![p] = FALSE] /\ wasEmpty' = [wasEmpty EXCEPT ![p] = FALSE]
      /\ before' = [before EXCEPT ![p] = None] /\ overlap' = overlap
  BY DEF GiveUp, Finish, Goto, Forget
<1>2. /\ pc'[p] = "idle" /\ mine'[p] = None
      /\ \A q \in Proc : q # p =>
           pc'[q] = pc[q] /\ mine'[q] = mine[q] /\ aside'[q] = aside[q]
  BY <1>1 DEF RestoreInv, TypeOK
<1>3. CASE mine[p] # None /\ at[mine[p]] = Staged
  <2>1. /\ mine[p] \in Dir /\ pc[p] \in Restoring
        /\ kind' = [kind EXCEPT ![mine[p]] = "unused"]
        /\ at' = [at EXCEPT ![mine[p]] = None]
    BY <1>3 DEF GiveUp, Unstage, RestoreInv, TypeOK, Apart, DataInv
  <2>2. /\ \A d \in Dir : d # mine[p] => kind'[d] = kind[d] /\ at'[d] = at[d]
        /\ kind'[mine[p]] = "unused" /\ at'[mine[p]] = None
    BY <2>1 DEF RestoreInv, TypeOK
  <2>3. \A q \in Proc : q # p /\ pc[q] \in Restoring => mine[q] # mine[p]
    BY <2>1 DEF RestoreInv, Apart
  <2>4. \A q \in Proc : RegisterOK(q)'
    BY <1>2, <1>3, <2>2, <2>3 DEF RestoreInv, TypeOK, RegisterOK, Restoring
  <2>5. TypeOK'
    BY <1>1, <2>1, <2>2, <2>4 DEF RestoreInv, TypeOK, OnePerPath
  <2>6. Apart'
    BY <1>2 DEF RestoreInv, Apart, Restoring
  <2>7. DataInv' /\ NothingDestroyed'
    BY <1>1, <1>2, <1>3, <2>2 DEF RestoreInv, DataInv, NothingDestroyed, TypeOK
  <2> QED
    BY <2>5, <2>6, <2>7 DEF RestoreInv
<1>4. CASE ~(mine[p] # None /\ at[mine[p]] = Staged)
  <2>1. UNCHANGED <<kind, at>>
    BY <1>4 DEF GiveUp, Unstage
  <2>2. TypeOK'
    BY <1>1, <1>2, <2>1 DEF RestoreInv, TypeOK, OnePerPath, RegisterOK
  <2>3. Apart'
    BY <1>2 DEF RestoreInv, Apart, Restoring
  <2>4. DataInv' /\ NothingDestroyed'
    BY <1>1, <1>2, <2>1 DEF RestoreInv, DataInv, NothingDestroyed
  <2> QED
    BY <2>2, <2>3, <2>4 DEF RestoreInv
<1> QED
  BY <1>3, <1>4

\* A new directory at the target, and what the user and the commands put there.
LEMMA HomeStepsKeep ==
  ASSUME RestoreInv,
         \/ \E d \in Dir : UserMakes(d) \/ UserFills(d)
         \/ \E p \in Proc : CommandStep(p)
  PROVE  RestoreInv'
<1> USE RestoreAssumption
<1>1. ASSUME NEW d \in Dir, UserMakes(d) PROVE RestoreInv'
  <2>1. /\ kind' = [kind EXCEPT ![d] = "empty"] /\ at' = [at EXCEPT ![d] = Target]
        /\ at[d] = None /\ Vacant(Target) /\ UNCHANGED <<used, pc, local, overlap>>
    BY <1>1 DEF UserMakes, MakeDirectory, RestoreInv, TypeOK
  <2>2. d \notin used
    BY <2>1 DEF RestoreInv, NothingDestroyed
  <2> QED
    BY <2>1, <2>2 DEF RestoreInv, TypeOK, OnePerPath, RegisterOK, Apart, DataInv,
       NothingDestroyed, Restoring, Vacant, local
<1>2. ASSUME NEW d \in Dir, UserFills(d) PROVE RestoreInv'
  BY <1>2 DEF UserFills, RestoreInv, TypeOK, OnePerPath, RegisterOK, Apart, DataInv,
     NothingDestroyed, Restoring, local
<1>3. ASSUME NEW p \in Proc, OpenBegin(p) PROVE RestoreInv'
  BY <1>3 DEF OpenBegin, MayBegin, Goto, dirs, local, RestoreInv, TypeOK, OnePerPath,
     RegisterOK, Apart, DataInv, NothingDestroyed, Restoring
<1>4. ASSUME NEW p \in Proc, EnsureRoot(p) PROVE RestoreInv'
  <2>1. /\ pc[p] = "root" /\ pc' = [pc EXCEPT ![p] = "subs"]
        /\ UNCHANGED <<used, local, overlap>>
    BY <1>4 DEF EnsureRoot, Goto
  <2>2. ASSUME NEW d \in Dir, MakeDirectory(d) PROVE RestoreInv'
    <3>1. /\ kind' = [kind EXCEPT ![d] = "empty"] /\ at' = [at EXCEPT ![d] = Target]
          /\ at[d] = None /\ Vacant(Target)
      BY <2>2 DEF MakeDirectory, RestoreInv, TypeOK
    <3>2. d \notin used
      BY <3>1 DEF RestoreInv, NothingDestroyed
    <3> QED
      BY <2>1, <3>1, <3>2 DEF RestoreInv, TypeOK, OnePerPath, RegisterOK, Apart, DataInv,
         NothingDestroyed, Restoring, Vacant, local
  <2>3. CASE UNCHANGED <<kind, at>>
    BY <2>1, <2>3 DEF RestoreInv, TypeOK, OnePerPath, RegisterOK, Apart, DataInv,
       NothingDestroyed, Restoring, local
  <2> QED
    BY <1>4, <2>2, <2>3 DEF EnsureRoot
<1>5. ASSUME NEW p \in Proc, EnsureSubdirectories(p) PROVE RestoreInv'
  <2>1. /\ pc[p] = "subs" /\ pc' = [pc EXCEPT ![p] = "db"]
        /\ UNCHANGED <<used, local, overlap>>
    BY <1>5 DEF EnsureSubdirectories, Goto
  <2>2. ASSUME NEW d \in Dir, kind[d] = "unused", Vacant(Target),
               kind' = [kind EXCEPT ![d] = "tree"], at' = [at EXCEPT ![d] = Target]
        PROVE  RestoreInv'
    <3>1. at[d] = None
      BY <2>2 DEF RestoreInv, TypeOK
    <3> QED
      BY <2>1, <2>2, <3>1 DEF RestoreInv, TypeOK, OnePerPath, RegisterOK, Apart, DataInv,
         NothingDestroyed, Restoring, Vacant, local
  <2>3. ASSUME NEW d \in Dir, kind[d] = "empty", UNCHANGED at,
               kind' = [kind EXCEPT ![d] = "tree"]
        PROVE  RestoreInv'
    BY <2>1, <2>3 DEF RestoreInv, TypeOK, OnePerPath, RegisterOK, Apart, DataInv,
       NothingDestroyed, Restoring, local
  <2>4. CASE UNCHANGED <<kind, at>>
    BY <2>1, <2>4 DEF RestoreInv, TypeOK, OnePerPath, RegisterOK, Apart, DataInv,
       NothingDestroyed, Restoring, local
  <2> QED
    BY <1>5, <2>2, <2>3, <2>4 DEF EnsureSubdirectories
<1>6. ASSUME NEW p \in Proc, NEW d \in Dir, pc[p] = "db", at[d] = Target,
             kind' = [kind EXCEPT ![d] = "home"], mine' = [mine EXCEPT ![p] = d],
             Goto(p, "open"), UNCHANGED <<at, used, force, aside, wasEmpty, before>>
      PROVE  RestoreInv'
  BY <1>6 DEF Goto, RestoreInv, TypeOK, OnePerPath, RegisterOK, Apart, DataInv,
     NothingDestroyed, Restoring
<1>7. ASSUME NEW p \in Proc, OpenDatabase(p) PROVE RestoreInv'
  BY <1>6, <1>7 DEF OpenDatabase
<1>8. ASSUME NEW p \in Proc, NEW d \in Dir, Write(p, d) PROVE RestoreInv'
  <2>1. /\ pc[p] = "open" /\ kind[d] = "home" /\ at[d] \in Name \cup {Target}
        /\ used' = used \cup {d} /\ UNCHANGED <<kind, at>>
    BY <1>8 DEF Write, RestoreInv, DataInv
  <2> QED
    BY <1>8, <2>1 DEF Write, Finish, Goto, Forget, RestoreInv, TypeOK, OnePerPath,
       RegisterOK, Apart, DataInv, NothingDestroyed, Restoring
<1> QED
  BY <1>1, <1>2, <1>3, <1>4, <1>5, <1>7, <1>8 DEF CommandStep

\* What a restoring process that ends has given back.
LEMMA FinishPlaces ==
  ASSUME TypeOK, NEW p \in Proc, Finish(p)
  PROVE  /\ pc' = [pc EXCEPT ![p] = "idle"] /\ mine' = [mine EXCEPT ![p] = None]
         /\ aside' = [aside EXCEPT ![p] = None]
         /\ force' \in [Proc -> BOOLEAN] /\ wasEmpty' \in [Proc -> BOOLEAN]
         /\ before' \in [Proc -> Dir \cup {None}] /\ overlap' = overlap
         /\ pc'[p] = "idle" /\ mine'[p] = None
         /\ \A q \in Proc : q # p =>
              pc'[q] = pc[q] /\ mine'[q] = mine[q] /\ aside'[q] = aside[q]
  BY DEF Finish, Goto, Forget, TypeOK

LEMMA RestoreStepsKeep ==
  ASSUME RestoreInv, NEW p \in Proc, RestoreStep(p)
  PROVE  RestoreInv'
<1> USE RestoreAssumption
<1>1. ASSUME NEW f \in BOOLEAN, RestoreBegin(p, f) PROVE RestoreInv'
  <2>1. before' \in [Proc -> Dir \cup {None}]
    BY <1>1 DEF RestoreBegin, Found, RestoreInv, TypeOK
  <2> QED
    BY <1>1, <2>1 DEF RestoreBegin, MayBegin, Goto, dirs, RestoreInv, TypeOK, OnePerPath,
       RegisterOK, Apart, DataInv, NothingDestroyed, Restoring
<1>2. ASSUME NEW d \in Dir, Stage(p, d) PROVE RestoreInv'
  <2>1. /\ pc[p] = "stage" /\ at[d] = None /\ kind' = [kind EXCEPT ![d] = "home"]
        /\ at' = [at EXCEPT ![d] = Staged] /\ mine' = [mine EXCEPT ![p] = d]
        /\ pc' = [pc EXCEPT ![p] = "commit"]
        /\ UNCHANGED <<used, force, aside, wasEmpty, before, overlap>>
    BY <1>2 DEF Stage, Goto, RestoreInv, TypeOK
  <2>2. d \notin used
    BY <2>1 DEF RestoreInv, NothingDestroyed
  <2>3. \A q \in Proc : pc[q] \in Restoring => mine[q] # d
    BY <2>1 DEF RestoreInv, TypeOK, RegisterOK, Restoring
  <2>4. \A q \in Proc : RegisterOK(q)'
    BY <2>1, <2>3 DEF RestoreInv, TypeOK, RegisterOK, Restoring
  <2>5. TypeOK'
    BY <2>1, <2>4 DEF RestoreInv, TypeOK, OnePerPath
  <2>6. Apart'
    BY <2>1, <2>3 DEF RestoreInv, TypeOK, Apart, Restoring
  <2>7. DataInv' /\ NothingDestroyed'
    BY <2>1, <2>2 DEF RestoreInv, TypeOK, DataInv, NothingDestroyed
  <2> QED
    BY <2>5, <2>6, <2>7 DEF RestoreInv
<1>3. ASSUME Commit(p) PROVE RestoreInv'
  BY <1>3 DEF Commit, Goto, dirs, RestoreInv, TypeOK, OnePerPath, RegisterOK, Apart,
     DataInv, NothingDestroyed, Restoring
<1>4. ASSUME Place(p) PROVE RestoreInv'
  <2>1. /\ pc[p] = "place" /\ mine[p] \in Dir /\ at[mine[p]] = Staged
        /\ at' = [at EXCEPT ![mine[p]] = Target] /\ UNCHANGED <<kind, used>>
        /\ Vacant(Target) /\ Finish(p)
    BY <1>4 DEF Place, RestoreInv, TypeOK, RegisterOK
  <2>2. \A q \in Proc : q # p /\ pc[q] \in Restoring => mine[q] # mine[p]
    BY <2>1 DEF RestoreInv, Apart, Restoring
  <2>3. \A q \in Proc : RegisterOK(q)'
    BY <2>1, <2>2, FinishPlaces DEF RestoreInv, TypeOK, RegisterOK, Restoring
  <2>4. TypeOK'
    BY <2>1, <2>3, FinishPlaces DEF RestoreInv, TypeOK, OnePerPath, Vacant
  <2>5. Apart'
    BY <2>1, FinishPlaces DEF RestoreInv, Apart, Restoring
  <2>6. DataInv' /\ NothingDestroyed'
    BY <2>1, FinishPlaces DEF RestoreInv, TypeOK, DataInv, NothingDestroyed
  <2> QED
    BY <2>4, <2>5, <2>6 DEF RestoreInv
<1>5. ASSUME NEW d \in Dir, NEW name \in Name, SetAside(p, d, name) PROVE RestoreInv'
  <2>1. /\ pc[p] = "setaside" /\ at[d] = Target /\ Vacant(name)
        /\ at' = [at EXCEPT ![d] = name] /\ aside' = [aside EXCEPT ![p] = d]
        /\ pc' = [pc EXCEPT ![p] = "swap"]
        /\ UNCHANGED <<kind, used, force, mine, wasEmpty, before, overlap>>
    BY <1>5 DEF SetAside, Goto
  <2>2. \A q \in Proc : pc[q] = "swap" => aside[q] # d
    BY <2>1 DEF RestoreInv, TypeOK, RegisterOK
  <2>3. \A q \in Proc : RegisterOK(q)'
    BY <2>1, <2>2 DEF RestoreInv, TypeOK, RegisterOK
  <2>4. TypeOK'
    BY <2>1, <2>3 DEF RestoreInv, TypeOK, OnePerPath, Vacant
  <2>5. Apart'
    BY <2>1, <2>2 DEF RestoreInv, TypeOK, Apart, Restoring
  <2>6. DataInv' /\ NothingDestroyed'
    BY <2>1 DEF RestoreInv, TypeOK, DataInv, NothingDestroyed
  <2> QED
    BY <2>4, <2>5, <2>6 DEF RestoreInv
<1>6. ASSUME Swap(p) PROVE RestoreInv'
  <2>1. /\ pc[p] = "swap" /\ mine[p] \in Dir /\ at[mine[p]] = Staged
        /\ kind[mine[p]] = "home" /\ aside[p] \in Dir /\ at[aside[p]] \in Name
        /\ aside[p] # mine[p] /\ Vacant(Target) /\ used' = used /\ Finish(p)
    BY <1>6 DEF Swap, RestoreInv, TypeOK, RegisterOK
  <2>2. \A q \in Proc : q # p =>
          /\ pc[q] \in Restoring => mine[q] # mine[p] /\ mine[q] # aside[p]
          /\ pc[q] = "swap" => aside[q] # aside[p] /\ aside[q] # mine[p]
    BY <2>1 DEF RestoreInv, TypeOK, RegisterOK, Apart, Restoring
  <2>3. CASE kind[aside[p]] = "empty" /\ wasEmpty[p]
    <3>1. /\ at' = [at EXCEPT ![mine[p]] = Target, ![aside[p]] = None]
          /\ kind' = [kind EXCEPT ![aside[p]] = "unused"]
          /\ aside[p] \notin used
      BY <1>6, <2>1, <2>3 DEF Swap, RestoreInv, DataInv
    <3>2. /\ at'[mine[p]] = Target /\ at'[aside[p]] = None
          /\ kind'[aside[p]] = "unused" /\ kind'[mine[p]] = "home"
          /\ \A d \in Dir : d # aside[p] => kind'[d] = kind[d]
          /\ \A d \in Dir : d # aside[p] /\ d # mine[p] => at'[d] = at[d]
      BY <2>1, <3>1 DEF RestoreInv, TypeOK
    <3>3. \A q \in Proc : RegisterOK(q)'
      BY <2>1, <2>2, <3>2, FinishPlaces DEF RestoreInv, TypeOK, RegisterOK, Restoring
    <3>4. TypeOK'
      <4>1. OnePerPath'
        BY <2>1, <3>2 DEF RestoreInv, TypeOK, OnePerPath, Vacant
      <4>2. /\ kind' \in [Dir -> {"unused", "empty", "tree", "home"}]
            /\ at' \in [Dir -> Name \cup {Target, Staged, None}]
        BY <2>1, <3>1 DEF RestoreInv, TypeOK
      <4>3. \A d \in Dir : kind'[d] = "unused" <=> at'[d] = None
        BY <2>1, <3>2 DEF RestoreInv, TypeOK
      <4> QED
        BY <2>1, <3>3, <4>1, <4>2, <4>3, FinishPlaces DEF RestoreInv, TypeOK
    <3>5. Apart'
      BY <2>1, FinishPlaces DEF RestoreInv, Apart, Restoring
    <3>6. DataInv' /\ NothingDestroyed'
      BY <2>1, <2>3, <3>1, <3>2, FinishPlaces DEF RestoreInv, TypeOK, DataInv, NothingDestroyed
    <3> QED
      BY <3>4, <3>5, <3>6 DEF RestoreInv
  <2>4. CASE ~(kind[aside[p]] = "empty" /\ wasEmpty[p])
    <3>1. at' = [at EXCEPT ![mine[p]] = Target] /\ UNCHANGED kind
      BY <1>6, <2>4 DEF Swap
    <3>2. \A q \in Proc : RegisterOK(q)'
      BY <2>1, <2>2, <3>1, FinishPlaces DEF RestoreInv, TypeOK, RegisterOK, Restoring
    <3>3. TypeOK'
      BY <2>1, <3>1, <3>2, FinishPlaces DEF RestoreInv, TypeOK, OnePerPath, Vacant
    <3>4. Apart'
      BY <2>1, FinishPlaces DEF RestoreInv, Apart, Restoring
    <3>5. DataInv' /\ NothingDestroyed'
      BY <2>1, <3>1, FinishPlaces DEF RestoreInv, TypeOK, DataInv, NothingDestroyed
    <3> QED
      BY <3>3, <3>4, <3>5 DEF RestoreInv
  <2> QED
    BY <2>3, <2>4
<1>7. ASSUME SwapFails(p) PROVE RestoreInv'
  <2>1. /\ pc[p] = "swap" /\ mine[p] \in Dir /\ at[mine[p]] = Staged
        /\ aside[p] \in Dir /\ at[aside[p]] \in Name
        /\ aside[p] # mine[p] /\ used' = used /\ Finish(p)
        /\ mine[p] \notin used
        /\ kind' = [kind EXCEPT ![mine[p]] = "unused"]
    BY <1>7 DEF SwapFails, RestoreInv, TypeOK, RegisterOK, NothingDestroyed
  <2>2. \A q \in Proc : q # p =>
          /\ pc[q] \in Restoring => mine[q] # mine[p] /\ mine[q] # aside[p]
          /\ pc[q] = "swap" => aside[q] # aside[p] /\ aside[q] # mine[p]
    BY <2>1 DEF RestoreInv, TypeOK, RegisterOK, Apart, Restoring
  <2>3. /\ at'[mine[p]] = None /\ kind'[mine[p]] = "unused"
        /\ \/ at'[aside[p]] = at[aside[p]]
           \/ Vacant(Target) /\ at'[aside[p]] = Target
        /\ \A d \in Dir : d # mine[p] => kind'[d] = kind[d]
        /\ \A d \in Dir : d # mine[p] /\ d # aside[p] => at'[d] = at[d]
        /\ at' \in [Dir -> Name \cup {Target, Staged, None}]
    BY <1>7, <2>1 DEF SwapFails, RestoreInv, TypeOK
  <2>4. \A q \in Proc : RegisterOK(q)'
    BY <2>1, <2>2, <2>3, FinishPlaces DEF RestoreInv, TypeOK, RegisterOK, Restoring
  <2>5. TypeOK'
    <3>1. OnePerPath'
      BY <2>1, <2>3 DEF RestoreInv, TypeOK, OnePerPath, Vacant
    <3>2. \A d \in Dir : kind'[d] = "unused" <=> at'[d] = None
      BY <2>1, <2>3 DEF RestoreInv, TypeOK
    <3>3. kind' \in [Dir -> {"unused", "empty", "tree", "home"}]
      BY <2>1 DEF RestoreInv, TypeOK
    <3>4. pc' \in [Proc -> {"idle", "root", "subs", "db", "open",
                            "stage", "commit", "place", "setaside", "swap"}]
      BY <2>1, FinishPlaces DEF RestoreInv, TypeOK
    <3>5. mine' \in [Proc -> Dir \cup {None}] /\ aside' \in [Proc -> Dir \cup {None}]
      BY <2>1, FinishPlaces DEF RestoreInv, TypeOK
    <3> QED
      BY <2>1, <2>3, <2>4, <3>1, <3>2, <3>3, <3>4, <3>5, FinishPlaces
         DEF RestoreInv, TypeOK
  <2>6. Apart'
    BY <2>1, FinishPlaces DEF RestoreInv, Apart, Restoring
  <2>7. DataInv' /\ NothingDestroyed'
    BY <2>1, <2>3, FinishPlaces DEF RestoreInv, TypeOK, DataInv, NothingDestroyed
  <2> QED
    BY <2>5, <2>6, <2>7 DEF RestoreInv
<1> QED
  BY <1>1, <1>2, <1>3, <1>4, <1>5, <1>6, <1>7 DEF RestoreStep

LEMMA RestoreInvStep == RestoreInv /\ [Next]_vars => RestoreInv'
<1> SUFFICES ASSUME RestoreInv, [Next]_vars PROVE RestoreInv'
  OBVIOUS
<1>1. CASE UNCHANGED vars
  BY <1>1 DEF vars, RestoreInv, TypeOK, OnePerPath, RegisterOK, Apart, DataInv,
     NothingDestroyed, Restoring
<1>2. CASE Next
  BY <1>2, GiveUpKeeps, HomeStepsKeep, RestoreStepsKeep DEF Next
<1> QED
  BY <1>1, <1>2

LEMMA RestoreCorrect == Spec => []RestoreInv
  BY RestoreInit, RestoreInvStep, PTL DEF Spec

\* Every directory has one place, and a restore has what it is about to rename.
THEOREM RestoreTyped == Spec => []TypeOK
  BY RestoreCorrect, PTL DEF RestoreInv

\* However many restores and commands overlap, nobody's data is deleted.
THEOREM NothingIsDestroyed == Spec => []NothingDestroyed
  BY RestoreCorrect, PTL DEF RestoreInv

-----------------------------------------------------------------------------
(* One command at a time.                                                  *)

\* What a restore that nobody interferes with relies on, step by step.
Undisturbed(p) ==
  /\ pc[p] \in {"stage", "commit"} =>
       Vacant(Target) \/ (before[p] \in Dir /\ at[before[p]] = Target)
  /\ pc[p] = "setaside" =>
       before[p] \in Dir /\ at[before[p]] = Target /\ Allowed(force[p])
  /\ pc[p] = "swap" =>
       before[p] \in Dir /\ aside[p] = before[p] /\ Vacant(Target)

AloneInv ==
  ~overlap =>
    /\ \A p, q \in Proc : pc[p] # "idle" /\ pc[q] # "idle" => p = q
    /\ \A p \in Proc : Undisturbed(p)

\* A step of a process changes no other program counter.
LEMMA OthersStay ==
  ASSUME RestoreInv, NEW p \in Proc, CommandStep(p) \/ RestoreStep(p) \/ GiveUp(p)
  PROVE  /\ \A q \in Proc : q # p => pc'[q] = pc[q]
         /\ overlap' = overlap
         /\ pc[p] = "idle" => MayAct
<1>1. CASE CommandStep(p)
  BY <1>1 DEF CommandStep, OpenBegin, EnsureRoot, EnsureSubdirectories, OpenDatabase,
     Write, MayBegin, Finish, Forget, Goto, RestoreInv, TypeOK
<1>2. CASE RestoreStep(p)
  BY <1>2 DEF RestoreStep, RestoreBegin, Stage, Commit, Place, SetAside, Swap, SwapFails,
     MayBegin, Finish, Forget, Goto, RestoreInv, TypeOK
<1>3. CASE GiveUp(p)
  BY <1>3 DEF GiveUp, Finish, Forget, Goto, RestoreInv, TypeOK
<1> QED
  BY <1>1, <1>2, <1>3

\* The steps of a restore, for the process that takes them.
LEMMA RestoreUndisturbed ==
  ASSUME RestoreInv, NEW p \in Proc, Undisturbed(p),
         CommandStep(p) \/ RestoreStep(p) \/ GiveUp(p)
  PROVE  Undisturbed(p)'
<1> USE RestoreAssumption
<1>1. CASE CommandStep(p) \/ GiveUp(p)
  BY <1>1 DEF CommandStep, OpenBegin, EnsureRoot, EnsureSubdirectories, OpenDatabase,
     Write, GiveUp, Finish, Forget, Goto, RestoreInv, TypeOK, Undisturbed
<1>2. ASSUME NEW f \in BOOLEAN, RestoreBegin(p, f) PROVE Undisturbed(p)'
  <2>1. /\ pc'[p] = "stage" /\ UNCHANGED dirs
        /\ before'[p] \in Found
    BY <1>2 DEF RestoreBegin, Goto, RestoreInv, TypeOK
  <2>2. Vacant(Target) \/ (before'[p] \in Dir /\ at[before'[p]] = Target)
    <3>1. ~Vacant(Target) => Found = {d \in Dir : at[d] = Target}
      BY DEF Found
    <3> QED
      BY <2>1, <3>1
  <2> QED
    BY <2>1, <2>2 DEF Undisturbed, dirs, Vacant
<1>3. ASSUME NEW d \in Dir, Stage(p, d) PROVE Undisturbed(p)'
  BY <1>3 DEF Stage, Goto, RestoreInv, TypeOK, Undisturbed, Vacant
<1>4. CASE Commit(p)
  BY <1>4 DEF Commit, Goto, dirs, RestoreInv, TypeOK, Undisturbed, Vacant, Allowed
<1>5. ASSUME NEW d \in Dir, NEW name \in Name, SetAside(p, d, name) PROVE Undisturbed(p)'
  <2>1. /\ pc[p] = "setaside" /\ at[d] = Target /\ pc'[p] = "swap" /\ aside'[p] = d
        /\ before' = before /\ at' = [at EXCEPT ![d] = name]
    BY <1>5 DEF SetAside, Goto, RestoreInv, TypeOK
  <2>2. before[p] \in Dir /\ before[p] = d
    BY <2>1 DEF Undisturbed, RestoreInv, TypeOK, OnePerPath
  <2>3. \A e \in Dir : e # d => at[e] # Target
    BY <2>1 DEF RestoreInv, TypeOK, OnePerPath
  <2>4. at'[d] = name /\ \A e \in Dir : e # d => at'[e] = at[e]
    BY <2>1 DEF RestoreInv, TypeOK
  <2>5. Vacant(Target)'
    BY <2>3, <2>4 DEF Vacant
  <2> QED
    BY <2>1, <2>2, <2>5 DEF Undisturbed
<1>6. CASE Place(p) \/ Swap(p) \/ SwapFails(p)
  BY <1>6 DEF Place, Swap, SwapFails, Finish, Goto, RestoreInv, TypeOK, Undisturbed
<1> QED
  BY <1>1, <1>2, <1>3, <1>4, <1>5, <1>6 DEF RestoreStep

LEMMA AloneStep == RestoreInv /\ AloneInv /\ [Next]_vars => AloneInv'
<1> SUFFICES ASSUME RestoreInv, AloneInv, [Next]_vars, ~overlap'
             PROVE  /\ \A p, q \in Proc : pc'[p] # "idle" /\ pc'[q] # "idle" => p = q
                    /\ \A p \in Proc : Undisturbed(p)'
  BY DEF AloneInv
<1>1. CASE UNCHANGED vars
  BY <1>1 DEF vars, AloneInv, Undisturbed, Vacant, Allowed
<1>2. ASSUME NEW d \in Dir, UserMakes(d) \/ UserFills(d)
      PROVE  /\ \A p, q \in Proc : pc'[p] # "idle" /\ pc'[q] # "idle" => p = q
             /\ \A p \in Proc : Undisturbed(p)'
  <2>1. pc' = pc /\ \A p \in Proc : pc[p] = "idle"
    BY <1>2 DEF UserMakes, UserFills, MayAct
  <2> QED
    BY <2>1 DEF Undisturbed
<1>3. ASSUME NEW p \in Proc, CommandStep(p) \/ RestoreStep(p) \/ GiveUp(p)
      PROVE  /\ \A r, q \in Proc : pc'[r] # "idle" /\ pc'[q] # "idle" => r = q
             /\ \A q \in Proc : Undisturbed(q)'
  <2>1. /\ \A q \in Proc : q # p => pc'[q] = pc[q]
        /\ ~overlap /\ (pc[p] = "idle" => MayAct)
    BY <1>3, OthersStay
  <2>2. \A q \in Proc : q # p => pc[q] = "idle"
    BY <2>1 DEF AloneInv, MayAct
  <2>3. Undisturbed(p)'
    BY <1>3, <2>1, RestoreUndisturbed DEF AloneInv
  <2>4. \A q \in Proc : q # p => Undisturbed(q)'
    BY <2>1, <2>2 DEF Undisturbed
  <2> QED
    BY <2>1, <2>2, <2>3, <2>4
<1> QED
  BY <1>1, <1>2, <1>3 DEF Next

LEMMA AloneCorrect == Spec => [](RestoreInv /\ AloneInv)
<1>1. Init => RestoreInv /\ AloneInv
  BY RestoreInit DEF Init, AloneInv, Undisturbed
<1>2. RestoreInv /\ AloneInv /\ [Next]_vars => (RestoreInv /\ AloneInv)'
  BY RestoreInvStep, AloneStep
<1> QED
  BY <1>1, <1>2, PTL DEF Spec

\* As long as nobody acts between a restore's look and its rename, what leaves
\* the target is empty, or a home and --force was given.
THEOREM ReplacedAsAllowed == Spec => ReplacedOnlyAsAllowed
<1> DEFINE Moved(d) == ~overlap /\ at[d] = Target /\ at'[d] # Target
           MayMove(d) == \/ kind[d] = "empty"
                         \/ kind[d] = "home" /\ \E p \in Proc : pc[p] = "setaside" /\ force[p]
<1>1. ASSUME RestoreInv, AloneInv, Next, NEW d \in Dir, Moved(d) PROVE MayMove(d)
  <2> USE RestoreAssumption
  <2>1. CASE \E c \in Dir : UserMakes(c) \/ UserFills(c)
    BY <1>1, <2>1 DEF UserMakes, UserFills, MakeDirectory, RestoreInv, TypeOK, Vacant
  <2>2. ASSUME NEW p \in Proc, CommandStep(p) \/ RestoreStep(p) \/ GiveUp(p)
        PROVE  MayMove(d)
    <3>1. CASE CommandStep(p)
      BY <1>1, <3>1 DEF CommandStep, OpenBegin, EnsureRoot, EnsureSubdirectories,
         MakeDirectory, OpenDatabase, Write, dirs, RestoreInv, TypeOK, Vacant
    <3>2. CASE GiveUp(p)
      BY <1>1, <3>2 DEF GiveUp, Unstage, RestoreInv, TypeOK
    <3>3. CASE RestoreStep(p)
      <4>1. ASSUME NEW c \in Dir, NEW name \in Name, SetAside(p, c, name) PROVE MayMove(d)
        <5>1. pc[p] = "setaside" /\ Allowed(force[p])
          BY <1>1, <4>1 DEF SetAside, AloneInv, Undisturbed
        <5> QED
          BY <1>1, <5>1 DEF Allowed
      <4>2. CASE Place(p) \/ Swap(p) \/ SwapFails(p)
        BY <1>1, <4>2 DEF Place, Swap, SwapFails, RestoreInv, TypeOK, RegisterOK, Vacant
      <4>3. CASE \/ Commit(p) \/ \E f \in BOOLEAN : RestoreBegin(p, f)
                 \/ \E c \in Dir : Stage(p, c)
        BY <1>1, <4>3 DEF Commit, RestoreBegin, Stage, dirs, RestoreInv, TypeOK
      <4> QED
        BY <3>3, <4>1, <4>2, <4>3 DEF RestoreStep
    <3> QED
      BY <2>2, <3>1, <3>2, <3>3
  <2> QED
    BY <1>1, <2>1, <2>2 DEF Next
<1>2. RestoreInv /\ AloneInv /\ [Next]_vars
        => [\A d \in Dir : Moved(d) => MayMove(d)]_vars
  BY <1>1
<1> QED
  BY <1>2, AloneCorrect, PTL DEF Spec, ReplacedOnlyAsAllowed

\* As long as nobody acts in between, a restore that fails after its first
\* rename has put back what was there.
THEOREM FailureKeeps == Spec => FailureKeepsTarget
<1>1. ASSUME RestoreInv, AloneInv, NEW p \in Proc, ~overlap, SwapFails(p)
      PROVE  at'[before[p]] = Target
  <2>1. /\ pc[p] = "swap" /\ before[p] \in Dir /\ aside[p] = before[p] /\ Vacant(Target)
        /\ at' = [at EXCEPT ![mine[p]] = None, ![aside[p]] = Target]
    BY <1>1 DEF SwapFails, AloneInv, Undisturbed
  <2>2. mine[p] # aside[p]
    BY <1>1, <2>1, RestoreAssumption DEF RestoreInv, TypeOK, RegisterOK
  <2> QED
    BY <1>1, <2>1, <2>2 DEF RestoreInv, TypeOK
<1>2. RestoreInv /\ AloneInv /\ [Next]_vars
        => [\A p \in Proc : ~overlap /\ SwapFails(p) => at'[before[p]] = Target]_vars
  BY <1>1
<1> QED
  BY <1>2, AloneCorrect, PTL DEF Spec, FailureKeepsTarget

-----------------------------------------------------------------------------
(* HookFiles.                                                              *)

LEMMA TypeInit == HookInit => HookTypeOK
  BY HooksAssumption DEF HookInit, HookTypeOK, SeenOK

\* The steps that only send a process elsewhere and leave the files.
LEMMA TypeStep == HookTypeOK /\ [HookNext]_hookVars => HookTypeOK'
<1> SUFFICES ASSUME HookTypeOK, [HookNext]_hookVars PROVE HookTypeOK'
  OBVIOUS
<1> USE HooksAssumption DEF HookTypeOK, SeenOK, Content
<1>1. ASSUME NEW u \in UserHook, UserWrites(u) PROVE HookTypeOK'
  BY <1>1 DEF UserWrites
<1>2. ASSUME UserRemoves PROVE HookTypeOK'
  BY <1>2 DEF UserRemoves
<1>3. ASSUME NEW p \in Command, NEW command \in {"install", "uninstall"}, Begin(p, command)
      PROVE  HookTypeOK'
  BY <1>3 DEF Begin
<1>4. ASSUME NEW p \in Command, InstallLook(p) PROVE HookTypeOK'
  BY <1>4 DEF InstallLook, HookGoto, End, files
<1>5. ASSUME NEW p \in Command, Preserve(p) PROVE HookTypeOK'
  BY <1>5 DEF Preserve, HookGoto, End, files
<1>6. ASSUME NEW p \in Command, Publish(p) PROVE HookTypeOK'
  BY <1>6 DEF Publish, End, Managed
<1>7. ASSUME NEW p \in Command, PublishFails(p) PROVE HookTypeOK'
  BY <1>7 DEF PublishFails, End, files
<1>8. ASSUME NEW p \in Command, ReplaceLook(p) PROVE HookTypeOK'
  BY <1>8 DEF ReplaceLook, HookGoto
<1>9. ASSUME NEW p \in Command, Fresh(p) PROVE HookTypeOK'
  BY <1>9 DEF Fresh, End, NewHook, Managed
<1>10. ASSUME NEW p \in Command, Displace(p, "displace", "upgrade") PROVE HookTypeOK'
  BY <1>10 DEF Displace, HookGoto, End
<1>11. ASSUME NEW p \in Command, Upgrade(p) PROVE HookTypeOK'
  BY <1>11 DEF Upgrade, End, NewHook, Managed
<1>12. ASSUME NEW p \in Command, UninstallLook(p) PROVE HookTypeOK'
  <2>1. hook \in UserHook \/ hook \in Managed \/ hook = NoFile
    OBVIOUS
  <2> QED
    BY <1>12, <2>1 DEF UninstallLook, HookGoto, End, files
<1>13. ASSUME NEW p \in Command, Displace(p, "setaside", "restore") PROVE HookTypeOK'
  BY <1>13 DEF Displace, HookGoto, End
<1>14. ASSUME NEW p \in Command, Restore(p) PROVE HookTypeOK'
  BY <1>14 DEF Restore, End
<1>15. ASSUME NEW p \in Command, Remove(p) PROVE HookTypeOK'
  BY <1>15 DEF Remove, End
<1>16. ASSUME NEW p \in Command, Rollback(p) PROVE HookTypeOK'
  BY <1>16 DEF Rollback, End
<1>17. ASSUME NEW p \in Command, Die(p) PROVE HookTypeOK'
  BY <1>17 DEF Die, End, files
<1>18. CASE UNCHANGED hookVars
  BY <1>18 DEF hookVars
<1> QED
  BY <1>1, <1>2, <1>3, <1>4, <1>5, <1>6, <1>7, <1>8, <1>9, <1>10, <1>11, <1>12,
     <1>13, <1>14, <1>15, <1>16, <1>17, <1>18 DEF HookNext, InstallStep, UninstallStep

\* The files and the commands hold only what they may, however many run.
THEOREM HooksTyped == HookSpec => []HookTypeOK
  BY TypeInit, TypeStep, PTL DEF HookSpec

-----------------------------------------------------------------------------
(* One command at a time.  What a command saw of the original is still so   *)
(* until it renames it, and the hook it is about to move is Across's own.   *)

AtMostOne == \A p, q \in Command : step[p] # "idle" /\ step[q] # "idle" => p = q

CommandInv(p) ==
  /\ step[p] \notin {"idle", "publish"} => (seen[p] <=> original # NoFile)
  /\ step[p] = "preserve" => hook \in UserHook
  /\ step[p] = "replace" => hook \in Managed \cup {NoFile}
  /\ step[p] \in {"displace", "setaside", "remove"} => hook \in Managed
  /\ step[p] \in {"publish", "fresh", "upgrade", "restore", "giveback"} => hook = NoFile
  /\ step[p] \in {"upgrade", "restore"} => displaced[p] \in Managed

HooksInv ==
  /\ HookTypeOK
  /\ NeverOverwritten
  /\ original \notin Managed
  /\ AtMostOne
  /\ \A p \in Command : CommandInv(p)

LEMMA HooksInit == HookInit => HooksInv
  BY TypeInit, HooksAssumption
     DEF HookInit, HooksInv, NeverOverwritten, AtMostOne, CommandInv

\* A step of the only running command: the others are idle before and after.
LEMMA Alone ==
  ASSUME HooksInv, HookTypeOK', NEW p \in Command, step[p] # "idle",
         \A q \in Command : q # p => step'[q] = step[q],
         NeverOverwritten', (original \notin Managed)', CommandInv(p)'
  PROVE  HooksInv'
  BY DEF HooksInv, AtMostOne, CommandInv

\* What a command does to the places of the processes.
LEMMA GotoPlaces ==
  ASSUME HookTypeOK, NEW p \in Command, NEW to, HookGoto(p, to)
  PROVE  /\ step'[p] = to /\ seen'[p] = seen[p] /\ owned' = owned
         /\ \A q \in Command : q # p => step'[q] = step[q]
  BY DEF HookGoto, HookTypeOK

LEMMA EndPlaces ==
  ASSUME HookTypeOK, NEW p \in Command, NEW how, End(p, how)
  PROVE  /\ step'[p] = "idle" /\ owned' = owned
         /\ \A q \in Command : q # p => step'[q] = step[q]
  BY DEF End, HookTypeOK

\* A command that ends may have left the files in any state in which nothing
\* of the user's is lost.
LEMMA EndKeeps ==
  ASSUME HooksInv, HookTypeOK', NEW p \in Command, NEW how, step[p] # "idle", End(p, how),
         owned \subseteq {hook', original'}, original' \notin Managed
  PROVE  HooksInv'
<1>1. /\ step'[p] = "idle" /\ owned' = owned
      /\ \A q \in Command : q # p => step'[q] = step[q]
  BY EndPlaces DEF HooksInv
<1>2. CommandInv(p)'
  BY <1>1 DEF CommandInv
<1> QED
  BY <1>1, <1>2, Alone DEF NeverOverwritten

LEMMA HooksStep ==
  ASSUME ~Concurrent
  PROVE  HooksInv /\ [HookNext]_hookVars => HooksInv'
<1> SUFFICES ASSUME HooksInv, [HookNext]_hookVars PROVE HooksInv'
  OBVIOUS
<1>0. HookTypeOK /\ HookTypeOK'
  BY TypeStep DEF HooksInv
<1>a. /\ owned \subseteq {hook, original} /\ original \notin Managed
      /\ owned \subseteq UserHook /\ UserHook \cap Managed = {} /\ NoFile \notin UserHook
      /\ NoFile \notin Managed
      /\ \A p \in Command : CommandInv(p)
  BY <1>0, HooksAssumption DEF HooksInv, NeverOverwritten, HookTypeOK
<1>1. ASSUME NEW u \in UserHook, UserWrites(u) PROVE HooksInv'
  BY <1>0, <1>1, <1>a, HooksAssumption
     DEF UserWrites, HooksInv, NeverOverwritten, Quiet, AtMostOne, CommandInv
<1>2. ASSUME UserRemoves PROVE HooksInv'
  BY <1>0, <1>2, <1>a, HooksAssumption
     DEF UserRemoves, HooksInv, NeverOverwritten, Quiet, AtMostOne, CommandInv
<1>3. ASSUME NEW p \in Command, NEW command \in {"install", "uninstall"}, Begin(p, command)
      PROVE  HooksInv'
  <2>1. /\ Quiet /\ UNCHANGED <<hook, original, owned, displaced>>
        /\ step'[p] = command /\ (seen'[p] <=> original # NoFile)
        /\ \A q \in Command : q # p => step'[q] = "idle"
    BY <1>0, <1>3 DEF Begin, Quiet, HookTypeOK
  <2> QED
    BY <1>0, <1>a, <2>1 DEF HooksInv, NeverOverwritten, AtMostOne, CommandInv
<1>4. ASSUME NEW p \in Command, InstallLook(p) PROVE HooksInv'
  <2>0. UNCHANGED <<hook, original>> /\ step[p] = "install" /\ (seen[p] <=> original # NoFile)
    BY <1>4, <1>a DEF InstallLook, files, CommandInv
  <2>1. CASE End(p, "failed")
    BY <1>0, <1>a, <2>0, <2>1, EndKeeps
  <2>2. CASE HookGoto(p, IF hook \in UserHook THEN "preserve" ELSE "replace")
    <3>1. /\ step'[p] = (IF hook \in UserHook THEN "preserve" ELSE "replace")
          /\ seen'[p] = seen[p] /\ owned' = owned
          /\ \A q \in Command : q # p => step'[q] = step[q]
      BY <1>0, <2>2, GotoPlaces
    <3>2. CommandInv(p)'
      BY <1>0, <2>0, <3>1 DEF CommandInv, HookTypeOK, Content
    <3> QED
      BY <1>0, <1>a, <2>0, <3>1, <3>2, Alone DEF NeverOverwritten
  <2> QED
    BY <1>4, <2>1, <2>2 DEF InstallLook
<1>5. ASSUME NEW p \in Command, Preserve(p) PROVE HooksInv'
  <2>0. step[p] = "preserve" /\ hook \in UserHook /\ original = NoFile /\ hook # NoFile
    BY <1>0, <1>5, <1>a DEF Preserve, CommandInv, HookTypeOK, SeenOK
  <2>1. original' = hook /\ hook' = NoFile /\ HookGoto(p, "publish")
    BY <1>5, <2>0 DEF Preserve
  <2>2. /\ step'[p] = "publish" /\ owned' = owned
        /\ \A q \in Command : q # p => step'[q] = step[q]
    BY <1>0, <2>1, GotoPlaces
  <2>3. CommandInv(p)'
    BY <2>1, <2>2 DEF CommandInv
  <2> QED
    BY <1>0, <1>a, <2>0, <2>1, <2>2, <2>3, Alone DEF NeverOverwritten
<1>6. ASSUME NEW p \in Command, Publish(p) PROVE HooksInv'
  BY <1>0, <1>6, <1>a, EndKeeps DEF Publish, CommandInv
<1>7. ASSUME NEW p \in Command, PublishFails(p) PROVE HooksInv'
  <2>1. /\ step[p] = "publish" /\ hook = NoFile /\ End(p, "failed")
        /\ \/ hook' = original /\ original' = NoFile
           \/ UNCHANGED files
    BY <1>7, <1>a DEF PublishFails, CommandInv
  <2> QED
    BY <1>0, <1>a, <2>1, EndKeeps DEF files
<1>8. ASSUME NEW p \in Command, ReplaceLook(p) PROVE HooksInv'
  <2>0. /\ step[p] = "replace" /\ UNCHANGED <<hook, original>>
        /\ hook \in Managed \cup {NoFile} /\ (seen[p] <=> original # NoFile)
    BY <1>8, <1>a DEF ReplaceLook, CommandInv
  <2>1. /\ step'[p] = (IF hook = NoFile THEN "fresh" ELSE "displace")
        /\ seen'[p] = seen[p] /\ owned' = owned
        /\ \A q \in Command : q # p => step'[q] = step[q]
    BY <1>0, <1>8, GotoPlaces DEF ReplaceLook
  <2>2. CommandInv(p)'
    BY <2>0, <2>1 DEF CommandInv
  <2> QED
    BY <1>0, <1>a, <2>0, <2>1, <2>2, Alone DEF NeverOverwritten
<1>9. ASSUME NEW p \in Command, Fresh(p) PROVE HooksInv'
  BY <1>0, <1>9, <1>a, EndKeeps DEF Fresh, CommandInv
<1>10. ASSUME NEW p \in Command, NEW from, NEW to, Displace(p, from, to),
              \/ from = "displace" /\ to = "upgrade"
              \/ from = "setaside" /\ to = "restore"
       PROVE  HooksInv'
  <2>0. step[p] = from /\ hook \in Managed /\ (seen[p] <=> original # NoFile)
    BY <1>10, <1>a DEF Displace, CommandInv
  <2>1. /\ hook' = NoFile /\ displaced' = [displaced EXCEPT ![p] = hook] /\ HookGoto(p, to)
        /\ UNCHANGED original
    BY <1>10, <1>a, <2>0 DEF Displace
  <2>2. /\ step'[p] = to /\ seen'[p] = seen[p] /\ owned' = owned /\ displaced'[p] = hook
        /\ \A q \in Command : q # p => step'[q] = step[q]
    BY <1>0, <2>1, GotoPlaces DEF HookTypeOK
  <2>3. CommandInv(p)'
    BY <1>10, <2>0, <2>1, <2>2 DEF CommandInv
  <2> QED
    BY <1>0, <1>10, <1>a, <2>0, <2>1, <2>2, <2>3, Alone DEF NeverOverwritten
<1>11. ASSUME NEW p \in Command, Upgrade(p) PROVE HooksInv'
  BY <1>0, <1>11, <1>a, EndKeeps DEF Upgrade, CommandInv
<1>12. ASSUME NEW p \in Command, UninstallLook(p) PROVE HooksInv'
  <2>0. /\ step[p] = "uninstall" /\ UNCHANGED <<hook, original>>
        /\ (seen[p] <=> original # NoFile)
        /\ hook \in UserHook \/ hook \in Managed \/ hook = NoFile
    BY <1>0, <1>12, <1>a DEF UninstallLook, files, CommandInv, HookTypeOK, Content
  <2>1. ASSUME NEW how, End(p, how) PROVE HooksInv'
    BY <1>0, <1>a, <2>0, <2>1, EndKeeps
  <2>2. ASSUME NEW to, HookGoto(p, to),
               \/ to = "setaside" /\ seen[p] /\ hook \in Managed
               \/ to = "remove" /\ ~seen[p] /\ hook \in Managed
               \/ to = "giveback" /\ hook = NoFile
        PROVE  HooksInv'
    <3>1. /\ step'[p] = to /\ seen'[p] = seen[p] /\ owned' = owned
          /\ \A q \in Command : q # p => step'[q] = step[q]
      BY <1>0, <2>2, GotoPlaces
    <3>2. CommandInv(p)'
      BY <2>0, <2>2, <3>1 DEF CommandInv
    <3> QED
      BY <1>0, <1>a, <2>0, <3>1, <3>2, Alone DEF NeverOverwritten
  <2>3. \/ \E how \in {"failed", "uninstalled"} : End(p, how)
        \/ HookGoto(p, "setaside") /\ seen[p] /\ hook \in Managed
        \/ HookGoto(p, "remove") /\ ~seen[p] /\ hook \in Managed
        \/ HookGoto(p, "giveback") /\ hook = NoFile
    <3>1. CASE hook \in UserHook
      BY <1>12, <1>a, <3>1 DEF UninstallLook
    <3>2. CASE hook \in Managed
      BY <1>12, <1>a, <3>2 DEF UninstallLook
    <3>3. CASE hook = NoFile
      BY <1>12, <1>a, <3>3 DEF UninstallLook
    <3> QED
      BY <2>0, <3>1, <3>2, <3>3
  <2> QED
    BY <2>1, <2>2, <2>3
<1>13. ASSUME NEW p \in Command, Restore(p) PROVE HooksInv'
  <2>1. /\ step[p] # "idle" /\ hook = NoFile /\ hook' = original /\ original' = NoFile
        /\ End(p, "uninstalled")
    BY <1>13, <1>a DEF Restore, CommandInv
  <2> QED
    BY <1>0, <1>a, <2>1, EndKeeps
<1>14. ASSUME NEW p \in Command, Remove(p) PROVE HooksInv'
  <2>1. /\ step[p] # "idle" /\ hook \in Managed /\ UNCHANGED original
        /\ End(p, "uninstalled")
    BY <1>14, <1>a DEF Remove, CommandInv
  <2> QED
    BY <1>0, <1>a, <2>1, EndKeeps
<1>15. ASSUME NEW p \in Command, Rollback(p) PROVE HooksInv'
  <2>1. step[p] # "idle" /\ hook = NoFile /\ UNCHANGED original /\ End(p, "failed")
    BY <1>15, <1>a DEF Rollback, CommandInv
  <2> QED
    BY <1>0, <1>a, <2>1, EndKeeps
<1>16. ASSUME NEW p \in Command, Die(p) PROVE HooksInv'
  BY <1>0, <1>16, <1>a, EndKeeps DEF Die, files
<1>17. CASE UNCHANGED hookVars
  BY <1>0, <1>17 DEF hookVars, HooksInv, NeverOverwritten, AtMostOne, CommandInv
<1>18. ASSUME NEW p \in Command, InstallStep(p) PROVE HooksInv'
  <2>1. CASE Displace(p, "displace", "upgrade")
    BY <1>10, <2>1
  <2>2. CASE ~Displace(p, "displace", "upgrade")
    BY <1>4, <1>5, <1>6, <1>7, <1>8, <1>9, <1>11, <1>18, <2>2 DEF InstallStep
  <2> QED
    BY <2>1, <2>2
<1>19. ASSUME NEW p \in Command, UninstallStep(p) PROVE HooksInv'
  BY <1>10, <1>12, <1>13, <1>14, <1>19 DEF UninstallStep
<1>20. ASSUME NEW p \in Command,
              \/ \E command \in {"install", "uninstall"} : Begin(p, command)
              \/ InstallStep(p) \/ UninstallStep(p) \/ Rollback(p) \/ Die(p)
       PROVE  HooksInv'
  BY <1>3, <1>15, <1>16, <1>18, <1>19, <1>20
<1>21. CASE HookNext
  BY <1>1, <1>2, <1>20, <1>21, Zenon DEF HookNext
<1> QED
  BY <1>17, <1>21

LEMMA HooksCorrect ==
  ASSUME ~Concurrent
  PROVE  HookSpec => []HooksInv
  BY HooksInit, HooksStep, PTL DEF HookSpec

\* A user's hook survives any sequence of commands that do not overlap.
THEOREM NeverOverwrittenAlone ==
  ASSUME ~Concurrent
  PROVE  HookSpec => []NeverOverwritten
<1>1. HooksInv => NeverOverwritten
  BY DEF HooksInv
<1> QED
  BY <1>1, HooksCorrect, PTL

-----------------------------------------------------------------------------
(* What a command that reports success has done.                           *)

\* The steps with which a command ends in success.
SuccessStep(p) ==
  /\ Ends(p, "installed") => Publish(p) \/ Fresh(p) \/ Upgrade(p)
  /\ Ends(p, "uninstalled") => UninstallLook(p) \/ Restore(p) \/ Remove(p)

LEMMA SuccessSteps ==
  ASSUME HooksInv, [HookNext]_hookVars, NEW p \in Command
  PROVE  SuccessStep(p)
<1>1. ASSUME UNCHANGED result PROVE SuccessStep(p)
  BY <1>1 DEF Ends, SuccessStep
<1>2. ASSUME NEW q \in Command, NEW how, End(q, how) , how \in {"failed", "installed", "uninstalled"},
             how = "installed" => Publish(q) \/ Fresh(q) \/ Upgrade(q),
             how = "uninstalled" => UninstallLook(q) \/ Restore(q) \/ Remove(q)
      PROVE  SuccessStep(p)
  BY <1>2 DEF End, Ends, SuccessStep, HooksInv, HookTypeOK
<1>3. ASSUME NEW q \in Command, NEW command \in {"install", "uninstall"}, Begin(q, command)
      PROVE  SuccessStep(p)
  BY <1>3 DEF Begin, Ends, SuccessStep, HooksInv, HookTypeOK
<1>4. ASSUME NEW u \in UserHook, UserWrites(u) PROVE SuccessStep(p)
  BY <1>1, <1>4 DEF UserWrites
<1>5. ASSUME UserRemoves PROVE SuccessStep(p)
  BY <1>1, <1>5 DEF UserRemoves
<1>6. ASSUME NEW q \in Command, NEW to, HookGoto(q, to) PROVE SuccessStep(p)
  BY <1>1, <1>6 DEF HookGoto
<1>7. ASSUME NEW q \in Command, InstallStep(q) PROVE SuccessStep(p)
  <2>1. CASE InstallLook(q)
    BY <1>2, <1>6, <2>1 DEF InstallLook
  <2>2. CASE Preserve(q)
    BY <1>2, <1>6, <2>2 DEF Preserve
  <2>3. CASE Publish(q)
    BY <1>2, <2>3 DEF Publish
  <2>4. CASE PublishFails(q)
    BY <1>2, <2>4 DEF PublishFails
  <2>5. CASE ReplaceLook(q)
    BY <1>6, <2>5 DEF ReplaceLook
  <2>6. CASE Fresh(q)
    BY <1>2, <2>6 DEF Fresh
  <2>7. CASE Displace(q, "displace", "upgrade")
    BY <1>2, <1>6, <2>7 DEF Displace
  <2>8. CASE Upgrade(q)
    BY <1>2, <2>8 DEF Upgrade
  <2> QED
    BY <1>7, <2>1, <2>2, <2>3, <2>4, <2>5, <2>6, <2>7, <2>8 DEF InstallStep
<1>8. ASSUME NEW q \in Command, UninstallStep(q) PROVE SuccessStep(p)
  <2>1. CASE UninstallLook(q)
    <3>1. hook \in UserHook \/ hook \in Managed \/ hook = NoFile
      BY DEF HooksInv, HookTypeOK, Content
    <3>2. \/ \E how \in {"failed", "uninstalled"} : End(q, how)
          \/ \E to \in {"setaside", "remove", "giveback"} : HookGoto(q, to)
      BY <2>1, <3>1, HooksAssumption DEF UninstallLook
    <3> QED
      BY <1>2, <1>6, <2>1, <3>2
  <2>2. CASE Displace(q, "setaside", "restore")
    BY <1>2, <1>6, <2>2 DEF Displace
  <2>3. CASE Restore(q)
    BY <1>2, <2>3 DEF Restore
  <2>4. CASE Remove(q)
    BY <1>2, <2>4 DEF Remove
  <2> QED
    BY <1>8, <2>1, <2>2, <2>3, <2>4 DEF UninstallStep
<1>9. ASSUME NEW q \in Command, Rollback(q) \/ Die(q) PROVE SuccessStep(p)
  BY <1>2, <1>9 DEF Rollback, Die
<1>10. CASE UNCHANGED hookVars
  BY <1>1, <1>10 DEF hookVars
<1>11. ASSUME NEW q \in Command,
              \/ \E command \in {"install", "uninstall"} : Begin(q, command)
              \/ InstallStep(q) \/ UninstallStep(q) \/ Rollback(q) \/ Die(q)
       PROVE  SuccessStep(p)
  BY <1>3, <1>7, <1>8, <1>9, <1>11
<1>12. CASE HookNext
  BY <1>4, <1>5, <1>11, <1>12, Zenon DEF HookNext
<1> QED
  BY <1>10, <1>12

LEMMA ChainsStep == HooksInv /\ [HookNext]_hookVars => SuccessChains
<1> SUFFICES ASSUME HooksInv, [HookNext]_hookVars, NEW p \in Command, Ends(p, "installed")
             PROVE  hook' \in Managed /\ owned' \subseteq Runs'
  BY DEF SuccessChains
<1>1. /\ owned \subseteq {hook, original} /\ owned \subseteq UserHook
      /\ NoFile \notin UserHook /\ CommandInv(p)
  BY HooksAssumption DEF HooksInv, NeverOverwritten, HookTypeOK
<1>2. Publish(p) \/ Fresh(p) \/ Upgrade(p)
  BY SuccessSteps DEF SuccessStep
<1>3. /\ hook = NoFile /\ UNCHANGED <<original, owned>>
      /\ \/ hook' = Wrapper
         \/ hook' = Plain /\ original = NoFile
  BY <1>1, <1>2 DEF Publish, Fresh, Upgrade, End, NewHook, CommandInv
<1> QED
  BY <1>1, <1>3 DEF Managed, Runs, Wrapper, Plain

LEMMA GivesBackStep == HooksInv /\ [HookNext]_hookVars => SuccessGivesBack
<1> SUFFICES ASSUME HooksInv, [HookNext]_hookVars, NEW p \in Command, Ends(p, "uninstalled")
             PROVE  hook' \notin Managed /\ original' = NoFile /\ owned' \subseteq {hook'}
  BY DEF SuccessGivesBack
<1>1. /\ owned \subseteq {hook, original} /\ owned \subseteq UserHook
      /\ original \notin Managed /\ UserHook \cap Managed = {}
      /\ NoFile \notin UserHook /\ NoFile \notin Managed /\ CommandInv(p) /\ SeenOK(p)
  BY HooksAssumption DEF HooksInv, NeverOverwritten, HookTypeOK
<1>2. CASE UninstallLook(p)
  <2>1. hook \in UserHook \/ hook \in Managed \/ hook = NoFile
    BY DEF HooksInv, HookTypeOK, Content
  <2>2. UNCHANGED <<hook, original>> /\ step[p] = "uninstall"
    BY <1>2 DEF UninstallLook, files
  <2>3. hook = NoFile /\ ~seen[p] /\ End(p, "uninstalled")
    <3>1. \A how : End(p, how) => result'[p] = how
      BY DEF End, HooksInv, HookTypeOK
    <3>2. \A to : ~HookGoto(p, to)
      BY DEF HookGoto, Ends
    <3>3. ~End(p, "failed")
      BY <3>1 DEF Ends
    <3>4. CASE hook \in UserHook
      BY <1>1, <1>2, <3>3, <3>4 DEF UninstallLook
    <3>5. CASE hook \in Managed
      BY <1>1, <1>2, <3>2, <3>5 DEF UninstallLook
    <3>6. CASE hook = NoFile
      BY <1>1, <1>2, <3>2, <3>6 DEF UninstallLook
    <3> QED
      BY <2>1, <3>4, <3>5, <3>6
  <2> QED
    BY <1>1, <2>2, <2>3 DEF CommandInv, End
<1>3. CASE Restore(p)
  BY <1>1, <1>3 DEF Restore, End, CommandInv
<1>4. CASE Remove(p)
  BY <1>1, <1>4 DEF Remove, End, CommandInv, SeenOK
<1>5. UninstallLook(p) \/ Restore(p) \/ Remove(p)
  BY SuccessSteps DEF SuccessStep
<1> QED
  BY <1>2, <1>3, <1>4, <1>5

\* An install that succeeds runs what the user had.
THEOREM InstallChainsAlone ==
  ASSUME ~Concurrent
  PROVE  HookSpec => InstallChains
<1>1. HooksInv /\ [HookNext]_hookVars => [SuccessChains]_hookVars
  BY ChainsStep
<1> QED
  BY <1>1, HooksCorrect, PTL DEF HookSpec, InstallChains

\* An uninstall that succeeds leaves exactly what the user had.
THEOREM UninstallGivesBackAlone ==
  ASSUME ~Concurrent
  PROVE  HookSpec => UninstallGivesBack
<1>1. HooksInv /\ [HookNext]_hookVars => [SuccessGivesBack]_hookVars
  BY GivesBackStep
<1> QED
  BY <1>1, HooksCorrect, PTL DEF HookSpec, UninstallGivesBack
=============================================================================
