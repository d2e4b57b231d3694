--------------------------- MODULE BackupsProofs ---------------------------
(***************************************************************************)
(* Theorems about Backups, for any number of overlapping commands, files   *)
(* and archives: types, plugins and their rows, what a backup holds, that  *)
(* it can be read, and that a reader accepts what it should and no more.   *)
(***************************************************************************)
EXTENDS Backups, Integers, FiniteSetTheorems, SequenceTheorems, WellFoundedInduction,
        TLAPS

\* Members have sizes.
LEMMA SizeType ==
  ASSUME NEW a \in Archive, NEW i \in DOMAIN a.members
  PROVE  MemberSize(a, i) \in Nat
<1>1. a.members \in Seq(Member) /\ a.manifest \in Seq(Entry)
  BY DEF Archive
<1>2. a.members[i] \in Member /\ Len(a.manifest) \in Nat
  BY <1>1
<1>3. Size[a.members[i].body] \in Nat
  BY <1>2, BackupsAssumption DEF Member
<1>4. EntrySize * Len(a.manifest) \in Nat
  BY <1>2, BackupsAssumption
<1>5. QED
  BY <1>3, <1>4 DEF MemberSize

\* An entry whose path has been through JSON.
LEMMA ListingRead ==
  ASSUME NEW e \in Listing
  PROVE  LET r == [e EXCEPT !.path = Decoded[@]] IN
         /\ r \in Entry /\ r.path = Decoded[e.path] /\ r.body = e.body
         /\ Decoded[e.path] = e.path => r = e
<1>1. PICK f \in HomeFile \cup {Snapshot}, b \in Body : e = [path |-> f, body |-> b]
  BY DEF Listing
<1>2. Decoded[f] \in Name
  BY BackupsAssumption DEF Name
<1>3. [e EXCEPT !.path = Decoded[@]] = [path |-> Decoded[f], body |-> b]
  BY <1>1
<1>4. QED
  BY <1>1, <1>2, <1>3 DEF Entry

LEMMA InitTypes == Init => TypeOK
  BY BackupsAssumption DEF Init, TypeOK, Stage, OnPlugin, OnBackup, OnArchive

\* The commands on plugins.
LEMMA PluginTypes ==
  ASSUME TypeOK, NEW p \in Proc,
         \/ \E n \in Plugin : (\E b \in Body : InstallBegin(p, n, b)) \/ RemoveBegin(p, n)
         \/ PluginStep(p)
  PROVE  TypeOK'
<1> USE DEF HomeFile, OnPlugin, OnBackup, OnArchive, Stage, Goto
<1>1. ASSUME NEW n \in Plugin, NEW b \in Body, InstallBegin(p, n, b) PROVE TypeOK'
  BY <1>1, BackupsAssumption DEF TypeOK, InstallBegin, PluginBegin, Work
<1>2. ASSUME NEW n \in Plugin, RemoveBegin(p, n) PROVE TypeOK'
  BY <1>2 DEF TypeOK, RemoveBegin, PluginBegin, Work
<1>3. CASE Truncate(p)
  BY <1>3, BackupsAssumption DEF TypeOK, Truncate, Work
<1>4. CASE Fill(p)
  <2>1. plug[p].path \in Plugin /\ plug[p].body \in Body
    BY <1>4 DEF TypeOK, Fill, Work
  <2>2. file' \in [HomeFile -> Body \cup {None}]
    BY <1>4, <2>1 DEF TypeOK, Fill, Overwritten
  <2>3. QED
    BY <1>4, <2>2 DEF TypeOK, Fill, Work
<1>5. CASE Record(p)
  BY <1>5 DEF TypeOK, Record, Settle, Work
<1>6. CASE Delete(p)
  BY <1>6 DEF TypeOK, Delete, Unlink, Work
<1>7. CASE Forget(p)
  BY <1>7 DEF TypeOK, Forget, Settle, Work
<1>8. QED
  BY <1>1, <1>2, <1>3, <1>4, <1>5, <1>6, <1>7 DEF PluginStep

LEMMA OtherTypes ==
  ASSUME TypeOK,
         \E f \in Other : OtherRemoves(f) \/ \E b \in OtherBody : OtherWrites(f, b)
  PROVE  TypeOK'
<1> USE DEF HomeFile, OnPlugin, OnBackup, OnArchive, Stage
<1>1. ASSUME NEW f \in Other, OtherRemoves(f) PROVE TypeOK'
  BY <1>1 DEF TypeOK, OtherRemoves, Unlink
<1>2. ASSUME NEW f \in Other, NEW b \in OtherBody, OtherWrites(f, b) PROVE TypeOK'
  BY <1>2, BackupsAssumption DEF TypeOK, OtherWrites
<1>3. QED
  BY <1>1, <1>2

\* A step of a backup that keeps what it has collected a pack.
LEMMA PackingTypes ==
  ASSUME TypeOK, NEW p \in Proc, NEW to \in OnBackup, NEW q \in Pack, Packing(p, to, q),
         to = "copy" => q.now # None /\ q.seen # None,
         output' = output,
         kept' \in [Proc -> SUBSET (HomeFile \ Excluded)],
         steady' \in [Proc -> SUBSET Plugin]
  PROVE  TypeOK'
  BY DEF TypeOK, Packing, Goto, OnPlugin, OnBackup, OnArchive, Stage

LEMMA CreateTypes ==
  ASSUME TypeOK, NEW p \in Proc, CreateStep(p)
  PROVE  TypeOK'
<1> USE DEF OnBackup
<1>0. /\ kept \in [Proc -> SUBSET (HomeFile \ Excluded)] /\ steady \in [Proc -> SUBSET Plugin]
      /\ file \in [HomeFile -> Body \cup {None}] /\ row \in [Plugin -> Body \cup {None}]
      /\ settled \subseteq Plugin /\ Collected \subseteq HomeFile \ Excluded
  BY DEF TypeOK, Collected
<1>h. \A f \in HomeFile \cup {Snapshot} : Holds(f) \in Body \cup {None}
  BY <1>0, BackupsAssumption DEF Holds
<1>n. None \notin HomeFile \cup {Snapshot}
  BY BackupsAssumption DEF Name
<1>1. CASE BackupBegin(p)
  <2> DEFINE q == [row |-> [n \in Plugin |-> None], todo |-> {}, now |-> None, seen |-> None,
                   members |-> <<>>, list |-> <<>>]
  <2>1. q \in Pack
    BY DEF Pack
  <2>2. Packing(p, "snapshot", q) /\ UNCHANGED <<output, kept, steady>>
    BY <1>1 DEF BackupBegin, After
  <2>3. QED
    BY <1>0, <2>1, <2>2, PackingTypes
<1>2. CASE TakeSnapshot(p)
  <2> DEFINE q == [back[p] EXCEPT !.row = row]
  <2>1. back[p] \in Pack
    BY <1>2 DEF TypeOK, TakeSnapshot
  <2>2. q \in Pack
    BY <1>0, <2>1 DEF Pack
  <2>3. Packing(p, "collect", q) /\ output' = output
    BY <1>2 DEF TakeSnapshot, After
  <2>4. /\ kept' \in [Proc -> SUBSET (HomeFile \ Excluded)]
        /\ steady' \in [Proc -> SUBSET Plugin]
    BY <1>0, <1>2 DEF TakeSnapshot
  <2>5. QED
    BY <2>2, <2>3, <2>4, PackingTypes
<1>3. CASE Collect(p)
  <2> DEFINE q == [back[p] EXCEPT !.todo = Collected \cup {Snapshot}]
  <2>1. back[p] \in Pack
    BY <1>3 DEF TypeOK, Collect
  <2>2. q \in Pack
    BY <1>0, <2>1 DEF Pack
  <2>3. Packing(p, "open", q) /\ UNCHANGED <<output, kept, steady>>
    BY <1>3 DEF Collect, After
  <2>4. QED
    BY <1>0, <2>2, <2>3, PackingTypes
<1>4. CASE Open(p)
  <2>1. back[p] \in Pack
    BY <1>4 DEF TypeOK, Open
  <2>2. PICK f \in back[p].todo :
          /\ Holds(f) # None
          /\ Packing(p, "copy", [back[p] EXCEPT !.now = f, !.seen = Holds(f)])
    BY <1>4 DEF Open
  <2> DEFINE q == [back[p] EXCEPT !.now = f, !.seen = Holds(f)]
  <2>3. f \in HomeFile \cup {Snapshot}
    BY <2>1 DEF Pack
  <2>4. q \in Pack /\ q.now # None /\ q.seen # None
    BY <1>h, <1>n, <2>1, <2>2, <2>3 DEF Pack
  <2>5. UNCHANGED <<output, kept, steady>>
    BY <1>4 DEF Open
  <2>6. QED
    BY <1>0, <2>2, <2>4, <2>5, PackingTypes
<1>5. CASE Copy(p)
  <2>1. back[p] \in Pack /\ back[p].now # None /\ back[p].seen # None
    BY <1>5 DEF TypeOK, Copy
  <2> DEFINE f == back[p].now
             q(b) == [back[p] EXCEPT !.todo = @ \ {f},
                        !.members = Append(@, [name |-> f, regular |-> TRUE, body |-> b]),
                        !.list = Append(@, [path |-> f, body |-> b])]
  <2>2. PICK b \in Copied(f, back[p].seen) : Packing(p, "open", q(b))
    BY <1>5 DEF Copy
  <2>3. f \in HomeFile \cup {Snapshot} /\ f \in Name /\ b \in Body
    BY <2>1 DEF Pack, Name, Copied
  <2>4. q(b) \in Pack
    <3>1. [name |-> f, regular |-> TRUE, body |-> b] \in Member /\ [path |-> f, body |-> b] \in Listing
      BY <2>3 DEF Member, Listing
    <3>2. /\ Append(back[p].members, [name |-> f, regular |-> TRUE, body |-> b]) \in Seq(Member)
          /\ Append(back[p].list, [path |-> f, body |-> b]) \in Seq(Listing)
      BY <2>1, <3>1, AppendProperties DEF Pack
    <3>3. QED
      BY <2>1, <3>2 DEF Pack
  <2>5. UNCHANGED <<output, kept, steady>>
    BY <1>5 DEF Copy
  <2>6. QED
    BY <1>0, <2>2, <2>4, <2>5, PackingTypes
<1>6. CASE Publish(p)
  <2>1. back[p] \in Pack
    BY <1>6 DEF TypeOK, Publish
  <2>2. Packed(back[p]) \in Archive
    <3>1. [name |-> Manifest, regular |-> TRUE, body |-> Text] \in Member
      BY BackupsAssumption DEF Member, Name
    <3>2. back[p].members \in Seq(Member) /\ back[p].list \in Seq(Listing)
      BY <2>1 DEF Pack
    <3> DEFINE l == [k \in DOMAIN back[p].list |->
                      [back[p].list[k] EXCEPT !.path = Decoded[@]]]
    <3>3. \A k \in DOMAIN back[p].list : l[k] \in Entry
      BY <3>2, ListingRead
    <3>4. Len(back[p].list) \in Nat /\ DOMAIN back[p].list = 1..Len(back[p].list)
      BY <3>2
    <3>5. l \in [1..Len(back[p].list) -> Entry]
      BY <3>3, <3>4
    <3>6. l \in Seq(Entry)
      BY <3>4, <3>5
    <3>7. Append(back[p].members, [name |-> Manifest, regular |-> TRUE, body |-> Text]) \in Seq(Member)
      BY <3>1, <3>2, AppendProperties
    <3>8. QED
      BY <3>6, <3>7 DEF Packed, Archive
  <2>3. QED
    BY <1>6, <2>2 DEF TypeOK, Publish, Packing, Goto, OnPlugin, OnArchive, Stage
<1>7. QED
  BY <1>1, <1>2, <1>3, <1>4, <1>5, <1>6 DEF CreateStep

\* A member has been read, and fitted.
LEMMA MemberRead ==
  ASSUME NEW q \in Scan, NEW n \in Nat, n <= q.left
  PROVE  [q EXCEPT !.at = @ + 1, !.left = @ - n] \in Scan
<1>1. q.at \in Nat \ {0} /\ q.left \in Nat
  BY DEF Scan
<1>2. ASSUME NEW l \in Nat, n <= l PROVE l - n \in Nat
  BY <1>2
<1>3. q.at + 1 \in Nat \ {0} /\ q.left - n \in Nat
  BY <1>1, <1>2
<1>4. ASSUME NEW i \in Nat \ {0}, NEW l \in Nat
      PROVE  [q EXCEPT !.at = i, !.left = l] \in Scan
  BY DEF Scan
<1>5. QED
  BY <1>3, <1>4

LEMMA ReadTypes ==
  ASSUME TypeOK, NEW p \in Proc, ReadStep(p)
  PROVE  TypeOK'
<1> USE DEF OnArchive
<1>r. ASSUME NEW to \in OnArchive, NEW q \in Scan, Reading(p, to, q) PROVE TypeOK'
  BY <1>r DEF TypeOK, Reading, Goto, OnPlugin, OnBackup, Stage
<1>0. pc[p] \in OnArchive => scan[p] \in Scan
  BY DEF TypeOK
<1>1. CASE ReadBegin(p)
  <2>1. [archive |-> output, at |-> 1, left |-> ArchiveLimit] \in Scan
    BY <1>1, BackupsAssumption DEF TypeOK, ReadBegin, Scan
  <2>2. QED
    BY <1>1, <1>r, <2>1 DEF ReadBegin
<1>2. CASE ReadMember(p)
  <2> DEFINE q == scan[p]
             n == Header + MemberSize(q.archive, q.at)
  <2>1. /\ q \in Scan /\ q.at <= Len(q.archive.members) /\ n <= q.left
        /\ q.at \in Nat \ {0} /\ q.left \in Nat /\ q.archive \in Archive
        /\ q.archive.members \in Seq(Member)
    BY <1>0, <1>2 DEF ReadMember, Scan, Archive
  <2>2. q.at \in DOMAIN q.archive.members
    BY <2>1
  <2>3. n \in Nat
    BY <2>1, <2>2, SizeType, BackupsAssumption
  <2>4. [q EXCEPT !.at = @ + 1, !.left = @ - n] \in Scan
    BY <2>1, <2>3, MemberRead
  <2>5. QED
    BY <1>2, <1>r, <2>4 DEF ReadMember
<1>3. CASE ReadManifest(p)
  BY <1>0, <1>3, <1>r DEF ReadManifest, Scan
<1>4. CASE CheckEntry(p)
  <2>1. scan[p] \in Scan /\ scan[p].at + 1 \in Nat \ {0}
    BY <1>0, <1>4 DEF CheckEntry, Scan
  <2>2. [scan[p] EXCEPT !.at = @ + 1] \in Scan
    BY <2>1 DEF Scan
  <2>3. QED
    BY <1>4, <1>r, <2>2 DEF CheckEntry
<1>5. CASE Accept(p)
  BY <1>0, <1>5, <1>r DEF Accept
<1>6. CASE Refuse(p)
  BY <1>0, <1>6, <1>r DEF Refuse
<1>7. CASE ReadEnd(p)
  BY <1>7 DEF TypeOK, ReadEnd, Reading, Goto, OnPlugin, OnBackup, Stage
<1>8. QED
  BY <1>1, <1>2, <1>3, <1>4, <1>5, <1>6, <1>7 DEF ReadStep

LEMMA StepTypes == TypeOK /\ [Next]_vars => TypeOK'
<1> SUFFICES ASSUME TypeOK, [Next]_vars PROVE TypeOK'
  OBVIOUS
<1>1. ASSUME NEW p \in Proc, GiveUp(p) PROVE TypeOK'
  BY <1>1 DEF TypeOK, GiveUp, Goto, OnPlugin, OnBackup, OnArchive, Stage
<1>2. CASE UNCHANGED vars
  BY <1>2 DEF TypeOK, vars
<1>3. QED
  BY <1>1, <1>2, PluginTypes, CreateTypes, ReadTypes, OtherTypes DEF Next

-----------------------------------------------------------------------------
(* Plugins.                                                                *)

\* Process p is at work on plugin n.
Busy(p, n) == pc[p] \in OnPlugin /\ plug[p].path = n

\* A command that is alone on its plugin finds the file as it has left it.
Alone(p) ==
  /\ pc[p] \in OnPlugin /\ \A q \in Proc \ {p} : ~Busy(q, plug[p].path)
  /\ pc[p] = "fill" => file[plug[p].path] = Empty /\ p \notin lost
  /\ pc[p] = "record" => file[plug[p].path] = plug[p].body
  /\ pc[p] = "forget" => file[plug[p].path] = None

\* Nobody works on a settled plugin.
PluginInv ==
  /\ \A n \in settled : file[n] = row[n] /\ \A p \in Proc : ~Busy(p, n)
  /\ \A p \in alone : Alone(p)

\* Whatever leaves plugins alone.
LEMMA OffPlugins ==
  ASSUME TypeOK, PluginInv, row' = row, alone' = alone, settled' = settled,
         \A n \in Plugin : file'[n] = file[n],
         \A q \in Proc : pc[q] \in OnPlugin \/ pc'[q] \in OnPlugin =>
                           pc'[q] = pc[q] /\ plug'[q] = plug[q],
         \A q \in alone : q \in lost' => q \in lost
  PROVE  PluginInv'
<1>1. ASSUME NEW p \in alone PROVE Alone(p)'
  <2>1. p \in Proc /\ Alone(p) /\ pc[p] \in OnPlugin /\ plug[p].path \in Plugin
    BY DEF TypeOK, PluginInv, Alone, Work
  <2>2. QED
    BY <2>1 DEF Alone, Busy
<1>2. ASSUME NEW n \in settled PROVE file'[n] = row'[n] /\ \A p \in Proc : ~Busy(p, n)'
  BY DEF PluginInv, Busy, TypeOK
<1>3. QED
  BY <1>1, <1>2 DEF PluginInv

\* A command on a plugin that goes on: it is on no settled plugin, and no other
\* command is alone on this one.
LEMMA OnOnePlugin ==
  ASSUME TypeOK, PluginInv, NEW p \in Proc, pc[p] \in OnPlugin
  PROVE  /\ plug[p].path \in Plugin \ settled
         /\ \A q \in alone \ {p} : plug[q].path # plug[p].path
         /\ \A q \in alone : q \in Proc /\ plug[q].path \in Plugin
  BY DEF TypeOK, PluginInv, Alone, Busy, Work

LEMMA PluginStepInv ==
  ASSUME TypeOK, PluginInv, NEW p \in Proc,
         Truncate(p) \/ Fill(p) \/ Delete(p)
  PROVE  PluginInv'
<1> DEFINE n == plug[p].path
<1>1. pc[p] \in OnPlugin /\ pc'[p] \in OnPlugin /\ \A q \in Proc \ {p} : pc'[q] = pc[q]
  BY DEF Truncate, Fill, Delete, Goto, OnPlugin, TypeOK
<1>2. UNCHANGED <<row, plug, alone, settled>>
  BY DEF Truncate, Fill, Delete
<1>3. \A m : \A q \in Proc : Busy(q, m)' <=> pc[q] \in OnPlugin /\ plug[q].path = m
  BY <1>1, <1>2 DEF Busy
<1>4. /\ n \in Plugin \ settled /\ \A q \in alone \ {p} : plug[q].path # n
      /\ \A q \in alone : q \in Proc /\ plug[q].path \in Plugin
  BY <1>1, OnOnePlugin
<1>5. /\ file \in [HomeFile -> Body \cup {None}] /\ n \in HomeFile
      /\ \A m \in Plugin \ {n} : file'[m] = file[m]
  BY <1>4 DEF TypeOK, HomeFile, Truncate, Fill, Delete, Unlink
<1>6. \A q \in alone \ {p} : q \in lost' => q \in lost
  BY <1>4 DEF Truncate, Fill, Delete, Unlink
<1>7. ASSUME NEW m \in settled PROVE file'[m] = row'[m] /\ \A q \in Proc : ~Busy(q, m)'
  <2>1. file[m] = row[m] /\ m \in Plugin \ {n} /\ \A q \in Proc : ~Busy(q, m)
    BY <1>4 DEF PluginInv, TypeOK
  <2>2. QED
    BY <1>1, <1>2, <1>5, <2>1 DEF Busy
<1>8. ASSUME p \in alone
      PROVE  /\ pc'[p] = "fill" => file'[n] = Empty /\ p \notin lost'
             /\ pc'[p] = "record" => file'[n] = plug[p].body
             /\ pc'[p] = "forget" => file'[n] = None
  <2>1. CASE Truncate(p)
    BY <1>5, <2>1 DEF Truncate, Goto, TypeOK
  <2>2. CASE Delete(p)
    BY <1>5, <2>2 DEF Delete, Unlink, Goto, TypeOK
  <2>3. CASE Fill(p)
    <3>1. file[n] = Empty /\ p \notin lost /\ plug[p].body \in Body
      BY <1>8, <2>3 DEF PluginInv, Alone, Fill, TypeOK, OnPlugin, Work
    <3>2. Overwritten(Empty, plug[p].body) = {plug[p].body}
      BY <3>1, BackupsAssumption DEF Overwritten
    <3>3. file'[n] = plug[p].body
      BY <1>5, <2>3, <3>1, <3>2 DEF Fill
    <3>4. QED
      BY <2>3, <3>3 DEF Fill, Goto, TypeOK
  <2>4. QED
    BY <2>1, <2>2, <2>3
<1>9. ASSUME NEW q \in alone PROVE Alone(q)'
  <2>1. Alone(q) /\ q \in Proc
    BY <1>4 DEF PluginInv
  <2>2. CASE q = p
    BY <1>1, <1>2, <1>8, <2>1, <2>2 DEF Alone, Busy
  <2>3. CASE q # p
    BY <1>1, <1>2, <1>4, <1>5, <1>6, <2>1, <2>3 DEF Alone, Busy
  <2>4. QED
    BY <2>2, <2>3
<1>10. QED
  BY <1>2, <1>7, <1>9 DEF PluginInv

LEMMA PluginBeginInv ==
  ASSUME TypeOK, PluginInv, NEW p \in Proc, NEW n \in Plugin,
         NEW b \in Body \cup {None}, NEW to \in {"truncate", "delete"}, PluginBegin(p, n, b, to)
  PROVE  PluginInv'
<1>1. /\ pc[p] = "idle" /\ plug'[p].path = n /\ pc'[p] = to
      /\ \A q \in Proc \ {p} : plug'[q] = plug[q] /\ pc'[q] = pc[q]
      /\ UNCHANGED <<file, row, lost>> /\ settled' = settled \ {n}
  BY DEF PluginBegin, Goto, TypeOK
<1>2. ASSUME NEW m \in settled' PROVE file'[m] = row'[m] /\ \A q \in Proc : ~Busy(q, m)'
  BY <1>1, <1>2 DEF PluginInv, Busy
<1>3. \A q \in alone : q \in Proc \ {p} /\ pc[q] \in OnPlugin
  BY <1>1 DEF PluginInv, Alone, OnPlugin, TypeOK
<1>4. \A q \in alone' \ {p} : q \in alone /\ plug[q].path # n
  BY <1>3 DEF PluginBegin, On
<1>5. p \in alone' => \A q \in Proc : ~Busy(q, n)
  BY <1>3 DEF PluginBegin, On, Busy
<1>6. ASSUME NEW q \in alone', q # p PROVE Alone(q)'
  <2>1. Alone(q) /\ q \in Proc /\ plug[q].path # n
    BY <1>3, <1>4, <1>6 DEF PluginInv
  <2>2. QED
    BY <1>1, <1>6, <2>1 DEF Alone, Busy
<1>7. p \in alone' => Alone(p)'
  BY <1>1, <1>5 DEF Alone, Busy, OnPlugin
<1>8. QED
  BY <1>2, <1>6, <1>7 DEF PluginInv

\* A command on a plugin ends: with its row, or in an error.
LEMMA PluginEndInv ==
  ASSUME TypeOK, PluginInv, NEW p \in Proc,
         Record(p) \/ Forget(p) \/ (GiveUp(p) /\ pc[p] \in OnPlugin)
  PROVE  PluginInv'
<1>0. PICK n : n = plug[p].path
  OBVIOUS
<1>1. pc[p] \in OnPlugin
  BY DEF Record, Forget, OnPlugin
<1>2. /\ pc'[p] = "idle" /\ \A q \in Proc \ {p} : plug'[q] = plug[q] /\ pc'[q] = pc[q]
      /\ alone' = alone \ {p} /\ lost' = lost \ {p} /\ file' = file
  BY DEF Record, Forget, GiveUp, Settle, Goto, TypeOK
<1>3. \A m : \A q \in Proc : Busy(q, m)' => q # p /\ Busy(q, m)
  BY <1>2 DEF Busy, OnPlugin
<1>4. /\ n \in Plugin \ settled /\ \A q \in alone \ {p} : plug[q].path # n
      /\ \A q \in alone : q \in Proc /\ plug[q].path \in Plugin
  BY <1>0, <1>1, OnOnePlugin
<1>5. row \in [Plugin -> Body \cup {None}] /\ \A m \in Plugin \ {n} : row'[m] = row[m]
  BY <1>0, <1>4 DEF Record, Forget, GiveUp, TypeOK
<1>6. settled' \subseteq settled \cup {n} /\ (n \in settled' => p \in alone /\ ~GiveUp(p))
  BY <1>0, <1>4 DEF Record, Forget, GiveUp, Settle
<1>7. ASSUME n \in settled' PROVE file'[n] = row'[n] /\ \A q \in Proc : ~Busy(q, n)'
  <2>1. Alone(p) /\ ~GiveUp(p)
    BY <1>6, <1>7 DEF PluginInv
  <2>2. \A q \in Proc : ~Busy(q, n)'
    BY <1>0, <1>3, <2>1 DEF Alone
  <2>3. CASE Record(p)
    BY <1>0, <1>2, <1>4, <1>5, <2>1, <2>2, <2>3 DEF Record, Alone
  <2>4. CASE Forget(p)
    BY <1>0, <1>2, <1>4, <1>5, <2>1, <2>2, <2>4 DEF Forget, Alone
  <2>5. QED
    BY <2>1, <2>3, <2>4
<1>8. ASSUME NEW m \in settled', m # n PROVE file'[m] = row'[m] /\ \A q \in Proc : ~Busy(q, m)'
  <2>1. m \in settled /\ m \in Plugin
    BY <1>6, <1>8 DEF TypeOK
  <2>2. QED
    BY <1>2, <1>3, <1>5, <1>8, <2>1 DEF PluginInv
<1>9. ASSUME NEW q \in alone' PROVE Alone(q)'
  <2>1. q \in Proc \ {p} /\ Alone(q)
    BY <1>2, <1>4 DEF PluginInv
  <2>2. QED
    BY <1>2, <2>1 DEF Alone, Busy, OnPlugin
<1>10. QED
  BY <1>7, <1>8, <1>9 DEF PluginInv

LEMMA PluginInvStep == TypeOK /\ PluginInv /\ [Next]_vars => PluginInv'
<1> SUFFICES ASSUME TypeOK, PluginInv, [Next]_vars PROVE PluginInv'
  OBVIOUS
<1>0. file \in [HomeFile -> Body \cup {None}] /\ pc \in [Proc -> Stage]
      /\ \A q \in Proc : pc[q] = "fill" => plug[q].path \in Plugin
  BY DEF TypeOK, OnPlugin, Work
<1>1. ASSUME NEW p \in Proc, NEW n \in Plugin, NEW b \in Body, InstallBegin(p, n, b)
      PROVE  PluginInv'
  BY <1>1, PluginBeginInv DEF InstallBegin
<1>2. ASSUME NEW p \in Proc, NEW n \in Plugin, RemoveBegin(p, n) PROVE PluginInv'
  BY <1>2, PluginBeginInv DEF RemoveBegin
<1>3. ASSUME NEW p \in Proc, PluginStep(p) PROVE PluginInv'
  BY <1>3, PluginStepInv, PluginEndInv DEF PluginStep
<1>4. ASSUME NEW p \in Proc, CreateStep(p) PROVE PluginInv'
  BY <1>0, <1>4, OffPlugins DEF CreateStep, BackupBegin, TakeSnapshot, Collect, Open, Copy,
    Publish, Packing, Goto, OnPlugin, After
<1>5. ASSUME NEW p \in Proc, ReadStep(p) PROVE PluginInv'
  BY <1>0, <1>5, OffPlugins DEF ReadStep, ReadBegin, ReadMember, ReadManifest, CheckEntry,
    Accept, Refuse, ReadEnd, Reading, Goto, OnPlugin
<1>6. ASSUME NEW p \in Proc, GiveUp(p), pc[p] \notin OnPlugin PROVE PluginInv'
  <2>1. /\ p \notin alone /\ UNCHANGED <<file, row, settled>> /\ lost' \subseteq lost
        /\ \A q \in Proc \ {p} : plug'[q] = plug[q] /\ pc'[q] = pc[q]
        /\ pc'[p] \notin OnPlugin
    BY <1>6 DEF GiveUp, PluginInv, Alone, Goto, TypeOK, OnPlugin
  <2>2. alone' = alone
    BY <1>6, <2>1 DEF GiveUp
  <2>3. QED
    BY <1>6, <2>1, <2>2, OffPlugins
<1>7. ASSUME NEW f \in Other, OtherRemoves(f) PROVE PluginInv'
  <2>1. f \notin Plugin /\ f \in HomeFile
    BY BackupsAssumption DEF HomeFile
  <2>2. \A q \in Proc : q \in lost' => q \in lost
    BY <1>0, <1>7, <2>1 DEF OtherRemoves, Unlink
  <2>3. \A n \in Plugin : file'[n] = file[n]
    BY <1>0, <1>7, <2>1 DEF OtherRemoves, Unlink, HomeFile
  <2>4. QED
    BY <1>7, <2>2, <2>3, OffPlugins DEF OtherRemoves, TypeOK
<1>8. ASSUME NEW f \in Other, NEW b \in OtherBody, OtherWrites(f, b) PROVE PluginInv'
  <2>1. f \notin Plugin /\ \A n \in Plugin : file'[n] = file[n]
    BY <1>0, <1>8, BackupsAssumption DEF HomeFile, OtherWrites
  <2>2. QED
    BY <1>8, <2>1, OffPlugins DEF OtherWrites
<1>9. CASE UNCHANGED vars
  BY <1>9, OffPlugins DEF vars
<1>10. QED
  BY <1>1, <1>2, <1>3, <1>4, <1>5, <1>6, <1>7, <1>8, <1>9, PluginEndInv DEF Next

LEMMA InitPluginInv == Init => PluginInv
  BY DEF Init, PluginInv, Busy, HomeFile, OnPlugin

-----------------------------------------------------------------------------
(* What a backup has collected.                                            *)

\* The names that a backup may take.
Takes == ((HomeFile \ Excluded) \ Invalid) \cup {Snapshot}

PackedNames(q) == {q.members[i].name : i \in DOMAIN q.members}

\* A half-made archive: its members are listed as they are, and with those to
\* come they are not too many.
Sound(q) ==
  /\ q.todo \subseteq Takes /\ IsFiniteSet(q.todo)
  /\ Len(q.members) + Cardinality(q.todo) + 1 <= MaxMembers
  /\ Len(q.list) = Len(q.members)
  /\ \A i \in DOMAIN q.members :
       /\ q.members[i].name \in Takes \ q.todo
       /\ q.members[i].regular /\ Size[q.members[i].body] <= MemberLimit
       /\ q.list[i] = [path |-> q.members[i].name, body |-> q.members[i].body]
  /\ \A i, j \in DOMAIN q.members : i # j => q.members[i].name # q.members[j].name
  /\ Snapshot \in q.todo \cup PackedNames(q)

\* A sequence with one element more.
LEMMA Appended ==
  ASSUME NEW S, NEW s \in Seq(S), NEW e \in S, NEW t, t = Append(s, e)
  PROVE  /\ t \in Seq(S) /\ Len(s) \in Nat /\ Len(t) = Len(s) + 1
         /\ DOMAIN s = 1..Len(s) /\ DOMAIN t = 1..(Len(s) + 1)
         /\ \A i \in DOMAIN s : t[i] = s[i]
         /\ t[Len(s) + 1] = e
  BY AppendProperties, LenProperties

\* One more file is taken.
LEMMA SoundCopy ==
  ASSUME NEW q \in Pack, Sound(q), q.now \in q.todo, NEW b \in Body,
         Size[b] <= MemberLimit, NEW r \in Pack,
         r.todo = q.todo \ {q.now},
         r.members = Append(q.members, [name |-> q.now, regular |-> TRUE, body |-> b]),
         r.list = Append(q.list, [path |-> q.now, body |-> b])
  PROVE  Sound(r)
<1> DEFINE m == [name |-> q.now, regular |-> TRUE, body |-> b]
           e == [path |-> q.now, body |-> b]
           k == Len(q.members) + 1
<1>0. /\ q.members \in Seq(Member) /\ q.list \in Seq(Listing)
      /\ q.todo \subseteq HomeFile \cup {Snapshot}
  BY DEF Pack
<1>1. /\ q.members \in Seq(Member) /\ q.list \in Seq(Listing)
      /\ r.todo = q.todo \ {q.now} /\ r.members = Append(q.members, m)
      /\ r.list = Append(q.list, e)
  BY <1>0
<1>m. m \in Member /\ e \in Listing
  BY <1>0 DEF Member, Listing, Name
<1>2. /\ Len(r.members) = k /\ Len(r.list) = k /\ DOMAIN r.members = 1..k
      /\ DOMAIN q.members = 1..(k - 1) /\ k \in Nat \ {0} /\ k \notin DOMAIN q.members
      /\ \A i \in DOMAIN q.members : r.members[i] = q.members[i] /\ r.list[i] = q.list[i]
      /\ r.members[k] = m /\ r.list[k] = e
  <2>1. /\ Len(q.members) \in Nat /\ Len(r.members) = k /\ DOMAIN q.members = 1..Len(q.members)
        /\ DOMAIN r.members = 1..k /\ r.members[k] = m
        /\ \A i \in DOMAIN q.members : r.members[i] = q.members[i]
    BY <1>1, <1>m, Appended
  <2>2. /\ Len(r.list) = Len(q.list) + 1 /\ DOMAIN q.list = 1..Len(q.list)
        /\ \A i \in DOMAIN q.list : r.list[i] = q.list[i]
        /\ r.list[Len(q.list) + 1] = e
    BY <1>1, <1>m, Appended
  <2>3. Len(q.list) = Len(q.members)
    BY DEF Sound
  <2>4. QED
    BY <2>1, <2>2, <2>3
<1>3. /\ IsFiniteSet(r.todo) /\ Cardinality(r.todo) = Cardinality(q.todo) - 1
      /\ Cardinality(q.todo) \in Nat
  <2>1. IsFiniteSet(q.todo)
    BY DEF Sound
  <2>2. QED
    BY <1>1, <2>1, FS_RemoveElement, FS_CardinalityType
<1>4. r.todo \subseteq Takes /\ Len(r.members) + Cardinality(r.todo) + 1 <= MaxMembers
  <2>1. /\ Len(q.members) + Cardinality(q.todo) + 1 <= MaxMembers
        /\ Len(q.members) \in Nat /\ Len(r.members) = Len(q.members) + 1
    BY <1>0, <1>2 DEF Sound
  <2>2. MaxMembers \in Nat
    BY BackupsAssumption
  <2>3. QED
    BY <1>1, <1>3, <2>1, <2>2 DEF Sound
<1>5. ASSUME NEW i \in DOMAIN r.members
      PROVE  /\ r.members[i].name \in Takes \ r.todo
             /\ r.members[i].regular /\ Size[r.members[i].body] <= MemberLimit
             /\ r.list[i] = [path |-> r.members[i].name, body |-> r.members[i].body]
  <2>1. CASE i = k
    BY <1>1, <1>2, <2>1 DEF Sound
  <2>2. CASE i \in DOMAIN q.members
    BY <1>1, <1>2, <2>2 DEF Sound
  <2>3. QED
    BY <1>2, <2>1, <2>2
<1>6. ASSUME NEW i \in DOMAIN r.members, NEW j \in DOMAIN r.members, i # j
      PROVE  r.members[i].name # r.members[j].name
  <2>1. \A x \in DOMAIN q.members : q.members[x].name # q.now
    BY DEF Sound
  <2>2. i \in DOMAIN q.members \/ j \in DOMAIN q.members
    BY <1>2, <1>6
  <2>3. QED
    BY <1>2, <1>6, <2>1, <2>2 DEF Sound
<1>7. Snapshot \in r.todo \cup PackedNames(r)
  <2>1. CASE Snapshot = q.now
    BY <1>2, <2>1 DEF PackedNames
  <2>2. CASE Snapshot \in PackedNames(q)
    BY <1>2, <2>2 DEF PackedNames
  <2>3. QED
    BY <1>1, <2>1, <2>2 DEF Sound
<1>8. QED
  BY <1>1, <1>2, <1>3, <1>4, <1>5, <1>6, <1>7 DEF Sound

\* A sound pack with nothing to come makes an archive that agrees with its manifest.
LEMMA SoundConsistent ==
  ASSUME NEW q \in Pack, Sound(q), q.todo = {},
         \A i \in DOMAIN q.list : Decoded[q.list[i].path] = q.list[i].path
  PROVE  EntrySize * Len(q.list) <= ManifestLimit => Consistent(Packed(q))
<1> DEFINE Listable == EntrySize * Len(q.list) <= ManifestLimit
           a == Packed(q)
           k == Len(q.members) + 1
           M == DOMAIN a.members
           name(i) == a.members[i].name
<1>1. /\ q.members \in Seq(Member) /\ a.manifest = q.list
      /\ a.members = Append(q.members, [name |-> Manifest, regular |-> TRUE, body |-> Text])
  <2>1. q.members \in Seq(Member) /\ q.list \in Seq(Listing)
    BY DEF Pack
  <2>2. ASSUME NEW i \in DOMAIN q.list
        PROVE  [q.list[i] EXCEPT !.path = Decoded[@]] = q.list[i]
    BY <2>1, <2>2, ListingRead
  <2>3. q.list = [i \in DOMAIN q.list |-> q.list[i]]
    BY <2>1
  <2>4. QED
    BY <2>1, <2>2, <2>3 DEF Packed
<1>2. /\ Len(a.members) = k /\ M = 1..k /\ DOMAIN q.members = 1..(k - 1) /\ k \in Nat \ {0}
      /\ DOMAIN q.list = 1..(k - 1)
      /\ \A i \in 1..(k - 1) : a.members[i] = q.members[i]
      /\ a.members[k] = [name |-> Manifest, regular |-> TRUE, body |-> Text]
  <2>1. q.list \in Seq(Listing)
    BY DEF Pack
  <2>2. QED
    BY <1>1, <2>1 DEF Sound
<1>3. /\ Takes \cap (Invalid \cup Transient \cup {Manifest}) = {}
      /\ Manifest \notin Invalid \cup Transient
  BY BackupsAssumption DEF Takes, Excluded
<1>4. /\ \A i \in 1..(k - 1) : name(i) \in Takes
      /\ name(k) = Manifest /\ a.members[k].regular /\ a.members[k].body = Text
  <2>1. \A i \in 1..(k - 1) : q.members[i].name \in Takes
    BY <1>2 DEF Sound
  <2>2. QED
    BY <1>2, <2>1
<1>5. Len(a.members) <= MaxMembers
  BY <1>2, FS_EmptySet, BackupsAssumption DEF Sound
<1>6. ASSUME NEW i \in M
      PROVE  /\ name(i) \notin Invalid \cup Transient /\ a.members[i].regular
             /\ Listable => MemberSize(a, i) <= SizeLimit(name(i))
  <2>1. CASE i = k
    BY <1>1, <1>3, <1>4, <2>1 DEF MemberSize, SizeLimit
  <2>2. CASE i \in 1..(k - 1)
    BY <1>2, <1>3, <1>4, <2>2 DEF MemberSize, SizeLimit, Sound
  <2>3. QED
    BY <1>2, <2>1, <2>2
<1>7. ASSUME NEW i \in M, NEW j \in M, i # j
      PROVE  ~IsPrefix(Staged(name(i)), Staged(name(j)))
  <2>1. name(i) # name(j)
    <3>1. CASE i \in 1..(k - 1) /\ j \in 1..(k - 1)
      <4>1. q.members[i].name # q.members[j].name
        BY <1>2, <1>7, <3>1 DEF Sound
      <4>2. a.members[i] = q.members[i] /\ a.members[j] = q.members[j]
        BY <1>2, <3>1
      <4>3. QED
        BY <4>1, <4>2
    <3>2. CASE i = k
      <4>1. j \in 1..(k - 1)
        BY <1>2, <1>7, <3>2
      <4>2. QED
        BY <1>3, <1>4, <3>2, <4>1
    <3>3. CASE j = k
      <4>1. i \in 1..(k - 1)
        BY <1>2, <1>7, <3>3
      <4>2. QED
        BY <1>3, <1>4, <3>3, <4>1
    <3>4. QED
      BY <1>2, <1>7, <3>1, <3>2, <3>3
  <2>2. name(i) \in Takes \cup {Manifest} /\ name(j) \in Takes \cup {Manifest}
    BY <1>2, <1>4
  <2>3. \A f \in Takes \cup {Manifest} :
          Staged(f) \in (HomeFile \ Excluded) \cup {Database, Manifest}
    BY DEF Takes, Staged
  <2>4. \A f, g \in Takes \cup {Manifest} : f # g => Staged(f) # Staged(g)
    BY BackupsAssumption DEF Takes, Staged, Excluded
  <2>5. QED
    BY <2>1, <2>2, <2>3, <2>4, BackupsAssumption
<1>8. \E i \in M : name(i) = Manifest /\ a.members[i].body \notin Corrupt
  <2>1. k \in M /\ Text \notin Corrupt
    BY <1>2, BackupsAssumption
  <2>2. QED
    BY <1>4, <2>1
<1>9. Snapshot \in {name(i) : i \in M}
  BY <1>2 DEF Sound, PackedNames
<1>10. /\ \A i, j \in DOMAIN a.manifest : i # j => a.manifest[i].path # a.manifest[j].path
       /\ {a.manifest[i] : i \in DOMAIN a.manifest} =
            {[path |-> name(i), body |-> a.members[i].body] : i \in {j \in M : name(j) # Manifest}}
  <2>1. {j \in M : name(j) # Manifest} = 1..(k - 1)
    BY <1>2, <1>3, <1>4
  <2>2. \A i \in 1..(k - 1) : a.manifest[i] = [path |-> name(i), body |-> a.members[i].body]
    BY <1>1, <1>2 DEF Sound
  <2>3. DOMAIN a.manifest = 1..(k - 1)
    BY <1>1, <1>2
  <2>4. ASSUME NEW i \in 1..(k - 1), NEW j \in 1..(k - 1), i # j PROVE name(i) # name(j)
    <3>1. q.members[i].name # q.members[j].name
      BY <1>2, <2>4 DEF Sound
    <3>2. a.members[i] = q.members[i] /\ a.members[j] = q.members[j]
      BY <1>2
    <3>3. QED
      BY <3>1, <3>2
  <2>5. \A i, j \in DOMAIN a.manifest : i # j => a.manifest[i].path # a.manifest[j].path
    <3>1. ASSUME NEW i \in DOMAIN a.manifest PROVE a.manifest[i].path = name(i)
      <4>1. a.manifest[i] = [path |-> name(i), body |-> a.members[i].body]
        BY <2>2, <2>3
      <4>2. QED
        BY <4>1
    <3>2. QED
      BY <2>3, <2>4, <3>1
  <2>6. {a.manifest[i] : i \in DOMAIN a.manifest} =
          {[path |-> name(i), body |-> a.members[i].body] : i \in {j \in M : name(j) # Manifest}}
    <3> HIDE DEF a, k, M, name
    <3>1. \A x : x \in {a.manifest[i] : i \in DOMAIN a.manifest}
                   <=> \E i \in 1..(k - 1) : x = [path |-> name(i), body |-> a.members[i].body]
      BY <2>2, <2>3
    <3>2. QED
      BY <2>1, <3>1
  <2>7. QED
    BY <2>5, <2>6
<1>11. QED
  BY <1>5, <1>6, <1>7, <1>8, <1>9, <1>10 DEF Consistent

\* A name that JSON changes is not among the paths, and its file is a member.
LEMMA ChangedInconsistent ==
  ASSUME NEW q \in Pack, Sound(q), NEW l \in DOMAIN q.list,
         Decoded[q.list[l].path] # q.list[l].path
  PROVE  ~Consistent(Packed(q))
<1> DEFINE a == Packed(q)
           f == q.list[l].path
           m == [name |-> Manifest, regular |-> TRUE, body |-> Text]
           e(i) == [path |-> a.members[i].name, body |-> a.members[i].body]
<1>1. /\ q.members \in Seq(Member) /\ q.list \in Seq(Listing) /\ Len(q.list) = Len(q.members)
      /\ a.members = Append(q.members, m)
      /\ a.manifest = [i \in DOMAIN q.list |-> [q.list[i] EXCEPT !.path = Decoded[@]]]
  BY DEF Pack, Packed, Sound
<1>2. /\ l \in DOMAIN q.members /\ l \in DOMAIN a.members /\ a.members[l] = q.members[l]
      /\ q.members[l].name = f /\ f \in Takes
  <2>1. m \in Member
    BY BackupsAssumption DEF Member, Name
  <2>2. l \in DOMAIN q.members /\ l \in DOMAIN a.members /\ a.members[l] = q.members[l]
    BY <1>1, <2>1, Appended
  <2>3. /\ q.members[l].name \in Takes
        /\ q.list[l] = [path |-> q.members[l].name, body |-> q.members[l].body]
    BY <2>2 DEF Sound
  <2>4. QED
    BY <2>2, <2>3
<1>3. f # Manifest /\ f \in HomeFile
  BY <1>2, BackupsAssumption DEF Takes, Excluded
<1>4. ASSUME NEW i \in DOMAIN a.manifest PROVE a.manifest[i].path # f
  <2>0. i \in DOMAIN q.list
    BY <1>1
  <2>1. /\ i \in DOMAIN q.list /\ q.list[i] \in Listing
        /\ a.manifest[i] = [q.list[i] EXCEPT !.path = Decoded[@]]
    BY <1>1, <2>0
  <2>2. q.list[i].path \in HomeFile \cup {Snapshot} /\ a.manifest[i].path = Decoded[q.list[i].path]
    BY <2>1, ListingRead DEF Listing
  <2>3. QED
    BY <1>3, <2>2, BackupsAssumption
<1>5. e(l).path = f /\ e(l) \notin {a.manifest[i] : i \in DOMAIN a.manifest}
  BY <1>2, <1>4
<1>6. e(l) \in {e(i) : i \in {j \in DOMAIN a.members : a.members[j].name # Manifest}}
  BY <1>2, <1>3
<1>7. QED
  BY <1>5, <1>6 DEF Consistent

-----------------------------------------------------------------------------
(* A backup in progress, and the home around it.                           *)

Packs == {"open", "copy"}

\* What is collected is sound; what it was opened with is as large as a member may be.
SoundInv(p) ==
  /\ pc[p] \in {"snapshot", "collect"} => back[p].members = <<>> /\ back[p].list = <<>>
  /\ pc[p] \in Packs => Sound(back[p])
  /\ pc[p] = "copy" => back[p].now \in back[p].todo /\ Size[back[p].seen] <= MemberLimit

\* Backup q takes plugin n as its snapshot says, or not at all.
Takings(q, n) ==
  IF q.row[n] = None THEN n \notin q.todo \cup PackedNames(q)
  ELSE \/ n \in q.todo
       \/ \E i \in DOMAIN q.members :
            q.members[i].name = n /\ q.members[i].body = q.row[n]

\* Since the snapshot: what has been there all the time is taken or will be, and
\* a plugin nobody has touched is as it was.
SinceSnapshot(p) ==
  /\ pc[p] \in {"collect"} \cup Packs =>
       \A n \in steady[p] : n \in settled /\ row[n] = back[p].row[n]
  /\ pc[p] = "collect" => kept[p] \subseteq Collected
  /\ pc[p] \in Packs =>
       /\ kept[p] \subseteq back[p].todo \cup PackedNames(back[p])
       /\ \A n \in steady[p] : Takings(back[p], n)
  /\ pc[p] = "copy" =>
       /\ back[p].now \in back[p].todo
       /\ back[p].now \in steady[p] => back[p].seen = back[p].row[back[p].now]

BackupInv == \A p \in Proc : SoundInv(p) /\ SinceSnapshot(p)

\* Steps of others: files, rows and settled plugins change only where a plugin is
\* no longer steady, and what is no longer there is no longer kept.
LEMMA OthersStep ==
  ASSUME TypeOK, PluginInv, NEW p \in Proc, SoundInv(p), SinceSnapshot(p),
         pc'[p] = pc[p], back'[p] = back[p],
         kept'[p] \subseteq kept[p], steady'[p] \subseteq steady[p],
         pc[p] = "collect" => kept'[p] \subseteq Collected',
         \A n \in steady'[p] : n \in settled => n \in settled' /\ row'[n] = row[n]
  PROVE  SoundInv(p)' /\ SinceSnapshot(p)'
<1>1. SoundInv(p)'
  BY DEF SoundInv
<1>2. SinceSnapshot(p)'
  BY DEF SinceSnapshot, Packs
<1>3. QED
  BY <1>1, <1>2

\* A step of p in a backup: BackupBegin to Publish.
LEMMA CreateStepInv ==
  ASSUME TypeOK, PluginInv, BackupInv, NEW p \in Proc, CreateStep(p)
  PROVE  BackupInv'
<1>0. /\ SoundInv(p) /\ SinceSnapshot(p) /\ pc \in [Proc -> Stage]
      /\ back \in [Proc -> Pack \cup {None}] /\ file \in [HomeFile -> Body \cup {None}]
      /\ row \in [Plugin -> Body \cup {None}] /\ settled \subseteq Plugin
      /\ (pc[p] \in OnBackup => back[p] \in Pack)
      /\ steady \in [Proc -> SUBSET Plugin] /\ kept \in [Proc -> SUBSET (HomeFile \ Excluded)]
      /\ Plugin \subseteq HomeFile \ Excluded /\ Snapshot \notin HomeFile \ Excluded
  BY BackupsAssumption DEF BackupInv, TypeOK, HomeFile, Excluded
<1>1. ASSUME NEW q \in Proc \ {p} PROVE SoundInv(q)' /\ SinceSnapshot(q)'
  <2>1. /\ SoundInv(q) /\ SinceSnapshot(q) /\ pc'[q] = pc[q] /\ back'[q] = back[q]
        /\ kept'[q] = kept[q] /\ steady'[q] = steady[q]
        /\ UNCHANGED <<file, row, settled>>
    BY <1>0 DEF BackupInv, CreateStep, BackupBegin, TakeSnapshot, Collect, Open, Copy,
      Publish, Packing, Goto
  <2>2. Collected' = Collected
    BY <2>1 DEF Collected
  <2>3. pc[q] = "collect" => kept'[q] \subseteq Collected'
    BY <2>1, <2>2 DEF SinceSnapshot
  <2>4. QED
    BY <2>1, <2>3, OthersStep
<1> SUFFICES SoundInv(p)' /\ SinceSnapshot(p)'
  BY <1>1 DEF BackupInv
<1>2. CASE BackupBegin(p)
  BY <1>0, <1>2 DEF BackupBegin, Packing, Goto, After, SoundInv, SinceSnapshot, Packs
<1>3. CASE TakeSnapshot(p)
  <2>1. /\ pc'[p] = "collect" /\ back'[p] = [back[p] EXCEPT !.row = row]
        /\ back'[p].row = row /\ back'[p].members = <<>> /\ back'[p].list = <<>>
        /\ kept'[p] = Collected /\ steady'[p] = settled /\ UNCHANGED <<file, row, settled>>
    BY <1>0, <1>3 DEF TakeSnapshot, Packing, Goto, After, SoundInv, Pack, OnBackup
  <2>2. QED
    BY <2>1 DEF SoundInv, SinceSnapshot, Packs, Collected
<1>4. CASE Collect(p)
  <2> DEFINE q == [back[p] EXCEPT !.todo = Collected \cup {Snapshot}]
  <2>1. /\ pc'[p] = "open" /\ back'[p] = q /\ pc[p] = "collect" /\ back[p] \in Pack
        /\ UNCHANGED <<file, row, settled>> /\ kept'[p] = kept[p] /\ steady'[p] = steady[p]
        /\ Collected \cap Invalid = {} /\ Cardinality(Collected) + 2 <= MaxMembers
    BY <1>0, <1>4 DEF Collect, Packing, Goto, After, OnBackup
  <2>2. /\ q.todo = Collected \cup {Snapshot} /\ q.members = <<>> /\ q.list = <<>>
        /\ q.row = back[p].row
    BY <1>0, <2>1 DEF SoundInv, Pack
  <2>3. PackedNames(q) = {} /\ DOMAIN q.members = {} /\ Len(q.members) = 0
    BY <2>2 DEF PackedNames
  <2>4. Sound(q)
    <3>1. IsFiniteSet(Collected)
      BY BackupsAssumption, FS_Subset DEF Collected
    <3>2. Snapshot \notin Collected
      BY <1>0 DEF Collected
    <3>3. /\ IsFiniteSet(q.todo) /\ Cardinality(q.todo) = Cardinality(Collected) + 1
          /\ Cardinality(Collected) \in Nat
      BY <2>2, <3>1, <3>2, FS_AddElement, FS_CardinalityType
    <3>4. q.todo \subseteq Takes
      BY <2>1, <2>2 DEF Takes, Collected
    <3>5. Len(q.members) + Cardinality(q.todo) + 1 <= MaxMembers
      BY <2>1, <2>3, <3>3
    <3>6. QED
      BY <2>2, <2>3, <3>3, <3>4, <3>5 DEF Sound
  <2>5. \A n \in steady[p] : Takings(q, n)
    <3>1. ASSUME NEW n \in steady[p] PROVE Takings(q, n)
      <4>1. n \in settled /\ row[n] = q.row[n] /\ n \in HomeFile \ Excluded /\ n # Snapshot
        BY <1>0, <2>1, <2>2 DEF SinceSnapshot
      <4>2. file[n] = q.row[n]
        BY <4>1 DEF PluginInv
      <4>3. n \in q.todo <=> q.row[n] # None
        BY <2>2, <4>1, <4>2 DEF Collected
      <4>4. QED
        BY <2>3, <4>3 DEF Takings
    <3>2. QED
      BY <3>1
  <2>6. SinceSnapshot(p)'
    BY <1>0, <2>1, <2>2, <2>5 DEF SinceSnapshot, Packs
  <2>7. QED
    BY <2>1, <2>4, <2>6 DEF SoundInv
<1>5. CASE Open(p)
  <2>1. PICK f \in back[p].todo :
          /\ Holds(f) # None /\ Size[Holds(f)] <= MemberLimit
          /\ Packing(p, "copy", [back[p] EXCEPT !.now = f, !.seen = Holds(f)])
    BY <1>5 DEF Open
  <2>2. /\ pc[p] = "open" /\ pc'[p] = "copy" /\ back[p] \in Pack
        /\ back'[p] = [back[p] EXCEPT !.now = f, !.seen = Holds(f)]
        /\ UNCHANGED <<file, row, settled>> /\ kept'[p] = kept[p] /\ steady'[p] = steady[p]
    BY <1>0, <1>5, <2>1 DEF Open, Packing, Goto, OnBackup
  <2>3. /\ back'[p].now = f /\ back'[p].seen = Holds(f) /\ back'[p].todo = back[p].todo
        /\ back'[p].members = back[p].members /\ back'[p].list = back[p].list
        /\ back'[p].row = back[p].row
    BY <2>2 DEF Pack
  <2>4. Sound(back'[p])
    BY <1>0, <2>2, <2>3 DEF SoundInv, Packs, Sound, PackedNames
  <2>5. f \in steady[p] => Holds(f) = back[p].row[f]
    <3>1. ASSUME f \in steady[p] PROVE Holds(f) = back[p].row[f]
      <4>1. f # Snapshot /\ f \in settled /\ row[f] = back[p].row[f]
        BY <1>0, <2>2, <3>1 DEF SinceSnapshot, Packs
      <4>2. QED
        BY <4>1 DEF Holds, PluginInv
    <3>2. QED
      BY <3>1
  <2>6. SinceSnapshot(p)'
    BY <1>0, <2>2, <2>3, <2>5 DEF SinceSnapshot, Packs, Takings, PackedNames
  <2>7. QED
    BY <2>1, <2>2, <2>3, <2>4, <2>6 DEF SoundInv
<1>6. CASE Copy(p)
  <2> DEFINE q == back[p]
             f == q.now
             r(b) == [q EXCEPT !.todo = @ \ {f},
                        !.members = Append(@, [name |-> f, regular |-> TRUE, body |-> b]),
                        !.list = Append(@, [path |-> f, body |-> b])]
  <2>1. PICK b \in Copied(f, q.seen) : Packing(p, "open", r(b))
    BY <1>6 DEF Copy
  <2>2. /\ pc[p] = "copy" /\ pc'[p] = "open" /\ q \in Pack /\ back'[p] = r(b)
        /\ UNCHANGED <<file, row, settled>> /\ kept'[p] = kept[p] /\ steady'[p] = steady[p]
    BY <1>0, <1>6, <2>1 DEF Copy, Packing, Goto, OnBackup
  <2>3. /\ back'[p].todo = q.todo \ {f} /\ back'[p].row = q.row
        /\ back'[p].members = Append(q.members, [name |-> f, regular |-> TRUE, body |-> b])
        /\ back'[p].list = Append(q.list, [path |-> f, body |-> b])
    BY <2>2 DEF Pack
  <2>4. Sound(q) /\ f \in q.todo /\ Size[q.seen] <= MemberLimit /\ q.seen # None
    BY <1>0, <2>2 DEF SoundInv, Packs, TypeOK
  <2>5. b \in Body /\ Size[b] <= MemberLimit
    BY <2>2, <2>4 DEF Copied, Pack
  <2>6. back'[p] \in Pack
    BY <1>6, <2>2, CreateTypes DEF TypeOK, OnBackup
  <2>7. Sound(back'[p])
    BY <2>2, <2>3, <2>4, <2>5, <2>6, SoundCopy
  <2>8. ASSUME f \in steady[p] PROVE b = q.row[f]
    <3>1. f # Snapshot /\ f \in settled /\ row[f] = q.row[f] /\ q.seen = q.row[f]
      BY <1>0, <2>2, <2>8 DEF SinceSnapshot, Packs
    <3>2. Holds(f) = q.seen
      BY <3>1 DEF Holds, PluginInv
    <3>3. QED
      BY <2>1, <3>1, <3>2 DEF Copied
  <2> DEFINE m == [name |-> f, regular |-> TRUE, body |-> b]
             k == Len(q.members) + 1
  <2>9. /\ DOMAIN back'[p].members = DOMAIN q.members \cup {k}
        /\ \A i \in DOMAIN q.members : back'[p].members[i] = q.members[i]
        /\ back'[p].members[k] = m
    <3>1. q.members \in Seq(Member) /\ m \in Member
      BY <2>2, <2>4, <2>5 DEF Pack, Member, Name
    <3>2. /\ Len(q.members) \in Nat /\ DOMAIN q.members = 1..Len(q.members)
          /\ DOMAIN back'[p].members = 1..(Len(q.members) + 1)
          /\ \A i \in DOMAIN q.members : back'[p].members[i] = q.members[i]
          /\ back'[p].members[Len(q.members) + 1] = m
      BY <2>3, <3>1, Appended
    <3>3. QED
      BY <3>2
  <2>10. PackedNames(back'[p]) = PackedNames(q) \cup {f}
    BY <2>9 DEF PackedNames
  <2>11. ASSUME NEW n \in steady[p] PROVE Takings(back'[p], n)
    <3>1. Takings(q, n)
      BY <1>0, <2>2 DEF SinceSnapshot, Packs
    <3>2. CASE n = f
      BY <2>3, <2>4, <2>8, <2>9, <3>1, <3>2 DEF Takings
    <3>3. CASE n # f /\ q.row[n] = None
      BY <2>3, <2>10, <3>1, <3>3 DEF Takings
    <3>4. CASE n # f /\ q.row[n] # None
      BY <2>3, <2>9, <3>1, <3>4 DEF Takings
    <3>5. QED
      BY <3>2, <3>3, <3>4
  <2>12. kept[p] \subseteq back'[p].todo \cup PackedNames(back'[p])
    BY <1>0, <2>2, <2>3, <2>10 DEF SinceSnapshot, Packs
  <2>13. SinceSnapshot(p)'
    BY <1>0, <2>2, <2>3, <2>11, <2>12 DEF SinceSnapshot, Packs
  <2>14. QED
    BY <2>2, <2>7, <2>13 DEF SoundInv
<1>7. CASE Publish(p)
  BY <1>0, <1>7 DEF Publish, Packing, Goto, SoundInv, SinceSnapshot, Packs
<1>8. QED
  BY <1>2, <1>3, <1>4, <1>5, <1>6, <1>7 DEF CreateStep

\* A step that is none of a backup's.
LEMMA AroundBackups ==
  ASSUME TypeOK, PluginInv, BackupInv,
         \A q \in Proc : pc'[q] \in OnBackup =>
           /\ pc'[q] = pc[q] /\ back'[q] = back[q]
           /\ kept'[q] \subseteq kept[q] /\ steady'[q] \subseteq steady[q]
           /\ kept'[q] \cap (Collected \ Collected') = {}
           /\ \A n \in steady'[q] : n \in settled => n \in settled' /\ row'[n] = row[n]
  PROVE  BackupInv'
<1> SUFFICES ASSUME NEW q \in Proc PROVE SoundInv(q)' /\ SinceSnapshot(q)'
  BY DEF BackupInv
<1>1. CASE pc'[q] \notin OnBackup
  BY <1>1 DEF OnBackup, SoundInv, SinceSnapshot, Packs
<1>2. CASE pc'[q] \in OnBackup
  <2>1. SoundInv(q) /\ SinceSnapshot(q)
    BY DEF BackupInv
  <2>2. pc[q] = "collect" => kept'[q] \subseteq Collected'
    BY <1>2, <2>1 DEF SinceSnapshot
  <2>3. QED
    BY <1>2, <2>1, <2>2, OthersStep
<1>3. QED
  BY <1>1, <1>2

LEMMA BackupInvStep == TypeOK /\ PluginInv /\ BackupInv /\ [Next]_vars => BackupInv'
<1> SUFFICES ASSUME TypeOK, PluginInv, BackupInv, [Next]_vars PROVE BackupInv'
  OBVIOUS
<1> USE DEF OnBackup
<1>0. /\ pc \in [Proc -> Stage] /\ file \in [HomeFile -> Body \cup {None}]
      /\ row \in [Plugin -> Body \cup {None}] /\ None \notin Body
      /\ kept \in [Proc -> SUBSET (HomeFile \ Excluded)] /\ steady \in [Proc -> SUBSET Plugin]
  BY BackupsAssumption DEF TypeOK
<1>1. ASSUME NEW p \in Proc, NEW n \in Plugin, NEW b \in Body \cup {None},
             NEW to \in {"truncate", "delete"}, PluginBegin(p, n, b, to)
      PROVE  BackupInv'
  <2>1. Collected' = Collected /\ pc'[p] = to /\ \A q \in Proc \ {p} : pc'[q] = pc[q]
    BY <1>0, <1>1 DEF PluginBegin, Goto, Collected
  <2>2. \A q \in Proc : steady'[q] = steady[q] \ {n}
    BY <1>1 DEF PluginBegin
  <2>3. UNCHANGED <<back, kept, row>> /\ settled' = settled \ {n}
    BY <1>1 DEF PluginBegin
  <2>4. QED
    BY <2>1, <2>2, <2>3, AroundBackups
<1>2. ASSUME NEW p \in Proc, PluginStep(p) PROVE BackupInv'
  <2> DEFINE n == plug[p].path
  <2>1. pc[p] \in OnPlugin /\ plug[p] \in Work
    BY <1>2 DEF PluginStep, Truncate, Fill, Record, Delete, Forget, OnPlugin, TypeOK
  <2>2. n \in Plugin \ settled /\ n \in HomeFile
    BY <2>1, OnOnePlugin DEF HomeFile
  <2>3. pc'[p] \notin OnBackup /\ \A q \in Proc \ {p} : pc'[q] = pc[q]
    BY <1>0, <1>2 DEF PluginStep, Truncate, Fill, Record, Delete, Forget, Settle, Goto
  <2>4. /\ UNCHANGED <<back, steady>> /\ settled \subseteq settled'
        /\ \A m \in settled : row'[m] = row[m]
    BY <1>0, <1>2, <2>2 DEF PluginStep, Truncate, Fill, Record, Delete, Forget, Settle, TypeOK
  <2>5. \A q \in Proc : /\ kept'[q] \subseteq kept[q]
                        /\ kept'[q] \cap (Collected \ Collected') = {}
    <3>1. CASE Delete(p)
      <4>1. \A f \in HomeFile \ {n} : file'[f] = file[f]
        BY <1>0, <3>1 DEF Delete, Unlink
      <4>2. \A q \in Proc : kept'[q] = kept[q] \ {n}
        BY <3>1 DEF Delete, Unlink
      <4>3. QED
        BY <4>1, <4>2 DEF Collected
    <3>2. CASE Truncate(p)
      <4>1. Empty # None
        BY BackupsAssumption
      <4>2. \A f \in HomeFile : file[f] # None => file'[f] # None
        BY <1>0, <3>2, <4>1 DEF Truncate
      <4>3. kept' = kept
        BY <3>2 DEF Truncate
      <4>4. QED
        BY <4>2, <4>3 DEF Collected
    <3>3. CASE Fill(p)
      <4>1. plug[p].body \in Body
        BY <2>1, <3>3 DEF Fill, TypeOK, Work
      <4>2. file' = file \/ \E b \in Body : file' = [file EXCEPT ![n] = b]
        BY <3>3, <4>1 DEF Fill, Overwritten
      <4>3. \A f \in HomeFile : file[f] # None => file'[f] # None
        BY <1>0, <4>2
      <4>4. kept' = kept
        BY <3>3 DEF Fill
      <4>5. QED
        BY <4>3, <4>4 DEF Collected
    <3>4. CASE Record(p) \/ Forget(p)
      BY <3>4 DEF Record, Forget, Settle, Collected
    <3>5. QED
      BY <1>2, <3>1, <3>2, <3>3, <3>4 DEF PluginStep
  <2>6. QED
    BY <2>3, <2>4, <2>5, AroundBackups
<1>3. ASSUME NEW p \in Proc, ReadStep(p) PROVE BackupInv'
  <2>1. pc'[p] \notin OnBackup /\ \A q \in Proc \ {p} : pc'[q] = pc[q]
    BY <1>0, <1>3 DEF ReadStep, ReadBegin, ReadMember, ReadManifest, CheckEntry,
      Accept, Refuse, ReadEnd, Reading, Goto
  <2>2. UNCHANGED <<file, row, back, kept, steady, settled>>
    BY <1>3 DEF ReadStep, ReadBegin, ReadMember, ReadManifest, CheckEntry,
      Accept, Refuse, ReadEnd, Reading
  <2>3. Collected' = Collected
    BY <2>2 DEF Collected
  <2>4. QED
    BY <2>1, <2>2, <2>3, AroundBackups
<1>4. ASSUME NEW p \in Proc, GiveUp(p) PROVE BackupInv'
  <2>1. pc'[p] = "idle" /\ UNCHANGED <<file, row, settled>>
        /\ \A q \in Proc \ {p} : /\ pc'[q] = pc[q] /\ back'[q] = back[q]
                                 /\ kept'[q] = kept[q] /\ steady'[q] = steady[q]
    BY <1>0, <1>4 DEF GiveUp, Goto, TypeOK
  <2>2. Collected' = Collected
    BY <2>1 DEF Collected
  <2>3. QED
    BY <2>1, <2>2, AroundBackups
<1>5. ASSUME NEW f \in Other, OtherRemoves(f) PROVE BackupInv'
  <2>1. UNCHANGED <<row, pc, back, settled, steady>>
    BY <1>5 DEF OtherRemoves
  <2>2. \A g \in HomeFile \ {f} : file'[g] = file[g]
    BY <1>0, <1>5 DEF OtherRemoves, Unlink
  <2>3. \A q \in Proc : kept'[q] = kept[q] \ {f}
    BY <1>5 DEF OtherRemoves, Unlink
  <2>4. \A q \in Proc : kept'[q] \cap (Collected \ Collected') = {}
    BY <2>2, <2>3 DEF Collected
  <2>5. QED
    BY <2>1, <2>3, <2>4, AroundBackups
<1>6. ASSUME NEW f \in Other, NEW b \in OtherBody, OtherWrites(f, b) PROVE BackupInv'
  <2>1. b # None /\ f \in HomeFile
    BY BackupsAssumption DEF HomeFile
  <2>2. UNCHANGED <<row, pc, back, settled, steady, kept>>
        /\ \A g \in HomeFile : file[g] # None => file'[g] # None
    BY <1>0, <1>6, <2>1 DEF OtherWrites
  <2>3. \A q \in Proc : kept'[q] \cap (Collected \ Collected') = {}
    BY <2>2 DEF Collected
  <2>4. QED
    BY <2>2, <2>3, AroundBackups
<1>7. CASE UNCHANGED vars
  BY <1>7, AroundBackups DEF vars, Collected
<1>8. QED
  BY <1>1, <1>2, <1>3, <1>4, <1>5, <1>6, <1>7, CreateStepInv DEF Next, InstallBegin, RemoveBegin

-----------------------------------------------------------------------------
(* The size of an archive, which is defined from one member to the next.   *)

\* Every set of natural numbers that is not empty has a least one.
LEMMA LeastOne ==
  ASSUME NEW T, T \subseteq Nat, T # {}
  PROVE  \E x \in T : \A y \in T : x <= y
<1> DEFINE R == OpToRel(<, Nat)
<1>0. R = {ss \in Nat \X Nat : ss[1] < ss[2]}
  BY DEF OpToRel
<1>1. IsWellFoundedOn(R, Nat)
  BY NatLessThanWellFounded
<1> HIDE DEF R
<1>2. \E x \in T : \A y \in T : ~ (<<y, x>> \in R)
  BY <1>1, WFMin
<1>3. PICK x \in T : \A y \in T : ~ (<<y, x>> \in R)
  BY <1>2
<1>4. ASSUME NEW y \in T PROVE x <= y
  <2>1. x \in Nat /\ y \in Nat
    OBVIOUS
  <2>2. <<y, x>> \notin R
    BY <1>3
  <2>3. ~ (y < x)
    BY <2>1, <2>2, <1>0
  <2> QED
    BY <2>1, <2>3
<1> QED
  BY <1>4

\* f is defined from each number to the next.
Iterate(f, N, S, base, step) ==
  /\ f \in [0..N -> S]
  /\ f[0] = base
  /\ \A i \in 1..N : f[i] = step[i][f[i - 1]]

\* Whatever is defined from one number to the next is defined.
LEMMA Iterates ==
  ASSUME NEW N \in Nat, NEW S, NEW base \in S, NEW step \in [1..N -> [S -> S]]
  PROVE  \E f : Iterate(f, N, S, base, step)
<1> DEFINE Upto(n) == \E f \in [0..n -> S] :
                        f[0] = base /\ \A i \in 1..n : f[i] = step[i][f[i - 1]]
           T == {n \in 0..N : ~Upto(n)}
<1>1. T = {}
  <2> SUFFICES ASSUME T # {} PROVE FALSE
    OBVIOUS
  <2>1. PICK n \in T : \A m \in T : n <= m
    <3>1. T \subseteq Nat
      OBVIOUS
    <3> QED
      BY <3>1, LeastOne
  <2>2. n \in 0..N /\ ~Upto(n)
    OBVIOUS
  <2>3. n # 0
    <3>1. [i \in 0..0 |-> base] \in [0..0 -> S]
      OBVIOUS
    <3>2. [i \in 0..0 |-> base][0] = base
      OBVIOUS
    <3>3. 1..0 = {}
      OBVIOUS
    <3> QED
      BY <2>2, <3>1, <3>2, <3>3
  <2>4. n - 1 \in 0..N /\ n - 1 \notin T
    BY <2>1, <2>2, <2>3
  <2>5. PICK f \in [0..(n - 1) -> S] :
          f[0] = base /\ \A i \in 1..(n - 1) : f[i] = step[i][f[i - 1]]
    BY <2>4
  <2> DEFINE g == [i \in 0..n |-> IF i = n THEN step[n][f[n - 1]] ELSE f[i]]
  <2>6. step[n][f[n - 1]] \in S
    <3>1. n \in 1..N /\ n - 1 \in 0..(n - 1)
      BY <2>2, <2>3
    <3> QED
      BY <3>1
  <2>7. g \in [0..n -> S]
    BY <2>2, <2>6
  <2>8. g[0] = base
    BY <2>2, <2>3, <2>5
  <2>9. ASSUME NEW i \in 1..n PROVE g[i] = step[i][g[i - 1]]
    <3>1. i - 1 \in 0..n /\ i - 1 # n /\ i \in 0..n
      BY <2>2
    <3>2. g[i - 1] = f[i - 1]
      BY <3>1
    <3>3. CASE i = n
      BY <3>1, <3>2, <3>3
    <3>4. CASE i # n
      <4>1. i \in 1..(n - 1)
        BY <2>2, <3>4
      <4> QED
        BY <3>1, <3>2, <3>4, <4>1, <2>5
    <3> QED
      BY <3>3, <3>4
  <2> HIDE DEF g
  <2> QED
    BY <2>2, <2>7, <2>8, <2>9
<1>2. Upto(N)
  BY <1>1
<1> QED
  BY <1>2 DEF Iterate

LEMMA Counts ==
  ASSUME NEW N \in Nat, NEW step \in [1..N -> [Nat -> Nat]]
  PROVE  \E f \in [0..N -> Nat] : f[0] = 0 /\ \A i \in 1..N : f[i] = step[i][f[i - 1]]
<1>1. 0 \in Nat
  OBVIOUS
<1>2. PICK f : Iterate(f, N, Nat, 0, step)
  BY <1>1, Iterates
<1> QED
  BY <1>2 DEF Iterate

\* What a reader has counted when it comes to a member.
LEMMA BytesDefined ==
  ASSUME NEW a \in Archive
  PROVE  /\ Len(a.members) \in Nat /\ DOMAIN a.members = 1..Len(a.members)
         /\ BytesUpto(a) \in [0..Len(a.members) -> Nat]
         /\ BytesUpto(a)[0] = 0
         /\ \A i \in 1..Len(a.members) :
              /\ Header + MemberSize(a, i) \in Nat
              /\ BytesUpto(a)[i] = BytesUpto(a)[i - 1] + (Header + MemberSize(a, i))
<1> DEFINE N == Len(a.members)
           size(i) == Header + MemberSize(a, i)
           Rec(f) == f = [i \in 0..N |-> IF i = 0 THEN 0 ELSE f[i - 1] + size(i)]
           step == [i \in 1..N |-> [x \in Nat |-> x + size(i)]]
<1>1. N \in Nat /\ DOMAIN a.members = 1..N /\ \A i \in 1..N : size(i) \in Nat
  <2>1. N \in Nat /\ DOMAIN a.members = 1..N
    BY DEF Archive
  <2>2. \A i \in 1..N : MemberSize(a, i) \in Nat
    BY <2>1, SizeType
  <2> QED
    BY <2>1, <2>2, BackupsAssumption
<1>2. BytesUpto(a) = CHOOSE g : Rec(g)
  BY DEF BytesUpto
<1> HIDE DEF N, size
<1>3. step \in [1..N -> [Nat -> Nat]]
  BY <1>1
<1> HIDE DEF step
<1>4. PICK f \in [0..N -> Nat] : f[0] = 0 /\ \A i \in 1..N : f[i] = step[i][f[i - 1]]
  <2> HIDE DEF Rec
  <2> QED
    BY <1>1, <1>3, Counts
<1>5. Rec(f)
  <2>1. \A i \in 0..N : i # 0 => i \in 1..N /\ i - 1 \in 0..N
    BY <1>1
  <2> QED
    BY <1>1, <1>4, <2>1 DEF step
<1>6. Rec(BytesUpto(a))
  <2> HIDE DEF Rec
  <2> QED
    BY <1>2, <1>5
<1> DEFINE bytes == BytesUpto(a)
<1>7. bytes[0] = 0 /\ \A i \in 1..N : bytes[i] = bytes[i - 1] + size(i)
  BY <1>1, <1>6
<1>8. {i \in 0..N : bytes[i] \notin Nat} = {}
  <2> SUFFICES ASSUME {i \in 0..N : bytes[i] \notin Nat} # {} PROVE FALSE
    OBVIOUS
  <2>1. PICK n \in {i \in 0..N : bytes[i] \notin Nat} :
               \A m \in {i \in 0..N : bytes[i] \notin Nat} : n <= m
    <3>1. {i \in 0..N : bytes[i] \notin Nat} \subseteq Nat
      BY <1>1
    <3> QED
      BY <3>1, LeastOne
  <2>2. n \in 1..N /\ n - 1 \in 0..N /\ bytes[n] \notin Nat
    BY <1>1, <1>7, <2>1
  <2>3. bytes[n - 1] \in Nat
    BY <1>1, <2>1, <2>2
  <2> QED
    BY <1>1, <1>7, <2>2, <2>3
<1>9. bytes = [i \in 0..N |-> bytes[i]]
  BY <1>6
<1> HIDE DEF bytes
<1>10. bytes \in [0..N -> Nat]
  BY <1>8, <1>9
<1> QED
  BY <1>1, <1>7, <1>10 DEF bytes, N, size

\* No part of an archive is larger than the whole.
LEMMA BytesGrow ==
  ASSUME NEW a \in Archive, NEW i \in 0..Len(a.members)
  PROVE  BytesUpto(a)[i] <= BytesUpto(a)[Len(a.members)]
<1> DEFINE N == Len(a.members)
           bytes == BytesUpto(a)
           T == {j \in i..N : ~(bytes[i] <= bytes[j])}
<1>1. /\ N \in Nat /\ bytes \in [0..N -> Nat]
      /\ \A j \in 1..N : /\ Header + MemberSize(a, j) \in Nat
                         /\ bytes[j] = bytes[j - 1] + (Header + MemberSize(a, j))
  BY BytesDefined
<1> HIDE DEF bytes, N
<1>2. i \in 0..N
  BY DEF N
<1>3. T = {}
  <2> SUFFICES ASSUME T # {} PROVE FALSE
    OBVIOUS
  <2>1. PICK n \in T : \A m \in T : n <= m
    <3>1. T \subseteq Nat
      BY <1>1, <1>2
    <3> QED
      BY <3>1, LeastOne
  <2>2. n \in 1..N /\ n - 1 \in i..N /\ ~(bytes[i] <= bytes[n])
    <3>1. n # i
      BY <1>1, <1>2, <2>1
    <3> QED
      BY <1>1, <1>2, <2>1, <3>1
  <2>3. bytes[i] <= bytes[n - 1]
    BY <1>1, <1>2, <2>1, <2>2
  <2>4. bytes[i] \in Nat /\ bytes[n] \in Nat /\ bytes[n - 1] \in Nat
    BY <1>1, <1>2, <2>2
  <2> DEFINE s == Header + MemberSize(a, n)
  <2>5. s \in Nat /\ bytes[n] = bytes[n - 1] + s
    BY <1>1, <2>2
  <2> HIDE DEF s
  <2> QED
    BY <2>2, <2>3, <2>4, <2>5
<1>4. N \in i..N
  BY <1>1, <1>2
<1>5. bytes[i] <= bytes[N]
  BY <1>3, <1>4
<1> QED
  BY <1>5 DEF bytes, N

-----------------------------------------------------------------------------
(* Reading.                                                                *)

\* What a reader has got through is as it should be, and what it has not refused
\* yet fits so far.
ReadInv(p) ==
  LET a == scan[p].archive
      at == scan[p].at
  IN  /\ pc[p] = "member" =>
           /\ \A i \in 1..(at - 1) : i \in DOMAIN a.members /\ MemberOK(a, i)
           /\ at - 1 \in 0..Len(a.members)
           /\ scan[p].left + BytesUpto(a)[at - 1] = ArchiveLimit
      /\ pc[p] = "refused" => ~(Consistent(a) /\ StreamSize(a) <= ArchiveLimit)
      /\ pc[p] \in {"entry", "accepted"} =>
           /\ StreamSize(a) <= ArchiveLimit
           /\ \A i \in DOMAIN a.members : MemberOK(a, i)
           /\ \E i \in DOMAIN a.members :
                a.members[i].name = Manifest /\ a.members[i].body \notin Corrupt
      /\ pc[p] = "entry" => \A k \in 1..(at - 1) : EntryOK(a, k)
      /\ pc[p] = "accepted" =>
           (\A k \in DOMAIN a.manifest : EntryOK(a, k)) /\ Listed(scan[p])

\* A reader gets through an archive that agrees with its manifest.
LEMMA ConsistentRead ==
  ASSUME NEW a \in Archive, Consistent(a)
  PROVE  /\ \A i \in DOMAIN a.members : MemberOK(a, i)
         /\ \E i \in DOMAIN a.members :
              a.members[i].name = Manifest /\ a.members[i].body \notin Corrupt
         /\ \A k \in DOMAIN a.manifest : EntryOK(a, k)
         /\ {a.members[i].name : i \in DOMAIN a.members} \ {Manifest}
              \subseteq {a.manifest[k].path : k \in DOMAIN a.manifest}
         /\ Snapshot \in {a.manifest[k].path : k \in DOMAIN a.manifest}
<1> DEFINE M == DOMAIN a.members
           K == DOMAIN a.manifest
           name(i) == a.members[i].name
           Entries == {[path |-> name(i), body |-> a.members[i].body] :
                         i \in {j \in M : name(j) # Manifest}}
<1>1. /\ M = 1..Len(a.members) /\ Len(a.members) \in Nat
      /\ K = 1..Len(a.manifest) /\ Len(a.manifest) \in Nat
  BY DEF Archive
<1>2. /\ Len(a.members) <= MaxMembers
      /\ \A i \in M : /\ name(i) \notin Invalid \cup Transient /\ a.members[i].regular
                      /\ MemberSize(a, i) <= SizeLimit(name(i))
      /\ \A i, j \in M : i # j => ~IsPrefix(Staged(name(i)), Staged(name(j)))
      /\ \E i \in M : name(i) = Manifest /\ a.members[i].body \notin Corrupt
      /\ Snapshot \in {name(i) : i \in M}
      /\ \A j, k \in K : j # k => a.manifest[j].path # a.manifest[k].path
      /\ {a.manifest[k] : k \in K} = Entries
  BY DEF Consistent
<1>3. ASSUME NEW i \in M PROVE MemberOK(a, i)
  <2>1. i <= MaxMembers
    BY <1>1, <1>2, BackupsAssumption
  <2>2. \A j \in 1..(i - 1) : j \in M /\ j # i
    BY <1>1
  <2>3. QED
    BY <1>2, <2>1, <2>2 DEF MemberOK
<1>4. ASSUME NEW k \in K
      PROVE  \E i \in M : /\ name(i) # Manifest /\ a.manifest[k].path = name(i)
                          /\ a.manifest[k].body = a.members[i].body
  <2>1. a.manifest[k] \in Entries
    BY <1>2
  <2>2. PICK i \in {j \in M : name(j) # Manifest} :
          a.manifest[k] = [path |-> name(i), body |-> a.members[i].body]
    BY <2>1
  <2>3. QED
    BY <2>2
<1>5. ASSUME NEW k \in K PROVE EntryOK(a, k)
  <2>1. \A j \in 1..(k - 1) : j \in K /\ j # k
    BY <1>1
  <2>2. PICK i \in M : /\ name(i) # Manifest /\ a.manifest[k].path = name(i)
                       /\ a.manifest[k].body = a.members[i].body
    BY <1>4
  <2>3. QED
    BY <1>2, <2>1, <2>2 DEF EntryOK
<1>6. ASSUME NEW i \in M, name(i) # Manifest
      PROVE  \E k \in K : a.manifest[k].path = name(i)
  <2>1. [path |-> name(i), body |-> a.members[i].body] \in Entries
    BY <1>6
  <2>2. [path |-> name(i), body |-> a.members[i].body] \in {a.manifest[k] : k \in K}
    <3> HIDE DEF Entries
    <3> QED
      BY <1>2, <2>1
  <2>3. PICK k \in K : a.manifest[k] = [path |-> name(i), body |-> a.members[i].body]
    BY <2>2
  <2>4. QED
    BY <2>3
<1>7. \E i \in M : name(i) = Snapshot /\ name(i) # Manifest
  BY <1>2, BackupsAssumption
<1>8. QED
  BY <1>2, <1>3, <1>5, <1>6, <1>7

\* What is refused is too large, or does not agree with its manifest.
LEMMA RefusedRightly ==
  ASSUME NEW p \in Proc, scan[p] \in Scan, ReadInv(p), Refuse(p)
  PROVE  ~(Consistent(scan[p].archive) /\ StreamSize(scan[p].archive) <= ArchiveLimit)
<1> DEFINE q == scan[p]
           a == scan[p].archive
           N == Len(a.members)
           bytes == BytesUpto(a)
<1> SUFFICES ASSUME Consistent(a), StreamSize(a) <= ArchiveLimit PROVE FALSE
  OBVIOUS
<1>1. a \in Archive /\ q.at \in Nat \ {0} /\ q.left \in Nat
  BY DEF Scan
<1>2. /\ N \in Nat /\ DOMAIN a.members = 1..N /\ bytes \in [0..N -> Nat]
      /\ \A i \in 1..N : /\ Header + MemberSize(a, i) \in Nat
                         /\ bytes[i] = bytes[i - 1] + (Header + MemberSize(a, i))
      /\ \A i \in 0..N : bytes[i] <= bytes[N]
  BY <1>1, BytesDefined, BytesGrow
<1>3. Trailer \in Nat /\ ArchiveLimit \in Nat /\ Trailer + bytes[N] <= ArchiveLimit
  BY BackupsAssumption DEF StreamSize
<1>4. CASE pc[p] = "member"
  <2>1. /\ ~Complete(q)
        /\ q.at <= N => \/ ~MemberOK(a, q.at)
                        \/ Header + MemberSize(a, q.at) > q.left
    BY <1>4 DEF Refuse
  <2>2. q.at - 1 \in 0..N /\ q.left + bytes[q.at - 1] = ArchiveLimit
    BY <1>4 DEF ReadInv
  <2>3. CASE q.at <= N
    <3> DEFINE s == Header + MemberSize(a, q.at)
    <3>1. q.at \in 1..N
      BY <1>1, <1>2, <2>3
    <3>2. MemberOK(a, q.at)
      BY <1>1, <1>2, <3>1, ConsistentRead
    <3>3. /\ s \in Nat /\ bytes[q.at] = bytes[q.at - 1] + s /\ bytes[q.at] <= bytes[N]
          /\ bytes[q.at - 1] \in Nat /\ bytes[q.at] \in Nat /\ bytes[N] \in Nat
      <4>1. q.at \in 0..N /\ N \in 0..N
        BY <1>2, <3>1
      <4> HIDE DEF bytes, N
      <4>2. QED
        BY <1>2, <2>2, <3>1, <4>1
    <3>4. s > q.left
      BY <2>1, <2>3, <3>2
    <3> HIDE DEF s, bytes, N
    <3>5. QED
      BY <1>1, <1>3, <2>2, <3>3, <3>4
  <2>4. CASE ~(q.at <= N)
    <3>1. q.at - 1 = N
      BY <1>1, <1>2, <2>2, <2>4
    <3>2. bytes[N] \in Nat /\ q.left + bytes[N] = ArchiveLimit
      BY <1>2, <2>2, <3>1
    <3>3. Trailer <= q.left
      <4> HIDE DEF bytes, N
      <4>1. QED
        BY <1>1, <1>3, <3>2
    <3>4. q.at > N
      BY <1>1, <1>2, <2>4
    <3>5. Complete(q)
      BY <1>1, <3>3, <3>4, ConsistentRead DEF Complete
    <3>6. QED
      BY <2>1, <3>5
  <2>5. QED
    BY <2>3, <2>4
<1>5. CASE pc[p] = "entry"
  <2>1. /\ ~Listed(q)
        /\ q.at <= Len(a.manifest) => ~EntryOK(a, q.at)
    BY <1>5 DEF Refuse
  <2>2. Len(a.manifest) \in Nat /\ DOMAIN a.manifest = 1..Len(a.manifest)
    BY <1>1 DEF Archive
  <2>3. ~(q.at <= Len(a.manifest))
    <3>1. q.at <= Len(a.manifest) => q.at \in DOMAIN a.manifest
      BY <1>1, <2>2
    <3>2. QED
      BY <1>1, <2>1, <3>1, ConsistentRead
  <2>4. Listed(q)
    <3>1. q.at > Len(q.archive.manifest)
      BY <1>1, <2>2, <2>3
    <3>2. /\ {q.archive.members[i].name : i \in DOMAIN q.archive.members} \ {Manifest}
               \subseteq {q.archive.manifest[k].path : k \in DOMAIN q.archive.manifest}
          /\ Snapshot \in {q.archive.manifest[k].path : k \in DOMAIN q.archive.manifest}
      BY <1>1, ConsistentRead, Zenon
    <3>3. QED
      BY <3>1, <3>2, Zenon DEF Listed
  <2>5. QED
    BY <2>1, <2>4
<1>6. QED
  BY <1>4, <1>5 DEF Refuse

LEMMA ReadInvStep ==
  ASSUME TypeOK, \A p \in Proc : ReadInv(p), [Next]_vars
  PROVE  \A p \in Proc : ReadInv(p)'
<1>0. /\ pc \in [Proc -> Stage] /\ scan \in [Proc -> Scan \cup {None}]
      /\ \A p \in Proc : pc[p] \in OnArchive => scan[p] \in Scan
  BY DEF TypeOK
<1>1. ASSUME NEW p \in Proc,
             ~(pc'[p] \in OnArchive) \/ (pc'[p] = pc[p] /\ scan'[p] = scan[p])
      PROVE  ReadInv(p)'
  BY <1>1 DEF ReadInv, OnArchive
<1>2. ASSUME NEW p \in Proc, NEW q \in Proc, q # p, ReadStep(p) PROVE ReadInv(q)'
  <2>1. pc'[q] = pc[q] /\ scan'[q] = scan[q]
    BY <1>0, <1>2 DEF ReadStep, ReadBegin, ReadMember, ReadManifest, CheckEntry,
      Accept, Refuse, ReadEnd, Reading, Goto
  <2>2. QED
    BY <1>1, <2>1
<1>3. ASSUME NEW p \in Proc, NEW q \in Proc,
             \/ \E n \in Plugin : (\E b \in Body : InstallBegin(p, n, b)) \/ RemoveBegin(p, n)
             \/ PluginStep(p) \/ CreateStep(p) \/ GiveUp(p)
      PROVE  ReadInv(q)'
  <2>1. q # p => pc'[q] = pc[q] /\ scan'[q] = scan[q]
    BY <1>0, <1>3 DEF InstallBegin, RemoveBegin, PluginBegin, PluginStep, Truncate, Fill,
      Record, Delete, Forget, Settle, CreateStep, BackupBegin, TakeSnapshot, Collect, Open,
      Copy, Publish, Packing, GiveUp, Goto
  <2>2. pc'[p] \notin OnArchive
    BY <1>0, <1>3 DEF InstallBegin, RemoveBegin, PluginBegin, PluginStep, Truncate, Fill,
      Record, Delete, Forget, Settle, CreateStep, BackupBegin, TakeSnapshot, Collect, Open,
      Copy, Publish, Packing, GiveUp, Goto, OnArchive, After
  <2>3. QED
    BY <1>1, <2>1, <2>2
<1>4. ASSUME NEW p \in Proc, ReadStep(p) PROVE ReadInv(p)'
  <2>0. ReadInv(p) /\ pc'[p] \in Stage
    BY <1>0, <1>4 DEF ReadStep, ReadBegin, ReadMember, ReadManifest, CheckEntry,
      Accept, Refuse, ReadEnd, Reading, Goto, Stage
  <2>1. CASE ReadBegin(p)
    <3> DEFINE a == scan'[p].archive
    <3>1. /\ pc'[p] = "member" /\ a = output /\ scan'[p].at = 1
          /\ scan'[p].left = ArchiveLimit /\ output # None
      BY <1>0, <2>1 DEF ReadBegin, Reading, Goto
    <3>2. a \in Archive
      BY <3>1 DEF TypeOK
    <3>3. Len(a.members) \in Nat /\ BytesUpto(a)[0] = 0
      BY <3>2, BytesDefined
    <3>4. scan'[p].left + BytesUpto(a)[scan'[p].at - 1] = ArchiveLimit
      BY <3>1, <3>3, BackupsAssumption
    <3>5. QED
      BY <3>1, <3>3, <3>4 DEF ReadInv
  <2>2. CASE ReadMember(p)
    <3> DEFINE q == scan[p]
    <3>1. /\ pc[p] = "member" /\ pc'[p] = "member" /\ q \in Scan
          /\ q.at <= Len(q.archive.members) /\ MemberOK(q.archive, q.at)
          /\ Header + MemberSize(q.archive, q.at) <= q.left
          /\ scan'[p] = [q EXCEPT !.at = @ + 1,
                           !.left = @ - (Header + MemberSize(q.archive, q.at))]
      BY <1>0, <2>2 DEF ReadMember, Reading, Goto, OnArchive
    <3>2. scan'[p].archive = q.archive /\ scan'[p].at = q.at + 1 /\ q.at \in Nat \ {0}
          /\ q.archive.members \in Seq(Member)
      BY <3>1 DEF Scan, Archive
    <3>3. q.at \in DOMAIN q.archive.members
      BY <3>1, <3>2
    <3>4. \A i \in 1..(q.at - 1) : i \in DOMAIN q.archive.members /\ MemberOK(q.archive, i)
      BY <2>0, <3>1 DEF ReadInv
    <3>5. \A i \in 1..(scan'[p].at - 1) : i = q.at \/ i \in 1..(q.at - 1)
      BY <3>2
    <3> DEFINE bytes == BytesUpto(q.archive)
               s == Header + MemberSize(q.archive, q.at)
    <3>6. s \in Nat /\ bytes[q.at] = bytes[q.at - 1] + s /\ bytes[q.at - 1] \in Nat
      <4>1. q.at \in 1..Len(q.archive.members) /\ q.at - 1 \in 0..Len(q.archive.members)
        BY <3>2, <3>3
      <4>2. QED
        BY <3>1, <4>1, BytesDefined DEF Scan
    <3>7. q.left \in Nat /\ scan'[p].left = q.left - s /\ q.left + bytes[q.at - 1] = ArchiveLimit
      BY <2>0, <3>1 DEF ReadInv, Scan
    <3>8. scan'[p].left + bytes[q.at] = ArchiveLimit
      <4> HIDE DEF bytes, s
      <4>1. QED
        BY <3>6, <3>7
    <3>9. scan'[p].at - 1 = q.at /\ q.at \in 0..Len(q.archive.members)
      BY <3>2, <3>3
    <3>10. QED
      BY <3>1, <3>2, <3>3, <3>4, <3>5, <3>8, <3>9 DEF ReadInv
  <2>3. CASE ReadManifest(p)
    <3> DEFINE q == scan[p]
    <3>1. /\ pc[p] = "member" /\ pc'[p] = "entry" /\ q \in Scan /\ Complete(q)
          /\ scan'[p] = [q EXCEPT !.at = 1]
      BY <1>0, <2>3 DEF ReadManifest, Reading, Goto, OnArchive
    <3>2. scan'[p].archive = q.archive /\ scan'[p].at = 1 /\ q.at \in Nat \ {0}
          /\ q.archive.members \in Seq(Member)
      BY <3>1 DEF Scan, Archive
    <3>3. \A i \in DOMAIN q.archive.members : i \in 1..(q.at - 1)
      BY <3>1, <3>2 DEF Complete
    <3>4. \A i \in DOMAIN q.archive.members : MemberOK(q.archive, i)
      BY <2>0, <3>1, <3>3 DEF ReadInv
    <3> DEFINE bytes == BytesUpto(q.archive)
               N == Len(q.archive.members)
    <3>5. q.at - 1 \in 0..N /\ q.left + bytes[q.at - 1] = ArchiveLimit
      BY <2>0, <3>1 DEF ReadInv
    <3>6. q.at > N /\ Trailer <= q.left /\ q.left \in Nat /\ N \in Nat /\ bytes[N] \in Nat
      BY <3>1, BytesDefined DEF Complete, Scan
    <3>7. q.at - 1 = N
      BY <3>2, <3>5, <3>6
    <3>8. Trailer + bytes[N] <= ArchiveLimit
      <4>1. q.left + bytes[N] = ArchiveLimit
        BY <3>5, <3>7
      <4> HIDE DEF bytes, N
      <4>2. QED
        BY <3>6, <4>1, BackupsAssumption
    <3>9. StreamSize(q.archive) <= ArchiveLimit
      BY <3>8 DEF StreamSize
    <3>10. QED
      BY <3>1, <3>2, <3>4, <3>9 DEF ReadInv, Complete
  <2>4. CASE CheckEntry(p)
    <3> DEFINE q == scan[p]
    <3>1. /\ pc[p] = "entry" /\ pc'[p] = "entry" /\ q \in Scan /\ EntryOK(q.archive, q.at)
          /\ scan'[p] = [q EXCEPT !.at = @ + 1]
      BY <1>0, <2>4 DEF CheckEntry, Reading, Goto, OnArchive
    <3>2. scan'[p].archive = q.archive /\ scan'[p].at = q.at + 1 /\ q.at \in Nat \ {0}
      BY <3>1 DEF Scan
    <3>3. \A i \in 1..(scan'[p].at - 1) : i = q.at \/ i \in 1..(q.at - 1)
      BY <3>2
    <3>4. QED
      BY <2>0, <3>1, <3>2, <3>3 DEF ReadInv
  <2>5. CASE Accept(p)
    <3> DEFINE q == scan[p]
    <3>1. /\ pc[p] = "entry" /\ pc'[p] = "accepted" /\ q \in Scan /\ Listed(q)
          /\ scan'[p] = q
      BY <1>0, <2>5 DEF Accept, Reading, Goto, OnArchive
    <3>2. q.at \in Nat \ {0} /\ q.archive.manifest \in Seq(Entry)
      BY <3>1 DEF Scan, Archive
    <3>3. \A k \in DOMAIN q.archive.manifest : k \in 1..(q.at - 1)
      BY <3>1, <3>2 DEF Listed
    <3>4. \A k \in DOMAIN q.archive.manifest : EntryOK(q.archive, k)
      BY <2>0, <3>1, <3>3 DEF ReadInv
    <3>5. QED
      BY <2>0, <3>1, <3>4 DEF ReadInv
  <2>6. CASE Refuse(p)
    <3>1. scan[p] \in Scan /\ pc'[p] = "refused" /\ scan'[p] = scan[p]
      BY <1>0, <2>6 DEF Refuse, Reading, Goto, OnArchive
    <3>2. ~(Consistent(scan[p].archive) /\ StreamSize(scan[p].archive) <= ArchiveLimit)
      BY <2>0, <2>6, <3>1, RefusedRightly
    <3>3. QED
      BY <3>1, <3>2 DEF ReadInv
  <2>8. CASE ReadEnd(p)
    BY <1>0, <2>8 DEF ReadEnd, Reading, Goto, ReadInv
  <2>7. QED
    BY <1>4, <2>1, <2>2, <2>3, <2>4, <2>5, <2>6, <2>8 DEF ReadStep
<1>5. CASE UNCHANGED vars \/ \E f \in Other : OtherRemoves(f) \/ \E b \in OtherBody : OtherWrites(f, b)
  BY <1>1, <1>5 DEF vars, OtherRemoves, OtherWrites
<1>6. QED
  BY <1>2, <1>3, <1>4, <1>5 DEF Next

LEMMA PrefixOfItself == \A f \in Seq(STRING) : IsPrefix(f, f)
  BY DEF IsPrefix

\* What passes every check of a reader agrees with its manifest.
LEMMA CheckedConsistent ==
  ASSUME NEW q \in Scan,
         \A i \in DOMAIN q.archive.members : MemberOK(q.archive, i),
         \E i \in DOMAIN q.archive.members :
           q.archive.members[i].name = Manifest /\ q.archive.members[i].body \notin Corrupt,
         \A k \in DOMAIN q.archive.manifest : EntryOK(q.archive, k),
         Listed(q)
  PROVE  Consistent(q.archive)
<1>0. PICK a \in Archive : a = q.archive
  BY DEF Scan
<1> DEFINE M == DOMAIN a.members
           K == DOMAIN a.manifest
           name(i) == a.members[i].name
<1>1. /\ a.members \in Seq(Member) /\ a.manifest \in Seq(Entry)
      /\ M = 1..Len(a.members) /\ Len(a.members) \in Nat
      /\ K = 1..Len(a.manifest) /\ Len(a.manifest) \in Nat
  BY DEF Archive
<1>2. /\ \A i \in M : MemberOK(a, i)
      /\ \A k \in K : EntryOK(a, k)
      /\ \E i \in M : name(i) = Manifest /\ a.members[i].body \notin Corrupt
      /\ {name(i) : i \in M} \ {Manifest} \subseteq {a.manifest[k].path : k \in K}
      /\ Snapshot \in {a.manifest[k].path : k \in K}
  BY <1>0 DEF Listed
<1>3. Len(a.members) <= MaxMembers
  <2>1. Len(a.members) \in M
    BY <1>1, <1>2
  <2>2. QED
    BY <1>2, <2>1 DEF MemberOK
<1>4. \A i \in M : /\ name(i) \notin Invalid \cup Transient /\ a.members[i].regular
                   /\ MemberSize(a, i) <= SizeLimit(name(i))
  BY <1>2 DEF MemberOK
<1>5. ASSUME NEW i \in M, NEW j \in M, i # j
      PROVE  ~IsPrefix(Staged(name(i)), Staged(name(j)))
  <2>1. CASE i \in 1..(j - 1)
    BY <1>2, <2>1 DEF MemberOK
  <2>2. CASE j \in 1..(i - 1)
    BY <1>2, <2>2 DEF MemberOK
  <2>3. QED
    BY <1>1, <1>5, <2>1, <2>2
<1>6. ASSUME NEW i \in M, NEW j \in M, i # j PROVE name(i) # name(j)
  <2>0. a.members[i] \in Member
    BY <1>1
  <2>1. name(i) \in Name
    BY <2>0 DEF Member
  <2>2. Staged(name(i)) \in Seq(STRING)
    BY <2>1, BackupsAssumption DEF Staged, Name
  <2>3. IsPrefix(Staged(name(i)), Staged(name(i)))
    BY <2>2, PrefixOfItself
  <2>4. QED
    BY <1>5, <1>6, <2>3
<1>7. ASSUME NEW j \in K, NEW k \in K, j # k PROVE a.manifest[j].path # a.manifest[k].path
  <2>1. CASE j \in 1..(k - 1)
    BY <1>2, <2>1 DEF EntryOK
  <2>2. CASE k \in 1..(j - 1)
    BY <1>2, <2>2 DEF EntryOK
  <2>3. QED
    BY <1>1, <1>7, <2>1, <2>2
<1>8. ASSUME NEW k \in K
      PROVE  \E i \in M : name(i) # Manifest
                            /\ a.manifest[k] = [path |-> name(i), body |-> a.members[i].body]
  <2>1. PICK i \in M : name(i) = a.manifest[k].path /\ a.members[i].body = a.manifest[k].body
    BY <1>2 DEF EntryOK
  <2>2. a.manifest[k] \in Entry /\ name(i) # Manifest
    BY <1>1, <1>2, <2>1 DEF EntryOK
  <2>3. QED
    BY <2>1, <2>2 DEF Entry
<1>9. Snapshot \in {name(i) : i \in M}
  <2>1. PICK k \in K : a.manifest[k].path = Snapshot
    BY <1>2
  <2>2. QED
    BY <1>2, <2>1 DEF EntryOK
<1>10. ASSUME NEW i \in M, name(i) # Manifest
       PROVE  \E k \in K : a.manifest[k] = [path |-> name(i), body |-> a.members[i].body]
  <2>1. PICK k \in K : a.manifest[k].path = name(i)
    BY <1>2, <1>10
  <2>2. PICK j \in M : a.manifest[k] = [path |-> name(j), body |-> a.members[j].body]
    BY <1>8
  <2>3. j = i
    BY <1>6, <2>1, <2>2
  <2>4. QED
    BY <2>2, <2>3
<1>11. {a.manifest[k] : k \in K} =
         {[path |-> name(i), body |-> a.members[i].body] : i \in {j \in M : name(j) # Manifest}}
  <2> HIDE DEF M, K, name
  <2>1. \A k \in K : \E i \in {j \in M : name(j) # Manifest} :
          a.manifest[k] = [path |-> name(i), body |-> a.members[i].body]
    BY <1>8
  <2>2. \A i \in {j \in M : name(j) # Manifest} : \E k \in K :
          a.manifest[k] = [path |-> name(i), body |-> a.members[i].body]
    BY <1>10
  <2> DEFINE L == {a.manifest[k] : k \in K}
             R == {[path |-> name(i), body |-> a.members[i].body] : i \in {j \in M : name(j) # Manifest}}
  <2>3. ASSUME NEW x \in L PROVE x \in R
    <3>1. PICK k \in K : x = a.manifest[k]
      OBVIOUS
    <3>2. QED
      BY <2>1, <3>1
  <2>4. ASSUME NEW x \in R PROVE x \in L
    <3>1. PICK i \in {j \in M : name(j) # Manifest} :
            x = [path |-> name(i), body |-> a.members[i].body]
      OBVIOUS
    <3>2. QED
      BY <2>2, <3>1
  <2>5. QED
    BY <2>3, <2>4
<1>12. Consistent(a)
  BY <1>2, <1>3, <1>4, <1>5, <1>7, <1>9, <1>11 DEF Consistent
<1>13. QED
  BY <1>0, <1>12

-----------------------------------------------------------------------------
Inv == TypeOK /\ PluginInv /\ BackupInv /\ \A p \in Proc : ReadInv(p)

LEMMA Invariance == Spec => []Inv
<1>1. Init => Inv
  <2> SUFFICES ASSUME Init PROVE Inv
    OBVIOUS
  <2>0. \A p \in Proc : pc[p] = "idle"
    BY DEF Init
  <2>1. BackupInv /\ \A p \in Proc : ReadInv(p)
    BY <2>0 DEF BackupInv, SoundInv, SinceSnapshot, Packs, ReadInv
  <2>2. QED
    BY <2>1, InitTypes, InitPluginInv DEF Inv
<1>2. Inv /\ [Next]_vars => Inv'
  BY StepTypes, PluginInvStep, BackupInvStep, ReadInvStep DEF Inv
<1>3. QED
  BY <1>1, <1>2, PTL DEF Spec

\* Everything a command works on is well typed.
THEOREM TypeCorrect == Spec => []TypeOK
<1>1. Inv => TypeOK
  BY DEF Inv
<1>2. QED
  BY <1>1, Invariance, PTL

\* Whatever installs, removals and kills overlapped before, a plugin whose last
\* command ran to its end alone is as its row says.
THEOREM PluginsAreRecorded == Spec => []PluginAsRecorded
<1>1. Inv => PluginAsRecorded
  BY DEF Inv, PluginInv, PluginAsRecorded
<1>2. QED
  BY <1>1, Invariance, PTL

\* Whatever happens to a home while a backup is made, the backup holds what was
\* there all the time, and each plugin nobody touched as its snapshot has it.
THEOREM BackupsHoldTheSnapshot == Spec => []SnapshotBacked
<1>1. Inv => SnapshotBacked
  <2> SUFFICES ASSUME Inv, NEW p \in Proc, pc[p] = "open", back[p].todo = {}
               PROVE  LET q == back[p]
                          packed == {q.members[i].name : i \in DOMAIN q.members}
                      IN  /\ kept[p] \subseteq packed
                          /\ \A n \in steady[p] :
                               IF q.row[n] = None THEN n \notin packed
                               ELSE \E i \in DOMAIN q.members :
                                      q.members[i].name = n /\ q.members[i].body = q.row[n]
    BY DEF SnapshotBacked
  <2>1. /\ kept[p] \subseteq PackedNames(back[p])
        /\ \A n \in steady[p] : Takings(back[p], n)
    BY DEF Inv, BackupInv, SinceSnapshot, Packs
  <2>2. QED
    BY <2>1 DEF PackedNames, Takings
<1>2. QED
  BY <1>1, Invariance, PTL

\* Whatever happens to a home while a backup is made, what is published agrees
\* with its manifest, so that it can be read unless it is too large, exactly when
\* no file in it has a name that JSON changes.
THEOREM BackupsCanBeRead == Spec => []CreatedReadable
<1>1. ASSUME Inv, NEW p \in Proc, pc[p] = "open", back[p].todo = {}
      PROVE  Fits(Packed(back[p])) =>
               (Consistent(Packed(back[p])) <=>
                  \A i \in DOMAIN back[p].list :
                    Decoded[back[p].list[i].path] = back[p].list[i].path)
  <2>1. back[p] \in Pack /\ Sound(back[p])
    BY <1>1 DEF Inv, TypeOK, BackupInv, SoundInv, Packs, OnBackup
  <2>2. Len(Packed(back[p]).manifest) = Len(back[p].list)
    BY <2>1 DEF Packed, Pack
  <2>3. ASSUME EntrySize * Len(back[p].list) <= ManifestLimit,
               \A i \in DOMAIN back[p].list :
                 Decoded[back[p].list[i].path] = back[p].list[i].path
        PROVE  Consistent(Packed(back[p]))
    BY <1>1, <2>1, <2>3, SoundConsistent
  <2>4. ASSUME NEW i \in DOMAIN back[p].list,
               Decoded[back[p].list[i].path] # back[p].list[i].path
        PROVE  ~Consistent(Packed(back[p]))
    BY <2>1, <2>4, ChangedInconsistent
  <2>5. QED
    BY <2>2, <2>3, <2>4 DEF Fits
<1>2. Inv => CreatedReadable
  BY <1>1 DEF CreatedReadable
<1>3. QED
  BY <1>2, Invariance, PTL

\* verify and restore accept exactly the archives whose members and manifest
\* agree and that fit the limit, of any size and with their members and entries
\* in any order, and whatever else goes on meanwhile.
THEOREM ReadersAreExact == Spec => []ReaderExact
<1>1. Inv => ReaderExact
  <2> SUFFICES ASSUME Inv, NEW p \in Proc
               PROVE  LET a == scan[p].archive
                      IN  /\ pc[p] = "accepted" =>
                               Consistent(a) /\ StreamSize(a) <= ArchiveLimit
                          /\ pc[p] = "refused" =>
                               ~(Consistent(a) /\ StreamSize(a) <= ArchiveLimit)
    BY DEF ReaderExact
  <2>1. ReadInv(p) /\ (pc[p] = "accepted" => scan[p] \in Scan)
    BY DEF Inv, TypeOK, OnArchive
  <2>2. pc[p] = "accepted" => Consistent(scan[p].archive)
    BY <2>1, CheckedConsistent DEF ReadInv
  <2>3. QED
    BY <2>1, <2>2 DEF ReadInv
<1>2. QED
  BY <1>1, Invariance, PTL
=============================================================================
