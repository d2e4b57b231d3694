------------------------------ MODULE Backups ------------------------------
(***************************************************************************)
(* Backup archives: how backup create makes one out of a home that other   *)
(* commands go on changing, and how verify and restore read one            *)
(* (internal/cli/backup.go).  Of the other commands, plugin install and    *)
(* plugin remove are modelled step by step (internal/cli/plugin.go): a     *)
(* plugin is a file and a row, changed one after the other.                *)
(*                                                                         *)
(* What becomes of the directory an archive is read into is in             *)
(* RestoreCommit.                                                          *)
(***************************************************************************)
EXTENDS Naturals, Sequences, FiniteSets, SequencesExt

CONSTANTS
  Plugin,      \* the files below plugins/, by their names in an archive
  Other,       \* every other file of the home that comes and goes
  Invalid,     \* names that validateArchiveName rejects
  Transient,   \* the database with its -wal and -shm, and serve.token
  Local,       \* what is below tmp/, backups/ and logs/
  Snapshot, Manifest, Database,  \* __snapshot.db, manifest.json, across.db
  Decoded,     \* what is left of a name when it has been written as JSON and read
  Body,        \* what a file may hold: its bytes and its mode
  OtherBody,   \* of these, what other files hold
  Size,        \* the size of each body
  Empty,       \* the body of a file that has just been truncated
  Image,       \* the body of a database snapshot
  Corrupt,     \* the bodies that are no manifest of version 1
  Text,        \* the body of a manifest that was written
  Header, Trailer, EntrySize,    \* bytes of a tar header, of its end, of an entry
  ArchiveLimit, MemberLimit, ManifestLimit, MaxMembers,  \* limits of the code
  Given,       \* archives that come from elsewhere
  MaxBackups,  \* bound of a run: backups that overlap
  Proc,        \* concurrently running across commands
  None

\* A name is the sequence of its parts.
HomeFile == Plugin \cup Other
Name == HomeFile \cup Invalid \cup Transient \cup Local \cup {Snapshot, Manifest, Database}
          \cup {Decoded[f] : f \in HomeFile}

\* excludedBackupPath
Excluded == Transient \cup Local \cup {Snapshot, Manifest, Database}

Member == [name : Name, regular : BOOLEAN, body : Body]
Entry == [path : Name, body : Body]

\* The members of an archive in their order, and what is read in its manifest:
\* each path with its checksum, size and mode.
Archive == [members : Seq(Member), manifest : Seq(Entry)]

Stage == {"idle", "truncate", "fill", "record", "delete", "forget",
          "snapshot", "collect", "open", "copy",
          "member", "entry", "accepted", "refused"}

ASSUME BackupsAssumption ==
  /\ Plugin \cap (Other \cup Excluded \cup Invalid) = {}
  /\ Name \subseteq Seq(STRING) /\ IsFiniteSet(HomeFile)
  /\ DOMAIN Decoded = HomeFile \cup {Snapshot} /\ Decoded[Snapshot] = Snapshot
  /\ \A f, g \in HomeFile : Decoded[g] = f => Decoded[f] = f
  /\ \A f, g \in (HomeFile \ Excluded) \cup {Database, Manifest} :
       f # g => ~IsPrefix(f, g)               \* a file is not a directory
  /\ Database \in Transient /\ {Snapshot, Manifest} \cap (Transient \cup Invalid) = {}
  /\ Snapshot \notin {Manifest, Database}
  /\ Size \in [Body -> Nat] /\ {Empty, Image, Text} \cup Corrupt \cup OtherBody \subseteq Body
  /\ Size[Empty] = 0 /\ Text \notin Corrupt /\ None \notin Body \cup Name
  /\ {Header, Trailer, EntrySize, ArchiveLimit, MemberLimit, ManifestLimit,
      MaxMembers, MaxBackups} \subseteq Nat
  /\ Size[Image] <= MemberLimit
  /\ Given \subseteq Archive

VARIABLES
  file,     \* what each file of the home holds
  row,      \* the plugins table: the recorded digest
  output,   \* the file at --output: once it is there, a home is left alone
  pc,       \* where each process stands
  plug,     \* the plugin and the body a plugin command works on
  back,     \* what a backup has collected
  scan,     \* what a reader has read
  lost,     \* the processes whose open file has been removed
  alone,    \* history: no other command on the plugin since this one began
  settled,  \* history: the plugins whose last command was alone and ended
  kept,     \* history: the files that have been there since the snapshot
  steady    \* history: the settled plugins untouched since the snapshot

home == <<file, row, lost>>
history == <<alone, settled, kept, steady>>
vars == <<file, row, output, pc, plug, back, scan, lost,
          alone, settled, kept, steady>>

Work == [path : Plugin, body : Body \cup {None}]

\* An entry of a manifest that is being made: its path as the archive has it.
Listing == [path : HomeFile \cup {Snapshot}, body : Body]

Pack == [row : [Plugin -> Body \cup {None}], todo : SUBSET (HomeFile \cup {Snapshot}),
         now : HomeFile \cup {Snapshot, None}, seen : Body \cup {None},
         members : Seq(Member), list : Seq(Listing)]

Scan == [archive : Archive, at : Nat \ {0}, left : Nat]

OnPlugin == {"truncate", "fill", "record", "delete", "forget"}
OnBackup == {"snapshot", "collect", "open", "copy"}
OnArchive == {"member", "entry", "accepted", "refused"}

TypeOK ==
  /\ file \in [HomeFile -> Body \cup {None}]
  /\ row \in [Plugin -> Body \cup {None}]
  /\ output \in Archive \cup {None}
  /\ pc \in [Proc -> Stage]
  /\ plug \in [Proc -> Work \cup {None}]
  /\ back \in [Proc -> Pack \cup {None}]
  /\ scan \in [Proc -> Scan \cup {None}]
  /\ lost \subseteq Proc
  /\ alone \subseteq Proc /\ settled \subseteq Plugin
  /\ kept \in [Proc -> SUBSET (HomeFile \ Excluded)]
  /\ steady \in [Proc -> SUBSET Plugin]
  /\ \A p \in Proc :
       /\ pc[p] \in OnPlugin => plug[p] \in Work
       /\ pc[p] \in {"truncate", "fill", "record"} => plug[p].body # None
       /\ pc[p] \in OnBackup => back[p] \in Pack
       /\ pc[p] = "copy" => back[p].now # None /\ back[p].seen # None
       /\ pc[p] \in OnArchive => scan[p] \in Scan

Init ==
  /\ file = [f \in HomeFile |-> None]
  /\ row = [n \in Plugin |-> None]
  /\ output \in Given \cup {None}
  /\ pc = [p \in Proc |-> "idle"]
  /\ plug = [p \in Proc |-> None]
  /\ back = [p \in Proc |-> None]
  /\ scan = [p \in Proc |-> None]
  /\ lost = {} /\ alone = {} /\ settled = Plugin
  /\ kept = [p \in Proc |-> {}]
  /\ steady = [p \in Proc |-> {}]

Goto(p, to) == pc' = [pc EXCEPT ![p] = to]

-----------------------------------------------------------------------------
(* plugin install and plugin remove.                                       *)

\* The processes that work on plugin n.
On(n) == {p \in Proc : pc[p] \in OnPlugin /\ plug[p].path = n}

PluginBegin(p, n, b, to) ==
  /\ output = None /\ pc[p] = "idle"
  /\ Goto(p, to)
  /\ plug' = [plug EXCEPT ![p] = [path |-> n, body |-> b]]
  /\ alone' = IF On(n) = {} THEN alone \cup {p} ELSE alone \ (On(n) \cup {p})
  /\ settled' = settled \ {n}
  /\ steady' = [q \in Proc |-> steady[q] \ {n}]
  /\ UNCHANGED <<file, row, output, back, scan, lost, kept>>

\* The file that is installed has been read, and has the digest asked for.
InstallBegin(p, n, b) == PluginBegin(p, n, b, "truncate")

RemoveBegin(p, n) == row[n] # None /\ PluginBegin(p, n, None, "delete")

\* os.WriteFile opens the file with O_TRUNC, and then writes it.
Truncate(p) ==
  /\ pc[p] = "truncate" /\ Goto(p, "fill")
  /\ file' = [file EXCEPT ![plug[p].path] = Empty]
  /\ lost' = lost \ {p}
  /\ UNCHANGED <<row, output, plug, back, scan, alone, settled, kept, steady>>

\* What another command has written meanwhile is overwritten from its start.
Overwritten(old, new) ==
  IF old = None \/ Size[old] <= Size[new] THEN {new}
  ELSE {b \in Body : Size[b] = Size[old]}

\* A file that has been removed meanwhile is written where nobody finds it.
Fill(p) ==
  /\ pc[p] = "fill" /\ Goto(p, "record")
  /\ LET n == plug[p].path
     IN IF p \in lost THEN file' = file
        ELSE \E b \in Overwritten(file[n], plug[p].body) : file' = [file EXCEPT ![n] = b]
  /\ UNCHANGED <<row, output, plug, back, scan, lost, alone, settled, kept, steady>>

\* The command has ended without an error.
Settle(p) ==
  /\ Goto(p, "idle")
  /\ settled' = IF p \in alone THEN settled \cup {plug[p].path} ELSE settled
  /\ plug' = [plug EXCEPT ![p] = None]
  /\ alone' = alone \ {p} /\ lost' = lost \ {p}
  /\ UNCHANGED <<file, output, back, scan, kept, steady>>

\* Faulty variant: INSERT OR IGNORE.
RecordFirst(p) ==
  /\ pc[p] = "record"
  /\ row' = IF row[plug[p].path] # None THEN row ELSE [row EXCEPT ![plug[p].path] = plug[p].body]
  /\ Settle(p)

\* INSERT OR REPLACE: the name is unique.
Record(p) ==
  /\ pc[p] = "record"
  /\ row' = [row EXCEPT ![plug[p].path] = plug[p].body]
  /\ Settle(p)

\* Whoever has the file open keeps it, under no name.
Unlink(f) ==
  /\ file' = [file EXCEPT ![f] = None]
  /\ lost' = lost \cup {q \in Proc : pc[q] = "fill" /\ plug[q].path = f}
  /\ kept' = [q \in Proc |-> kept[q] \ {f}]

\* A file that is not there is no error.
Delete(p) ==
  /\ pc[p] = "delete" /\ Goto(p, "forget")
  /\ Unlink(plug[p].path)
  /\ UNCHANGED <<row, output, plug, back, scan, alone, settled, steady>>

Forget(p) ==
  /\ pc[p] = "forget"
  /\ row' = [row EXCEPT ![plug[p].path] = None]
  /\ Settle(p)

-----------------------------------------------------------------------------
(* What else goes on in a home: git in its repositories, a server's token. *)

OtherWrites(f, b) ==
  /\ output = None
  /\ file' = [file EXCEPT ![f] = b]
  /\ UNCHANGED <<row, output, pc, plug, back, scan, lost,
                 alone, settled, kept, steady>>

OtherRemoves(f) ==
  /\ output = None /\ file[f] # None
  /\ Unlink(f)
  /\ UNCHANGED <<row, output, pc, plug, back, scan, alone, settled, steady>>

-----------------------------------------------------------------------------
(* backup create.                                                          *)

\* Faulty variant: the files are collected before the database.
AfterFilesFirst(stage) ==
  CASE stage = "idle" -> "collect" [] stage = "collect" -> "snapshot"
    [] stage = "snapshot" -> "open"

\* The order of createBackup.
After(stage) ==
  CASE stage = "idle" -> "snapshot" [] stage = "snapshot" -> "collect"
    [] stage = "collect" -> "open"

\* One step of the backup of p, which has collected q.
Packing(p, to, q) ==
  /\ Goto(p, to)
  /\ back' = [back EXCEPT ![p] = q]
  /\ UNCHANGED <<file, row, plug, scan, lost, alone, settled>>

BackupBegin(p) ==
  /\ output = None /\ pc[p] = "idle"
  /\ Cardinality({q \in Proc : pc[q] \in OnBackup}) < MaxBackups
  /\ Packing(p, After("idle"),
       [row |-> [n \in Plugin |-> None], todo |-> {}, now |-> None, seen |-> None,
        members |-> <<>>, list |-> <<>>])
  /\ UNCHANGED <<output, kept, steady>>

\* The files that a backup takes.
Collected == {f \in HomeFile \ Excluded : file[f] # None}

\* VACUUM INTO a file below tmp/.
TakeSnapshot(p) ==
  /\ pc[p] = "snapshot"
  /\ Packing(p, After("snapshot"), [back[p] EXCEPT !.row = row])
  /\ kept' = [kept EXCEPT ![p] = Collected]
  /\ steady' = [steady EXCEPT ![p] = settled]
  /\ UNCHANGED output

\* The walk collects names only; the snapshot and the manifest are members too.
Collect(p) ==
  /\ pc[p] = "collect"
  /\ Collected \cap Invalid = {}
  /\ Cardinality(Collected) + 2 <= MaxMembers
  /\ Packing(p, After("collect"), [back[p] EXCEPT !.todo = Collected \cup {Snapshot}])
  /\ UNCHANGED <<output, kept, steady>>

Holds(f) == IF f = Snapshot THEN Image ELSE file[f]

\* The next file is looked at and opened.  The files come in one order, that of
\* their names; nothing depends on which.
Open(p) ==
  /\ pc[p] = "open" /\ back[p].todo # {}
  /\ LET f == CHOOSE f \in back[p].todo : TRUE
     IN /\ Holds(f) # None /\ Size[Holds(f)] <= MemberLimit
        /\ Packing(p, "copy", [back[p] EXCEPT !.now = f, !.seen = Holds(f)])
  /\ UNCHANGED <<output, kept, steady>>

\* What is copied has the size that was seen; which bytes it has when others
\* write the file meanwhile is open.
Copied(f, seen) ==
  IF Holds(f) = seen THEN {seen} ELSE {b \in Body : Size[b] = Size[seen]}

Total(list) == MapThenSumSet(LAMBDA i : Size[list[i].body], DOMAIN list)

\* Faulty variant: the manifest has the checksum of the file as it was opened.
CopySeen(p) ==
  /\ pc[p] = "copy"
  /\ LET q == back[p]
     IN \E b \in Copied(q.now, q.seen) :
          /\ Total(q.list) + Size[b] <= ArchiveLimit
          /\ Packing(p, "open",
               [q EXCEPT !.todo = @ \ {q.now},
                  !.members = Append(@, [name |-> q.now, regular |-> TRUE, body |-> b]),
                  !.list = Append(@, [path |-> q.now, body |-> q.seen])])
  /\ UNCHANGED <<output, kept, steady>>

\* addBackupFile: the checksum is that of what is written to the archive.
Copy(p) ==
  /\ pc[p] = "copy"
  /\ LET q == back[p]
     IN \E b \in Copied(q.now, q.seen) :
          /\ Total(q.list) + Size[b] <= ArchiveLimit
          /\ Packing(p, "open",
               [q EXCEPT !.todo = @ \ {q.now},
                  !.members = Append(@, [name |-> q.now, regular |-> TRUE, body |-> b]),
                  !.list = Append(@, [path |-> q.now, body |-> b])])
  /\ UNCHANGED <<output, kept, steady>>

\* The archive has the names as they are; json.MarshalIndent puts U+FFFD for
\* each byte of theirs that is no UTF-8.
Packed(q) ==
  [members |-> Append(q.members, [name |-> Manifest, regular |-> TRUE, body |-> Text]),
   manifest |-> [k \in DOMAIN q.list |-> [q.list[k] EXCEPT !.path = Decoded[@]]]]

\* Everything is in the archive; the manifest is added and it is renamed.
Publish(p) ==
  /\ pc[p] = "open" /\ back[p].todo = {}
  /\ EntrySize * Len(back[p].list) <= ManifestLimit
  /\ output' = Packed(back[p])
  /\ Packing(p, "idle", None)
  /\ kept' = [kept EXCEPT ![p] = {}]
  /\ steady' = [steady EXCEPT ![p] = {}]

-----------------------------------------------------------------------------
(* Reading an archive: backup verify and backup restore.                   *)

\* The name a member is staged under.
Staged(f) == IF f = Snapshot THEN Database ELSE f

\* Bytes of a member, and the most it may have.
MemberSize(a, i) ==
  IF a.members[i].name = Manifest THEN EntrySize * Len(a.manifest)
  ELSE Size[a.members[i].body]

SizeLimit(f) == IF f = Manifest THEN ManifestLimit ELSE MemberLimit

Reading(p, to, q) ==
  /\ Goto(p, to)
  /\ scan' = [scan EXCEPT ![p] = q]
  /\ UNCHANGED <<file, row, output, plug, back, lost, alone, settled, kept, steady>>

ReadBegin(p) ==
  /\ pc[p] = "idle" /\ output # None
  /\ Reading(p, "member", [archive |-> output, at |-> 1, left |-> ArchiveLimit])

\* Faulty variant: only the same name twice is noticed.
MemberOKFlat(a, i) ==
  LET m == a.members[i]
  IN  /\ i <= MaxMembers /\ m.name \notin Invalid \cup Transient /\ m.regular
      /\ MemberSize(a, i) <= SizeLimit(m.name)
      /\ \A j \in 1..(i - 1) : Staged(a.members[j].name) # Staged(m.name)

\* Member i after those before it: no file where one is already, none below a
\* file, none where there is a directory (stageDestination).
MemberOK(a, i) ==
  LET m == a.members[i]
  IN  /\ i <= MaxMembers /\ m.name \notin Invalid \cup Transient /\ m.regular
      /\ MemberSize(a, i) <= SizeLimit(m.name)
      /\ \A j \in 1..(i - 1) :
           /\ ~IsPrefix(Staged(a.members[j].name), Staged(m.name))
           /\ ~IsPrefix(Staged(m.name), Staged(a.members[j].name))

\* The limit is one of the whole stream, headers and end included.
ReadMember(p) ==
  /\ pc[p] = "member"
  /\ LET q == scan[p]
         n == Header + MemberSize(q.archive, q.at)
     IN /\ q.at <= Len(q.archive.members)
        /\ MemberOK(q.archive, q.at) /\ n <= q.left
        /\ Reading(p, "member", [q EXCEPT !.at = @ + 1, !.left = @ - n])

\* All members have been read, and one of them is a manifest.
Complete(q) ==
  /\ q.at > Len(q.archive.members) /\ Trailer <= q.left
  /\ \E i \in DOMAIN q.archive.members :
       q.archive.members[i].name = Manifest /\ q.archive.members[i].body \notin Corrupt

ReadManifest(p) ==
  /\ pc[p] = "member" /\ Complete(scan[p])
  /\ Reading(p, "entry", [scan[p] EXCEPT !.at = 1])

\* Entry k after those before it: a member, listed once, with this checksum.
EntryOK(a, k) ==
  LET e == a.manifest[k]
  IN  /\ e.path \notin Invalid \cup Transient \cup {Manifest}
      /\ \A j \in 1..(k - 1) : a.manifest[j].path # e.path
      /\ \E i \in DOMAIN a.members :
           a.members[i].name = e.path /\ a.members[i].body = e.body

CheckEntry(p) ==
  /\ pc[p] = "entry"
  /\ LET q == scan[p]
     IN /\ q.at <= Len(q.archive.manifest) /\ EntryOK(q.archive, q.at)
        /\ Reading(p, "entry", [q EXCEPT !.at = @ + 1])

\* Nothing is left to check, every member but the manifest is listed, and the
\* snapshot is.
Listed(q) ==
  LET names == {q.archive.members[i].name : i \in DOMAIN q.archive.members}
      paths == {q.archive.manifest[k].path : k \in DOMAIN q.archive.manifest}
  IN  q.at > Len(q.archive.manifest) /\ names \ {Manifest} \subseteq paths /\ Snapshot \in paths

Accept(p) ==
  /\ pc[p] = "entry" /\ Listed(scan[p])
  /\ Reading(p, "accepted", scan[p])

\* Whatever cannot be read on is an error.
Refuse(p) ==
  /\ LET q == scan[p]
     IN \/ /\ pc[p] = "member"
           /\ ~Complete(q)
           /\ q.at <= Len(q.archive.members) =>
                \/ ~MemberOK(q.archive, q.at)
                \/ Header + MemberSize(q.archive, q.at) > q.left
        \/ /\ pc[p] = "entry"
           /\ ~Listed(q)
           /\ q.at <= Len(q.archive.manifest) => ~EntryOK(q.archive, q.at)
  /\ Reading(p, "refused", scan[p])

ReadEnd(p) ==
  /\ pc[p] \in {"accepted", "refused"}
  /\ Reading(p, "idle", None)

-----------------------------------------------------------------------------
\* An error, or a kill, of any command: nothing is undone.  What was being
\* written to a temporary file is lost with it.
GiveUp(p) ==
  /\ pc[p] # "idle" /\ Goto(p, "idle")
  /\ plug' = [plug EXCEPT ![p] = None]
  /\ back' = [back EXCEPT ![p] = None]
  /\ scan' = [scan EXCEPT ![p] = None]
  /\ alone' = alone \ {p} /\ lost' = lost \ {p}
  /\ kept' = [kept EXCEPT ![p] = {}]
  /\ steady' = [steady EXCEPT ![p] = {}]
  /\ UNCHANGED <<file, row, output, settled>>

PluginStep(p) == Truncate(p) \/ Fill(p) \/ Record(p) \/ Delete(p) \/ Forget(p)

CreateStep(p) ==
  BackupBegin(p) \/ TakeSnapshot(p) \/ Collect(p) \/ Open(p) \/ Copy(p) \/ Publish(p)

ReadStep(p) ==
  \/ ReadBegin(p) \/ ReadMember(p) \/ ReadManifest(p) \/ CheckEntry(p)
  \/ Accept(p) \/ Refuse(p) \/ ReadEnd(p)

Next ==
  \/ \E p \in Proc :
       \/ \E n \in Plugin : \/ \E b \in Body : InstallBegin(p, n, b)
                            \/ RemoveBegin(p, n)
       \/ PluginStep(p) \/ CreateStep(p) \/ ReadStep(p) \/ GiveUp(p)
  \/ \E f \in Other : OtherRemoves(f) \/ \E b \in OtherBody : OtherWrites(f, b)

Spec == Init /\ [][Next]_vars

-----------------------------------------------------------------------------
(* Safety.                                                                 *)

\* What an archive holds and what its manifest says of it agree, in whatever
\* order the members and the entries come.
Consistent(a) ==
  LET M == DOMAIN a.members
      name(i) == a.members[i].name
  IN  /\ Len(a.members) <= MaxMembers
      /\ \A i \in M : /\ name(i) \notin Invalid \cup Transient /\ a.members[i].regular
                      /\ MemberSize(a, i) <= SizeLimit(name(i))
      /\ \A i, j \in M : i # j => ~IsPrefix(Staged(name(i)), Staged(name(j)))
      /\ \E i \in M : name(i) = Manifest /\ a.members[i].body \notin Corrupt
      /\ Snapshot \in {name(i) : i \in M}
      /\ \A j, k \in DOMAIN a.manifest : j # k => a.manifest[j].path # a.manifest[k].path
      /\ {a.manifest[k] : k \in DOMAIN a.manifest} =
           {[path |-> name(i), body |-> a.members[i].body] : i \in {j \in M : name(j) # Manifest}}

\* The bytes of an archive up to each of its members.
BytesUpto(a) ==
  LET bytes[i \in 0..Len(a.members)] ==
        IF i = 0 THEN 0 ELSE bytes[i - 1] + (Header + MemberSize(a, i))
  IN  bytes

StreamSize(a) == Trailer + BytesUpto(a)[Len(a.members)]

\* The sizes that no member shows by itself.
Fits(a) == EntrySize * Len(a.manifest) <= ManifestLimit /\ StreamSize(a) <= ArchiveLimit

\* verify and restore accept exactly the archives whose members and manifest
\* agree and that fit the limit, in whatever order the members come.
ReaderExact ==
  \A p \in Proc :
    LET a == scan[p].archive
    IN  /\ pc[p] = "accepted" => Consistent(a) /\ StreamSize(a) <= ArchiveLimit
        /\ pc[p] = "refused"  => ~(Consistent(a) /\ StreamSize(a) <= ArchiveLimit)

\* The archive that backup create is about to publish can be read, whatever other
\* commands did to the home while it was made, unless it is too large to be read;
\* but it cannot as soon as one of the files in it has a name that JSON changes.
CreatedReadable ==
  \A p \in Proc :
    pc[p] = "open" /\ back[p].todo = {} /\ Fits(Packed(back[p])) =>
      (Consistent(Packed(back[p])) <=>
         \A i \in DOMAIN back[p].list : Decoded[back[p].list[i].path] = back[p].list[i].path)

\* A finished backup lacks no file that was there all the time, and holds each
\* plugin that no command touched meanwhile as the row in its snapshot says: what
\* is added while it runs is left out or kept without its row, never the reverse.
SnapshotBacked ==
  \A p \in Proc : pc[p] = "open" /\ back[p].todo = {} =>
    LET q == back[p]
        packed == {q.members[i].name : i \in DOMAIN q.members}
    IN  /\ kept[p] \subseteq packed
        /\ \A n \in steady[p] :
             IF q.row[n] = None THEN n \notin packed
             ELSE \E i \in DOMAIN q.members :
                    q.members[i].name = n /\ q.members[i].body = q.row[n]

\* A plugin whose last command ran to its end without another beside it is as
\* its row says, whatever killed or overlapping commands left before.
PluginAsRecorded == \A n \in settled : file[n] = row[n]
=============================================================================
