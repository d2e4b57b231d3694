------------------------------ MODULE Sources -------------------------------
(***************************************************************************)
(* Sources: the records of where evidence came from, their events, their   *)
(* entries in the search index, and their durable deletion                 *)
(* (internal/cli/session.go, helpers.go, agent.go).                        *)
(*                                                                         *)
(* An import checks its request, reads the transcript, and only then opens *)
(* its transaction; session start likewise.  The check and the transaction *)
(* are two steps of a process, and a delete may come between them.         *)
(***************************************************************************)
EXTENDS Naturals, Sequences

CONSTANTS
  Repo,         \* repository ids
  Session,      \* session ids
  Proc,         \* concurrently running across commands
  Kind,         \* source kinds a user passes to source import
  Origin,       \* transcript paths inside the repositories, and agent names
  Native,       \* native ids; import-session passes the session id as one
  MaxSources,   \* bound: with that many rows no further import or start begins
  None          \* NULL, the empty string

ASSUME IdsAssumption ==
  /\ None \notin Repo /\ None \notin Session /\ None \notin Native
  /\ None \notin Nat
  /\ Session \subseteq Native
  /\ "transcript" \in Kind
  /\ MaxSources \in Nat

VARIABLES
  sources,      \* the sources table in insertion order; the id is the index
  events,       \* the sources that have source_events rows
  index,        \* the sources that have a search_index row
  sessions,     \* the sessions table: [state, repo]
  pc,           \* where each process stands
  req           \* what each process has been asked for

tables == <<sources, events, index, sessions>>
vars == <<sources, events, index, sessions, pc, req>>

SourceRow ==
  [repo : Repo, kind : Kind \cup {"session"}, origin : Origin,
   native : Native \cup {None}, sess : Session \cup {None},
   deleted : BOOLEAN, supersededBy : Nat \cup {None}]

NoSession == [state |-> "none", repo |-> None]

Request ==
  [repo : Repo \cup {None}, kind : Kind \cup {"session"},
   origin : Origin \cup {None}, native : Native \cup {None},
   sess : Session \cup {None}]

Blank == [repo |-> None, kind |-> "session", origin |-> None, native |-> None,
          sess |-> None]

ProcessesOK ==
  /\ pc \in [Proc -> {"idle", "import", "start"}]
  /\ req \in [Proc -> Request]
  /\ \A p \in Proc : pc[p] # "idle" => req[p].repo \in Repo /\ req[p].origin \in Origin
  /\ \A p \in Proc : pc[p] = "start" => req[p].kind = "session" /\ req[p].sess \in Session

TypeOK ==
  /\ sources \in Seq(SourceRow)
  /\ events \subseteq DOMAIN sources
  /\ index \subseteq DOMAIN sources
  /\ sessions \in [Session -> [state : {"active", "closed"}, repo : Repo] \cup {NoSession}]
  /\ ProcessesOK

Init ==
  /\ sources = <<>>
  /\ events = {}
  /\ index = {}
  /\ sessions = [s \in Session |-> NoSession]
  /\ pc = [p \in Proc |-> "idle"]
  /\ req = [p \in Proc |-> Blank]

Goto(p, to, r) ==
  /\ pc' = [pc EXCEPT ![p] = to]
  /\ req' = [req EXCEPT ![p] = r]

Finish(p) == Goto(p, "idle", Blank)

-----------------------------------------------------------------------------
(* Deletion and what it forbids.                                           *)

\* rejectTombstonedSource: a native id is compared with the native ids of the
\* deleted sources only; without one, kind and origin both have to be equal.
Tombstoned(r) ==
  \E i \in DOMAIN sources :
    /\ sources[i].repo = r.repo
    /\ sources[i].deleted
    /\ IF r.native # None THEN sources[i].native = r.native
       ELSE sources[i].kind = r.kind /\ sources[i].origin = r.origin

\* Faulty variant: the index entry is forgotten.
DeleteSourceKeepsIndex(i) ==
  /\ ~sources[i].deleted
  /\ sources' = [sources EXCEPT ![i].deleted = TRUE]
  /\ events' = events \ {i}
  /\ UNCHANGED <<index, sessions, pc, req>>

\* source delete: the mark, the events, the index entry and the tombstone go in
\* one transaction.  A tombstone is there exactly for the rows marked deleted.
DeleteSource(i) ==
  /\ ~sources[i].deleted
  /\ sources' = [sources EXCEPT ![i].deleted = TRUE]
  /\ events' = events \ {i}
  /\ index' = index \ {i}
  /\ UNCHANGED <<sessions, pc, req>>

-----------------------------------------------------------------------------
(* Importing a transcript: source import, and agent import-session.        *)

ActiveIn(s, r) == sessions[s].state = "active" /\ sessions[s].repo = r

\* What is checked before the transcript is read.
ImportBegin(p, r) ==
  /\ pc[p] = "idle" /\ Len(sources) < MaxSources
  /\ r.sess # None => ActiveIn(r.sess, r.repo)
  /\ ~Tombstoned(r)
  /\ Goto(p, "import", r)
  /\ UNCHANGED tables

SourceImport(p, r, kind, origin, native) ==
  ImportBegin(p, [repo |-> r, kind |-> kind, origin |-> origin,
                  native |-> native, sess |-> None])

ImportSession(p, r, origin, s) ==
  ImportBegin(p, [repo |-> r, kind |-> "transcript", origin |-> origin,
                  native |-> s, sess |-> s])

NewRow(r) ==
  [repo |-> r.repo, kind |-> r.kind, origin |-> r.origin, native |-> r.native,
   sess |-> r.sess, deleted |-> FALSE, supersededBy |-> None]

\* Faulty variant: only the first row is taken.
SupersededFirst(r) ==
  LET live == {i \in DOMAIN sources :
                 /\ r.native # None
                 /\ sources[i].repo = r.repo
                 /\ sources[i].native = r.native
                 /\ sources[i].supersededBy = None
                 /\ ~sources[i].deleted}
  IN {i \in live : \A j \in live : i <= j}

\* The live sources of the same native id, session rows included.
Superseded(r) ==
  {i \in DOMAIN sources :
     /\ r.native # None
     /\ sources[i].repo = r.repo
     /\ sources[i].native = r.native
     /\ sources[i].supersededBy = None
     /\ ~sources[i].deleted}

\* Faulty variants: the check before the transaction is trusted.
ImportUnchecked(r) == r.sess # None => sessions[r.sess].state = "active"

ImportIntoClosed(r) == ~Tombstoned(r)

\* The transaction repeats the tombstone check, and the UPDATE of the session
\* fails when it is no longer active.
ImportAllowed(r) ==
  /\ ~Tombstoned(r)
  /\ r.sess # None => sessions[r.sess].state = "active"

ImportCommit(p) ==
  LET r   == req[p]
      new == Len(sources) + 1
  IN  /\ pc[p] = "import"
      /\ ImportAllowed(r)
      /\ sources' = [i \in 1 .. new |->
           CASE i = new            -> NewRow(r)
             [] i \in Superseded(r) -> [sources[i] EXCEPT !.supersededBy = new]
             [] OTHER              -> sources[i]]
      /\ events' = events \cup {new}
      /\ index' = (index \ Superseded(r)) \cup {new}
      /\ Finish(p)
      /\ UNCHANGED sessions

\* The transaction is rolled back with a conflict, or the command is killed, or
\* its transcript does not parse.
GiveUp(p) ==
  /\ pc[p] # "idle"
  /\ Finish(p)
  /\ UNCHANGED tables

-----------------------------------------------------------------------------
(* Sessions, as far as they are sources.                                   *)

\* session start: the agent's native id must not be that of a deleted source.
StartBegin(p, r, agent, native, s) ==
  LET q == [repo |-> r, kind |-> "session", origin |-> agent, native |-> native,
            sess |-> s]
  IN  /\ pc[p] = "idle" /\ Len(sources) < MaxSources
      /\ native # None => ~Tombstoned(q)
      /\ Goto(p, "start", q)
      /\ UNCHANGED tables

\* The transaction checks again and inserts the session and a source for it,
\* which has neither events nor an index entry and supersedes nothing.
StartCommit(p) ==
  LET r == req[p]
  IN  /\ pc[p] = "start"
      /\ r.native # None => ~Tombstoned(r)
      /\ sessions[r.sess] = NoSession
      /\ sessions' = [sessions EXCEPT ![r.sess] = [state |-> "active", repo |-> r.repo]]
      /\ sources' = Append(sources, NewRow(r))
      /\ Finish(p)
      /\ UNCHANGED <<events, index>>

\* session fork: a session of its own, and no source.
ForkSession(s, r, parent) ==
  /\ sessions[s] = NoSession
  /\ sessions[parent].repo = r
  /\ sessions' = [sessions EXCEPT ![s] = [state |-> "active", repo |-> r]]
  /\ UNCHANGED <<sources, events, index, pc, req>>

CloseSession(s) ==
  /\ sessions[s] # NoSession
  /\ sessions' = [sessions EXCEPT ![s].state = "closed"]
  /\ UNCHANGED <<sources, events, index, pc, req>>

-----------------------------------------------------------------------------
ImportStep(p) ==
  \/ \E r \in Repo, k \in Kind, o \in Origin, n \in Native \cup {None} :
       SourceImport(p, r, k, o, n)
  \/ \E r \in Repo, o \in Origin, s \in Session : ImportSession(p, r, o, s)
  \/ ImportCommit(p)

StartStep(p) ==
  \/ \E r \in Repo, o \in Origin, n \in Native \cup {None}, s \in Session :
       StartBegin(p, r, o, n, s)
  \/ StartCommit(p)

Next ==
  \/ \E i \in DOMAIN sources : DeleteSource(i)
  \/ \E s \in Session : CloseSession(s)
  \/ \E s, parent \in Session, r \in Repo : ForkSession(s, r, parent)
  \/ \E p \in Proc : ImportStep(p) \/ StartStep(p) \/ GiveUp(p)

Spec == Init /\ [][Next]_vars

-----------------------------------------------------------------------------
(* Properties.                                                             *)

SameNative(i, j) ==
  /\ sources[i].repo = sources[j].repo
  /\ sources[i].native # None
  /\ sources[i].native = sources[j].native

\* Safety: the index has the imports that are neither deleted nor superseded,
\* and no others; a superseded one keeps its events and leaves the index, a
\* deleted one loses both.
IndexExact ==
  /\ \A i \in events : ~sources[i].deleted
  /\ index = {i \in events : sources[i].supersededBy = None}

\* Safety: only the new snapshot participates in retrieval (session.go:300):
\* of the imports of one native id only the last can be in the index, whatever
\* imports, starts and deletes of that id ran at the same time.
NewestSearched ==
  \A i \in index, j \in events : SameNative(i, j) => j <= i

\* Safety: superseded_by leads forward, to a source of the same native id.
SupersededByLater ==
  \A i \in DOMAIN sources : sources[i].supersededBy # None =>
    /\ i < sources[i].supersededBy
    /\ sources[i].supersededBy \in DOMAIN sources
    /\ SameNative(i, sources[i].supersededBy)

\* What DeletionIsDurable says of one step: no row comes into being whose
\* native id a deleted source of the repository has, nor an import without a
\* native id whose kind and origin one has.
NothingResurrected ==
  \A j \in DOMAIN sources' \ DOMAIN sources, i \in DOMAIN sources :
    sources[i].deleted /\ sources[i].repo = sources'[j].repo =>
      /\ sources'[j].native # None => sources'[j].native # sources[i].native
      /\ sources'[j].native = None /\ j \in events' =>
           ~(sources'[j].kind = sources[i].kind /\ sources'[j].origin = sources[i].origin)

\* What DeletionIsDurable says of the deleted rows: they stay, without evidence.
DeletedStayDeleted ==
  \A i \in DOMAIN sources : sources[i].deleted =>
    i \in DOMAIN sources' /\ sources'[i] = sources[i] /\ i \notin events'

\* Action property: deletion is durable (docs/SECURITY.md:31), also when it
\* falls between the check of an import and its transaction.
DeletionIsDurable == [][NothingResurrected /\ DeletedStayDeleted]_vars

\* What ClosedGainsNothing says of one step.
NoSourceForClosed ==
  \A j \in DOMAIN sources' \ DOMAIN sources, s \in Session :
    sources'[j].sess = s => sessions[s].state # "closed"

\* Action property: a session that was closed while a transcript for it was
\* being read gets no source.
ClosedGainsNothing == [][NoSourceForClosed]_vars
=============================================================================
