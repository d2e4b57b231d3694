-------------------------- MODULE CheckpointLedger --------------------------
(***************************************************************************)
(* What Across promises about engineering history, without processes:      *)
(* an append-only ledger of checkpoints, and sessions that are opened for  *)
(* one repository, can be named by a checkpoint only while they are open,  *)
(* and whose tip is always the entry recorded for them last.               *)
(***************************************************************************)
EXTENDS Naturals, Sequences

CONSTANTS
  Session,        \* session ids
  Repo,           \* repository ids
  Revision,       \* what a checkpoint may name as its revision
  Message,        \* checkpoint messages
  AutoMessage,    \* the message of the post-commit hook's checkpoints
  None            \* no session, no checkpoint, no repository

VARIABLES
  owner,          \* owner[s]: the repository s was opened for, or None
  open,           \* the sessions that are open
  tip,            \* tip[s]: the index of the last entry that names s, or None
  ledger          \* the recorded checkpoints, oldest first

vars == <<owner, open, tip, ledger>>

Entry == [repo : Repo, rev : Revision, sess : Session \cup {None},
          msg : Message, via : {"create", "auto"}]

Init ==
  /\ owner = [s \in Session |-> None]
  /\ open = {}
  /\ tip = [s \in Session |-> None]
  /\ ledger = <<>>

\* A session is opened once, for one repository.
Open(s, r) ==
  /\ owner[s] = None
  /\ owner' = [owner EXCEPT ![s] = r]
  /\ open' = open \cup {s}
  /\ UNCHANGED <<tip, ledger>>

\* Closing is final.
Close(s) ==
  /\ open' = open \ {s}
  /\ UNCHANGED <<owner, tip, ledger>>

SameCommit(e, f) ==
  e.repo = f.repo /\ e.rev = f.rev /\ e.sess = f.sess /\ e.msg = f.msg

\* An entry that names a session is recorded while that session is open and
\* for its own repository, and becomes its tip; the automatic entry for one
\* commit of one session is recorded once.
Record(e) ==
  /\ ledger' = Append(ledger, e)
  /\ e.sess # None => e.sess \in open /\ owner[e.sess] = e.repo
  /\ e.via = "auto" =>
       /\ e.sess # None
       /\ e.msg = AutoMessage
       /\ \A i \in DOMAIN ledger : ~SameCommit(ledger[i], e)
  /\ tip' = [s \in Session |-> IF s = e.sess THEN Len(ledger) + 1 ELSE tip[s]]
  /\ UNCHANGED <<owner, open>>

Next ==
  \/ \E s \in Session, r \in Repo : Open(s, r)
  \/ \E s \in Session : Close(s)
  \/ \E e \in Entry : Record(e)

Spec == Init /\ [][Next]_vars
=============================================================================
