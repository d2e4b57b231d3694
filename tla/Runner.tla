------------------------------- MODULE Runner -------------------------------
(***************************************************************************)
(* Runner: one command that Across runs for a user, with a bound on its    *)
(* time and on its output: `verify run` (internal/cli/verify.go), and      *)
(* execBounded for plugins (internal/cli/exec.go, plugin.go).              *)
(*                                                                         *)
(* The child writes into two pipes; a goroutine of Go's os/exec copies     *)
(* each into a limitedWriter.  `verify run` has a buffer for each stream,  *)
(* execBounded one buffer for both, which nothing guards.  (Names are told *)
(* apart from those of MergeQueue: MergeQueueProofs extends both modules.) *)
(***************************************************************************)
EXTENDS Naturals, Integers, Sequences

CONSTANTS
  Limit,        \* 1 MiB: N of a limitedWriter, and what a plugin may print
  Excerpt,      \* 4096: what a verification keeps of a stream
  Capacity,     \* what a pipe holds
  Chunk,        \* 32 KiB: what io.Copy reads at most
  MaxWritten    \* bound: what is written to one stream

ASSUME RunnerAssumption ==
  /\ {Limit, Excerpt, Capacity, Chunk, MaxWritten} \subseteq Nat \ {0}
  /\ Excerpt <= Limit

VARIABLES
  kind,         \* "verify" or "plugin"
  started,      \* whether there has been a child
  alive,        \* whether it runs
  status,       \* its exit status, once it does not; -1: a signal ended it
  background,   \* whether a process it started holds the pipes open
  cancelled,    \* whether the 30 s had passed before the child was waited for
  written,      \* how many units each stream has been given
  taken,        \* how many of them have been read from its pipe
  copier,       \* where the goroutine of each stream stands
  got,          \* how many units it has just read
  room,         \* N of its limitedWriter
  buffer,       \* what the bytes.Buffers hold: units <<stream, number>>
  garbled,      \* whether two goroutines were in one buffer at a time
  stage,        \* where Run and its caller stand
  code,         \* the exit code that is recorded
  output        \* what is recorded of each stream, or printed

child   == <<started, alive, status, background>>
pipes   == <<written, taken>>
copies  == <<copier, got, room, buffer, garbled>>
ends    == <<stage, code, output>>
runVars == <<kind, child, cancelled, pipes, copies, ends>>

Stream == {"stdout", "stderr"}

\* execBounded gives both limitedWriters the same buffer.
Sink(s) == IF kind = "plugin" THEN "stdout" ELSE s

Unit == Stream \X (1 .. MaxWritten)

Units(s, from, to) == [i \in 1 .. to - from |-> <<s, from + i>>]

Least(a, b) == IF a <= b THEN a ELSE b

Cut(seq, n) == SubSeq(seq, 1, Least(n, Len(seq)))

RunTypeOK ==
  /\ kind \in {"verify", "plugin"}
  /\ started \in BOOLEAN /\ alive \in BOOLEAN /\ status \in {-1, 0, 1} /\ background \in BOOLEAN
  /\ cancelled \in BOOLEAN
  /\ written \in [Stream -> 0 .. MaxWritten]
  /\ taken \in [Stream -> 0 .. MaxWritten]
  /\ \A s \in Stream : written[s] - taken[s] \in 0 .. Capacity
  /\ copier \in [Stream -> {"reading", "writing", "short", "ended"}]
  /\ got \in [Stream -> 0 .. Chunk]
  /\ room \in [Stream -> 0 .. Limit]
  /\ buffer \in [Stream -> Seq(Unit)] /\ output \in [Stream -> Seq(Unit)]
  /\ garbled \in BOOLEAN
  /\ stage \in {"starting", "unstarted", "running", "reaped", "reported", "failed", "crashed"}
  /\ code \in {-1, 0, 1}

RunInit ==
  /\ kind \in {"verify", "plugin"}
  /\ started = FALSE /\ alive = FALSE /\ status = 0 /\ background = FALSE
  /\ cancelled = FALSE
  /\ written = [s \in Stream |-> 0] /\ taken = [s \in Stream |-> 0]
  /\ copier = [s \in Stream |-> "reading"]
  /\ got = [s \in Stream |-> 0]
  /\ room = [s \in Stream |-> Limit]
  /\ buffer = [s \in Stream |-> <<>>] /\ output = [s \in Stream |-> <<>>]
  /\ garbled = FALSE
  /\ stage = "starting" /\ code = 0

-----------------------------------------------------------------------------
(* Start.                                                                  *)

Start ==
  /\ stage = "starting"
  /\ stage' = "running"
  /\ started' = TRUE /\ alive' = TRUE /\ background' \in BOOLEAN
  /\ UNCHANGED <<kind, status, cancelled, pipes, copies, code, output>>

\* No such program, no such directory, no process to be had: Run returns the
\* error, and nothing has been written.
StartFails ==
  /\ stage = "starting"
  /\ stage' = "unstarted"
  /\ UNCHANGED <<kind, child, cancelled, pipes, copies, code, output>>

-----------------------------------------------------------------------------
(* The command: any program, that may leave a process behind.              *)

Write(s) ==
  /\ alive \/ background
  /\ copier[s] \in {"reading", "writing"}
  /\ written[s] - taken[s] < Capacity
  /\ written[s] < MaxWritten
  /\ written' = [written EXCEPT ![s] = @ + 1]
  /\ UNCHANGED <<kind, child, cancelled, taken, copies, ends>>

\* The goroutine that gave up has closed its end of the pipe.  A program that
\* ignores the signal and the error goes on.
BrokenPipe(s) ==
  /\ alive /\ copier[s] = "short"
  /\ alive' = FALSE /\ status' = -1
  /\ UNCHANGED <<kind, started, background, cancelled, pipes, copies, ends>>

Exit(c) ==
  /\ alive
  /\ alive' = FALSE /\ status' = c
  /\ UNCHANGED <<kind, started, background, cancelled, pipes, copies, ends>>

BackgroundEnds ==
  /\ background
  /\ background' = FALSE
  /\ UNCHANGED <<kind, started, alive, status, cancelled, pipes, copies, ends>>

-----------------------------------------------------------------------------
(* The goroutines: io.Copy into limitedWriter.Write.                       *)

\* Faulty variant: without the cut to what is left of the limit.
PassedUncut(s, k) == k

\* What limitedWriter passes on of k units.
Passed(s, k) == Least(k, room[s])

\* Faulty variant: nothing is read any more once the limit is reached.
CopierReadsToLimit(s) ==
  LET k == Least(written[s] - taken[s], Chunk) IN
  /\ copier[s] = "reading" /\ k > 0 /\ room[s] > 0
  /\ taken' = [taken EXCEPT ![s] = @ + k]
  /\ copier' = [copier EXCEPT ![s] = "writing"]
  /\ got' = [got EXCEPT ![s] = k]
  /\ garbled' = (garbled \/ \E t \in Stream \ {s} :
                   Sink(t) = Sink(s) /\ copier[t] = "writing")
  /\ UNCHANGED <<kind, child, cancelled, written, room, buffer, ends>>

\* At its limit a limitedWriter says it has written what it drops.
CopierReads(s) ==
  LET k == Least(written[s] - taken[s], Chunk) IN
  /\ copier[s] = "reading" /\ k > 0
  /\ taken' = [taken EXCEPT ![s] = @ + k]
  /\ IF room[s] = 0
     THEN UNCHANGED <<copier, got, garbled>>
     ELSE /\ copier' = [copier EXCEPT ![s] = "writing"]
          /\ got' = [got EXCEPT ![s] = k]
          /\ garbled' = (garbled \/ \E t \in Stream \ {s} :
                           Sink(t) = Sink(s) /\ copier[t] = "writing")
  /\ UNCHANGED <<kind, child, cancelled, written, room, buffer, ends>>

\* bytes.Buffer.Write, and what io.Copy makes of the length that is returned.
\* One that races with another may write over what the other has written.
CopierWrites(s) ==
  LET n    == Passed(s, got[s])
      from == taken[s] - got[s]
      held == buffer[Sink(s)] IN
  /\ copier[s] = "writing" /\ stage # "crashed"
  /\ \E end \in IF garbled THEN 0 .. Len(held) ELSE {Len(held)} :
       buffer' = [buffer EXCEPT
         ![Sink(s)] = Cut(held, end) \o Units(s, from, from + n)]
  /\ room' = [room EXCEPT ![s] = @ - n]
  /\ copier' = [copier EXCEPT ![s] = IF n < got[s] THEN "short" ELSE "reading"]
  /\ got' = [got EXCEPT ![s] = 0]
  /\ UNCHANGED <<kind, child, cancelled, pipes, garbled, ends>>

CopierEnds(s) ==
  /\ copier[s] = "reading" /\ written[s] = taken[s]
  /\ started /\ ~alive /\ ~background
  /\ copier' = [copier EXCEPT ![s] = "ended"]
  /\ UNCHANGED <<kind, child, cancelled, pipes, got, room, buffer, garbled, ends>>

\* One of them may also find the buffer shorter than it has just made it.
Panic ==
  /\ garbled /\ \E s \in Stream : copier[s] = "writing"
  /\ stage \in {"running", "reaped"}
  /\ stage' = "crashed"
  /\ UNCHANGED <<kind, child, cancelled, pipes, copies, code, output>>

-----------------------------------------------------------------------------
(* Run, its context, and its callers.                                      *)

\* The context kills the child, or one that has ended and not been waited for.
Timeout ==
  /\ stage = "running" /\ ~cancelled
  /\ cancelled' = TRUE
  /\ alive' = FALSE
  /\ status' = IF alive THEN -1 ELSE status
  /\ UNCHANGED <<kind, started, background, pipes, copies, ends>>

Reap ==
  /\ stage = "running" /\ ~alive
  /\ stage' = "reaped"
  /\ UNCHANGED <<kind, child, cancelled, pipes, copies, code, output>>

\* The error of Run: that of Start, or the child's status, then the context's,
\* then a copier's.
RunError ==
  IF ~started THEN "start"
  ELSE IF status # 0 THEN "exit"
  ELSE IF cancelled THEN "context"
  ELSE IF \E s \in Stream : copier[s] = "short" THEN "short write"
  ELSE "none"

Returned ==
  \/ stage = "unstarted"
  \/ stage = "reaped" /\ \A s \in Stream : copier[s] \in {"short", "ended"}

\* Faulty variant: only an ExitError changes the 0.
ExitCodeOfChild == IF RunError = "exit" THEN status ELSE 0

ExitCode == CASE RunError = "none" -> 0
              [] RunError = "exit" -> status
              [] OTHER             -> 1

\* verify run: a row, whatever the error.
RecordVerification ==
  /\ kind = "verify" /\ Returned
  /\ stage' = "reported"
  /\ code' = ExitCode
  /\ output' = [s \in Stream |-> Cut(buffer[s], Excerpt)]
  /\ UNCHANGED <<kind, child, cancelled, pipes, copies>>

\* Faulty variant: the output is printed whatever the error.
PrintPluginAnyway ==
  /\ kind = "plugin" /\ Returned
  /\ stage' = "reported"
  /\ output' = [output EXCEPT !["stdout"] = Cut(buffer["stdout"], Limit)]
  /\ UNCHANGED <<kind, child, cancelled, pipes, copies, code>>

\* runPlugin: the output, or the error.
PrintPlugin ==
  /\ kind = "plugin" /\ Returned
  /\ RunError = "none"
  /\ stage' = "reported"
  /\ output' = [output EXCEPT !["stdout"] = Cut(buffer["stdout"], Limit)]
  /\ UNCHANGED <<kind, child, cancelled, pipes, copies, code>>

\* runPlugin ends with the error; the INSERT of verify run finds no lock.
Fail ==
  /\ Returned
  /\ kind = "plugin" => RunError # "none"
  /\ stage' = "failed"
  /\ UNCHANGED <<kind, child, cancelled, pipes, copies, code, output>>

-----------------------------------------------------------------------------
RunNext ==
  \/ Start \/ StartFails
  \/ \E s \in Stream : Write(s) \/ BrokenPipe(s)
  \/ \E c \in {0, 1} : Exit(c)
  \/ BackgroundEnds
  \/ \E s \in Stream : CopierReads(s) \/ CopierWrites(s) \/ CopierEnds(s)
  \/ Panic \/ Timeout \/ Reap
  \/ RecordVerification \/ PrintPlugin \/ Fail

RunSpec == RunInit /\ [][RunNext]_runVars

\* Goroutines are scheduled, the context's timer fires, the caller goes on, and
\* the system call that starts a process returns.
\* Nothing is assumed of the command.
Fairness ==
  /\ \A s \in Stream : WF_runVars(CopierReads(s) \/ CopierWrites(s) \/ CopierEnds(s))
  /\ WF_runVars(Start \/ StartFails)
  /\ WF_runVars(Timeout \/ Reap)
  /\ WF_runVars(RecordVerification \/ PrintPlugin \/ Fail)

FairSpec == RunSpec /\ Fairness

-----------------------------------------------------------------------------
(* Properties.                                                             *)

Recorded == kind = "verify" /\ stage = "reported"
Printed  == kind = "plugin" /\ stage = "reported"

\* A recorded exit code is the command's own, or it is 1 for a cause: there was
\* no command, since it could not be started, it wrote more to one stream than
\* the limit, or the 30 s passed before Across had waited for it.  And one that
\* is recorded as 0 is of a command that was started, itself ended with 0, was
\* not cut off, and whose excerpts are the beginning of all it had written.
CodeIsOwn ==
  Recorded =>
    /\ \/ started /\ code = status
       \/ code = 1 /\ (~started \/ cancelled \/ \E s \in Stream : written[s] > Limit)
    /\ code = 0 =>
         /\ started /\ status = 0 /\ ~cancelled
         /\ \A s \in Stream : output[s] = Units(s, 0, Least(written[s], Excerpt))

\* The units of stream s in seq are the first m, in their order.
OfStream(seq, s, m) ==
  /\ {seq[i][2] : i \in {j \in DOMAIN seq : seq[j][1] = s}} = 1 .. m
  /\ \A i, j \in DOMAIN seq :
       i < j /\ seq[i][1] = s /\ seq[j][1] = s => seq[i][2] < seq[j][2]

\* Whatever the chunks in which a stream arrives, what its writer has passed on
\* is the beginning of it, up to the limit: nothing is left out in the middle.
KeptIsPrefix ==
  ~garbled => \A s \in Stream :
    OfStream(buffer[Sink(s)], s, Least(taken[s] - got[s], Limit))

\* A plugin that writes to one of its streams only never makes Across panic, and
\* what is printed is what it wrote, all of it or as much as may be printed.
\* (One that writes to both is not that lucky: see Panic.)
OneStreamSafe ==
  \A s \in Stream :
    (kind = "plugin" /\ \A t \in Stream \ {s} : written[t] = 0) =>
      /\ ~garbled /\ stage # "crashed"
      /\ Printed => /\ started /\ status = 0 /\ ~cancelled
                    /\ output["stdout"] = Units(s, 0, Least(written[s], Limit))

\* Run comes to an end, whatever the command does to its streams and however
\* long it would go on, unless a process it has started keeps the pipes open.
Ends == (<>[]~background) => <>(stage \notin {"starting", "unstarted", "running", "reaped"})

=============================================================================
