----------------------------- MODULE MergeQueue -----------------------------
(***************************************************************************)
(* MergeQueue: changes, reviews, branch rules, verification evidence and   *)
(* `across queue merge`, in one repository                                 *)
(* (internal/cli/collab.go, verify.go).                                    *)
(*                                                                         *)
(* A merge is a command without any transaction: it reads the branch, the  *)
(* rule, the reviews and the evidence one after the other, clones, looks   *)
(* at the branch again, and marks the change.  Pushes, reviews, rules and  *)
(* verifications come in between.                                          *)
(***************************************************************************)
EXTENDS Naturals, Sequences, FiniteSets

CONSTANTS
  Change,       \* change ids
  Branch,       \* branch names, which rules also have as patterns
  Main,         \* the branch refs/heads/main
  Name,         \* names of verifications
  Required,     \* the lists of verifications that rules ask for
  Proc,         \* running across commands
  Hosted,       \* whether the repository is hosted (authority_mode)
  Resets,       \* whether a branch may be reset to an earlier commit
  MaxTip,       \* bound: commits that a branch has, one after the other
  MaxReviews,   \* bound: reviews of one change with one decision
  MaxRules,     \* bound: rows of branch_rules
  MaxRuns,      \* bound: verifications that are started
  MaxReports,   \* bound: reports after which no merge begins
  None          \* no row

ASSUME MergeAssumption ==
  /\ Main \in Branch
  /\ Required \subseteq Seq(Name)
  /\ Hosted \in BOOLEAN /\ Resets \in BOOLEAN
  /\ MaxTip \in Nat \ {0} /\ MaxReviews \in Nat /\ MaxRules \in Nat /\ MaxRuns \in Nat
  /\ MaxReports \in Nat
  /\ None \notin Nat /\ None \notin Branch /\ None \notin Change

VARIABLES
  tip,          \* tip[b]: how far branch b of the repository has come
  changes,      \* the changes table: base and state
  reviews,      \* reviews[c][d]: the change_approvals rows of c with decision d
  rules,        \* the branch_rules table in insertion order
  runs,         \* the verifications table in insertion order
  clock,        \* the time, which started_at of a verification is taken from
  hooked,       \* whether the pre-receive hook is installed
  reported,     \* the merges that were reported as prepared
  pc,           \* where each command stands
  reg           \* what it has read so far

tables == <<changes, reviews, rules, runs, clock, hooked, reported>>
vars   == <<tip, changes, reviews, rules, runs, clock, hooked, reported, pc, reg>>

Decision == {"approve", "request-changes"}

Rule == [pattern : Branch, min : 0 .. MaxReviews, required : Required]

Verification ==
  [name : Name, started : Nat, pass : BOOLEAN,
   basis : {"user_recorded", "executed_by_across_local_runner"}]

ChangeRow == [state : {"open", "merged"}, base : Branch]

NoChange == [state |-> "none", base |-> None]

\* `merge prepared ... base=said`: the clone stood at onto; whether the command
\* could read its rule, and the rules and verifications there were then.
Report == [change : Change, said : Nat, onto : Nat,
           read : BOOLEAN, rules : Nat, runs : Nat]

\* The local variables of a merge: what it will report, min_approvals and the
\* names still to be looked up; and the start of a verification.
Register ==
  [change : Change \cup {None}, said : Nat, onto : Nat,
   read : BOOLEAN, rules : Nat, runs : Nat, min : Nat,
   todo : Seq(Name), started : Nat]

Blank == [change |-> None, said |-> 0, onto |-> 0,
          read |-> FALSE, rules |-> 0, runs |-> 0, min |-> 0,
          todo |-> <<>>, started |-> 0]

Steps == {"rule", "reviews", "evidence", "clone", "check", "report", "mark"}

RegisterOK(p) ==
  /\ pc[p] \in Steps => /\ reg[p].change \in Change
                        /\ changes[reg[p].change] # NoChange
  /\ pc[p] = "evidence" => reg[p].todo # <<>>
  /\ pc[p] \in {"clone", "check", "report", "mark"} => reg[p].todo = <<>>
  /\ pc[p] = "verify" => reg[p].started \in 1 .. clock /\ Len(reg[p].todo) = 1

TypeOK ==
  /\ tip \in [Branch -> 1 .. MaxTip]
  /\ changes \in [Change -> ChangeRow \cup {NoChange}]
  /\ reviews \in [Change -> [Decision -> Nat]]
  /\ rules \in Seq(Rule)
  /\ runs \in Seq(Verification)
  /\ clock \in Nat
  /\ hooked \in BOOLEAN
  /\ reported \subseteq Report
  /\ pc \in [Proc -> {"idle", "hook", "verify"} \cup Steps]
  /\ reg \in [Proc -> Register]
  /\ \A p \in Proc : RegisterOK(p)

Init ==
  /\ tip = [b \in Branch |-> 1]
  /\ changes = [c \in Change |-> NoChange]
  /\ reviews = [c \in Change |-> [d \in Decision |-> 0]]
  /\ rules = <<>>
  /\ runs = <<>>
  /\ clock = 0
  /\ hooked = FALSE
  /\ reported = {}
  /\ pc = [p \in Proc |-> "idle"]
  /\ reg = [p \in Proc |-> Blank]

Goto(p, to, r) ==
  /\ pc' = [pc EXCEPT ![p] = to]
  /\ reg' = [reg EXCEPT ![p] = r]

Finish(p) == Goto(p, "idle", Blank)

\* A gate that blocks, a conflict, a git command that fails, a kill.
GiveUp(p) ==
  /\ pc[p] # "idle"
  /\ Finish(p)
  /\ UNCHANGED <<tip, tables>>

-----------------------------------------------------------------------------
(* The repository.                                                         *)

\* What the pre-receive hook of a hosted repository turns away: any push to
\* main, whatever the rules are for.
Refused(b) == hooked /\ b = Main

Push(b, k) ==
  /\ ~Refused(b)
  /\ k > tip[b] \/ Resets
  /\ tip' = [tip EXCEPT ![b] = k]
  /\ UNCHANGED <<tables, pc, reg>>

-----------------------------------------------------------------------------
(* Changes, reviews, rules: single statements.                             *)

CreateChange(c, b) ==
  /\ changes[c] = NoChange
  /\ changes' = [changes EXCEPT ![c] = [state |-> "open", base |-> b]]
  /\ UNCHANGED <<tip, reviews, rules, runs, clock, hooked, reported, pc, reg>>

\* change approve and change request-changes; the foreign key wants the change.
Review(c, d) ==
  /\ changes[c] # NoChange /\ reviews[c][d] < MaxReviews
  /\ reviews' = [reviews EXCEPT ![c][d] = @ + 1]
  /\ UNCHANGED <<tip, changes, rules, runs, clock, hooked, reported, pc, reg>>

AddRule(p, rule) ==
  /\ pc[p] = "idle" /\ Len(rules) < MaxRules
  /\ rules' = Append(rules, rule)
  /\ IF Hosted THEN Goto(p, "hook", Blank) ELSE UNCHANGED <<pc, reg>>
  /\ UNCHANGED <<tip, changes, reviews, runs, clock, hooked, reported>>

\* installPreReceive, after the row; when it fails there is only a warning.
InstallPreReceive(p) ==
  /\ pc[p] = "hook"
  /\ hooked' = TRUE
  /\ Finish(p)
  /\ UNCHANGED <<tip, changes, reviews, rules, runs, clock, reported>>

-----------------------------------------------------------------------------
(* Verifications.                                                          *)

\* verify add: a claim, with the exit code the caller gives.
VerifyAdd(n, pass) ==
  /\ clock < MaxRuns
  /\ clock' = clock + 1
  /\ runs' = Append(runs, [name |-> n, started |-> clock + 1, pass |-> pass,
                           basis |-> "user_recorded"])
  /\ UNCHANGED <<tip, changes, reviews, rules, hooked, reported, pc, reg>>

\* verify run: started_at is taken before the command runs.
VerifyBegin(p, n) ==
  /\ pc[p] = "idle" /\ clock < MaxRuns
  /\ clock' = clock + 1
  /\ Goto(p, "verify", [Blank EXCEPT !.todo = <<n>>, !.started = clock + 1])
  /\ UNCHANGED <<tip, changes, reviews, rules, runs, hooked, reported>>

\* The row comes when the command has ended, after those of shorter runs.
VerifyEnd(p, pass) ==
  /\ pc[p] = "verify"
  /\ runs' = Append(runs, [name |-> Head(reg[p].todo), started |-> reg[p].started,
                           pass |-> pass, basis |-> "executed_by_across_local_runner"])
  /\ Finish(p)
  /\ UNCHANGED <<tip, changes, reviews, rules, clock, hooked, reported>>

\* Faulty variant: any row of that name.
IsAny(i, n, k) == i \in 1 .. k /\ runs[i].name = n

\* ORDER BY started_at DESC LIMIT 1, among the first k rows.
IsLatest(i, n, k) ==
  /\ i \in 1 .. k /\ runs[i].name = n
  /\ \A j \in 1 .. k : runs[j].name = n => runs[j].started <= runs[i].started

Passing(i) == runs[i].pass /\ runs[i].basis = "executed_by_across_local_runner"

-----------------------------------------------------------------------------
(* queue merge.                                                            *)

\* The state of the change is not looked at.
MergeBegin(p, c) ==
  /\ pc[p] = "idle" /\ Cardinality(reported) < MaxReports
  /\ changes[c] # NoChange
  /\ Goto(p, "rule", [Blank EXCEPT !.change = c, !.said = tip[changes[c].base]])
  /\ UNCHANGED <<tip, tables>>

\* The rule for the branch that was added first, if there is one.
IsFirst(i, b, n) ==
  /\ i \in 1 .. n /\ rules[i].pattern = b
  /\ \A j \in 1 .. n : rules[j].pattern = b => i <= j

ReadRule(p) ==
  LET b == changes[reg[p].change].base
      n == Len(rules)
      r == [reg[p] EXCEPT !.read = TRUE, !.rules = n, !.runs = Len(runs)]
  IN  /\ pc[p] = "rule"
      /\ \/ \E i \in 1 .. n :
              /\ IsFirst(i, b, n)
              /\ Goto(p, "reviews", [r EXCEPT !.min = rules[i].min,
                                              !.todo = rules[i].required])
         \/ /\ \A i \in 1 .. n : rules[i].pattern # b
            /\ Goto(p, "reviews", r)
      /\ UNCHANGED <<tip, tables>>

\* The error of the query is not looked at: it leaves 0 approvals and no names.
ReadRuleFails(p) ==
  /\ pc[p] = "rule"
  /\ Goto(p, "reviews", reg[p])
  /\ UNCHANGED <<tip, tables>>

\* Faulty variant: every review counts.
ReviewsCounted(c) == reviews[c]["approve"] + reviews[c]["request-changes"]

Approvals(c) == reviews[c]["approve"]

\* (Not counted, they are 0: that is fewer than min, or as many.)
CountApprovals(p) ==
  /\ pc[p] = "reviews"
  /\ Approvals(reg[p].change) >= reg[p].min
  /\ Goto(p, IF reg[p].todo = <<>> THEN "clone" ELSE "evidence", reg[p])
  /\ UNCHANGED <<tip, tables>>

\* The next required verification: its latest row has to be a passing one, and
\* one that Across executed.
CheckEvidence(p) ==
  /\ pc[p] = "evidence"
  /\ \E i \in DOMAIN runs : IsLatest(i, Head(reg[p].todo), Len(runs)) /\ Passing(i)
  /\ Goto(p, IF Len(reg[p].todo) = 1 THEN "clone" ELSE "evidence",
          [reg[p] EXCEPT !.todo = Tail(@)])
  /\ UNCHANGED <<tip, tables>>

\* git clone, checkout of the base, and a merge without a commit.
Clone(p) ==
  /\ pc[p] = "clone"
  /\ Goto(p, "check", [reg[p] EXCEPT !.onto = tip[changes[reg[p].change].base]])
  /\ UNCHANGED <<tip, tables>>

\* Faulty variant: the clone is trusted.
CheckNothing(p) ==
  /\ pc[p] = "check"
  /\ Goto(p, "report", reg[p])
  /\ UNCHANGED <<tip, tables>>

\* Whether the base has moved.
CheckBase(p) ==
  /\ pc[p] = "check"
  /\ tip[changes[reg[p].change].base] = reg[p].said
  /\ Goto(p, "report", reg[p])
  /\ UNCHANGED <<tip, tables>>

\* The commit in the clone, or nothing to commit; either is reported with base
\* and then marked.
ReportMerge(p) ==
  /\ pc[p] = "report"
  /\ reported' = reported \cup
       {[change |-> reg[p].change, said |-> reg[p].said, onto |-> reg[p].onto,
         read |-> reg[p].read, rules |-> reg[p].rules, runs |-> reg[p].runs]}
  /\ Goto(p, "mark", reg[p])
  /\ UNCHANGED <<tip, changes, reviews, rules, runs, clock, hooked>>

Mark(p) ==
  /\ pc[p] = "mark"
  /\ changes' = [changes EXCEPT ![reg[p].change].state = "merged"]
  /\ Finish(p)
  /\ UNCHANGED <<tip, reviews, rules, runs, clock, hooked, reported>>

-----------------------------------------------------------------------------
MergeStep(p) ==
  \/ \E c \in Change : MergeBegin(p, c)
  \/ ReadRule(p) \/ ReadRuleFails(p) \/ CountApprovals(p) \/ CheckEvidence(p)
  \/ Clone(p) \/ CheckBase(p) \/ ReportMerge(p) \/ Mark(p)

VerifyStep(p) ==
  \/ \E n \in Name : VerifyBegin(p, n)
  \/ \E pass \in BOOLEAN : VerifyEnd(p, pass)

Next ==
  \/ \E b \in Branch, k \in 1 .. MaxTip : Push(b, k)
  \/ \E c \in Change, b \in Branch : CreateChange(c, b)
  \/ \E c \in Change, d \in Decision : Review(c, d)
  \/ \E n \in Name, pass \in BOOLEAN : VerifyAdd(n, pass)
  \/ \E p \in Proc :
       \/ \E rule \in Rule : AddRule(p, rule)
       \/ InstallPreReceive(p)
       \/ VerifyStep(p) \/ MergeStep(p) \/ GiveUp(p)

Spec == Init /\ [][Next]_vars

-----------------------------------------------------------------------------
(* Properties.                                                             *)

\* Since there were from rows, the latest of name n was, at a time, a passing run
\* that Across had executed.
Executed(n, from) ==
  \E k \in from .. Len(runs) :
    \E i \in 1 .. k :
      /\ runs[i].name = n /\ Passing(i)
      /\ \A j \in 1 .. k : runs[j].name = n => runs[j].started <= runs[i].started

Satisfied(rule, c, from) ==
  /\ reviews[c]["approve"] >= rule.min
  /\ \A k \in DOMAIN rule.required : Executed(rule.required[k], from)

\* Safety: what is reported, and so what is merged, has the approvals that the
\* rule in force for its base asks for, and each verification it asks for was,
\* at a time after the rule was read, one whose latest row is a passing run that
\* Across executed, however claims, runs and reviews overlap (README.md:125: a
\* claim is never taken for execution evidence).  Of a merge that could not read
\* its rule nothing is said: it has passed no gate.
GateHeld ==
  \A m \in reported, i \in 1 .. Len(rules) :
    m.read /\ IsFirst(i, changes[m.change].base, m.rules) =>
      Satisfied(rules[i], m.change, m.runs)

\* Safety: the base that is reported is the one the merge was made on.
PreparedOnSaid == \A m \in reported : m.onto = m.said
=============================================================================
