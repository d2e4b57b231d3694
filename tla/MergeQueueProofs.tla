-------------------------- MODULE MergeQueueProofs --------------------------
(***************************************************************************)
(* What holds of MergeQueue for every number of changes, branches, rules,  *)
(* verifications and overlapping commands; and of Runner, which runs the   *)
(* command of a verification, for every limit and every chunk.             *)
(***************************************************************************)
EXTENDS MergeQueue, Runner, SequenceTheorems, TLAPS

LEMMA BlankTyped == Blank \in Register
  BY DEF Blank, Register

LEMMA TypeInit == Init => TypeOK
<1> SUFFICES ASSUME Init PROVE TypeOK
  OBVIOUS
<1>1. /\ tip \in [Branch -> 1 .. MaxTip]
      /\ changes \in [Change -> ChangeRow \cup {NoChange}]
      /\ reviews \in [Change -> [Decision -> Nat]]
  BY MergeAssumption DEF Init
<1>2. rules \in Seq(Rule) /\ runs \in Seq(Verification) /\ clock \in Nat
  BY DEF Init
<1>3. hooked \in BOOLEAN
  BY Zenon DEF Init
<1>4. reported \subseteq Report
  BY DEF Init
<1>5. /\ pc \in [Proc -> {"idle", "hook", "verify"} \cup Steps]
      /\ reg \in [Proc -> Register]
      /\ \A p \in Proc : RegisterOK(p)
  BY BlankTyped DEF Init, RegisterOK, Steps
<1> QED
  BY <1>1, <1>2, <1>3, <1>4, <1>5 DEF TypeOK

LEMMA ReadsRule ==
  ASSUME TypeOK, NEW i \in 1 .. Len(rules)
  PROVE  rules[i].min \in Nat /\ rules[i].required \in Seq(Name)
<1>1. rules[i] \in Rule
  BY DEF TypeOK
<1> QED
  BY <1>1, MergeAssumption DEF Rule

LEMMA ReadsTip ==
  ASSUME TypeOK, NEW c \in Change, changes[c] # NoChange
  PROVE  changes[c].base \in Branch /\ tip[changes[c].base] \in Nat
  BY MergeAssumption DEF TypeOK, ChangeRow

\* What does not depend on where the commands stand.
Tables ==
  /\ tip \in [Branch -> 1 .. MaxTip]
  /\ changes \in [Change -> ChangeRow \cup {NoChange}]
  /\ reviews \in [Change -> [Decision -> Nat]]
  /\ rules \in Seq(Rule)
  /\ runs \in Seq(Verification)
  /\ clock \in Nat
  /\ hooked \in BOOLEAN
  /\ reported \subseteq Report

\* Rows stay, and time passes.
Onward ==
  /\ \A c \in Change : changes[c] # NoChange => changes'[c] # NoChange
  /\ clock <= clock'

LEMMA StandStill ==
  ASSUME TypeOK, UNCHANGED <<tip, tables>>
  PROVE  Tables' /\ Onward
  BY DEF TypeOK, Tables, Onward, tables

\* A register that a command writes, and everything else as it was typed.
LEMMA GotoTyped ==
  ASSUME TypeOK, Tables', Onward,
         NEW p \in Proc, NEW to \in {"idle", "hook", "verify"} \cup Steps,
         NEW r \in Register, Goto(p, to, r),
         to \in Steps => r.change \in Change /\ changes'[r.change] # NoChange,
         to = "evidence" => r.todo # <<>>,
         to \in {"clone", "check", "report", "mark"} => r.todo = <<>>,
         to = "verify" => r.started \in 1 .. clock' /\ Len(r.todo) = 1
  PROVE  TypeOK'
<1>1. /\ pc' \in [Proc -> {"idle", "hook", "verify"} \cup Steps]
      /\ reg' \in [Proc -> Register]
      /\ pc'[p] = to /\ reg'[p] = r
      /\ \A q \in Proc : q # p => pc'[q] = pc[q] /\ reg'[q] = reg[q]
  BY DEF Goto, TypeOK
<1>2. RegisterOK(p)'
  BY <1>1 DEF RegisterOK
<1>3. ASSUME NEW q \in Proc, q # p PROVE RegisterOK(q)'
  <2>1. RegisterOK(q) /\ pc'[q] = pc[q] /\ reg'[q] = reg[q] /\ clock \in Nat /\ clock' \in Nat
    BY <1>1, <1>3 DEF TypeOK, Tables
  <2> QED
    BY <2>1 DEF RegisterOK, Onward
<1> QED
  BY <1>1, <1>2, <1>3 DEF TypeOK, Tables

LEMMA FinishTyped ==
  ASSUME TypeOK, Tables', Onward, NEW p \in Proc, Finish(p)
  PROVE  TypeOK'
  BY BlankTyped, GotoTyped DEF Finish, Steps

\* Steps that leave the commands alone.
LEMMA OthersTyped ==
  ASSUME TypeOK,
         \/ \E b \in Branch, k \in 1 .. MaxTip : Push(b, k)
         \/ \E c \in Change, b \in Branch : CreateChange(c, b)
         \/ \E c \in Change, d \in Decision : Review(c, d)
         \/ \E n \in Name, pass \in BOOLEAN : VerifyAdd(n, pass)
  PROVE  TypeOK'
<1> USE MergeAssumption
<1>1. ASSUME NEW b \in Branch, NEW k \in 1 .. MaxTip, Push(b, k) PROVE TypeOK'
  BY <1>1 DEF Push, tables, TypeOK, RegisterOK
<1>2. ASSUME NEW c \in Change, NEW b \in Branch, CreateChange(c, b) PROVE TypeOK'
  BY <1>2 DEF CreateChange, TypeOK, RegisterOK, ChangeRow, NoChange
<1>3. ASSUME NEW c \in Change, NEW d \in Decision, Review(c, d) PROVE TypeOK'
  BY <1>3 DEF Review, TypeOK, RegisterOK
<1>4. ASSUME NEW n \in Name, NEW pass \in BOOLEAN, VerifyAdd(n, pass) PROVE TypeOK'
  BY <1>4 DEF VerifyAdd, TypeOK, RegisterOK, Verification
<1> QED
  BY <1>1, <1>2, <1>3, <1>4

LEMMA MergeTyped ==
  ASSUME TypeOK, NEW p \in Proc, MergeStep(p)
  PROVE  TypeOK'
<1>1. /\ reg[p] \in Register /\ RegisterOK(p) /\ Len(rules) \in Nat /\ Len(runs) \in Nat
      /\ reg[p].todo \in Seq(Name)
  BY DEF TypeOK, Register
<1>2. ASSUME NEW c \in Change, MergeBegin(p, c) PROVE TypeOK'
  <2> DEFINE r == [Blank EXCEPT !.change = c, !.said = tip[changes[c].base]]
  <2>1. Goto(p, "rule", r) /\ changes[c] # NoChange /\ UNCHANGED <<tip, tables>>
    BY <1>2 DEF MergeBegin
  <2>2. tip[changes[c].base] \in Nat
    BY <2>1, ReadsTip
  <2>3. r \in Register /\ r.change = c
    BY <2>2, BlankTyped DEF Register
  <2> HIDE DEF r
  <2>4. Tables' /\ Onward
    BY <2>1, StandStill
  <2> QED
    BY <2>1, <2>3, <2>4, GotoTyped DEF Onward, Steps
<1>3. CASE ReadRule(p)
  <2>1. pc[p] = "rule" /\ UNCHANGED <<tip, tables>>
    BY <1>3 DEF ReadRule
  <2>2. Tables' /\ Onward
    BY <2>1, StandStill
  <2>3. reg[p].change \in Change /\ changes'[reg[p].change] # NoChange
    BY <1>1, <2>1, <2>2 DEF RegisterOK, Steps, Onward
  <2>4. ASSUME NEW r \in Register, r.change = reg[p].change, Goto(p, "reviews", r)
        PROVE  TypeOK'
    BY <2>2, <2>3, <2>4, GotoTyped DEF Steps
  <2> DEFINE r == [reg[p] EXCEPT !.read = TRUE, !.rules = Len(rules), !.runs = Len(runs)]
  <2>6. r \in Register /\ r.change = reg[p].change
    BY <1>1 DEF Register
  <2>7. \/ \E i \in 1 .. Len(rules) :
            Goto(p, "reviews", [r EXCEPT !.min = rules[i].min, !.todo = rules[i].required])
        \/ Goto(p, "reviews", r)
    BY <1>3 DEF ReadRule
  <2> HIDE DEF r
  <2>5. ASSUME NEW i \in 1 .. Len(rules)
        PROVE  LET u == [r EXCEPT !.min = rules[i].min, !.todo = rules[i].required]
               IN  u \in Register /\ u.change = reg[p].change
    <3>1. rules[i].min \in Nat /\ rules[i].required \in Seq(Name)
      BY ReadsRule
    <3> QED
      BY <2>6, <3>1 DEF Register
  <2> QED
    BY <2>4, <2>5, <2>6, <2>7
<1>10. CASE ReadRuleFails(p)
  <2>1. pc[p] = "rule" /\ UNCHANGED <<tip, tables>>
    BY <1>10 DEF ReadRuleFails
  <2>2. Tables' /\ Onward
    BY <2>1, StandStill
  <2>3. reg[p].change \in Change /\ changes'[reg[p].change] # NoChange
    BY <1>1, <2>1, <2>2 DEF RegisterOK, Steps, Onward
  <2> QED
    BY <1>1, <1>10, <2>2, <2>3, GotoTyped DEF ReadRuleFails, Steps
<1>4. CASE CountApprovals(p)
  <2>1. pc[p] = "reviews" /\ UNCHANGED <<tip, tables>>
    BY <1>4 DEF CountApprovals
  <2>2. Tables' /\ Onward
    BY <2>1, StandStill
  <2>3. reg[p].change \in Change /\ changes'[reg[p].change] # NoChange
    BY <1>1, <2>1, <2>2 DEF RegisterOK, Steps, Onward
  <2>4. CASE reg[p].todo = <<>>
    BY <1>1, <1>4, <2>2, <2>3, <2>4, GotoTyped DEF CountApprovals, Steps
  <2>5. CASE reg[p].todo # <<>>
    BY <1>1, <1>4, <2>2, <2>3, <2>5, GotoTyped DEF CountApprovals, Steps
  <2> QED
    BY <2>4, <2>5
<1>5. CASE CheckEvidence(p)
  <2> DEFINE r == [reg[p] EXCEPT !.todo = Tail(@)]
  <2>1. /\ pc[p] = "evidence" /\ UNCHANGED <<tip, tables>>
        /\ Goto(p, IF Len(reg[p].todo) = 1 THEN "clone" ELSE "evidence", r)
    BY <1>5 DEF CheckEvidence
  <2>2. Tables' /\ Onward
    BY <2>1, StandStill
  <2>3. reg[p].change \in Change /\ changes'[reg[p].change] # NoChange
    BY <1>1, <2>1, <2>2 DEF RegisterOK, Steps, Onward
  <2>4. reg[p].todo # <<>>
    BY <1>1, <2>1 DEF RegisterOK
  <2>5. /\ Tail(reg[p].todo) \in Seq(Name) /\ Len(reg[p].todo) \in Nat \ {0}
        /\ Len(Tail(reg[p].todo)) = Len(reg[p].todo) - 1
    BY <1>1, <2>4, EmptySeq
  <2>6. r \in Register /\ r.change = reg[p].change /\ r.todo = Tail(reg[p].todo)
    BY <1>1, <2>5 DEF Register
  <2> HIDE DEF r
  <2>9. Len(<<>>) = 0 /\ \A s \in Seq(Name) : s # <<>> => Len(s) \in Nat \ {0}
    BY EmptySeq
  <2>7. CASE Len(reg[p].todo) = 1
    <3>2. Len(Tail(reg[p].todo)) = 0
      BY <2>5, <2>7
    <3>1. Tail(reg[p].todo) = <<>>
      <4>1. ASSUME NEW s \in Seq(Name), Len(s) = 0 PROVE s = <<>>
        BY <2>9, <4>1
      <4> QED
        BY <2>5, <3>2, <4>1, Zenon
    <3> QED
      BY <2>1, <2>2, <2>3, <2>6, <2>7, <3>1, GotoTyped DEF Steps
  <2>8. CASE Len(reg[p].todo) # 1
    <3>2. Len(Tail(reg[p].todo)) # 0
      BY <2>5, <2>8
    <3>1. Tail(reg[p].todo) # <<>>
      BY <2>9, <3>2, Zenon
    <3> QED
      BY <2>1, <2>2, <2>3, <2>6, <2>8, <3>1, GotoTyped DEF Steps
  <2> QED
    BY <2>7, <2>8
<1>6. CASE Clone(p)
  <2> DEFINE r == [reg[p] EXCEPT !.onto = tip[changes[reg[p].change].base]]
  <2>1. /\ pc[p] = "clone" /\ UNCHANGED <<tip, tables>> /\ Goto(p, "check", r)
    BY <1>6 DEF Clone
  <2>2. Tables' /\ Onward
    BY <2>1, StandStill
  <2>3. /\ reg[p].change \in Change /\ changes[reg[p].change] # NoChange
        /\ changes'[reg[p].change] # NoChange /\ reg[p].todo = <<>>
    BY <1>1, <2>1, <2>2 DEF RegisterOK, Steps, Onward
  <2>4. tip[changes[reg[p].change].base] \in Nat
    BY <2>3, ReadsTip
  <2>5. r \in Register /\ r.change = reg[p].change /\ r.todo = reg[p].todo
    BY <1>1, <2>4 DEF Register
  <2> HIDE DEF r
  <2> QED
    BY <2>1, <2>2, <2>3, <2>5, GotoTyped DEF Steps
<1>7. CASE CheckBase(p)
  <2>1. /\ pc[p] = "check" /\ UNCHANGED <<tip, tables>> /\ Goto(p, "report", reg[p])
    BY <1>7 DEF CheckBase
  <2>2. Tables' /\ Onward
    BY <2>1, StandStill
  <2>3. reg[p].change \in Change /\ changes'[reg[p].change] # NoChange /\ reg[p].todo = <<>>
    BY <1>1, <2>1, <2>2 DEF RegisterOK, Steps, Onward
  <2> QED
    BY <1>1, <2>1, <2>2, <2>3, GotoTyped DEF Steps
<1>8. CASE ReportMerge(p)
  <2> DEFINE m == [change |-> reg[p].change, said |-> reg[p].said, onto |-> reg[p].onto,
                   read |-> reg[p].read, rules |-> reg[p].rules, runs |-> reg[p].runs]
  <2>1. /\ pc[p] = "report" /\ Goto(p, "mark", reg[p]) /\ reported' = reported \cup {m}
        /\ UNCHANGED <<tip, changes, reviews, rules, runs, clock, hooked>>
    BY <1>8 DEF ReportMerge
  <2>2. /\ reg[p].change \in Change /\ changes[reg[p].change] # NoChange
        /\ reg[p].todo = <<>>
    BY <1>1, <2>1 DEF RegisterOK, Steps
  <2>3. m \in Report
    BY <1>1, <2>2 DEF Register, Report
  <2>4. Tables' /\ Onward
    BY <2>1, <2>3 DEF TypeOK, Tables, Onward
  <2> QED
    BY <1>1, <2>1, <2>2, <2>4, GotoTyped DEF Steps
<1>9. CASE Mark(p)
  <2>1. reg[p].change \in Change /\ changes[reg[p].change] \in ChangeRow
    BY <1>1, <1>9 DEF Mark, TypeOK, RegisterOK, Steps
  <2>2. /\ changes' \in [Change -> ChangeRow \cup {NoChange}]
        /\ \A c \in Change : changes[c] # NoChange => changes'[c] # NoChange
    BY <1>9, <2>1 DEF Mark, TypeOK, ChangeRow, NoChange
  <2>3. Tables' /\ Onward
    BY <1>9, <2>2 DEF Mark, TypeOK, Tables, Onward
  <2> QED
    BY <1>9, <2>3, FinishTyped DEF Mark
<1> QED
  BY <1>2, <1>3, <1>4, <1>5, <1>6, <1>7, <1>8, <1>9, <1>10 DEF MergeStep

LEMMA CommandsTyped ==
  ASSUME TypeOK, NEW p \in Proc,
         \/ \E rule \in Rule : AddRule(p, rule)
         \/ InstallPreReceive(p)
         \/ VerifyStep(p)
         \/ GiveUp(p)
  PROVE  TypeOK'
<1>1. ASSUME NEW rule \in Rule, AddRule(p, rule) PROVE TypeOK'
  <2>1. Tables' /\ Onward
    BY <1>1 DEF AddRule, TypeOK, Tables, Onward
  <2>2. CASE Goto(p, "hook", Blank)
    BY <2>1, <2>2, BlankTyped, GotoTyped DEF Steps
  <2>3. CASE UNCHANGED <<pc, reg>>
    BY <1>1, <2>1, <2>3 DEF AddRule, TypeOK, Tables, RegisterOK
  <2> QED
    BY <1>1, <2>2, <2>3 DEF AddRule
<1>2. CASE InstallPreReceive(p)
  <2>1. Tables' /\ Onward
    BY <1>2 DEF InstallPreReceive, TypeOK, Tables, Onward
  <2> QED
    BY <1>2, <2>1, FinishTyped DEF InstallPreReceive
<1>3. ASSUME NEW n \in Name, VerifyBegin(p, n) PROVE TypeOK'
  <2> DEFINE r == [Blank EXCEPT !.todo = <<n>>, !.started = clock + 1]
  <2>1. /\ Goto(p, "verify", r) /\ clock' = clock + 1 /\ clock \in Nat
        /\ UNCHANGED <<tip, changes, reviews, rules, runs, hooked, reported>>
    BY <1>3 DEF VerifyBegin, TypeOK
  <2>2. <<n>> \in Seq(Name) /\ Len(<<n>>) = 1 /\ clock + 1 \in Nat
    BY <2>1
  <2>3. r \in Register /\ r.todo = <<n>> /\ r.started = clock + 1
    BY <2>2, BlankTyped DEF Register
  <2> HIDE DEF r
  <2>4. Tables' /\ Onward
    BY <2>1 DEF TypeOK, Tables, Onward
  <2>5. r.started \in 1 .. clock' /\ Len(r.todo) = 1
    BY <2>1, <2>2, <2>3
  <2> QED
    BY <2>1, <2>3, <2>4, <2>5, GotoTyped DEF Steps
<1>4. ASSUME NEW pass \in BOOLEAN, VerifyEnd(p, pass) PROVE TypeOK'
  <2>1. /\ reg[p].todo \in Seq(Name) /\ Len(reg[p].todo) = 1 /\ reg[p].started \in Nat
    BY <1>4 DEF VerifyEnd, TypeOK, RegisterOK, Register
  <2>2. runs' \in Seq(Verification)
    BY <1>4, <2>1 DEF VerifyEnd, TypeOK, Verification
  <2>3. Tables' /\ Onward
    BY <1>4, <2>2 DEF VerifyEnd, TypeOK, Tables, Onward
  <2> QED
    BY <1>4, <2>3, FinishTyped DEF VerifyEnd
<1>5. CASE GiveUp(p)
  BY <1>5, StandStill, FinishTyped DEF GiveUp
<1> QED
  BY <1>1, <1>2, <1>3, <1>4, <1>5 DEF VerifyStep

LEMMA TypeNext == TypeOK /\ [Next]_vars => TypeOK'
<1> SUFFICES ASSUME TypeOK, [Next]_vars PROVE TypeOK'
  OBVIOUS
<1>1. CASE UNCHANGED vars
  BY <1>1 DEF vars, TypeOK, RegisterOK
<1>2. CASE Next
  BY <1>2, OthersTyped, CommandsTyped, MergeTyped DEF Next
<1> QED
  BY <1>1, <1>2

\* Every command that goes on has the change and the names it goes on with
\* (collab.go queue merge, verify.go verify run).
THEOREM MergeTypes == Spec => []TypeOK
<1>1. Init => TypeOK
  BY TypeInit
<1>2. TypeOK /\ [Next]_vars => TypeOK'
  BY TypeNext
<1> QED
  BY <1>1, <1>2, PTL DEF Spec

-----------------------------------------------------------------------------
(* The gates.                                                              *)

\* The rows of rules, reviews, verifications and changes only ever grow.
Grows ==
  /\ Len(rules) <= Len(rules')
  /\ \A i \in 1 .. Len(rules) : rules'[i] = rules[i]
  /\ Len(runs) <= Len(runs')
  /\ \A i \in 1 .. Len(runs) : runs'[i] = runs[i]
  /\ \A c \in Change : reviews[c]["approve"] <= reviews'[c]["approve"]
  /\ \A c \in Change : changes[c] # NoChange =>
       changes'[c] # NoChange /\ changes'[c].base = changes[c].base

LEMMA StepsGrow ==
  ASSUME TypeOK, Next
  PROVE  Grows
<1>1. /\ Len(rules) \in Nat /\ Len(runs) \in Nat
      /\ \A c \in Change : reviews[c]["approve"] \in Nat
  BY DEF TypeOK, Decision
<1>2. ASSUME UNCHANGED <<changes, reviews, rules, runs>> PROVE Grows
  BY <1>1, <1>2 DEF Grows
<1>3. ASSUME NEW c \in Change, NEW b \in Branch, CreateChange(c, b) PROVE Grows
  BY <1>1, <1>3 DEF CreateChange, TypeOK, Grows
<1>4. ASSUME NEW c \in Change, NEW d \in Decision, Review(c, d) PROVE Grows
  BY <1>1, <1>4 DEF Review, TypeOK, Decision, Grows
<1>5. ASSUME NEW v, runs' = Append(runs, v), UNCHANGED <<changes, reviews, rules>> PROVE Grows
  BY <1>1, <1>5 DEF TypeOK, Grows
<1>6. ASSUME NEW p \in Proc, NEW rule \in Rule, AddRule(p, rule) PROVE Grows
  BY <1>1, <1>6 DEF AddRule, TypeOK, Grows
<1>7. ASSUME NEW p \in Proc, Mark(p) PROVE Grows
  <2>1. reg[p].change \in Change /\ changes[reg[p].change] \in ChangeRow
    BY <1>7 DEF Mark, TypeOK, RegisterOK, Steps
  <2>2. \A c \in Change : changes[c] # NoChange =>
          changes'[c] # NoChange /\ changes'[c].base = changes[c].base
    BY <1>7, <2>1 DEF Mark, TypeOK, ChangeRow, NoChange
  <2> QED
    BY <1>1, <1>7, <2>2 DEF Mark, Grows
<1>8. ASSUME NEW p \in Proc, MergeStep(p) PROVE Grows
  BY <1>2, <1>7, <1>8 DEF MergeStep, MergeBegin, ReadRule, ReadRuleFails, CountApprovals, CheckEvidence,
     Clone, CheckBase, ReportMerge, tables
<1>9. ASSUME NEW p \in Proc, VerifyStep(p) PROVE Grows
  BY <1>2, <1>5, <1>9 DEF VerifyStep, VerifyBegin, VerifyEnd
<1> QED
  BY <1>2, <1>3, <1>4, <1>5, <1>6, <1>8, <1>9
     DEF Next, Push, VerifyAdd, InstallPreReceive, GiveUp, tables

\* What the rule in force among the first n asks for is done, since there were f
\* verifications.
Held(c, n, f) ==
  \A i \in 1 .. Len(rules) : IsFirst(i, changes[c].base, n) => Satisfied(rules[i], c, f)

\* Where a merge stands that has rule i in front of it: it goes on with that
\* rule, and the names that are not to be looked up any more have been.
Standing(p, i) ==
  /\ pc[p] = "reviews" => reg[p].min = rules[i].min /\ reg[p].todo = rules[i].required
  /\ pc[p] = "evidence" =>
       /\ Approvals(reg[p].change) >= rules[i].min
       /\ \A k \in DOMAIN rules[i].required :
            \/ Executed(rules[i].required[k], reg[p].runs)
            \/ \E j \in DOMAIN reg[p].todo : reg[p].todo[j] = rules[i].required[k]

\* That rule is the one in force, and after the gates everything is done.  A
\* merge that could not read its rule has none in front of it.
Gated(p) ==
  /\ pc[p] = "rule" => reg[p].rules = 0 /\ reg[p].runs = 0
  /\ pc[p] \in Steps => reg[p].rules <= Len(rules) /\ reg[p].runs <= Len(runs)
  /\ \A i \in 1 .. Len(rules) :
       IsFirst(i, changes[reg[p].change].base, reg[p].rules) => Standing(p, i)
  /\ pc[p] \in {"clone", "check", "report", "mark"} =>
       Held(reg[p].change, reg[p].rules, reg[p].runs)

GateInv ==
  /\ \A p \in Proc : Gated(p)
  /\ \A m \in reported : /\ m.rules <= Len(rules) /\ changes[m.change] # NoChange
                         /\ Held(m.change, m.rules, m.runs)

LEMMA ExecutedStays ==
  ASSUME Grows, TypeOK, TypeOK', NEW n, NEW f \in Nat, Executed(n, f)
  PROVE  Executed(n, f)'
<1>1. PICK k \in f .. Len(runs) :
        \E i \in 1 .. k :
          /\ runs[i].name = n /\ Passing(i)
          /\ \A j \in 1 .. k : runs[j].name = n => runs[j].started <= runs[i].started
  BY DEF Executed
<1>2. Len(runs) \in Nat /\ Len(runs') \in Nat /\ Len(runs) <= Len(runs')
  BY DEF TypeOK, Grows
<1>3. k \in f .. Len(runs') /\ \A i \in 1 .. k : runs'[i] = runs[i]
  BY <1>2 DEF Grows
<1>4. \E i \in 1 .. k :
        /\ runs'[i].name = n /\ Passing(i)'
        /\ \A j \in 1 .. k : runs'[j].name = n => runs'[j].started <= runs'[i].started
  BY <1>1, <1>3 DEF Passing
<1> QED
  BY <1>3, <1>4 DEF Executed

LEMMA FirstStays ==
  ASSUME Grows, TypeOK, TypeOK', NEW c \in Change, changes[c] # NoChange,
         NEW n \in Nat, n <= Len(rules),
         NEW i \in 1 .. Len(rules'), IsFirst(i, changes[c].base, n)'
  PROVE  /\ i \in 1 .. Len(rules) /\ IsFirst(i, changes[c].base, n)
         /\ rules'[i] = rules[i] /\ changes'[c].base = changes[c].base
<1>1. Len(rules) \in Nat /\ Len(rules') \in Nat
  BY DEF TypeOK
<1>2. i \in 1 .. n /\ \A j \in 1 .. n : rules'[j].pattern = changes'[c].base => i <= j
  BY DEF IsFirst
<1>3. rules'[i].pattern = changes'[c].base
  BY DEF IsFirst
<1>4. /\ \A j \in 1 .. n : rules'[j] = rules[j]
      /\ i \in 1 .. Len(rules) /\ changes'[c].base = changes[c].base
  BY <1>1, <1>2 DEF Grows
<1> QED
  BY <1>2, <1>3, <1>4 DEF IsFirst

LEMMA SatisfiedStays ==
  ASSUME Grows, TypeOK, TypeOK', NEW c \in Change, NEW rule \in Rule,
         NEW f \in Nat, Satisfied(rule, c, f)
  PROVE  Satisfied(rule, c, f)'
<1>1. Approvals(c) >= rule.min => Approvals(c)' >= rule.min
  BY MergeAssumption DEF Grows, TypeOK, Approvals, Decision, Rule
<1> QED
  BY <1>1, ExecutedStays DEF Satisfied, Approvals

LEMMA HeldStays ==
  ASSUME Grows, TypeOK, TypeOK', NEW c \in Change, changes[c] # NoChange,
         NEW n \in Nat, n <= Len(rules), NEW f \in Nat, Held(c, n, f)
  PROVE  Held(c, n, f)'
<1> SUFFICES ASSUME NEW i \in 1 .. Len(rules'), IsFirst(i, changes[c].base, n)'
             PROVE  Satisfied(rules[i], c, f)'
  BY DEF Held
<1>1. /\ i \in 1 .. Len(rules) /\ IsFirst(i, changes[c].base, n) /\ rules'[i] = rules[i]
  BY FirstStays
<1>2. Satisfied(rules[i], c, f) /\ rules[i] \in Rule
  BY <1>1 DEF Held, TypeOK
<1>3. ASSUME NEW rule \in Rule, rule = rules[i] PROVE Satisfied(rule, c, f)'
  BY <1>2, <1>3, SatisfiedStays
<1> QED
  BY <1>1, <1>2, <1>3 DEF Satisfied

\* A command that does not move stays gated.
LEMMA GatedStays ==
  ASSUME Grows, TypeOK, TypeOK', NEW p \in Proc, Gated(p),
         pc'[p] = pc[p], reg'[p] = reg[p]
  PROVE  Gated(p)'
<1> DEFINE c == reg[p].change
           n == reg[p].rules
           f == reg[p].runs
<1>1. CASE pc[p] \notin Steps
  BY <1>1 DEF Gated, Standing, Steps
<1>2. CASE pc[p] \in Steps
  <2>1. /\ c \in Change /\ changes[c] # NoChange /\ n \in Nat /\ n <= Len(rules)
        /\ f \in Nat /\ f <= Len(runs)
        /\ Len(rules) \in Nat /\ Len(rules') \in Nat
        /\ Len(runs) \in Nat /\ Len(runs') \in Nat
    BY <1>2 DEF TypeOK, RegisterOK, Register, Gated
  <2>2. n <= Len(rules') /\ f <= Len(runs')
    BY <2>1 DEF Grows
  <2>3. pc[p] \in {"clone", "check", "report", "mark"} => Held(c, n, f)'
    BY <2>1, HeldStays DEF Gated
  <2>4. ASSUME NEW i \in 1 .. Len(rules'), IsFirst(i, changes[c].base, n)'
        PROVE  Standing(p, i)'
    <3>1. /\ i \in 1 .. Len(rules) /\ IsFirst(i, changes[c].base, n) /\ rules'[i] = rules[i]
      BY <2>1, <2>4, FirstStays
    <3>2. Approvals(c) >= rules[i].min => Approvals(c)' >= rules[i].min
      <4>1. rules[i].min \in Nat
        BY <3>1, ReadsRule
      <4>2. /\ reviews[c]["approve"] \in Nat /\ reviews'[c]["approve"] \in Nat
            /\ reviews[c]["approve"] <= reviews'[c]["approve"]
        BY <2>1 DEF Grows, TypeOK, Decision
      <4> QED
        BY <4>1, <4>2 DEF Approvals
    <3>3. Standing(p, i)
      BY <3>1 DEF Gated
    <3>4. ASSUME NEW k \in DOMAIN rules[i].required, Executed(rules[i].required[k], f)
          PROVE  Executed(rules[i].required[k], f)'
      <4>1. PICK m : m = rules[i].required[k]
        OBVIOUS
      <4>3. PICK g \in Nat : g = f
        BY <2>1
      <4>4. Executed(m, g)
        BY <3>4, <4>1, <4>3, Zenon
      <4>2. Executed(m, g)'
        BY <4>4, ExecutedStays
      <4>5. m = rules'[i].required[k] /\ g = f'
        BY <3>1, <4>1, <4>3
      <4> QED
        BY <4>2, <4>5 DEF Executed
    <3> QED
      BY <3>1, <3>2, <3>3, <3>4 DEF Standing
  <2> QED
    BY <1>2, <2>2, <2>3, <2>4 DEF Gated
<1> QED
  BY <1>1, <1>2

LEMMA GotoPlaces ==
  ASSUME TypeOK, NEW p \in Proc, NEW to, NEW r, Goto(p, to, r)
  PROVE  /\ pc'[p] = to /\ reg'[p] = r
         /\ \A q \in Proc : q # p => pc'[q] = pc[q] /\ reg'[q] = reg[q]
  BY DEF Goto, TypeOK

LEMMA FinishGated ==
  ASSUME TypeOK, NEW p \in Proc, NEW to \in {"idle", "hook", "verify"},
         NEW r, Goto(p, to, r)
  PROVE  Gated(p)'
<1>1. pc'[p] = to
  BY GotoPlaces
<1> QED
  BY <1>1 DEF Gated, Standing, Steps

\* A merge that is past the gates stays past them.
LEMMA PastGates ==
  ASSUME TypeOK, TypeOK', Grows, NEW p \in Proc,
         pc[p] \in Steps, reg[p].rules <= Len(rules), reg[p].runs <= Len(runs),
         Held(reg[p].change, reg[p].rules, reg[p].runs),
         pc'[p] \in {"clone", "check", "report", "mark"},
         reg'[p].change = reg[p].change, reg'[p].rules = reg[p].rules,
         reg'[p].runs = reg[p].runs
  PROVE  Gated(p)'
<1>1. PICK c \in Change : c = reg[p].change
  BY DEF TypeOK, RegisterOK
<1>2. PICK n \in Nat, f \in Nat : n = reg[p].rules /\ f = reg[p].runs
  BY DEF TypeOK, Register
<1>3. changes[c] # NoChange /\ n <= Len(rules) /\ f <= Len(runs) /\ Held(c, n, f)
  BY <1>1, <1>2 DEF TypeOK, RegisterOK
<1>4. Held(c, n, f)'
  BY <1>3, HeldStays
<1>5. n <= Len(rules') /\ f <= Len(runs')
  BY <1>3 DEF Grows, TypeOK
<1>6. Held(reg[p].change, reg[p].rules, reg[p].runs)'
  BY <1>1, <1>2, <1>4 DEF Held
<1> QED
  BY <1>1, <1>2, <1>5, <1>6 DEF Gated, Standing

LEMMA MergeGated ==
  ASSUME TypeOK, TypeOK', Grows, GateInv, NEW p \in Proc, MergeStep(p)
  PROVE  Gated(p)'
<1>1. /\ Gated(p) /\ RegisterOK(p) /\ reg[p] \in Register /\ Len(rules) \in Nat /\ Len(runs) \in Nat
      /\ reg[p].todo \in Seq(Name)
  BY DEF GateInv, TypeOK, Register
<1>2. ASSUME NEW c \in Change, MergeBegin(p, c) PROVE Gated(p)'
  <2> DEFINE r == [Blank EXCEPT !.change = c, !.said = tip[changes[c].base]]
  <2>1. r.rules = 0 /\ r.runs = 0
    BY DEF Blank
  <2> HIDE DEF r
  <2>2. pc'[p] = "rule" /\ reg'[p] = r
    BY <1>2, GotoPlaces DEF MergeBegin, r
  <2>3. Len(rules') \in Nat /\ Len(runs') \in Nat
    BY DEF TypeOK
  <2> QED
    BY <2>1, <2>2, <2>3 DEF Gated, IsFirst
<1>3. CASE ReadRule(p)
  <2> DEFINE b == changes[reg[p].change].base
             n == Len(rules)
             f == Len(runs)
             r == [reg[p] EXCEPT !.read = TRUE, !.rules = n, !.runs = f]
  <2>1. UNCHANGED <<changes, rules, runs>>
    BY <1>3 DEF ReadRule, tables
  <2>4. r \in Register /\ r.change = reg[p].change /\ r.rules = n /\ r.runs = f
    BY <1>1 DEF Register
  <2>5. \/ \E i \in 1 .. n :
            /\ IsFirst(i, b, n)
            /\ Goto(p, "reviews", [r EXCEPT !.min = rules[i].min, !.todo = rules[i].required])
        \/ /\ \A i \in 1 .. n : rules[i].pattern # b
           /\ Goto(p, "reviews", r)
    BY <1>3 DEF ReadRule
  <2> HIDE DEF r
  <2>2. ASSUME NEW i \in 1 .. n, IsFirst(i, b, n),
               Goto(p, "reviews", [r EXCEPT !.min = rules[i].min, !.todo = rules[i].required])
        PROVE  Gated(p)'
    <3>1. /\ pc'[p] = "reviews" /\ reg'[p].change = reg[p].change
          /\ reg'[p].rules = n /\ reg'[p].runs = f
          /\ reg'[p].min = rules[i].min /\ reg'[p].todo = rules[i].required
      <4> DEFINE u == [r EXCEPT !.min = rules[i].min, !.todo = rules[i].required]
      <4>1. /\ u.change = reg[p].change /\ u.rules = n /\ u.runs = f
            /\ u.min = rules[i].min /\ u.todo = rules[i].required
        BY <2>4 DEF Register
      <4> HIDE DEF u
      <4>2. pc'[p] = "reviews" /\ reg'[p] = u
        BY <2>2, GotoPlaces DEF u
      <4> QED
        BY <4>1, <4>2
    <3>2. ASSUME NEW j \in 1 .. n, IsFirst(j, b, n) PROVE j = i
      BY <1>1, <2>2, <3>2 DEF IsFirst
    <3> QED
      BY <1>1, <2>1, <3>1, <3>2 DEF Gated, Standing, IsFirst
  <2>3. ASSUME \A i \in 1 .. n : rules[i].pattern # b, Goto(p, "reviews", r)
        PROVE  Gated(p)'
    <3>1. /\ pc'[p] = "reviews" /\ reg'[p].change = reg[p].change
          /\ reg'[p].rules = n /\ reg'[p].runs = f
      BY <2>3, <2>4, GotoPlaces
    <3> QED
      BY <1>1, <2>1, <2>3, <3>1 DEF Gated, IsFirst
  <2> QED
    BY <2>2, <2>3, <2>5
<1>10. CASE ReadRuleFails(p)
  <2>1. pc[p] = "rule" /\ pc'[p] = "reviews" /\ reg'[p] = reg[p] /\ UNCHANGED tables
    BY <1>10, GotoPlaces DEF ReadRuleFails
  <2>2. reg'[p].rules = 0 /\ reg'[p].runs = 0
    BY <1>1, <2>1 DEF Gated
  <2>3. Len(rules') \in Nat /\ Len(runs') \in Nat
    BY DEF TypeOK
  <2> QED
    BY <2>1, <2>2, <2>3 DEF Gated, IsFirst
<1>4. CASE CountApprovals(p)
  <2>1. /\ pc[p] = "reviews" /\ UNCHANGED <<tip, tables>> /\ reg'[p] = reg[p]
        /\ pc'[p] = IF reg[p].todo = <<>> THEN "clone" ELSE "evidence"
        /\ Approvals(reg[p].change) >= reg[p].min
    BY <1>4, GotoPlaces DEF CountApprovals
  <2>2. reg[p].rules <= Len(rules) /\ reg[p].runs <= Len(runs)
    BY <1>1, <2>1 DEF Gated, Steps
  <2>3. CASE reg[p].todo = <<>>
    <3>1. ASSUME NEW i \in 1 .. Len(rules),
                 IsFirst(i, changes[reg[p].change].base, reg[p].rules)
          PROVE  Satisfied(rules[i], reg[p].change, reg[p].runs)
      <4>1. reg[p].min = rules[i].min /\ rules[i].required = <<>>
        BY <1>1, <2>1, <2>3, <3>1 DEF Gated, Standing
      <4> QED
        BY <2>1, <4>1 DEF Satisfied, Approvals
    <3>2. Held(reg[p].change, reg[p].rules, reg[p].runs)
      BY <3>1 DEF Held
    <3> QED
      BY <2>1, <2>2, <2>3, <3>2, PastGates DEF Steps
  <2>4. CASE reg[p].todo # <<>>
    BY <1>1, <2>1, <2>2, <2>4 DEF Gated, Standing, IsFirst, Approvals, tables
  <2> QED
    BY <2>3, <2>4
<1>5. CASE CheckEvidence(p)
  <2> DEFINE s == reg[p].todo
  <2>1. /\ pc[p] = "evidence" /\ UNCHANGED <<tip, tables>>
        /\ pc'[p] = IF Len(s) = 1 THEN "clone" ELSE "evidence"
        /\ reg'[p].change = reg[p].change /\ reg'[p].rules = reg[p].rules
        /\ reg'[p].runs = reg[p].runs /\ reg'[p].todo = Tail(s)
    <3> DEFINE r == [reg[p] EXCEPT !.todo = Tail(@)]
    <3>1. /\ r.change = reg[p].change /\ r.rules = reg[p].rules
          /\ r.runs = reg[p].runs /\ r.todo = Tail(s)
      BY <1>1 DEF Register
    <3> HIDE DEF r
    <3>2. /\ pc[p] = "evidence" /\ UNCHANGED <<tip, tables>>
          /\ Goto(p, IF Len(s) = 1 THEN "clone" ELSE "evidence", r)
      BY <1>5 DEF CheckEvidence, r
    <3>3. pc'[p] = (IF Len(s) = 1 THEN "clone" ELSE "evidence") /\ reg'[p] = r
      BY <3>2, GotoPlaces
    <3> QED
      BY <3>1, <3>2, <3>3
  <2>2. reg[p].rules <= Len(rules) /\ reg[p].runs <= Len(runs)
    BY <1>1, <2>1 DEF Gated, Steps
  <2>3. Executed(s[1], reg[p].runs)
    <3>1. /\ Len(runs) \in reg[p].runs .. Len(runs)
          /\ DOMAIN runs = 1 .. Len(runs)
      BY <1>1, <2>2 DEF TypeOK, Register
    <3>2. PICK i \in 1 .. Len(runs) : IsLatest(i, s[1], Len(runs)) /\ Passing(i)
      BY <1>5, <3>1 DEF CheckEvidence
    <3> QED
      BY <3>1, <3>2 DEF IsLatest, Executed
  <2>4. /\ s # <<>> /\ Len(s) \in Nat \ {0} /\ DOMAIN s = 1 .. Len(s)
        /\ DOMAIN Tail(s) = 1 .. Len(s) - 1
        /\ \A j \in 1 .. Len(s) - 1 : Tail(s)[j] = s[j + 1]
    <3>1. s # <<>>
      BY <1>1, <2>1 DEF RegisterOK
    <3> QED
      BY <1>1, <3>1, EmptySeq
  <2>5. ASSUME NEW i \in 1 .. Len(rules),
               IsFirst(i, changes[reg[p].change].base, reg[p].rules)
        PROVE  /\ Approvals(reg[p].change) >= rules[i].min
               /\ \A k \in DOMAIN rules[i].required :
                    \/ Executed(rules[i].required[k], reg[p].runs)
                    \/ \E j \in 1 .. Len(s) - 1 : Tail(s)[j] = rules[i].required[k]
    <3>1. Standing(p, i)
      BY <1>1, <2>5 DEF Gated
    <3>2. ASSUME NEW k \in DOMAIN rules[i].required, ~Executed(rules[i].required[k], reg[p].runs)
          PROVE  \E j \in 1 .. Len(s) - 1 : Tail(s)[j] = rules[i].required[k]
      <4>1. PICK j \in 1 .. Len(s) : s[j] = rules[i].required[k]
        BY <2>1, <2>4, <3>1, <3>2 DEF Standing
      <4>2. j # 1
        BY <2>3, <3>2, <4>1
      <4>3. j - 1 \in 1 .. Len(s) - 1 /\ Tail(s)[j - 1] = s[j]
        BY <2>4, <4>2
      <4> QED
        BY <4>1, <4>3
    <3> QED
      BY <2>1, <3>1, <3>2 DEF Standing
  <2>6. CASE Len(s) = 1
    <3>1. Held(reg[p].change, reg[p].rules, reg[p].runs)
      BY <2>5, <2>6 DEF Held, Satisfied, Approvals
    <3> QED
      BY <2>1, <2>2, <2>6, <3>1, PastGates DEF Steps
  <2>7. CASE Len(s) # 1
    <3>1. pc'[p] = "evidence"
      BY <2>1, <2>7
    <3>2. ASSUME NEW i \in 1 .. Len(rules'),
                 IsFirst(i, changes[reg[p].change].base, reg[p].rules)'
          PROVE  Standing(p, i)'
      <4>1. i \in 1 .. Len(rules) /\ IsFirst(i, changes[reg[p].change].base, reg[p].rules)
        BY <2>1, <3>2 DEF IsFirst, tables
      <4>2. rules'[i] = rules[i] /\ runs' = runs /\ reviews' = reviews
        BY <2>1 DEF tables
      <4>3. Approvals(reg[p].change)' >= rules'[i].min
        BY <2>1, <2>5, <4>1, <4>2 DEF Approvals
      <4>4. ASSUME NEW k \in DOMAIN rules[i].required
            PROVE  \/ Executed(rules[i].required[k], reg[p].runs)'
                   \/ \E j \in DOMAIN reg'[p].todo : reg'[p].todo[j] = rules'[i].required[k]
        <5>1. CASE Executed(rules[i].required[k], reg[p].runs)
          BY <2>1, <4>2, <5>1 DEF Executed, Passing
        <5>2. CASE \E j \in 1 .. Len(s) - 1 : Tail(s)[j] = rules[i].required[k]
          BY <2>1, <2>4, <4>2, <5>2
        <5> QED
          BY <2>5, <4>1, <5>1, <5>2
      <4> QED
        BY <3>1, <4>2, <4>3, <4>4 DEF Standing
    <3> QED
      BY <2>1, <2>2, <3>1, <3>2 DEF Gated, tables
  <2> QED
    BY <2>6, <2>7
<1>6. CASE Clone(p)
  <2>1. /\ pc[p] = "clone" /\ pc'[p] = "check"
        /\ reg'[p].change = reg[p].change /\ reg'[p].rules = reg[p].rules
        /\ reg'[p].runs = reg[p].runs
    BY <1>1, <1>6, GotoPlaces DEF Clone, Register
  <2> QED
    BY <1>1, <2>1, PastGates DEF Gated, Steps
<1>7. CASE CheckBase(p)
  <2>1. pc[p] = "check" /\ pc'[p] = "report" /\ reg'[p] = reg[p]
    BY <1>7, GotoPlaces DEF CheckBase
  <2> QED
    BY <1>1, <2>1, PastGates DEF Gated, Steps
<1>8. CASE ReportMerge(p)
  <2>1. pc[p] = "report" /\ pc'[p] = "mark" /\ reg'[p] = reg[p]
    BY <1>8, GotoPlaces DEF ReportMerge
  <2> QED
    BY <1>1, <2>1, PastGates DEF Gated, Steps
<1>9. CASE Mark(p)
  BY <1>9, FinishGated DEF Mark, Finish
<1> QED
  BY <1>2, <1>3, <1>4, <1>5, <1>6, <1>7, <1>8, <1>9, <1>10 DEF MergeStep

LEMMA ReportsHeld ==
  ASSUME TypeOK, TypeOK', Grows, GateInv, Next
  PROVE  \A m \in reported' : /\ m.rules <= Len(rules') /\ changes'[m.change] # NoChange
                              /\ Held(m.change, m.rules, m.runs)'
<1>1. ASSUME NEW m \in reported
      PROVE  /\ m.rules <= Len(rules') /\ changes'[m.change] # NoChange
             /\ Held(m.change, m.rules, m.runs)'
  <2>1. /\ m.change \in Change /\ m.rules \in Nat /\ m.rules <= Len(rules)
        /\ m.runs \in Nat /\ changes[m.change] # NoChange /\ Held(m.change, m.rules, m.runs)
    BY DEF TypeOK, Report, GateInv
  <2>2. changes'[m.change] # NoChange
    BY <2>1 DEF Grows
  <2>3. m.rules <= Len(rules')
    BY <2>1 DEF Grows, TypeOK
  <2> QED
    BY <2>1, <2>2, <2>3, HeldStays
<1>2. ASSUME NEW p \in Proc, ReportMerge(p), NEW m \in reported', m \notin reported
      PROVE  /\ m.rules <= Len(rules') /\ changes'[m.change] # NoChange
             /\ Held(m.change, m.rules, m.runs)'
  <2>1. /\ pc[p] = "report" /\ m.change = reg[p].change /\ m.rules = reg[p].rules
        /\ m.runs = reg[p].runs
        /\ UNCHANGED <<changes, rules, runs, reviews>>
    BY <1>2 DEF ReportMerge
  <2>2. /\ m.change \in Change /\ m.rules \in Nat /\ m.rules <= Len(rules)
        /\ m.runs \in Nat /\ changes[m.change] # NoChange /\ Held(m.change, m.rules, m.runs)
    BY <2>1 DEF GateInv, Gated, TypeOK, RegisterOK, Register, Steps
  <2> QED
    BY <2>1, <2>2, HeldStays
<1>3. \/ reported' = reported
      \/ \E p \in Proc : ReportMerge(p)
  BY DEF Next, Push, CreateChange, Review, VerifyAdd, AddRule, InstallPreReceive, VerifyStep,
     VerifyBegin, VerifyEnd, GiveUp, MergeStep, MergeBegin, ReadRule, ReadRuleFails, CountApprovals,
     CheckEvidence, Clone, CheckBase, Mark, tables
<1> QED
  BY <1>1, <1>2, <1>3

LEMMA GatesNext == TypeOK /\ GateInv /\ [Next]_vars => GateInv'
<1> SUFFICES ASSUME TypeOK, GateInv, [Next]_vars PROVE GateInv'
  OBVIOUS
<1>1. CASE UNCHANGED vars
  BY <1>1 DEF vars, GateInv, Gated, Standing, Held, Satisfied, Executed, Passing, Approvals, IsFirst
<1>2. CASE Next
  <2>1. TypeOK' /\ Grows
    BY <1>2, TypeNext, StepsGrow
  <2>2. ASSUME NEW q \in Proc, pc'[q] = pc[q], reg'[q] = reg[q] PROVE Gated(q)'
    BY <2>1, <2>2, GatedStays DEF GateInv
  <2>3. ASSUME NEW p \in Proc, NEW q \in Proc, NEW to, NEW r, Goto(p, to, r), q # p
        PROVE  Gated(q)'
    BY <2>2, <2>3, GotoPlaces
  <2>4. ASSUME NEW p \in Proc, MergeStep(p) PROVE \A q \in Proc : Gated(q)'
    <3>1. Gated(p)'
      BY <2>1, <2>4, MergeGated
    <3>2. \E to, r : Goto(p, to, r)
      BY <2>4 DEF MergeStep, MergeBegin, ReadRule, ReadRuleFails, CountApprovals, CheckEvidence, Clone,
         CheckBase, ReportMerge, Mark, Finish
    <3> QED
      BY <2>3, <3>1, <3>2
  <2>5. ASSUME NEW p \in Proc, NEW to \in {"idle", "hook", "verify"}, NEW r, Goto(p, to, r)
        PROVE  \A q \in Proc : Gated(q)'
    BY <2>3, <2>5, FinishGated
  <2>6. ASSUME UNCHANGED <<pc, reg>> PROVE \A q \in Proc : Gated(q)'
    BY <2>2, <2>6
  <2>7. ASSUME NEW p \in Proc, NEW rule \in Rule, AddRule(p, rule)
        PROVE  \A q \in Proc : Gated(q)'
    BY <2>5, <2>6, <2>7 DEF AddRule
  <2>8. ASSUME NEW p \in Proc, InstallPreReceive(p) \/ VerifyStep(p) \/ GiveUp(p)
        PROVE  \A q \in Proc : Gated(q)'
    BY <2>5, <2>8 DEF InstallPreReceive, VerifyStep, VerifyBegin, VerifyEnd, GiveUp, Finish
  <2>9. \A q \in Proc : Gated(q)'
    BY <1>2, <2>4, <2>6, <2>7, <2>8 DEF Next, Push, CreateChange, Review, VerifyAdd
  <2> QED
    BY <1>2, <2>1, <2>9, ReportsHeld DEF GateInv
<1> QED
  BY <1>1, <1>2

\* What is reported as prepared has the approvals and the executed evidence that
\* the rule in force asked for (collab.go queue merge, gate 1).
THEOREM GatesHold == Spec => []GateHeld
<1>1. Init => GateInv
  BY DEF Init, GateInv, Gated, Standing, Steps
<1>2. TypeOK /\ GateInv /\ [Next]_vars => GateInv'
  BY GatesNext
<1>3. GateInv => GateHeld
  BY DEF GateInv, Held, GateHeld
<1> QED
  BY <1>1, <1>2, <1>3, MergeTypes, PTL DEF Spec

-----------------------------------------------------------------------------
(* The base.                                                               *)

LEMMA BranchesOnward ==
  ASSUME TypeOK, ~Resets, Next
  PROVE  \A b \in Branch : tip[b] \in Nat /\ tip'[b] \in Nat /\ tip[b] <= tip'[b]
<1>1. \A b \in Branch : tip[b] \in Nat /\ tip'[b] \in Nat
  BY TypeNext, MergeAssumption DEF TypeOK
<1>2. ASSUME NEW b \in Branch, NEW k \in 1 .. MaxTip, Push(b, k)
      PROVE  \A d \in Branch : tip[d] <= tip'[d]
  BY <1>1, <1>2, MergeAssumption DEF Push, TypeOK
<1>3. ASSUME tip' = tip PROVE \A d \in Branch : tip[d] <= tip'[d]
  BY <1>1, <1>3
<1> QED
  BY <1>1, <1>2, <1>3 DEF Next, CreateChange, Review, VerifyAdd, AddRule, InstallPreReceive,
     VerifyStep, VerifyBegin, VerifyEnd, GiveUp, MergeStep, MergeBegin, ReadRule,
     ReadRuleFails, CountApprovals, CheckEvidence, Clone, CheckBase, ReportMerge, Mark

\* What a merge has read of its base is behind what it has cloned, and that is
\* behind what there is; the check brings the three together.
Based(p) ==
  pc[p] \in Steps =>
    /\ reg[p].said <= tip[changes[reg[p].change].base]
    /\ pc[p] = "check" => /\ reg[p].said <= reg[p].onto
                          /\ reg[p].onto <= tip[changes[reg[p].change].base]
    /\ pc[p] \in {"report", "mark"} => reg[p].onto = reg[p].said

BaseInv == (\A p \in Proc : Based(p)) /\ PreparedOnSaid

\* A command that does not move stays behind its base.
LEMMA BasedStays ==
  ASSUME TypeOK, ~Resets, Next, NEW p \in Proc, Based(p), pc'[p] = pc[p], reg'[p] = reg[p]
  PROVE  Based(p)'
<1>1. CASE pc[p] \notin Steps
  BY <1>1 DEF Based
<1>2. CASE pc[p] \in Steps
  <2>1. /\ reg[p].change \in Change /\ changes[reg[p].change] # NoChange
        /\ reg[p].said \in Nat /\ reg[p].onto \in Nat
    BY <1>2 DEF TypeOK, RegisterOK, Register
  <2>2. PICK c \in Change : c = reg[p].change
    BY <2>1
  <2>3. changes'[c].base = changes[c].base /\ changes[c].base \in Branch
    BY <2>1, <2>2, StepsGrow, ReadsTip DEF Grows
  <2> QED
    BY <1>2, <2>1, <2>2, <2>3, BranchesOnward DEF Based
<1> QED
  BY <1>1, <1>2

LEMMA MergeBased ==
  ASSUME TypeOK, ~Resets, BaseInv, NEW p \in Proc, MergeStep(p)
  PROVE  Based(p)'
<1>1. /\ Based(p) /\ RegisterOK(p) /\ reg[p] \in Register
      /\ reg[p].said \in Nat /\ reg[p].onto \in Nat
  BY DEF BaseInv, TypeOK, Register
<1>2. pc[p] \in Steps =>
        /\ reg[p].change \in Change /\ changes[reg[p].change] # NoChange
        /\ tip[changes[reg[p].change].base] \in Nat
  BY <1>1, ReadsTip DEF RegisterOK
<1>3. ASSUME NEW to \in Steps \ {"check", "report", "mark"}, NEW r, Goto(p, to, r),
             pc[p] \in Steps, UNCHANGED <<tip, changes>>,
             r.change = reg[p].change, r.said = reg[p].said
      PROVE  Based(p)'
  BY <1>1, <1>2, <1>3, GotoPlaces DEF Based, Steps
<1>4. ASSUME NEW c \in Change, MergeBegin(p, c) PROVE Based(p)'
  <2> DEFINE r == [Blank EXCEPT !.change = c, !.said = tip[changes[c].base]]
  <2>1. r.change = c /\ r.said = tip[changes[c].base]
    BY BlankTyped DEF Register
  <2> HIDE DEF r
  <2>2. pc'[p] = "rule" /\ reg'[p] = r /\ UNCHANGED <<tip, changes>> /\ changes[c] # NoChange
    BY <1>4, GotoPlaces DEF MergeBegin, tables, r
  <2>3. tip[changes[c].base] \in Nat
    BY <2>2, ReadsTip
  <2> QED
    BY <2>1, <2>2, <2>3 DEF Based
<1>5. CASE ReadRule(p)
  <2>1. pc[p] = "rule" /\ UNCHANGED <<tip, changes>>
    BY <1>5 DEF ReadRule, tables
  <2>2. ASSUME NEW r, r.change = reg[p].change, r.said = reg[p].said, Goto(p, "reviews", r)
        PROVE  Based(p)'
    BY <1>3, <2>1, <2>2 DEF Steps
  <2> DEFINE r == [reg[p] EXCEPT !.read = TRUE, !.rules = Len(rules), !.runs = Len(runs)]
  <2>3. Len(rules) \in Nat /\ Len(runs) \in Nat
    BY DEF TypeOK
  <2>4. r \in Register /\ r.change = reg[p].change /\ r.said = reg[p].said
    BY <1>1, <2>3 DEF Register
  <2>5. \/ \E i \in 1 .. Len(rules) :
            Goto(p, "reviews", [r EXCEPT !.min = rules[i].min, !.todo = rules[i].required])
        \/ Goto(p, "reviews", r)
    BY <1>5 DEF ReadRule
  <2> HIDE DEF r
  <2>6. \A i \in 1 .. Len(rules) :
          LET u == [r EXCEPT !.min = rules[i].min, !.todo = rules[i].required]
          IN  u.change = reg[p].change /\ u.said = reg[p].said
    BY <2>4 DEF Register
  <2> QED
    BY <2>2, <2>4, <2>5, <2>6
<1>12. CASE ReadRuleFails(p)
  BY <1>3, <1>12 DEF ReadRuleFails, tables, Steps
<1>6. CASE CountApprovals(p)
  BY <1>3, <1>6 DEF CountApprovals, tables, Steps
<1>7. CASE CheckEvidence(p)
  <2> DEFINE r == [reg[p] EXCEPT !.todo = Tail(@)]
  <2>1. r.change = reg[p].change /\ r.said = reg[p].said
    BY <1>1 DEF Register
  <2> HIDE DEF r
  <2>2. /\ pc[p] = "evidence" /\ UNCHANGED <<tip, changes>>
        /\ Goto(p, IF Len(reg[p].todo) = 1 THEN "clone" ELSE "evidence", r)
    BY <1>7 DEF CheckEvidence, tables, r
  <2> QED
    BY <1>3, <2>1, <2>2 DEF Steps
<1>8. CASE Clone(p)
  <2> DEFINE r == [reg[p] EXCEPT !.onto = tip[changes[reg[p].change].base]]
  <2>1. /\ r.change = reg[p].change /\ r.said = reg[p].said
        /\ r.onto = tip[changes[reg[p].change].base]
    BY <1>1 DEF Register
  <2> HIDE DEF r
  <2>2. pc[p] = "clone" /\ pc'[p] = "check" /\ reg'[p] = r /\ UNCHANGED <<tip, changes>>
    BY <1>8, GotoPlaces DEF Clone, tables, r
  <2> QED
    BY <1>1, <1>2, <2>1, <2>2 DEF Based, Steps
<1>9. CASE CheckBase(p)
  <2>1. /\ pc[p] = "check" /\ pc'[p] = "report" /\ reg'[p] = reg[p]
        /\ tip[changes[reg[p].change].base] = reg[p].said /\ UNCHANGED <<tip, changes>>
    BY <1>9, GotoPlaces DEF CheckBase, tables
  <2> QED
    BY <1>1, <1>2, <2>1 DEF Based, Steps
<1>10. CASE ReportMerge(p)
  <2>1. /\ pc[p] = "report" /\ pc'[p] = "mark" /\ reg'[p] = reg[p]
        /\ UNCHANGED <<tip, changes>>
    BY <1>10, GotoPlaces DEF ReportMerge
  <2> QED
    BY <1>1, <1>2, <2>1 DEF Based, Steps
<1>11. CASE Mark(p)
  <2>1. pc'[p] = "idle"
    BY <1>11, GotoPlaces DEF Mark, Finish
  <2> QED
    BY <2>1 DEF Based, Steps
<1> QED
  BY <1>4, <1>5, <1>6, <1>7, <1>8, <1>9, <1>10, <1>11, <1>12 DEF MergeStep

LEMMA BaseNext == TypeOK /\ BaseInv /\ ~Resets /\ [Next]_vars => BaseInv'
<1> SUFFICES ASSUME TypeOK, BaseInv, ~Resets, [Next]_vars PROVE BaseInv'
  OBVIOUS
<1>1. CASE UNCHANGED vars
  BY <1>1 DEF vars, BaseInv, Based, PreparedOnSaid
<1>2. CASE Next
  <2>1. ASSUME NEW q \in Proc, pc'[q] = pc[q], reg'[q] = reg[q] PROVE Based(q)'
    BY <1>2, <2>1, BasedStays DEF BaseInv
  <2>2. ASSUME NEW p \in Proc, MergeStep(p) PROVE \A q \in Proc : Based(q)'
    <3>1. Based(p)'
      BY <2>2, MergeBased
    <3>2. \E to, r : Goto(p, to, r)
      BY <2>2 DEF MergeStep, MergeBegin, ReadRule, ReadRuleFails, CountApprovals, CheckEvidence, Clone,
         CheckBase, ReportMerge, Mark, Finish
    <3> QED
      BY <2>1, <3>1, <3>2, GotoPlaces
  <2>3. ASSUME NEW p \in Proc, NEW to \in {"idle", "hook", "verify"}, NEW r, Goto(p, to, r)
        PROVE  \A q \in Proc : Based(q)'
    <3>1. pc'[p] = to /\ \A q \in Proc : q # p => pc'[q] = pc[q] /\ reg'[q] = reg[q]
      BY <2>3, GotoPlaces
    <3> QED
      BY <2>1, <3>1 DEF Based, Steps
  <2>4. ASSUME UNCHANGED <<pc, reg>> PROVE \A q \in Proc : Based(q)'
    BY <2>1, <2>4
  <2>5. ASSUME NEW p \in Proc, NEW rule \in Rule, AddRule(p, rule)
        PROVE  \A q \in Proc : Based(q)'
    BY <2>3, <2>4, <2>5 DEF AddRule
  <2>6. ASSUME NEW p \in Proc, InstallPreReceive(p) \/ VerifyStep(p) \/ GiveUp(p)
        PROVE  \A q \in Proc : Based(q)'
    BY <2>3, <2>6 DEF InstallPreReceive, VerifyStep, VerifyBegin, VerifyEnd, GiveUp, Finish
  <2>7. \A q \in Proc : Based(q)'
    BY <1>2, <2>2, <2>4, <2>5, <2>6 DEF Next, Push, CreateChange, Review, VerifyAdd
  <2>8. ASSUME NEW p \in Proc, ReportMerge(p) PROVE PreparedOnSaid'
    BY <2>8 DEF ReportMerge, BaseInv, Based, PreparedOnSaid, Steps
  <2>9. ASSUME reported' = reported PROVE PreparedOnSaid'
    BY <2>9 DEF BaseInv, PreparedOnSaid
  <2>10. PreparedOnSaid'
    BY <1>2, <2>8, <2>9 DEF Next, Push, CreateChange, Review, VerifyAdd, AddRule,
       InstallPreReceive, VerifyStep, VerifyBegin, VerifyEnd, GiveUp, MergeStep, MergeBegin,
       ReadRule, ReadRuleFails, CountApprovals, CheckEvidence, Clone, CheckBase, Mark, tables
  <2> QED
    BY <2>7, <2>10 DEF BaseInv
<1> QED
  BY <1>1, <1>2

\* As long as no branch is reset, a merge is made on the base that is reported
\* with it (collab.go queue merge, the base looked at before and after the clone).
THEOREM PreparedOnWhatIsSaid ==
  ASSUME ~Resets
  PROVE  Spec => []PreparedOnSaid
<1>1. Init => BaseInv
  BY DEF Init, BaseInv, Based, PreparedOnSaid, Steps
<1>2. TypeOK /\ BaseInv /\ [Next]_vars => BaseInv'
  BY BaseNext
<1>3. BaseInv => PreparedOnSaid
  BY DEF BaseInv
<1> QED
  BY <1>1, <1>2, <1>3, MergeTypes, PTL DEF Spec

-----------------------------------------------------------------------------
(* Runner: the invariant.  What is recorded or printed is cut out of the   *)
(* buffers, so it takes what the buffers hold; they hold the beginning of  *)
(* each stream because a writer's room is the limit less what it has       *)
(* passed on; and two goroutines meet in a buffer only when both streams   *)
(* have been written to.                                                   *)

\* What the writer of stream s has passed on, of what has been read of it.
Kept(s) == Least(taken[s] - got[s], Limit)

\* A stream's place, and what is left of its limit.
CopierOK(s) ==
  /\ got[s] <= taken[s]
  /\ copier[s] = "writing" <=> got[s] > 0
  /\ room[s] = Limit - Kept(s)
  /\ copier[s] = "short" => taken[s] > Limit
  /\ copier[s] = "ended" => taken[s] = written[s]

\* Goroutines meet in a buffer only if both streams have been written to.
GarbledOK ==
  /\ garbled => kind = "plugin" /\ \A s \in Stream : written[s] > 0
  /\ stage = "crashed" => garbled

\* A buffer that is a stream's alone, or has been so far, holds its beginning.
Alone(s) == \A t \in Stream \ {s} : Sink(t) # Sink(s) \/ written[t] = 0

OwnBuffer(s) == Alone(s) => buffer[Sink(s)] = Units(s, 0, Kept(s))

\* Without a child nothing is ever written.
StartOK ==
  /\ stage \in {"starting", "unstarted"} => ~started
  /\ ~started =>
       /\ stage \notin {"running", "reaped", "crashed"} /\ ~alive /\ ~background
       /\ \A s \in Stream : written[s] = 0 /\ copier[s] = "reading"

\* What was reported still stands: all that it was made of is at rest.
ReportOK ==
  /\ stage \notin {"running", "crashed"} => ~alive
  /\ stage = "reported" /\ started => \A s \in Stream : copier[s] \in {"short", "ended"}
  /\ Recorded => /\ code = ExitCode
                 /\ output = [s \in Stream |-> Cut(buffer[s], Excerpt)]
  /\ Printed => /\ RunError = "none"
                /\ output["stdout"] = Cut(buffer["stdout"], Limit)

RunInv ==
  /\ RunTypeOK
  /\ \A s \in Stream : CopierOK(s)
  /\ GarbledOK
  /\ KeptIsPrefix
  /\ \A s \in Stream : OwnBuffer(s)
  /\ StartOK
  /\ ReportOK

-----------------------------------------------------------------------------
(* The sequences: units of a stream, cuts, and what a writer adds.         *)

LEMMA UnitsSeq ==
  ASSUME NEW s \in Stream, NEW from \in Nat, NEW n \in Nat, from + n <= MaxWritten
  PROVE  /\ Units(s, from, from + n) \in Seq(Unit)
         /\ Len(Units(s, from, from + n)) = n
         /\ \A i \in 1 .. n : Units(s, from, from + n)[i] = <<s, from + i>>
<1>1. Units(s, from, from + n) = [i \in 1 .. n |-> <<s, from + i>>]
  <2>1. (from + n) - from = n
    OBVIOUS
  <2> QED
    BY <2>1 DEF Units
<1>2. MaxWritten \in Nat
  BY RunnerAssumption
<1>3. \A i \in 1 .. n : <<s, from + i>> \in Unit
  BY <1>2 DEF Unit
<1>4. [i \in 1 .. n |-> <<s, from + i>>] \in [1 .. n -> Unit]
  BY <1>3
<1>5. [i \in 1 .. n |-> <<s, from + i>>] \in Seq(Unit)
  BY <1>4, SeqDef
<1>6. DOMAIN [i \in 1 .. n |-> <<s, from + i>>] = 1 .. n
  OBVIOUS
<1>7. Len([i \in 1 .. n |-> <<s, from + i>>]) = n
  BY <1>5, <1>6, LenProperties
<1> QED
  BY <1>1, <1>5, <1>7

LEMMA FirstUnits ==
  ASSUME NEW s \in Stream, NEW n \in Nat, n <= MaxWritten
  PROVE  /\ Units(s, 0, n) \in Seq(Unit)
         /\ Len(Units(s, 0, n)) = n
         /\ \A i \in 1 .. n : Units(s, 0, n)[i] = <<s, i>>
<1>1. 0 + n = n /\ \A i \in 1 .. n : 0 + i = i
  OBVIOUS
<1>2. /\ Units(s, 0, 0 + n) \in Seq(Unit)
      /\ Len(Units(s, 0, 0 + n)) = n
      /\ \A i \in 1 .. n : Units(s, 0, 0 + n)[i] = <<s, 0 + i>>
  <2>1. 0 \in Nat /\ 0 + n <= MaxWritten
    BY <1>1
  <2> QED
    BY <2>1, UnitsSeq
<1> QED
  BY <1>1, <1>2

LEMMA LeastOf ==
  ASSUME NEW a \in Nat, NEW b \in Nat
  PROVE  Least(a, b) \in Nat /\ Least(a, b) <= a /\ Least(a, b) <= b
  BY DEF Least

LEMMA CutSeq ==
  ASSUME NEW S, NEW seq \in Seq(S), NEW n \in Nat
  PROVE  /\ Cut(seq, n) \in Seq(S)
         /\ Len(Cut(seq, n)) = Least(n, Len(seq))
         /\ \A i \in 1 .. Len(Cut(seq, n)) : Cut(seq, n)[i] = seq[i]
<1> DEFINE k == Least(n, Len(seq))
<1>1. Len(seq) \in Nat
  BY LenProperties
<1>2. k \in Nat /\ k <= Len(seq)
  BY <1>1, LeastOf
<1>3. \A i \in 1 .. k : seq[i] \in S
  BY <1>1, <1>2, ElementOfSeq
<1> HIDE DEF k
<1>4. /\ SubSeq(seq, 1, k) \in Seq(S)
      /\ Len(SubSeq(seq, 1, k)) = IF 1 <= k THEN k - 1 + 1 ELSE 0
      /\ \A i \in 1 .. k - 1 + 1 : SubSeq(seq, 1, k)[i] = seq[1 + i - 1]
  BY <1>2, <1>3, SubSeqProperties
<1>5. Len(SubSeq(seq, 1, k)) = k
  BY <1>2, <1>4
<1>6. \A i \in 1 .. k : SubSeq(seq, 1, k)[i] = seq[i]
  BY <1>2, <1>4
<1>7. Cut(seq, n) = SubSeq(seq, 1, k)
  BY DEF Cut, k
<1> QED
  BY <1>4, <1>5, <1>6, <1>7 DEF k

LEMMA CutWhole ==
  ASSUME NEW S, NEW seq \in Seq(S)
  PROVE  Cut(seq, Len(seq)) = seq
<1>1. Len(seq) \in Nat /\ Least(Len(seq), Len(seq)) = Len(seq)
  BY LenProperties DEF Least
<1> QED
  BY <1>1, SubSeqFull DEF Cut

\* Units that follow one another make up one beginning of the stream.
LEMMA UnitsOnward ==
  ASSUME NEW s \in Stream, NEW a \in Nat, NEW n \in Nat, a + n <= MaxWritten
  PROVE  Units(s, 0, a) \o Units(s, a, a + n) = Units(s, 0, a + n)
<1> DEFINE u == Units(s, 0, a)
           v == Units(s, a, a + n)
           w == Units(s, 0, a + n)
<1>1. MaxWritten \in Nat
  BY RunnerAssumption
<1>2. a <= MaxWritten /\ a + n \in Nat
  BY <1>1
<1>3. /\ u \in Seq(Unit) /\ Len(u) = a
      /\ \A i \in 1 .. a : u[i] = <<s, i>>
  BY <1>2, FirstUnits
<1>4. /\ v \in Seq(Unit) /\ Len(v) = n
      /\ \A i \in 1 .. n : v[i] = <<s, a + i>>
  BY UnitsSeq
<1>5. /\ w \in Seq(Unit) /\ Len(w) = a + n
      /\ \A i \in 1 .. a + n : w[i] = <<s, i>>
  BY <1>2, FirstUnits
<1> HIDE DEF u, v, w
<1>6. /\ u \o v \in Seq(Unit)
      /\ Len(u \o v) = a + n
      /\ \A i \in 1 .. a + n : (u \o v)[i] = IF i <= a THEN u[i] ELSE v[i - a]
  BY <1>3, <1>4, ConcatProperties
<1>7. ASSUME NEW i \in 1 .. a + n PROVE (u \o v)[i] = <<s, i>>
  <2>1. CASE i <= a
    BY <2>1, <1>3, <1>6
  <2>2. CASE i > a
    <3>1. i - a \in 1 .. n /\ a + (i - a) = i
      BY <2>2
    <3>2. v[i - a] = <<s, i>>
      BY <3>1, <1>4
    <3> QED
      BY <3>2, <2>2, <1>6
  <2>3. i <= a \/ i > a
    OBVIOUS
  <2> QED
    BY <2>1, <2>2, <2>3
<1>8. u \o v = w
  BY <1>5, <1>6, <1>7, SeqEqual
<1> QED
  BY <1>8 DEF u, v, w

LEMMA UnitsCut ==
  ASSUME NEW s \in Stream, NEW a \in Nat, a <= MaxWritten, NEW n \in Nat
  PROVE  Cut(Units(s, 0, a), n) = Units(s, 0, Least(n, a))
<1> DEFINE u == Units(s, 0, a)
           k == Least(n, a)
           w == Units(s, 0, k)
<1>1. MaxWritten \in Nat
  BY RunnerAssumption
<1>2. k \in Nat /\ k <= a /\ k <= MaxWritten
  <2>1. k \in Nat /\ k <= a
    BY LeastOf
  <2> QED
    BY <2>1, <1>1
<1>3. /\ u \in Seq(Unit) /\ Len(u) = a
      /\ \A i \in 1 .. a : u[i] = <<s, i>>
  BY FirstUnits
<1> HIDE DEF k
<1>4. /\ w \in Seq(Unit) /\ Len(w) = k
      /\ \A i \in 1 .. k : w[i] = <<s, i>>
  BY <1>2, FirstUnits
<1> HIDE DEF u, w
<1>5. /\ Cut(u, n) \in Seq(Unit) /\ Len(Cut(u, n)) = Least(n, Len(u))
      /\ \A i \in 1 .. Len(Cut(u, n)) : Cut(u, n)[i] = u[i]
  BY <1>3, CutSeq
<1>6. Len(Cut(u, n)) = k
  BY <1>3, <1>5 DEF k
<1>7. ASSUME NEW i \in 1 .. k PROVE Cut(u, n)[i] = w[i]
  <2>1. Cut(u, n)[i] = u[i]
    BY <1>5, <1>6
  <2>2. i \in 1 .. a
    BY <1>2
  <2>3. u[i] = <<s, i>>
    BY <2>2, <1>3
  <2>4. w[i] = <<s, i>>
    BY <1>4
  <2> QED
    BY <2>1, <2>3, <2>4
<1>8. Cut(u, n) = w
  BY <1>4, <1>5, <1>6, <1>7, SeqEqual
<1> QED
  BY <1>8 DEF u, k, w

\* What follows a stream's first m units in a buffer makes it the first of m + n.
LEMMA OfStreamOnward ==
  ASSUME NEW seq \in Seq(Unit), NEW s \in Stream, NEW m \in Nat, NEW n \in Nat,
         m + n <= MaxWritten, OfStream(seq, s, m)
  PROVE  OfStream(seq \o Units(s, m, m + n), s, m + n)
<1> DEFINE l == Len(seq)
           v == Units(s, m, m + n)
           w == seq \o v
<1>1. l \in Nat /\ DOMAIN seq = 1 .. l
  BY LenProperties
<1>2. /\ v \in Seq(Unit) /\ Len(v) = n
      /\ \A i \in 1 .. n : v[i] = <<s, m + i>>
  BY UnitsSeq
<1> HIDE DEF v
<1>3. /\ w \in Seq(Unit)
      /\ Len(w) = l + n
      /\ \A i \in 1 .. l + n : w[i] = IF i <= l THEN seq[i] ELSE v[i - l]
  BY <1>2, ConcatProperties
<1>4. DOMAIN w = 1 .. l + n
  BY <1>3, LenProperties
<1> HIDE DEF l, w
<1>5. \A i \in 1 .. l : w[i] = seq[i]
  BY <1>1, <1>3
<1>6. \A i \in (l + 1) .. (l + n) : w[i] = <<s, m + (i - l)>>
  BY <1>1, <1>2, <1>3
<1>7. \A i \in 1 .. l : seq[i][1] = s => seq[i][2] \in 1 .. m
  BY <1>1 DEF OfStream
<1>8. {w[i][2] : i \in {j \in 1 .. l + n : w[j][1] = s}} \subseteq 1 .. m + n
  <2> SUFFICES ASSUME NEW i \in 1 .. l + n, w[i][1] = s
               PROVE  w[i][2] \in 1 .. m + n
    OBVIOUS
  <2>1. CASE i <= l
    BY <2>1, <1>1, <1>5, <1>7
  <2>2. CASE i > l
    <3>1. w[i] = <<s, m + (i - l)>>
      BY <2>2, <1>1, <1>6
    <3>2. w[i][2] = m + (i - l)
      BY <3>1
    <3> QED
      BY <3>2, <2>2, <1>1
  <2> QED
    BY <2>1, <2>2, <1>1
<1>9. 1 .. m + n \subseteq {w[i][2] : i \in {j \in 1 .. l + n : w[j][1] = s}}
  <2> SUFFICES ASSUME NEW x \in 1 .. m + n
               PROVE  \E i \in 1 .. l + n : w[i][1] = s /\ w[i][2] = x
    OBVIOUS
  <2>1. CASE x <= m
    <3>1. x \in {seq[i][2] : i \in {j \in 1 .. l : seq[j][1] = s}}
      BY <2>1, <1>1 DEF OfStream
    <3>2. PICK i \in 1 .. l : seq[i][1] = s /\ seq[i][2] = x
      BY <3>1
    <3>3. i \in 1 .. l + n
      BY <1>1
    <3> QED
      BY <3>2, <3>3, <1>5
  <2>2. CASE x > m
    <3> DEFINE i == l + (x - m)
    <3>1. i \in (l + 1) .. (l + n) /\ i \in 1 .. l + n /\ m + (i - l) = x
      BY <2>2, <1>1
    <3>2. w[i] = <<s, x>>
      BY <3>1, <1>6
    <3> QED
      BY <3>1, <3>2
  <2> QED
    BY <2>1, <2>2
<1>10. ASSUME NEW i \in 1 .. l + n, NEW j \in 1 .. l + n, i < j,
              w[i][1] = s, w[j][1] = s
       PROVE  w[i][2] < w[j][2]
  <2>1. CASE j <= l
    <3>1. i \in 1 .. l /\ j \in 1 .. l
      BY <1>10, <2>1, <1>1
    <3> QED
      BY <1>10, <3>1, <1>1, <1>5 DEF OfStream
  <2>2. CASE j > l
    <3>1. w[j] = <<s, m + (j - l)>>
      BY <2>2, <1>1, <1>6
    <3>2. w[j][2] = m + (j - l)
      BY <3>1
    <3>3. CASE i <= l
      <4>1. w[i][2] \in 1 .. m
        BY <1>10, <3>3, <1>1, <1>5, <1>7
      <4> QED
        BY <4>1, <3>2, <2>2, <1>1
    <3>4. CASE i > l
      <4>1. w[i] = <<s, m + (i - l)>>
        BY <3>4, <1>1, <1>6
      <4>2. w[i][2] = m + (i - l)
        BY <4>1
      <4> QED
        BY <1>10, <4>2, <3>2, <1>1
    <3> QED
      BY <3>3, <3>4, <1>1
  <2> QED
    BY <2>1, <2>2, <1>1
<1>11. OfStream(w, s, m + n)
  BY <1>4, <1>8, <1>9, <1>10 DEF OfStream
<1> QED
  BY <1>11 DEF v, w

\* The units of another stream do not count.
LEMMA OfStreamBeside ==
  ASSUME NEW seq \in Seq(Unit), NEW s \in Stream, NEW t \in Stream, s # t,
         NEW m, NEW a \in Nat, NEW n \in Nat, a + n <= MaxWritten,
         OfStream(seq, s, m)
  PROVE  OfStream(seq \o Units(t, a, a + n), s, m)
<1> DEFINE l == Len(seq)
           v == Units(t, a, a + n)
           w == seq \o v
<1>1. l \in Nat /\ DOMAIN seq = 1 .. l
  BY LenProperties
<1>2. /\ v \in Seq(Unit) /\ Len(v) = n
      /\ \A i \in 1 .. n : v[i] = <<t, a + i>>
  BY UnitsSeq
<1>3. \A i \in 1 .. n : v[i][1] = t
  BY <1>2
<1> HIDE DEF v
<1>4. /\ w \in Seq(Unit)
      /\ Len(w) = l + n
      /\ \A i \in 1 .. l + n : w[i] = IF i <= l THEN seq[i] ELSE v[i - l]
  BY <1>2, ConcatProperties
<1>5. DOMAIN w = 1 .. l + n
  BY <1>4, LenProperties
<1> HIDE DEF l, w
<1>6. \A i \in 1 .. l : w[i] = seq[i]
  BY <1>1, <1>2, <1>4
<1>7. \A i \in 1 .. l + n : w[i][1] = s => i \in 1 .. l
  BY <1>1, <1>2, <1>3, <1>4
<1>8. 1 .. l \subseteq 1 .. l + n
  BY <1>1, <1>2
<1>9. {i \in 1 .. l + n : w[i][1] = s} = {i \in 1 .. l : seq[i][1] = s}
  BY <1>6, <1>7, <1>8
<1>10. {w[i][2] : i \in {j \in 1 .. l + n : w[j][1] = s}}
         = {seq[i][2] : i \in {j \in 1 .. l : seq[j][1] = s}}
  BY <1>6, <1>9
<1>11. \A i, j \in 1 .. l + n :
         i < j /\ w[i][1] = s /\ w[j][1] = s => w[i][2] < w[j][2]
  BY <1>1, <1>6, <1>7 DEF OfStream
<1>12. OfStream(w, s, m)
  BY <1>1, <1>5, <1>10, <1>11 DEF OfStream
<1> QED
  BY <1>12 DEF v, w

-----------------------------------------------------------------------------
(* The steps that leave the streams as they are: those of the child, of    *)
(* Run and of its callers.                                                 *)

Streamed == <<kind, pipes, copies>>

LEMMA StepKinds ==
  [RunNext]_runVars =>
    \/ \E s \in Stream : Write(s) \/ CopierReads(s) \/ CopierWrites(s) \/ CopierEnds(s)
    \/ UNCHANGED Streamed
<1> SUFFICES ASSUME [RunNext]_runVars,
                    ~ \E s \in Stream :
                        Write(s) \/ CopierReads(s) \/ CopierWrites(s) \/ CopierEnds(s)
             PROVE  UNCHANGED Streamed
  OBVIOUS
<1>1. CASE \E s \in Stream : BrokenPipe(s)
  BY <1>1 DEF BrokenPipe, Streamed
<1>2. CASE \E c \in {0, 1} : Exit(c)
  BY <1>2 DEF Exit, Streamed
<1>3. CASE BackgroundEnds
  BY <1>3 DEF BackgroundEnds, Streamed
<1>4. CASE Panic
  BY <1>4 DEF Panic, Streamed
<1>5. CASE Timeout
  BY <1>5 DEF Timeout, Streamed
<1>6. CASE Reap
  BY <1>6 DEF Reap, Streamed
<1>7. CASE RecordVerification
  BY <1>7 DEF RecordVerification, Streamed
<1>8. CASE PrintPlugin
  BY <1>8 DEF PrintPlugin, Streamed
<1>9. CASE Fail
  BY <1>9 DEF Fail, Streamed
<1>10. CASE UNCHANGED runVars
  BY <1>10 DEF runVars, Streamed
<1>11. CASE Start \/ StartFails
  BY <1>11 DEF Start, StartFails, Streamed
<1> QED
  BY <1>1, <1>2, <1>3, <1>4, <1>5, <1>6, <1>7, <1>8, <1>9, <1>10, <1>11 DEF RunNext

LEMMA Numbers ==
  /\ Limit \in Nat /\ Excerpt \in Nat /\ Capacity \in Nat /\ Chunk \in Nat
  /\ MaxWritten \in Nat /\ Limit > 0 /\ Chunk > 0 /\ Excerpt <= Limit
  BY RunnerAssumption

\* The numbers of one stream.
LEMMA StreamNumbers ==
  ASSUME RunTypeOK, NEW s \in Stream
  PROVE  /\ written[s] \in Nat /\ taken[s] \in Nat /\ got[s] \in Nat /\ room[s] \in Nat
         /\ taken[s] <= written[s] /\ written[s] <= MaxWritten
         /\ written[s] - taken[s] <= Capacity
         /\ got[s] <= Chunk /\ room[s] <= Limit
         /\ copier[s] \in {"reading", "writing", "short", "ended"}
         /\ Sink(s) \in Stream
<1>1. /\ written[s] \in 0 .. MaxWritten /\ taken[s] \in 0 .. MaxWritten
      /\ written[s] - taken[s] \in 0 .. Capacity
      /\ got[s] \in 0 .. Chunk /\ room[s] \in 0 .. Limit
      /\ copier[s] \in {"reading", "writing", "short", "ended"}
  BY DEF RunTypeOK
<1>2. Sink(s) \in Stream
  BY DEF Sink, Stream
<1> QED
  BY <1>1, <1>2, Numbers

\* A step of limitedWriter.Write: what it passes on follows what it has passed
\* on, and it says so unless that is less than it was given.
LEMMA PassedOn ==
  ASSUME RunTypeOK, NEW s \in Stream, CopierOK(s)
  PROVE  LET n == Passed(s, got[s]) IN
         /\ n \in Nat /\ n <= got[s] /\ n <= room[s]
         /\ Kept(s) \in Nat /\ Kept(s) + n = Least(taken[s], Limit)
         /\ Kept(s) + n <= MaxWritten
         /\ n # 0 => Kept(s) = taken[s] - got[s]
         /\ room[s] - n = Limit - Least(taken[s], Limit)
         /\ n < got[s] => taken[s] > Limit
<1>1. /\ got[s] \in Nat /\ taken[s] \in Nat /\ got[s] <= taken[s] /\ room[s] \in Nat
      /\ taken[s] <= MaxWritten
      /\ room[s] = Limit - Least(taken[s] - got[s], Limit)
  BY StreamNumbers, Numbers DEF CopierOK, Kept
<1>2. CASE taken[s] - got[s] <= Limit
  <2>1. Kept(s) = taken[s] - got[s] /\ room[s] = Limit - (taken[s] - got[s])
    BY <1>1, <1>2 DEF Kept, Least
  <2>2. CASE got[s] <= room[s]
    <3>1. Passed(s, got[s]) = got[s]
      BY <2>2 DEF Passed, Least
    <3>2. Least(taken[s], Limit) = taken[s]
      BY <1>1, <2>1, <2>2, Numbers DEF Least
    <3> QED
      BY <1>1, <2>1, <2>2, <3>1, <3>2, Numbers
  <2>3. CASE got[s] > room[s]
    <3>1. Passed(s, got[s]) = room[s]
      BY <1>1, <2>3 DEF Passed, Least
    <3>2. Least(taken[s], Limit) = Limit
      BY <1>1, <2>1, <2>3, Numbers DEF Least
    <3> QED
      BY <1>1, <2>1, <2>3, <3>1, <3>2, Numbers
  <2> QED
    BY <1>1, <2>2, <2>3
<1>3. CASE ~ (taken[s] - got[s] <= Limit)
  <2>1. Kept(s) = Limit /\ room[s] = 0
    BY <1>1, <1>3, Numbers DEF Kept, Least
  <2>2. Passed(s, got[s]) = 0
    BY <1>1, <2>1 DEF Passed, Least
  <2>3. Least(taken[s], Limit) = Limit /\ taken[s] > Limit
    BY <1>1, <1>3, Numbers DEF Least
  <2> QED
    BY <1>1, <2>1, <2>2, <2>3, Numbers
<1> QED
  BY <1>2, <1>3

LEMMA RunInitInv == RunInit => RunInv
<1> SUFFICES ASSUME RunInit PROVE RunInv
  OBVIOUS
<1>1. <<>> \in Seq(Unit)
  BY EmptySeq
<1>2. RunTypeOK
  <2>1. /\ kind \in {"verify", "plugin"}
        /\ stage = "starting" /\ started \in BOOLEAN
        /\ alive \in BOOLEAN /\ background \in BOOLEAN /\ cancelled \in BOOLEAN
        /\ garbled \in BOOLEAN
    BY DEF RunInit
  <2>2. status \in {-1, 0, 1} /\ code \in {-1, 0, 1}
    BY DEF RunInit
  <2>3. /\ written \in [Stream -> 0 .. MaxWritten]
        /\ taken \in [Stream -> 0 .. MaxWritten]
        /\ \A s \in Stream : written[s] - taken[s] \in 0 .. Capacity
        /\ got \in [Stream -> 0 .. Chunk] /\ room \in [Stream -> 0 .. Limit]
    BY Numbers DEF RunInit
  <2>4. /\ copier \in [Stream -> {"reading", "writing", "short", "ended"}]
        /\ buffer \in [Stream -> Seq(Unit)] /\ output \in [Stream -> Seq(Unit)]
    BY <1>1 DEF RunInit
  <2> QED
    BY <2>1, <2>2, <2>3, <2>4 DEF RunTypeOK
<1>3. \A s \in Stream : CopierOK(s)
  BY Numbers DEF RunInit, CopierOK, Kept, Least
<1>4. GarbledOK /\ StartOK /\ ReportOK
  BY DEF RunInit, GarbledOK, StartOK, ReportOK, Recorded, Printed
<1>5. \A s \in Stream : Kept(s) = 0 /\ buffer[Sink(s)] = <<>>
  BY Numbers DEF RunInit, Kept, Least, Sink, Stream
<1>6. KeptIsPrefix
  <2> SUFFICES ASSUME NEW s \in Stream PROVE OfStream(<<>>, s, 0)
    BY <1>5 DEF KeptIsPrefix, Kept
  <2>1. DOMAIN <<>> = {} /\ 1 .. 0 = {}
    BY EmptySeq, LenProperties
  <2> QED
    BY <2>1 DEF OfStream
<1>7. ASSUME NEW s \in Stream PROVE OwnBuffer(s)
  <2>1. Units(s, 0, 0) \in Seq(Unit) /\ Len(Units(s, 0, 0)) = 0
    BY FirstUnits, Numbers
  <2>2. Units(s, 0, 0) = <<>>
    BY <2>1, EmptySeq
  <2> QED
    BY <2>2, <1>5 DEF OwnBuffer
<1> QED
  BY <1>2, <1>3, <1>4, <1>6, <1>7 DEF RunInv

-----------------------------------------------------------------------------
(* The steps, part of the invariant by part.                               *)

\* CopierWrites, once for all: what becomes of the buffer it writes to.
LEMMA WritesBuffer ==
  ASSUME RunTypeOK, NEW s \in Stream, CopierOK(s), CopierWrites(s)
  PROVE  LET n == Passed(s, got[s]) IN
         /\ buffer' \in [Stream -> Seq(Unit)]
         /\ \A t \in Stream : t # Sink(s) => buffer'[t] = buffer[t]
         /\ ~garbled =>
              buffer'[Sink(s)] = buffer[Sink(s)] \o Units(s, Kept(s), Kept(s) + n)
<1> DEFINE n    == Passed(s, got[s])
           from == taken[s] - got[s]
           held == buffer[Sink(s)]
<1>1. PICK end \in IF garbled THEN 0 .. Len(held) ELSE {Len(held)} :
        buffer' = [buffer EXCEPT ![Sink(s)] = Cut(held, end) \o Units(s, from, from + n)]
  BY DEF CopierWrites
<1>2. held \in Seq(Unit) /\ Sink(s) \in Stream /\ buffer \in [Stream -> Seq(Unit)]
  BY StreamNumbers DEF RunTypeOK
<1>3. end \in Nat
  BY <1>2, LenProperties
<1>4. /\ from \in Nat /\ n \in Nat /\ from + n <= MaxWritten
      /\ n # 0 => Kept(s) = from
  BY StreamNumbers, PassedOn, Numbers DEF CopierOK
<1>5. Units(s, from, from + n) \in Seq(Unit)
  BY <1>4, UnitsSeq
<1>6. Cut(held, end) \in Seq(Unit)
  BY <1>2, <1>3, CutSeq
<1>7. Cut(held, end) \o Units(s, from, from + n) \in Seq(Unit)
  BY <1>5, <1>6, ConcatProperties
<1> HIDE DEF n, from, held
<1>8. buffer' \in [Stream -> Seq(Unit)] /\ \A t \in Stream : t # Sink(s) => buffer'[t] = buffer[t]
  BY <1>1, <1>2, <1>7
<1>9. ASSUME ~garbled
      PROVE  buffer'[Sink(s)] = buffer[Sink(s)] \o Units(s, Kept(s), Kept(s) + n)
  <2>1. Cut(held, end) = held
    BY <1>1, <1>2, <1>9, CutWhole
  <2>2. Units(s, from, from + n) = Units(s, Kept(s), Kept(s) + n)
    <3>1. CASE n # 0
      BY <3>1, <1>4
    <3>2. CASE n = 0
      <4>1. Kept(s) \in Nat
        BY PassedOn
      <4>2. (from + n) - from = 0 /\ (Kept(s) + n) - Kept(s) = 0
        BY <4>1, <3>2, <1>4
      <4>3. 1 .. 0 = {}
        OBVIOUS
      <4> QED
        BY <4>2, <4>3 DEF Units
    <3> QED
      BY <3>1, <3>2
  <2>3. buffer'[Sink(s)] = Cut(held, end) \o Units(s, from, from + n)
    BY <1>1, <1>2
  <2> QED
    BY <2>1, <2>2, <2>3 DEF held
<1> QED
  BY <1>8, <1>9 DEF n

LEMMA RunTyped ==
  ASSUME RunTypeOK, \A s \in Stream : CopierOK(s), [RunNext]_runVars
  PROVE  RunTypeOK'
<1> USE DEF child, pipes, copies, ends
<1>1. CASE \E s \in Stream : Write(s)
  <2>1. PICK s \in Stream : Write(s)
    BY <1>1
  <2>2. written[s] + 1 \in 0 .. MaxWritten /\ (written[s] + 1) - taken[s] \in 0 .. Capacity
    BY <2>1, StreamNumbers, Numbers DEF Write
  <2>3. /\ written' \in [Stream -> 0 .. MaxWritten]
        /\ \A t \in Stream : written'[t] - taken'[t] \in 0 .. Capacity
    BY <2>1, <2>2 DEF Write, RunTypeOK
  <2> QED
    BY <2>1, <2>3 DEF Write, RunTypeOK
<1>2. CASE \E s \in Stream : BrokenPipe(s)
  <2>1. alive' \in BOOLEAN /\ status' \in {-1, 0, 1}
    BY <1>2 DEF BrokenPipe
  <2> QED
    BY <1>2, <2>1, Zenon DEF BrokenPipe, RunTypeOK
<1>3. CASE \E c \in {0, 1} : Exit(c)
  <2>1. alive' \in BOOLEAN /\ status' \in {-1, 0, 1}
    BY <1>3 DEF Exit
  <2> QED
    BY <1>3, <2>1, Zenon DEF Exit, RunTypeOK
<1>4. CASE BackgroundEnds
  BY <1>4, Zenon DEF BackgroundEnds, RunTypeOK
<1>5. CASE \E s \in Stream : CopierReads(s)
  <2>1. PICK s \in Stream : CopierReads(s)
    BY <1>5
  <2> DEFINE k == Least(written[s] - taken[s], Chunk)
  <2>2. k \in 0 .. Chunk /\ taken[s] + k \in 0 .. MaxWritten
        /\ written[s] - (taken[s] + k) \in 0 .. Capacity
    BY StreamNumbers, Numbers DEF Least
  <2>3. taken' = [taken EXCEPT ![s] = @ + k]
    BY <2>1 DEF CopierReads
  <2>4. /\ copier' \in [Stream -> {"reading", "writing", "short", "ended"}]
        /\ got' \in [Stream -> 0 .. Chunk]
    BY <2>1, <2>2 DEF CopierReads, RunTypeOK
  <2>5. garbled' \in BOOLEAN
    BY <2>1, Zenon DEF CopierReads, RunTypeOK
  <2> HIDE DEF k
  <2>6. /\ taken' \in [Stream -> 0 .. MaxWritten]
        /\ \A t \in Stream : written[t] - taken'[t] \in 0 .. Capacity
    BY <2>2, <2>3 DEF RunTypeOK
  <2> QED
    BY <2>1, <2>4, <2>5, <2>6, Zenon DEF CopierReads, RunTypeOK
<1>6. CASE \E s \in Stream : CopierWrites(s)
  <2>1. PICK s \in Stream : CopierWrites(s)
    BY <1>6
  <2>2. buffer' \in [Stream -> Seq(Unit)]
    BY <2>1, WritesBuffer
  <2>3. room[s] - Passed(s, got[s]) \in 0 .. Limit
    BY PassedOn, StreamNumbers, Numbers
  <2>4. room' \in [Stream -> 0 .. Limit]
    BY <2>1, <2>3 DEF CopierWrites, RunTypeOK
  <2>5. /\ copier' \in [Stream -> {"reading", "writing", "short", "ended"}]
        /\ got' \in [Stream -> 0 .. Chunk]
    BY <2>1, Numbers DEF CopierWrites, RunTypeOK
  <2> QED
    BY <2>1, <2>2, <2>4, <2>5, Zenon DEF CopierWrites, RunTypeOK
<1>7. CASE \E s \in Stream : CopierEnds(s)
  BY <1>7 DEF CopierEnds, RunTypeOK
<1>8. CASE Panic
  BY <1>8 DEF Panic, RunTypeOK
<1>9. CASE Timeout
  BY <1>9 DEF Timeout, RunTypeOK
<1>10. CASE Reap
  BY <1>10 DEF Reap, RunTypeOK
<1>11. CASE RecordVerification
  <2>1. ASSUME NEW s \in Stream PROVE Cut(buffer[s], Excerpt) \in Seq(Unit)
    BY CutSeq, Numbers DEF RunTypeOK
  <2>2. output' \in [Stream -> Seq(Unit)]
    BY <1>11, <2>1 DEF RecordVerification
  <2>3. code' \in {-1, 0, 1}
    BY <1>11 DEF RecordVerification, ExitCode, RunError, RunTypeOK
  <2> QED
    BY <1>11, <2>2, <2>3 DEF RecordVerification, RunTypeOK
<1>12. CASE PrintPlugin
  <2>1. Cut(buffer["stdout"], Limit) \in Seq(Unit)
    BY CutSeq, Numbers DEF RunTypeOK, Stream
  <2>2. output' \in [Stream -> Seq(Unit)]
    BY <1>12, <2>1 DEF PrintPlugin, RunTypeOK
  <2> QED
    BY <1>12, <2>2 DEF PrintPlugin, RunTypeOK
<1>13. CASE Fail
  BY <1>13 DEF Fail, RunTypeOK
<1>14. CASE UNCHANGED runVars
  BY <1>14 DEF runVars, RunTypeOK
<1>15. CASE Start \/ StartFails
  BY <1>15 DEF Start, StartFails, RunTypeOK
<1> QED
  BY <1>1, <1>2, <1>3, <1>4, <1>5, <1>6, <1>7, <1>8, <1>9, <1>10, <1>11, <1>12,
     <1>13, <1>14, <1>15 DEF RunNext

LEMMA CopiersNext ==
  ASSUME RunTypeOK, \A s \in Stream : CopierOK(s), [RunNext]_runVars
  PROVE  \A s \in Stream : CopierOK(s)'
<1> USE DEF child, pipes, copies, ends
<1> TAKE s \in Stream
<1>1. CopierOK(s)
  OBVIOUS
<1>2. CASE \E t \in Stream : Write(t)
  BY <1>1, <1>2, StreamNumbers DEF Write, RunTypeOK, CopierOK, Kept
<1>3. CASE \E t \in Stream : CopierReads(t)
  <2>1. PICK t \in Stream : CopierReads(t)
    BY <1>3
  <2>2. CASE t # s
    BY <1>1, <2>1, <2>2 DEF CopierReads, RunTypeOK, CopierOK, Kept
  <2>3. CASE t = s
    <3> DEFINE k == Least(written[s] - taken[s], Chunk)
    <3>1. /\ k \in Nat /\ k > 0 /\ taken'[s] = taken[s] + k
          /\ copier[s] = "reading" /\ got[s] = 0 /\ room[s] = room'[s]
      BY <1>1, <2>1, <2>3, StreamNumbers, Numbers DEF CopierReads, CopierOK, RunTypeOK, Least
    <3>2. CASE room[s] = 0
      <4>1. copier'[s] = "reading" /\ got'[s] = 0
        BY <2>1, <2>3, <3>1, <3>2 DEF CopierReads
      <4>2. Kept(s)' = Limit
        BY <1>1, <3>1, <3>2, <4>1, StreamNumbers, Numbers DEF CopierOK, Kept, Least
      <4> QED
        BY <1>1, <3>1, <3>2, <4>1, <4>2, StreamNumbers, Numbers DEF CopierOK
    <3>3. CASE room[s] # 0
      <4>1. copier'[s] = "writing" /\ got'[s] = k
        BY <2>1, <2>3, <3>1, <3>3 DEF CopierReads, RunTypeOK
      <4> HIDE DEF k
      <4>2. got'[s] <= taken'[s] /\ taken'[s] - got'[s] = taken[s] - got[s]
        BY <3>1, <4>1, StreamNumbers
      <4>3. Kept(s)' = Kept(s)
        BY <4>2 DEF Kept
      <4> QED
        BY <1>1, <3>1, <4>1, <4>2, <4>3 DEF CopierOK
    <3> QED
      BY <3>2, <3>3
  <2> QED
    BY <2>2, <2>3
<1>4. CASE \E t \in Stream : CopierWrites(t)
  <2>1. PICK t \in Stream : CopierWrites(t)
    BY <1>4
  <2>2. CASE t # s
    BY <1>1, <2>1, <2>2 DEF CopierWrites, RunTypeOK, CopierOK, Kept
  <2>3. CASE t = s
    <3> DEFINE n == Passed(s, got[s])
    <3>1. /\ taken'[s] = taken[s] /\ written'[s] = written[s] /\ got'[s] = 0
          /\ room'[s] = room[s] - n
          /\ copier'[s] = IF n < got[s] THEN "short" ELSE "reading"
      BY <2>1, <2>3 DEF CopierWrites, RunTypeOK
    <3>2. /\ room[s] - n = Limit - Least(taken[s], Limit)
          /\ n < got[s] => taken[s] > Limit
      BY <1>1, PassedOn
    <3> HIDE DEF n
    <3>3. Kept(s)' = Least(taken[s], Limit)
      <4>1. taken[s] - 0 = taken[s]
        BY StreamNumbers
      <4> QED
        BY <3>1, <4>1 DEF Kept
    <3> QED
      BY <3>1, <3>2, <3>3, StreamNumbers DEF CopierOK
  <2> QED
    BY <2>2, <2>3
<1>5. CASE \E t \in Stream : CopierEnds(t)
  BY <1>1, <1>5, StreamNumbers DEF CopierEnds, RunTypeOK, CopierOK, Kept
<1>6. CASE UNCHANGED Streamed
  BY <1>1, <1>6 DEF Streamed, CopierOK, Kept
<1> QED
  BY <1>2, <1>3, <1>4, <1>5, <1>6, StepKinds

LEMMA GarbledNext ==
  ASSUME RunTypeOK, \A s \in Stream : CopierOK(s), GarbledOK, [RunNext]_runVars
  PROVE  GarbledOK'
<1> USE DEF child, pipes, copies, ends
<1>1. ASSUME garbled' # garbled
      PROVE  kind' = "plugin" /\ \A s \in Stream : written'[s] > 0
  <2>1. PICK s \in Stream : CopierReads(s)
    BY <1>1, StepKinds DEF Write, CopierReads, CopierWrites, CopierEnds, Streamed
  <2>2. PICK t \in Stream \ {s} : Sink(t) = Sink(s) /\ copier[t] = "writing"
    BY <1>1, <2>1 DEF CopierReads, RunTypeOK
  <2>3. kind = "plugin"
    BY <2>2 DEF Sink
  <2>4. written[t] > 0
    BY <2>2, StreamNumbers DEF CopierOK
  <2>5. written[s] > 0
    BY <2>1, StreamNumbers, Numbers DEF CopierReads, Least
  <2>6. Stream = {s, t}
    BY <2>2 DEF Stream
  <2> QED
    BY <2>1, <2>3, <2>4, <2>5, <2>6 DEF CopierReads
<1>2. /\ kind' = kind
      /\ \A s \in Stream : written[s] > 0 => written'[s] > 0
  <2>1. CASE \E s \in Stream : Write(s)
    BY <2>1, StreamNumbers DEF Write, RunTypeOK
  <2>2. CASE ~ \E s \in Stream : Write(s)
    BY <2>2, StepKinds DEF CopierReads, CopierWrites, CopierEnds, Streamed
  <2> QED
    BY <2>1, <2>2
<1>3. garbled => garbled'
  BY StepKinds DEF Write, CopierReads, CopierWrites, CopierEnds, Streamed, RunTypeOK
<1>4. garbled' => kind' = "plugin" /\ \A s \in Stream : written'[s] > 0
  BY <1>1, <1>2, Zenon DEF GarbledOK
<1>5. ASSUME stage' = "crashed" PROVE garbled'
  <2>1. CASE stage = "crashed"
    BY <2>1, <1>3, Zenon DEF GarbledOK
  <2>2. CASE Panic
    BY <2>2 DEF Panic
  <2>3. CASE stage # "crashed" /\ ~Panic
    BY <1>5, <2>3 DEF RunNext, runVars, Start, StartFails, Write, BrokenPipe, Exit, BackgroundEnds, CopierReads,
       CopierWrites, CopierEnds, Timeout, Reap, RecordVerification, PrintPlugin, Fail
  <2> QED
    BY <2>1, <2>2, <2>3
<1> QED
  BY <1>4, <1>5 DEF GarbledOK

\* What has been passed on changes only in CopierWrites.
LEMMA KeptStays ==
  ASSUME RunTypeOK, \A s \in Stream : CopierOK(s), [RunNext]_runVars,
         ~ \E s \in Stream : CopierWrites(s)
  PROVE  /\ buffer' = buffer
         /\ \A s \in Stream : Kept(s)' = Kept(s)
<1> USE DEF child, pipes, copies, ends
<1>1. buffer' = buffer
  BY StepKinds DEF Write, CopierReads, CopierEnds, Streamed
<1>2. ASSUME NEW s \in Stream PROVE Kept(s)' = Kept(s)
  <2>1. CASE CopierReads(s)
    <3> DEFINE k == Least(written[s] - taken[s], Chunk)
    <3>0. CopierOK(s)
      OBVIOUS
    <3>1. /\ k \in Nat /\ taken'[s] = taken[s] + k
          /\ copier[s] = "reading" /\ got[s] = 0 /\ room'[s] = room[s]
      BY <2>1, <3>0, StreamNumbers, Numbers DEF CopierReads, CopierOK, RunTypeOK, Least
    <3>2. CASE room[s] = 0
      <4>1. got'[s] = 0
        BY <2>1, <3>1, <3>2 DEF CopierReads
      <4>2. Kept(s) = Limit /\ Kept(s)' = Limit
        <5>1. taken[s] - got[s] >= Limit /\ taken'[s] - got'[s] >= Limit
          BY <3>0, <3>1, <3>2, <4>1, StreamNumbers, Numbers DEF CopierOK, Kept, Least
        <5> HIDE DEF k
        <5>2. taken[s] - got[s] \in Nat /\ taken'[s] - got'[s] \in Nat
          BY <3>1, <4>1, StreamNumbers
        <5> QED
          BY <5>1, <5>2, Numbers DEF Kept, Least
      <4> QED
        BY <4>2
    <3>3. CASE room[s] # 0
      <4>1. got'[s] = k
        BY <2>1, <3>1, <3>3 DEF CopierReads, RunTypeOK
      <4> HIDE DEF k
      <4>2. taken'[s] - got'[s] = taken[s] - got[s]
        BY <3>1, <4>1, StreamNumbers
      <4> QED
        BY <4>2 DEF Kept
    <3> QED
      BY <3>2, <3>3
  <2>2. CASE ~CopierReads(s)
    <3>1. taken'[s] = taken[s] /\ got'[s] = got[s]
      BY <2>2, StepKinds DEF Write, CopierReads, CopierEnds, Streamed, RunTypeOK
    <3> QED
      BY <3>1 DEF Kept
  <2> QED
    BY <2>1, <2>2
<1> QED
  BY <1>1, <1>2

\* What CopierWrites(s) does to what has been passed on.
LEMMA KeptGrows ==
  ASSUME RunTypeOK, NEW s \in Stream, CopierOK(s), CopierWrites(s)
  PROVE  /\ Kept(s)' = Kept(s) + Passed(s, got[s])
         /\ \A t \in Stream \ {s} : Kept(t)' = Kept(t)
         /\ garbled' = garbled /\ kind' = kind /\ written' = written
<1> USE DEF child, pipes, copies, ends
<1>1. /\ taken' = taken /\ got'[s] = 0
      /\ \A t \in Stream \ {s} : got'[t] = got[t]
      /\ garbled' = garbled /\ kind' = kind /\ written' = written
  BY DEF CopierWrites, RunTypeOK
<1>2. taken[s] - 0 = taken[s]
  BY StreamNumbers
<1>3. Kept(s)' = Least(taken[s], Limit)
  BY <1>1, <1>2 DEF Kept
<1>4. \A t \in Stream \ {s} : Kept(t)' = Kept(t)
  BY <1>1 DEF Kept
<1> QED
  BY <1>1, <1>3, <1>4, PassedOn

LEMMA PrefixNext ==
  ASSUME RunTypeOK, \A s \in Stream : CopierOK(s), KeptIsPrefix, [RunNext]_runVars
  PROVE  KeptIsPrefix'
<1>1. KeptIsPrefix <=>
        (~garbled => \A s \in Stream : OfStream(buffer[Sink(s)], s, Kept(s)))
  BY DEF KeptIsPrefix, Kept
<1>2. KeptIsPrefix' <=>
        (~garbled' => \A s \in Stream : OfStream(buffer'[Sink(s)'], s, Kept(s)'))
  BY DEF KeptIsPrefix, Kept
<1>3. garbled => garbled'
  BY StepKinds DEF Write, CopierReads, CopierWrites, CopierEnds, Streamed, RunTypeOK,
     child, pipes, copies, ends
<1>4. kind' = kind
  BY StepKinds DEF Write, CopierReads, CopierWrites, CopierEnds, Streamed
<1>5. \A s \in Stream : Sink(s)' = Sink(s)
  BY <1>4 DEF Sink
<1> SUFFICES ASSUME ~garbled, NEW s \in Stream
             PROVE  OfStream(buffer'[Sink(s)], s, Kept(s)')
  BY <1>1, <1>2, <1>3, <1>5
<1>6. OfStream(buffer[Sink(s)], s, Kept(s))
  BY <1>1
<1>7. CASE ~ \E t \in Stream : CopierWrites(t)
  BY <1>6, <1>7, KeptStays
<1>8. CASE \E t \in Stream : CopierWrites(t)
  <2>1. PICK t \in Stream : CopierWrites(t)
    BY <1>8
  <2> DEFINE n == Passed(t, got[t])
  <2>2. /\ n \in Nat /\ Kept(t) \in Nat /\ Kept(t) + n <= MaxWritten
        /\ Kept(t)' = Kept(t) + n
        /\ s # t => Kept(s)' = Kept(s)
    BY <2>1, PassedOn, KeptGrows
  <2>3. /\ Sink(s) # Sink(t) => buffer'[Sink(s)] = buffer[Sink(s)]
        /\ buffer'[Sink(t)] = buffer[Sink(t)] \o Units(t, Kept(t), Kept(t) + n)
    BY <2>1, WritesBuffer, StreamNumbers
  <2>4. buffer[Sink(s)] \in Seq(Unit)
    BY StreamNumbers DEF RunTypeOK
  <2> HIDE DEF n
  <2>5. CASE s = t
    BY <2>2, <2>3, <2>4, <2>5, <1>6, OfStreamOnward
  <2>6. CASE s # t /\ Sink(s) = Sink(t)
    <3>1. OfStream(buffer[Sink(s)] \o Units(t, Kept(t), Kept(t) + n), s, Kept(s))
      BY <2>2, <2>4, <2>6, <1>6, OfStreamBeside
    <3> QED
      BY <3>1, <2>2, <2>3, <2>6
  <2>7. CASE s # t /\ Sink(s) # Sink(t)
    BY <2>2, <2>3, <2>7, <1>6
  <2> QED
    BY <2>5, <2>6, <2>7
<1> QED
  BY <1>7, <1>8

LEMMA OwnNext ==
  ASSUME RunTypeOK, \A s \in Stream : CopierOK(s), GarbledOK,
         \A s \in Stream : OwnBuffer(s), [RunNext]_runVars
  PROVE  \A s \in Stream : OwnBuffer(s)'
<1> SUFFICES ASSUME NEW s \in Stream, Alone(s)'
             PROVE  buffer'[Sink(s)'] = Units(s, 0, Kept(s)')
  BY DEF OwnBuffer
<1>1. kind' = kind
  BY StepKinds DEF Write, CopierReads, CopierWrites, CopierEnds, Streamed
<1>2. \A t \in Stream : Sink(t)' = Sink(t)
  BY <1>1 DEF Sink
<1>3. \A t \in Stream : written'[t] = 0 => written[t] = 0
  <2>1. CASE \E t \in Stream : Write(t)
    BY <2>1, StreamNumbers DEF Write, RunTypeOK
  <2>2. CASE ~ \E t \in Stream : Write(t)
    BY <2>2, StepKinds DEF CopierReads, CopierWrites, CopierEnds, Streamed, pipes, child
  <2> QED
    BY <2>1, <2>2
<1>4. Alone(s)
  BY <1>2, <1>3 DEF Alone
<1>5. buffer[Sink(s)] = Units(s, 0, Kept(s))
  BY <1>4 DEF OwnBuffer
<1>6. CASE ~ \E t \in Stream : CopierWrites(t)
  BY <1>2, <1>5, <1>6, KeptStays
<1>7. CASE \E t \in Stream : CopierWrites(t)
  <2>1. PICK t \in Stream : CopierWrites(t)
    BY <1>7
  <2>2. CASE t # s
    <3>1. written[t] > 0
      BY <2>1, StreamNumbers DEF CopierOK, CopierWrites
    <3>2. Sink(t) # Sink(s)
      BY <3>1, <1>4, <2>2 DEF Alone
    <3>3. buffer'[Sink(s)] = buffer[Sink(s)]
      BY <3>2, <2>1, WritesBuffer, StreamNumbers
    <3>4. Kept(s)' = Kept(s)
      BY <2>1, <2>2, KeptGrows
    <3> QED
      BY <3>3, <3>4, <1>2, <1>5
  <2>3. CASE t = s
    <3> DEFINE n == Passed(s, got[s])
    <3>1. ~garbled
      <4>1. PICK u \in Stream : u # s
        BY DEF Stream
      <4>2. kind # "plugin" \/ written[u] = 0
        BY <4>1, <1>4 DEF Alone, Sink
      <4> QED
        BY <4>2, StreamNumbers DEF GarbledOK
    <3>2. /\ n \in Nat /\ Kept(s) \in Nat /\ Kept(s) + n <= MaxWritten
          /\ Kept(s)' = Kept(s) + n
      BY <2>1, <2>3, PassedOn, KeptGrows
    <3>3. buffer'[Sink(s)] = buffer[Sink(s)] \o Units(s, Kept(s), Kept(s) + n)
      BY <2>1, <2>3, <3>1, WritesBuffer
    <3> HIDE DEF n
    <3>4. Units(s, 0, Kept(s)) \o Units(s, Kept(s), Kept(s) + n) = Units(s, 0, Kept(s) + n)
      BY <3>2, UnitsOnward
    <3> QED
      BY <3>2, <3>3, <3>4, <1>2, <1>5
  <2> QED
    BY <2>2, <2>3
<1> QED
  BY <1>6, <1>7

LEMMA StartNext ==
  ASSUME RunTypeOK, StartOK, [RunNext]_runVars
  PROVE  StartOK'
<1> USE DEF child, pipes, copies, ends
<1>1. CASE Start
  BY <1>1 DEF Start, StartOK
<1>2. CASE started
  <2>1. started' = started /\ (stage' \in {"starting", "unstarted"} => stage' = stage)
    BY <1>2 DEF StartOK, RunNext, runVars, Start, StartFails, Write, BrokenPipe, Exit,
       BackgroundEnds, CopierReads, CopierWrites, CopierEnds, Panic, Timeout, Reap,
       RecordVerification, PrintPlugin, Fail
  <2> QED
    BY <1>2, <2>1 DEF StartOK
<1>3. CASE ~started /\ ~Start
  <2>1. /\ stage \notin {"running", "reaped", "crashed"} /\ ~alive /\ ~background
        /\ \A s \in Stream : written[s] = 0 /\ copier[s] = "reading"
    BY <1>3 DEF StartOK
  <2>2. \A s \in Stream : ~(\/ Write(s) \/ BrokenPipe(s) \/ CopierReads(s)
                             \/ CopierWrites(s) \/ CopierEnds(s))
    <3> SUFFICES ASSUME NEW s \in Stream
                 PROVE  ~Write(s) /\ ~BrokenPipe(s) /\ ~CopierReads(s)
                        /\ ~CopierWrites(s) /\ ~CopierEnds(s)
      OBVIOUS
    <3>1. written[s] - taken[s] <= 0
      BY <2>1, StreamNumbers, Numbers
    <3>2. ~ (Least(written[s] - taken[s], Chunk) > 0)
      BY <3>1, StreamNumbers, Numbers DEF Least
    <3> QED
      BY <1>3, <2>1, <3>2 DEF Write, BrokenPipe, CopierReads, CopierWrites, CopierEnds
  <2>3. /\ UNCHANGED <<started, alive, background, written, copier>>
        /\ stage' \in {stage, "unstarted", "reported", "failed"}
    BY <1>3, <2>1, <2>2 DEF RunNext, runVars, StartFails, Exit, BackgroundEnds, Panic,
       Timeout, Reap, RecordVerification, PrintPlugin, Fail
  <2> QED
    BY <1>3, <2>1, <2>3 DEF StartOK
<1> QED
  BY <1>1, <1>2, <1>3

\* Once Run's caller has reported, only what the command left behind goes on.
LEMMA ReportNext ==
  ASSUME RunTypeOK, StartOK, ReportOK, [RunNext]_runVars
  PROVE  ReportOK'
<1> USE DEF child, pipes, copies, ends
<1>1. stage' \notin {"running", "crashed"} => ~alive'
  BY DEF ReportOK, RunNext, runVars, Start, StartFails, Write, BrokenPipe, Exit,
     BackgroundEnds, CopierReads, CopierWrites, CopierEnds, Panic, Timeout, Reap,
     RecordVerification, PrintPlugin, Fail, Returned
<1>2. CASE stage = "reported"
  <2>1. /\ ~alive
        /\ \/ started /\ \A s \in Stream : copier[s] \in {"short", "ended"}
           \/ /\ ~started /\ ~background
              /\ \A s \in Stream : written[s] = 0 /\ copier[s] = "reading"
    BY <1>2 DEF ReportOK, StartOK
  <2>2. \A s \in Stream : ~(CopierReads(s) \/ CopierWrites(s) \/ CopierEnds(s))
    <3> SUFFICES ASSUME NEW s \in Stream
                 PROVE  ~CopierReads(s) /\ ~CopierWrites(s) /\ ~CopierEnds(s)
      OBVIOUS
    <3>1. CASE started
      BY <2>1, <3>1 DEF CopierReads, CopierWrites, CopierEnds
    <3>2. CASE ~started
      <4>1. written[s] - taken[s] <= 0 /\ copier[s] = "reading"
        BY <2>1, <3>2, StreamNumbers, Numbers
      <4>2. ~ (Least(written[s] - taken[s], Chunk) > 0)
        BY <4>1, StreamNumbers, Numbers DEF Least
      <4> QED
        BY <3>2, <4>1, <4>2 DEF CopierReads, CopierWrites, CopierEnds
    <3> QED
      BY <3>1, <3>2
  <2>3. /\ kind' = kind /\ started' = started /\ alive' = alive /\ status' = status
        /\ cancelled' = cancelled
        /\ copier' = copier /\ buffer' = buffer
        /\ stage' = stage /\ code' = code /\ output' = output
    BY <1>2, <2>1, <2>2 DEF RunNext, runVars, Start, StartFails, Write, BrokenPipe, Exit,
       BackgroundEnds, Panic, Timeout, Reap, RecordVerification, PrintPlugin, Fail, Returned
  <2>4. RunError' = RunError
    BY <2>3 DEF RunError
  <2> QED
    BY <1>1, <2>3, <2>4, <1>2 DEF ReportOK, Recorded, Printed, ExitCode
<1>3. CASE stage # "reported" /\ RecordVerification
  <2>1. /\ kind' = kind /\ kind = "verify" /\ stage' = "reported" /\ code' = ExitCode
        /\ output' = [s \in Stream |-> Cut(buffer[s], Excerpt)]
        /\ buffer' = buffer /\ copier' = copier /\ status' = status /\ cancelled' = cancelled
        /\ started' = started
        /\ started => \A s \in Stream : copier[s] \in {"short", "ended"}
    BY <1>3 DEF RecordVerification, Returned, StartOK
  <2>2. RunError' = RunError
    BY <2>1 DEF RunError
  <2>3. ExitCode' = ExitCode
    BY <2>1, <2>2 DEF ExitCode
  <2> QED
    BY <1>1, <2>1, <2>3 DEF ReportOK, Recorded, Printed
<1>4. CASE stage # "reported" /\ PrintPlugin
  <2>1. /\ kind' = kind /\ kind = "plugin" /\ stage' = "reported" /\ RunError = "none"
        /\ output'["stdout"] = Cut(buffer["stdout"], Limit)
        /\ buffer' = buffer /\ copier' = copier /\ status' = status /\ cancelled' = cancelled
        /\ started' = started
        /\ started => \A s \in Stream : copier[s] \in {"short", "ended"}
    BY <1>4 DEF PrintPlugin, Returned, StartOK, RunTypeOK, Stream
  <2>2. RunError' = RunError
    BY <2>1 DEF RunError
  <2> QED
    BY <1>1, <2>1, <2>2 DEF ReportOK, Recorded, Printed
<1>5. CASE stage # "reported" /\ ~RecordVerification /\ ~PrintPlugin
  <2>1. stage' # "reported"
    BY <1>5 DEF RunNext, runVars, Start, StartFails, Write, BrokenPipe, Exit, BackgroundEnds,
       CopierReads, CopierWrites, CopierEnds, Panic, Timeout, Reap, Fail
  <2> QED
    BY <1>1, <2>1 DEF ReportOK, Recorded, Printed
<1> QED
  BY <1>2, <1>3, <1>4, <1>5

LEMMA RunInvNext == RunInv /\ [RunNext]_runVars => RunInv'
<1> SUFFICES ASSUME RunInv, [RunNext]_runVars PROVE RunInv'
  OBVIOUS
<1>1. /\ RunTypeOK /\ GarbledOK /\ KeptIsPrefix /\ StartOK /\ ReportOK
      /\ \A s \in Stream : CopierOK(s)
      /\ \A s \in Stream : OwnBuffer(s)
  BY DEF RunInv
<1>2. RunTypeOK' /\ (\A s \in Stream : CopierOK(s)')
  BY <1>1, RunTyped, CopiersNext
<1>3. GarbledOK' /\ KeptIsPrefix' /\ StartOK' /\ ReportOK'
  BY <1>1, GarbledNext, PrefixNext, StartNext, ReportNext
<1>4. \A s \in Stream : OwnBuffer(s)'
  BY <1>1, OwnNext
<1> QED
  BY <1>2, <1>3, <1>4 DEF RunInv

LEMMA RunInvariant == RunSpec => []RunInv
<1> QED
  BY RunInitInv, RunInvNext, PTL DEF RunSpec

-----------------------------------------------------------------------------
(* The theorems.                                                           *)

\* At every moment a run is in one of the states its goroutines, its child and
\* its caller can be in: no copier reads beyond what was written, no writer
\* holds more than what is left of the limit.
THEOREM RunsTyped == RunSpec => []RunTypeOK
<1>1. RunInv => RunTypeOK
  BY DEF RunInv
<1> QED
  BY <1>1, RunInvariant, PTL

\* Whatever the chunks in which a stream arrives, what its limitedWriter has
\* passed on is the beginning of it, up to the limit.
THEOREM NothingLeftOut == RunSpec => []KeptIsPrefix
<1>1. RunInv => KeptIsPrefix
  BY DEF RunInv
<1> QED
  BY <1>1, RunInvariant, PTL

\* Where every copier has reached the end of its stream, a buffer that is a
\* stream's alone holds all of it, up to the limit.
LEMMA EndedKept ==
  ASSUME RunInv, NEW s \in Stream, copier[s] = "ended"
  PROVE  Kept(s) = Least(written[s], Limit)
<1>1. RunTypeOK /\ CopierOK(s)
  BY DEF RunInv
<1>2. got[s] = 0 /\ taken[s] = written[s]
  BY <1>1, StreamNumbers DEF CopierOK
<1>3. taken[s] - 0 = taken[s]
  BY <1>1, StreamNumbers
<1> QED
  BY <1>2, <1>3 DEF Kept

\* The row of a verification has the command's own exit code, or 1 because there
\* was none, more than the limit was written or the time was over; and a row with
\* the code 0 is of a command that was started and succeeded, with the beginning
\* of all that it wrote.
THEOREM RowsAreOfTheCommand == RunSpec => []CodeIsOwn
<1>1. ASSUME RunInv PROVE CodeIsOwn
  <2> SUFFICES ASSUME Recorded
               PROVE  /\ \/ started /\ code = status
                         \/ /\ code = 1
                            /\ ~started \/ cancelled \/ \E s \in Stream : written[s] > Limit
                      /\ code = 0 =>
                           /\ started /\ status = 0 /\ ~cancelled
                           /\ \A s \in Stream :
                                output[s] = Units(s, 0, Least(written[s], Excerpt))
    BY DEF CodeIsOwn
  <2>1. /\ kind = "verify" /\ code = ExitCode
        /\ output = [s \in Stream |-> Cut(buffer[s], Excerpt)]
        /\ started => \A s \in Stream : copier[s] \in {"short", "ended"}
    BY <1>1 DEF RunInv, ReportOK, Recorded
  <2>2. RunTypeOK /\ \A s \in Stream : CopierOK(s)
    BY <1>1 DEF RunInv
  <2>3. \/ started /\ code = status
        \/ code = 1 /\ (~started \/ cancelled \/ \E s \in Stream : written[s] > Limit)
    <3>0. CASE ~started
      BY <3>0, <2>1 DEF ExitCode, RunError
    <3>1. CASE started /\ status # 0
      BY <3>1, <2>1 DEF ExitCode, RunError
    <3>2. CASE started /\ status = 0 /\ ~cancelled /\ \E s \in Stream : copier[s] = "short"
      <4>1. PICK s \in Stream : copier[s] = "short"
        BY <3>2
      <4>2. taken[s] > Limit
        BY <4>1, <2>2 DEF CopierOK
      <4>3. written[s] > Limit
        BY <4>2, <2>2, StreamNumbers, Numbers
      <4>4. code = 1
        BY <3>2, <2>1 DEF ExitCode, RunError
      <4> QED
        BY <4>3, <4>4
    <3>3. CASE started /\ status = 0 /\ ~cancelled /\ ~ \E s \in Stream : copier[s] = "short"
      BY <3>3, <2>1 DEF ExitCode, RunError
    <3>4. CASE started /\ status = 0 /\ cancelled
      BY <3>4, <2>1 DEF ExitCode, RunError
    <3> QED
      BY <3>0, <3>1, <3>2, <3>3, <3>4
  <2>4. ASSUME code = 0
        PROVE  /\ started /\ status = 0 /\ ~cancelled
               /\ \A s \in Stream : output[s] = Units(s, 0, Least(written[s], Excerpt))
    <3>1. RunError = "none"
      <4>1. RunError = "exit" => ExitCode = status /\ status # 0
        BY DEF ExitCode, RunError
      <4>2. RunError \notin {"none", "exit"} => ExitCode = 1
        BY DEF ExitCode
      <4> QED
        BY <4>1, <4>2, <2>1, <2>4
    <3>2. started /\ status = 0 /\ ~cancelled /\ \A s \in Stream : copier[s] # "short"
      BY <3>1 DEF RunError
    <3>3. ASSUME NEW s \in Stream
          PROVE  output[s] = Units(s, 0, Least(written[s], Excerpt))
      <4>1. copier[s] = "ended"
        BY <2>1, <3>2
      <4>2. Kept(s) = Least(written[s], Limit)
        BY <1>1, <4>1, EndedKept
      <4>3. Sink(s) = s /\ Alone(s)
        BY <2>1 DEF Sink, Alone
      <4>4. buffer[s] = Units(s, 0, Least(written[s], Limit))
        BY <1>1, <4>2, <4>3 DEF RunInv, OwnBuffer
      <4>5. /\ Least(written[s], Limit) \in Nat /\ Least(written[s], Limit) <= MaxWritten
            /\ Least(Excerpt, Least(written[s], Limit)) = Least(written[s], Excerpt)
        BY <2>2, StreamNumbers, Numbers DEF Least
      <4>6. output[s] = Cut(Units(s, 0, Least(written[s], Limit)), Excerpt)
        BY <2>1, <4>4
      <4> QED
        BY <4>5, <4>6, UnitsCut, Numbers
    <3> QED
      BY <3>2, <3>3
  <2> QED
    BY <2>3, <2>4
<1> QED
  BY <1>1, RunInvariant, PTL

\* A plugin that writes to one of its streams only never makes Across panic,
\* and what is printed is what it wrote, up to the limit.
THEOREM OneStreamIsSafe == RunSpec => []OneStreamSafe
<1>1. ASSUME RunInv PROVE OneStreamSafe
  <2> SUFFICES ASSUME NEW s \in Stream, kind = "plugin",
                      \A t \in Stream \ {s} : written[t] = 0
               PROVE  /\ ~garbled /\ stage # "crashed"
                      /\ Printed => /\ started /\ status = 0 /\ ~cancelled
                                    /\ output["stdout"] = Units(s, 0, Least(written[s], Limit))
    BY DEF OneStreamSafe
  <2>1. RunTypeOK /\ GarbledOK /\ ReportOK /\ OwnBuffer(s)
    BY <1>1 DEF RunInv
  <2>2. ~garbled /\ stage # "crashed"
    <3>1. PICK t \in Stream : t # s
      BY DEF Stream
    <3>2. written[t] = 0
      BY <3>1
    <3> QED
      BY <3>2, <2>1, Numbers DEF GarbledOK
  <2>3. ASSUME Printed
        PROVE  /\ started /\ status = 0 /\ ~cancelled
               /\ output["stdout"] = Units(s, 0, Least(written[s], Limit))
    <3>1. /\ RunError = "none" /\ output["stdout"] = Cut(buffer["stdout"], Limit)
          /\ started => copier[s] \in {"short", "ended"}
      BY <2>1, <2>3 DEF ReportOK, Printed
    <3>2. started /\ status = 0 /\ ~cancelled /\ copier[s] = "ended"
      BY <3>1 DEF RunError
    <3>3. Sink(s) = "stdout" /\ Alone(s)
      BY DEF Sink, Alone
    <3>4. buffer["stdout"] = Units(s, 0, Least(written[s], Limit))
      BY <1>1, <2>1, <3>2, <3>3, EndedKept DEF OwnBuffer
    <3>5. /\ Least(written[s], Limit) \in Nat /\ Least(written[s], Limit) <= MaxWritten
          /\ Least(Limit, Least(written[s], Limit)) = Least(written[s], Limit)
      BY <2>1, StreamNumbers, Numbers DEF Least
    <3>6. output["stdout"] = Cut(Units(s, 0, Least(written[s], Limit)), Limit)
      BY <3>1, <3>4
    <3> QED
      BY <3>2, <3>5, <3>6, UnitsCut, Numbers
  <2> QED
    BY <2>2, <2>3
<1> QED
  BY <1>1, RunInvariant, PTL
=============================================================================
