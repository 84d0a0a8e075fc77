------------------------ MODULE Orchestrator_proofs ------------------------
(***************************************************************************)
(* Proofs about ActionResult, ActionLedger and Orchestrator: what a        *)
(* success means, that no action is carried out twice under one run, and   *)
(* what the gates and the passes of a work are worth.                      *)
(*                                                                         *)
(* Two processes may both write an admission of the same action.  The one  *)
(* whose line is the first runs the command; the other finds the first one *)
(* when it verifies the file again.  The invariant of the ledgers says     *)
(* which line each process holds, and that a command that was started has  *)
(* used up the first admission of its action.                              *)
(* The same of results makes the ledgers an implementation of              *)
(* SingleExecution, step by step.                                          *)
(*                                                                         *)
(* The host, the owner and the repository around the processes leave the   *)
(* ledgers alone, and what they hand to the processes is a plan: so the    *)
(* orchestrator is an instance of ActionLedger, and what is proved there   *)
(* holds here.                                                             *)
(*                                                                         *)
(* Then, of the work itself: that no gate is left open behind it, and that *)
(* a gate that passed was approved and earned.                             *)
(***************************************************************************)
EXTENDS Orchestrator, SequenceTheorems, TLAPS

-----------------------------------------------------------------------------
(* The results of commands.                                                *)

\* Each family takes the failure in a text for one.
LEMMA FailureIsEvidence ==
  ASSUME NEW family \in Families, NEW text \in Texts
  PROVE  FamilyEvidence(family, text).failure = ("failure" \in text)
  <1>1. CASE family = "pytest"
    BY <1>1 DEF FamilyEvidence, PytestEvidence, Evidence, Quiet, Reporting
  <1>2. CASE family \in Quiet
    BY <1>2 DEF FamilyEvidence, QuietEvidence, Evidence, Quiet, Reporting
  <1>3. CASE family \in Reporting
    BY <1>3 DEF FamilyEvidence, ReportedEvidence, Evidence, Quiet, Reporting
  <1>4. CASE family = "generic_command"
    BY <1>4 DEF FamilyEvidence, GenericEvidence, Evidence, Quiet, Reporting
  <1> QED BY <1>1, <1>2, <1>3, <1>4 DEF Families

\* A command that counts as a success was started, ended by itself, and said
\* nothing that its family takes for a failure (results.py,
\* parse_command_result).
LEMMA SuccessIsClean ==
  ASSUME NEW raw \in Raws, Succeeds(raw)
  PROVE  raw.started /\ ~raw.timedOut /\ raw.exit = "zero" /\ "failure" \notin raw.text
  <1>1. raw.started /\ ~raw.timedOut /\ raw.exit = "zero" /\ ~Contradicts(raw)
    BY DEF Succeeds, FailureClass
  <1>2. raw.family \in Families /\ raw.text \in Texts
    BY <1>1 DEF Raws, Reports
  <1>3. ~FamilyEvidence(raw.family, raw.text).failure
    BY <1>1 DEF Contradicts
  <1> QED BY <1>1, <1>2, <1>3, FailureIsEvidence

\* The verdicts the runs use are those of the results an adapter reports.
LEMMA VerdictsOfRaws ==
  ASSUME NEW raw \in Raws
  PROVE  Verdict(raw) \in Verdicts
  <1>1. raw.started \in BOOLEAN
    BY DEF Raws, Reports
  <1>2. Succeeds(raw) => raw.started = TRUE
    BY <1>1, SuccessIsClean
  <1> QED BY <1>1, <1>2 DEF Verdict, Verdicts

-----------------------------------------------------------------------------
(* The ledger.                                                             *)

LedgerTypeOK ==
  /\ ledger \in [Runs -> Seq(Lines)]
  /\ proc \in [Procs -> {Idle} \union Busy]

\* The process is between the write of an admission and the end of the command.
Holder(p) ==
  At(p, "command") \/ (At(p, "reverify") /\ proc[p].kind = "admission")

Fingerprint(p) == proc[p].plan.fingerprint

FirstAdmission(lines, i, fingerprint) ==
  /\ i \in DOMAIN lines /\ Admits(lines, i, fingerprint)
  /\ \A j \in 1..(i - 1) : ~Admits(lines, j, fingerprint)

\* A holder's line is where it wrote it.
HoldersOwn ==
  \A p \in Procs : Holder(p) =>
    proc[p].at \in DOMAIN File(p) /\ Admits(File(p), proc[p].at, Fingerprint(p))

\* No two processes hold one line.
HoldersDiffer ==
  \A p, q \in Procs :
    Holder(p) /\ Holder(q) /\ p # q /\ proc[p].plan.run = proc[q].plan.run =>
      proc[p].at # proc[q].at

\* The file was verified after the write, so the line is the first of its kind.
CommandsAreFirst ==
  \A p \in Procs : At(p, "command") => FirstAdmission(File(p), proc[p].at, Fingerprint(p))

\* What was started has an admission that is nobody's any more.
StartedIsSpent ==
  \A r \in Runs, fingerprint \in Fingerprints : <<r, fingerprint>> \in started =>
    \E i \in Nat :
      /\ FirstAdmission(ledger[r], i, fingerprint)
      /\ \A p \in Procs : Holder(p) /\ proc[p].plan.run = r => proc[p].at # i

LedgerIInv ==
  LedgerTypeOK /\ HoldersOwn /\ HoldersDiffer /\ CommandsAreFirst /\ StartedIsSpent

-----------------------------------------------------------------------------
(* Lines that are appended leave the first admissions where they are.      *)

LEMMA AppendKeeps ==
  ASSUME NEW lines \in Seq(Lines), NEW line \in Lines
  PROVE  /\ Append(lines, line) \in Seq(Lines)
         /\ \A f : \A i \in DOMAIN lines :
              Admits(Append(lines, line), i, f) <=> Admits(lines, i, f)
         /\ \A i, f : FirstAdmission(lines, i, f) => FirstAdmission(Append(lines, line), i, f)
         /\ DOMAIN lines \subseteq DOMAIN Append(lines, line)
  <1> DEFINE longer == Append(lines, line)
  <1>1. /\ longer \in Seq(Lines)
        /\ DOMAIN lines = 1..Len(lines) /\ Len(lines) \in Nat
        /\ DOMAIN longer = 1..(Len(lines) + 1)
        /\ \A i \in DOMAIN lines : longer[i] = lines[i]
    OBVIOUS
  <1>2. \A f : \A i \in DOMAIN lines : Admits(longer, i, f) <=> Admits(lines, i, f)
    BY <1>1 DEF Admits
  <1>3. ASSUME NEW i, NEW f, FirstAdmission(lines, i, f)
        PROVE  FirstAdmission(longer, i, f)
    <2>1. i \in 1..Len(lines) /\ i \in DOMAIN longer
      BY <1>1, <1>3 DEF FirstAdmission
    <2>2. \A j \in 1..(i - 1) : j \in DOMAIN lines
      BY <2>1, <1>1
    <2> QED BY <2>1, <2>2, <1>1, <1>2, <1>3 DEF FirstAdmission
  <1> QED BY <1>1, <1>2, <1>3

\* In a file that verifies, an admission is the first of its action.
LEMMA VerifiedIsFirst ==
  ASSUME NEW lines, Verifies(lines), NEW i \in DOMAIN lines, NEW f, Admits(lines, i, f)
  PROVE  FirstAdmission(lines, i, f)
  BY DEF Verifies, FirstAdmission, Admits

-----------------------------------------------------------------------------
(* Steps that make no process a holder.                                    *)

\* What a process may be that holds no line.
NoHolder(what) ==
  what.pc # "command" /\ (what.pc = "reverify" => what.kind # "admission")

LEMMA Release ==
  ASSUME LedgerIInv, NEW p \in Procs, NEW next \in {Idle} \union Busy, NoHolder(next),
         proc' = [proc EXCEPT ![p] = next], ledger' = ledger, started' = started
  PROVE  LedgerIInv'
  <1> USE DEF LedgerIInv
  <1>1. LedgerTypeOK'
    BY DEF LedgerTypeOK
  <1>2. ~Holder(p)' /\ ~At(p, "command")'
    BY DEF LedgerTypeOK, Holder, At, NoHolder
  <1>3. \A q \in Procs : q # p => proc'[q] = proc[q]
    BY DEF LedgerTypeOK
  <1>4. \A q \in Procs : Holder(q)' => q # p /\ Holder(q)
    BY <1>2, <1>3 DEF Holder, At
  <1>5. \A q \in Procs : At(q, "command")' => q # p /\ At(q, "command")
    BY <1>2, <1>3 DEF At
  <1>6. HoldersOwn'
    BY <1>3, <1>4 DEF HoldersOwn, File, Fingerprint
  <1>7. HoldersDiffer'
    BY <1>3, <1>4 DEF HoldersDiffer
  <1>8. CommandsAreFirst'
    BY <1>3, <1>5 DEF CommandsAreFirst, File, Fingerprint
  <1>9. StartedIsSpent'
    BY <1>3, <1>4 DEF StartedIsSpent
  <1> QED BY <1>1, <1>6, <1>7, <1>8, <1>9

\* A line at the end of a file: the process that wrote it holds it, if it is an
\* admission that the process is to verify again.
LEMMA Grow ==
  ASSUME LedgerIInv, NEW p \in Procs, NEW next \in {Idle} \union Busy,
         NEW r \in Runs, NEW line \in Lines,
         NoHolder(next) \/ ( /\ next.pc # "command"
                             /\ next.plan.run = r /\ next.at = Len(ledger[r]) + 1
                             /\ line.kind = "admission" /\ line.plan = next.plan ),
         proc' = [proc EXCEPT ![p] = next],
         ledger' = [ledger EXCEPT ![r] = Append(@, line)], started' = started
  PROVE  LedgerIInv'
  <1> USE DEF LedgerIInv
  <1> DEFINE end == Len(ledger[r]) + 1
  <1>0. /\ ledger[r] \in Seq(Lines) /\ ledger'[r] = Append(ledger[r], line)
        /\ \A s \in Runs : s # r => ledger'[s] = ledger[s]
    BY DEF LedgerTypeOK
  <1>1. LedgerTypeOK'
    BY <1>0, AppendKeeps DEF LedgerTypeOK
  <1>2. /\ \A s \in Runs : \A f : \A i \in DOMAIN ledger[s] :
             i \in DOMAIN ledger'[s] /\ (Admits(ledger'[s], i, f) <=> Admits(ledger[s], i, f))
        /\ \A s \in Runs : \A i, f :
             FirstAdmission(ledger[s], i, f) => FirstAdmission(ledger'[s], i, f)
    BY <1>0, AppendKeeps
  <1>3. /\ \A q \in Procs : q # p => proc'[q] = proc[q]
        /\ proc'[p] = next
    BY DEF LedgerTypeOK
  <1>4. /\ \A q \in Procs : Holder(q)' /\ q # p => Holder(q)
        /\ \A q \in Procs : At(q, "command")' => q # p /\ At(q, "command")
    BY <1>3 DEF Holder, At, NoHolder
  <1>5. Holder(p)' => /\ next \in Busy /\ next.plan.run = r /\ next.at = end
                      /\ line.kind = "admission" /\ line.plan = next.plan
    BY <1>3 DEF Holder, At, NoHolder, Idle
  <1>6. \A q \in Procs : At(q, "command") \/ Holder(q) => proc[q].plan.run \in Runs
    BY DEF LedgerTypeOK, Holder, At, Idle, Busy, Plans
  <1>7. end \notin DOMAIN ledger[r]
    BY <1>0
  <1>8. HoldersOwn'
    <2>1. ASSUME NEW q \in Procs, Holder(q)', q # p
          PROVE  (proc[q].at \in DOMAIN File(q) /\ Admits(File(q), proc[q].at, Fingerprint(q)))'
      BY <2>1, <1>2, <1>3, <1>4, <1>6 DEF HoldersOwn, File, Fingerprint
    <2>2. ASSUME Holder(p)'
          PROVE  (proc[p].at \in DOMAIN File(p) /\ Admits(File(p), proc[p].at, Fingerprint(p)))'
      <3>1. end \in DOMAIN Append(ledger[r], line) /\ Append(ledger[r], line)[end] = line
        BY <1>0
      <3> QED BY <2>2, <3>1, <1>0, <1>3, <1>5 DEF File, Fingerprint, Admits
    <2> QED BY <2>1, <2>2 DEF HoldersOwn
  <1>9. HoldersDiffer'
    <2>1. ASSUME NEW q \in Procs, Holder(q), q # p, proc[q].plan.run = r, Holder(p)'
          PROVE  proc[q].at # next.at
      BY <2>1, <1>5, <1>7 DEF HoldersOwn, File
    <2> QED BY <2>1, <1>3, <1>4, <1>5 DEF HoldersDiffer
  <1>10. CommandsAreFirst'
    BY <1>2, <1>3, <1>4, <1>6 DEF CommandsAreFirst, File, Fingerprint
  <1>11. StartedIsSpent'
    <2> SUFFICES ASSUME NEW s \in Runs, NEW f \in Fingerprints, <<s, f>> \in started
                 PROVE  \E i \in Nat :
                          /\ FirstAdmission(ledger'[s], i, f)
                          /\ \A q \in Procs : Holder(q)' /\ proc'[q].plan.run = s =>
                               proc'[q].at # i
      BY DEF StartedIsSpent
    <2>1. PICK i \in Nat :
            /\ FirstAdmission(ledger[s], i, f)
            /\ \A q \in Procs : Holder(q) /\ proc[q].plan.run = s => proc[q].at # i
      BY DEF StartedIsSpent
    <2>2. FirstAdmission(ledger'[s], i, f)
      BY <2>1, <1>2
    <2>3. s = r => i # end
      BY <2>1, <1>7 DEF FirstAdmission
    <2> QED BY <2>1, <2>2, <2>3, <1>3, <1>4, <1>5
  <1> QED BY <1>1, <1>8, <1>9, <1>10, <1>11

-----------------------------------------------------------------------------
(* One step for each action of the processes.                              *)

LEMMA ExecuteKeeps ==
  ASSUME LedgerIInv, NEW p \in Procs, NEW asked \in Plans, Execute(p, asked)
  PROVE  LedgerIInv'
  <1> DEFINE next == [pc |-> "verify", plan |-> asked, kind |-> "admission",
                      seen |-> 0, at |-> 0, outcome |-> "none"]
  <1>1. next \in Busy /\ NoHolder(next)
    BY DEF Busy, Outcomes, NoHolder
  <1> QED BY <1>1, Release DEF Execute

LEMMA StopKeeps ==
  ASSUME LedgerIInv, NEW p \in Procs, Stop(p), ledger' = ledger, started' = started
  PROVE  LedgerIInv'
  BY Release DEF Stop, Idle, NoHolder

\* A process that is not idle has a plan and a file.
LEMMA BusyProcess ==
  ASSUME LedgerIInv, NEW p \in Procs, ~At(p, "idle")
  PROVE  /\ proc[p] \in Busy /\ proc[p].plan \in Plans
         /\ proc[p].plan.run \in Runs /\ proc[p].plan.fingerprint \in Fingerprints
         /\ File(p) \in Seq(Lines) /\ Len(File(p)) \in Nat
  BY DEF LedgerIInv, LedgerTypeOK, At, Idle, Busy, Plans, File

LEMMA VerifyKeeps ==
  ASSUME LedgerIInv, NEW p \in Procs, Verify(p)
  PROVE  LedgerIInv'
  <1>1. CASE Stop(p)
    BY <1>1, StopKeeps DEF Verify
  <1>2. CASE proc' = [proc EXCEPT ![p] = [@ EXCEPT !.pc = "write", !.seen = Len(File(p))]]
    <2> DEFINE next == [proc[p] EXCEPT !.pc = "write", !.seen = Len(File(p))]
    <2>1. proc[p] \in Busy /\ Len(File(p)) \in Nat
      BY BusyProcess DEF Verify, At
    <2>2. next \in Busy /\ NoHolder(next)
      BY <2>1 DEF Busy, NoHolder
    <2> QED BY <1>2, <2>2, Release DEF Verify
  <1> QED BY <1>1, <1>2 DEF Verify

LEMMA WriteKeeps ==
  ASSUME LedgerIInv, NEW p \in Procs, Write(p)
  PROVE  LedgerIInv'
  <1> DEFINE next == [proc[p] EXCEPT !.pc = "reverify", !.at = Len(File(p)) + 1]
             line == Line(p, proc[p].kind)
  <1>1. proc[p] \in Busy /\ proc[p].plan.run \in Runs /\ Len(File(p)) \in Nat
    BY BusyProcess DEF Write, At
  <1>2. next \in Busy /\ line \in Lines
    <2>1. ASSUME NEW end \in Nat
          PROVE  [proc[p] EXCEPT !.pc = "reverify", !.at = end] \in Busy
      BY <1>1 DEF Busy
    <2>2. Len(File(p)) + 1 \in Nat
      BY <1>1
    <2>3. line \in Lines
      BY <1>1 DEF Busy, Lines, Line
    <2> QED BY <2>1, <2>2, <2>3
  <1>3. \/ NoHolder(next)
        \/ /\ next.pc # "command"
           /\ next.plan.run = proc[p].plan.run
           /\ next.at = Len(ledger[proc[p].plan.run]) + 1
           /\ line.kind = "admission" /\ line.plan = next.plan
    BY <1>1 DEF Busy, NoHolder, Line, File
  <1>4. /\ proc' = [proc EXCEPT ![p] = next] /\ started' = started
        /\ ledger' = [ledger EXCEPT ![proc[p].plan.run] = Append(@, line)]
    BY DEF Write, Append1
  <1> QED BY <1>1, <1>2, <1>3, <1>4, Grow

LEMMA DieKeeps ==
  ASSUME LedgerIInv, NEW p \in Procs, Die(p)
  PROVE  LedgerIInv'
  <1>1. CASE UNCHANGED ledger
    BY <1>1, StopKeeps DEF Die
  <1>2. CASE Append1(p, "torn")
    <2> DEFINE line == Line(p, "torn")
    <2>1. proc[p] \in Busy /\ proc[p].plan.run \in Runs
      BY BusyProcess DEF Die
    <2>2. line \in Lines /\ NoHolder(Idle)
      BY <2>1 DEF Busy, Lines, Line, Idle, NoHolder
    <2>3. /\ proc' = [proc EXCEPT ![p] = Idle] /\ started' = started
          /\ ledger' = [ledger EXCEPT ![proc[p].plan.run] = Append(@, line)]
      BY <1>2 DEF Die, Stop, Append1
    <2> QED BY <2>1, <2>2, <2>3, Grow
  <1> QED BY <1>1, <1>2 DEF Die

LEMMA ReverifyKeeps ==
  ASSUME LedgerIInv, NEW p \in Procs, Reverify(p)
  PROVE  LedgerIInv'
  <1> USE DEF LedgerIInv
  <1>0. /\ proc[p] \in Busy /\ proc[p].plan.run \in Runs
        /\ ledger' = ledger /\ started' = started /\ proc[p].pc = "reverify"
    BY BusyProcess DEF Reverify, At
  <1>1. CASE Stop(p)
    BY <1>0, <1>1, StopKeeps
  <1>2. CASE proc[p].kind # "admission" /\ ~Stop(p)
    <2> DEFINE next == [proc[p] EXCEPT !.pc = "told"]
    <2>1. next \in Busy /\ NoHolder(next)
      BY <1>0 DEF Busy, NoHolder
    <2>2. proc' = [proc EXCEPT ![p] = next]
      BY <1>2 DEF Reverify
    <2> QED BY <1>0, <2>1, <2>2, Release
  <1>3. CASE proc[p].kind = "admission" /\ ~Stop(p)
    <2> DEFINE next == [proc[p] EXCEPT !.pc = "command"]
    <2>1. Verifies(File(p)) /\ proc' = [proc EXCEPT ![p] = next]
      BY <1>3 DEF Reverify
    <2>2. /\ next \in Busy /\ next.plan = proc[p].plan /\ next.at = proc[p].at
          /\ next.pc = "command"
      BY <1>0 DEF Busy
    <2>3. /\ \A q \in Procs : q # p => proc'[q] = proc[q]
          /\ proc'[p] = next
      BY <2>1 DEF LedgerTypeOK
    <2>4. Holder(p)
      BY <1>0, <1>3 DEF Holder, At
    <2>5. \A q \in Procs : /\ Holder(q)' => Holder(q)
                           /\ proc'[q].plan = proc[q].plan /\ proc'[q].at = proc[q].at
      BY <2>2, <2>3, <2>4 DEF Holder, At
    <2>6. FirstAdmission(File(p), proc[p].at, Fingerprint(p))
      BY <2>1, <2>4, VerifiedIsFirst DEF HoldersOwn
    <2>7. LedgerTypeOK'
      BY <1>0, <2>1, <2>2 DEF LedgerTypeOK
    <2>8. HoldersOwn'
      BY <1>0, <2>5 DEF HoldersOwn, File, Fingerprint
    <2>9. HoldersDiffer'
      BY <2>5 DEF HoldersDiffer
    <2>10. CommandsAreFirst'
      BY <1>0, <2>2, <2>3, <2>6 DEF CommandsAreFirst, File, Fingerprint, At
    <2>11. StartedIsSpent'
      BY <1>0, <2>5 DEF StartedIsSpent
    <2> QED BY <2>7, <2>8, <2>9, <2>10, <2>11
  <1> QED BY <1>1, <1>2, <1>3

\* The line of the process that starts a command is the spent one.
LEMMA CommandKeeps ==
  ASSUME LedgerIInv, NEW p \in Procs, NEW verdict \in Verdicts, Command(p, verdict)
  PROVE  LedgerIInv'
  <1> USE DEF LedgerIInv
  <1> DEFINE next == [proc[p] EXCEPT !.pc = "verify", !.kind = "result",
                                     !.outcome = verdict.outcome]
             s    == proc[p].plan.run
             f    == proc[p].plan.fingerprint
  <1>1. /\ proc[p] \in Busy /\ s \in Runs /\ f \in Fingerprints
        /\ ledger' = ledger /\ proc[p].pc = "command"
        /\ proc' = [proc EXCEPT ![p] = next]
        /\ started' \subseteq started \union {<<s, f>>}
    BY BusyProcess DEF Command, At
  <1>2. verdict.outcome \in Outcomes
    BY DEF Verdicts, Outcomes
  <1>3. next \in Busy /\ NoHolder(next)
    BY <1>1, <1>2 DEF Busy, NoHolder
  <1>4. LedgerTypeOK'
    BY <1>1, <1>3 DEF LedgerTypeOK
  <1>5. /\ \A q \in Procs : q # p => proc'[q] = proc[q]
        /\ proc'[p] = next
    BY <1>1 DEF LedgerTypeOK
  <1>6. /\ \A q \in Procs : Holder(q)' => q # p /\ Holder(q)
        /\ \A q \in Procs : At(q, "command")' => q # p /\ At(q, "command")
    BY <1>3, <1>5 DEF Holder, At, NoHolder
  <1>7. HoldersOwn'
    BY <1>1, <1>5, <1>6 DEF HoldersOwn, File, Fingerprint
  <1>8. HoldersDiffer'
    BY <1>5, <1>6 DEF HoldersDiffer
  <1>9. CommandsAreFirst'
    BY <1>1, <1>5, <1>6 DEF CommandsAreFirst, File, Fingerprint
  <1>10. StartedIsSpent'
    <2> SUFFICES ASSUME NEW r \in Runs, NEW g \in Fingerprints, <<r, g>> \in started'
                 PROVE  \E i \in Nat :
                          /\ FirstAdmission(ledger[r], i, g)
                          /\ \A q \in Procs : Holder(q)' /\ proc'[q].plan.run = r =>
                               proc'[q].at # i
      BY <1>1 DEF StartedIsSpent
    <2>1. CASE <<r, g>> \in started
      <3>1. PICK i \in Nat :
              /\ FirstAdmission(ledger[r], i, g)
              /\ \A q \in Procs : Holder(q) /\ proc[q].plan.run = r => proc[q].at # i
        BY <2>1 DEF StartedIsSpent
      <3> QED BY <3>1, <1>5, <1>6
    <2>2. CASE r = s /\ g = f
      <3>1. Holder(p) /\ proc[p].at \in Nat
        BY <1>1 DEF Holder, At, Busy
      <3>2. FirstAdmission(ledger[r], proc[p].at, g)
        BY <2>2, <1>1 DEF CommandsAreFirst, At, File, Fingerprint
      <3>3. \A q \in Procs : Holder(q)' /\ proc'[q].plan.run = r => proc'[q].at # proc[p].at
        BY <2>2, <3>1, <1>5, <1>6 DEF HoldersDiffer
      <3> QED BY <3>1, <3>2, <3>3
    <2> QED BY <1>1, <2>1, <2>2
  <1> QED BY <1>4, <1>7, <1>8, <1>9, <1>10

LEMMA LedgerInductive == LedgerIInv /\ [LedgerNext]_ledgerVars => LedgerIInv'
  <1>1. ASSUME LedgerIInv, NEW p \in Procs, Return(p)
        PROVE  LedgerIInv'
    BY <1>1, StopKeeps DEF Return
  <1>2. CASE LedgerNext
    BY <1>1, <1>2, ExecuteKeeps, VerifyKeeps, WriteKeeps, ReverifyKeeps, DieKeeps,
       CommandKeeps DEF LedgerNext
  <1>3. CASE UNCHANGED ledgerVars
    BY <1>3 DEF ledgerVars, LedgerIInv, LedgerTypeOK, HoldersOwn, HoldersDiffer,
       CommandsAreFirst, StartedIsSpent, Holder, At, File, Fingerprint
  <1> QED BY <1>2, <1>3

LEMMA LedgerStarts == LedgerInit => LedgerIInv
  BY DEF LedgerInit, LedgerIInv, LedgerTypeOK, HoldersOwn, HoldersDiffer,
     CommandsAreFirst, StartedIsSpent, Holder, At, Idle

\* Two first admissions of one action are one line; the one that a started
\* command has spent is nobody's.
LEMMA SpentIsNotHeld == LedgerIInv => NothingStartsTwice
  <1> SUFFICES ASSUME LedgerIInv, NEW p \in Procs, At(p, "command"),
                      <<proc[p].plan.run, proc[p].plan.fingerprint>> \in started
               PROVE  FALSE
    BY DEF NothingStartsTwice
  <1> USE DEF LedgerIInv
  <1> DEFINE r == proc[p].plan.run
             f == proc[p].plan.fingerprint
             at == proc[p].at
  <1>1. r \in Runs /\ f \in Fingerprints /\ proc[p] \in Busy /\ at \in Nat /\ Holder(p)
    BY BusyProcess DEF At, Busy, Holder
  <1>2. PICK i \in Nat : /\ FirstAdmission(ledger[r], i, f)
                         /\ \A q \in Procs : Holder(q) /\ proc[q].plan.run = r => proc[q].at # i
    BY <1>1 DEF StartedIsSpent
  <1>3. FirstAdmission(ledger[r], at, f) /\ i # at
    BY <1>1, <1>2 DEF CommandsAreFirst, File, Fingerprint
  <1>4. i \in 1..(at - 1) \/ at \in 1..(i - 1)
    <2>1. ledger[r] \in Seq(Lines)
      BY <1>1 DEF LedgerTypeOK
    <2> QED BY <1>1, <1>2, <1>3, <2>1 DEF FirstAdmission
  <1> QED BY <1>2, <1>3, <1>4 DEF FirstAdmission

\* However many processes execute the plans of a run, and wherever they die,
\* none of them is about to start what was started before (ledger.py, _append).
THEOREM NothingIsStartedTwice == LedgerSpec => []NothingStartsTwice
  <1>1. LedgerSpec => []LedgerIInv
    BY LedgerStarts, LedgerInductive, PTL DEF LedgerSpec
  <1> QED BY <1>1, SpentIsNotHeld, PTL

-----------------------------------------------------------------------------
(* One execution, one result: the processes and their ledgers implement     *)
(* SingleExecution.                                                         *)

\* The process has carried out its action and has still to record the result;
\* its admission is where it was.
Recorder(p) == proc[p].pc \in {"verify", "write"} /\ proc[p].kind = "result"

\* A line belongs to the process that wrote it until the result is recorded.
Owner(p) == Holder(p) \/ Recorder(p)

\* No two processes own one line.
OwnersDiffer ==
  \A p, q \in Procs :
    Owner(p) /\ Owner(q) /\ p # q /\ proc[p].plan.run = proc[q].plan.run =>
      proc[p].at # proc[q].at

\* What was carried out was admitted by the first line of its action.
RecordersAreFirst ==
  \A p \in Procs : Recorder(p) => FirstAdmission(File(p), proc[p].at, Fingerprint(p))

\* The action has an admission, and nobody owns the first of them.
LineSpent(r, fingerprint) ==
  \E i \in Nat :
    /\ FirstAdmission(ledger[r], i, fingerprint)
    /\ \A p \in Procs : Owner(p) /\ proc[p].plan.run = r => proc[p].at # i

ResultsAreSpent ==
  \A r \in Runs : \A i \in DOMAIN ledger[r] :
    ledger[r][i].kind = "result" => LineSpent(r, ledger[r][i].plan.fingerprint)

\* A success on its way to the ledger is that of a command that was started.
SuccessWasStarted ==
  \A p \in Procs :
    ~At(p, "idle") /\ proc[p].kind = "result" /\ proc[p].outcome = "ok" =>
      Work(proc[p].plan) \in started

\* The file of a run holds its own plans.
LinesAtHome == \A r \in Runs : \A i \in DOMAIN ledger[r] : ledger[r][i].plan.run = r

ExecInv ==
  /\ LedgerIInv /\ OwnersDiffer /\ RecordersAreFirst /\ ResultsAreSpent /\ SuccessWasStarted
  /\ LinesAtHome

\* The same of what a process becomes.
Records(what) == what.pc \in {"verify", "write"} /\ what.kind = "result"
Holds(what) == what.pc = "command" \/ (what.pc = "reverify" /\ what.kind = "admission")
Honest(what, begun) ==
  what.pc # "idle" /\ what.kind = "result" /\ what.outcome = "ok" => Work(what.plan) \in begun

\* An owner has a plan and knows its line.
LEMMA OwnerHasLine ==
  ASSUME ExecInv, NEW p \in Procs, Owner(p)
  PROVE  /\ ~At(p, "idle") /\ proc[p] \in Busy /\ proc[p].plan.run \in Runs
         /\ proc[p].at \in DOMAIN File(p)
  <1>1. ~At(p, "idle")
    BY DEF Owner, Holder, Recorder, At
  <1>2. CASE Holder(p)
    BY <1>1, <1>2, BusyProcess DEF ExecInv, LedgerIInv, HoldersOwn
  <1>3. CASE Recorder(p)
    BY <1>1, <1>3, BusyProcess DEF ExecInv, RecordersAreFirst, FirstAdmission
  <1> QED BY <1>2, <1>3 DEF Owner

\* A step that writes nothing, and gives nobody a line.
LEMMA MovesKeep ==
  ASSUME ExecInv, LedgerIInv', NEW p \in Procs, NEW next \in {Idle} \union Busy,
         proc' = [proc EXCEPT ![p] = next], ledger' = ledger, started \subseteq started',
         Holds(next) \/ Records(next) =>
           Owner(p) /\ next.plan = proc[p].plan /\ next.at = proc[p].at,
         Records(next) => FirstAdmission(File(p), proc[p].at, Fingerprint(p)),
         Honest(next, started')
  PROVE  ExecInv'
  <1>1. /\ \A q \in Procs : q # p => proc'[q] = proc[q]
        /\ proc'[p] = next
    BY DEF ExecInv, LedgerIInv, LedgerTypeOK
  <1>2. \A q \in Procs : Owner(q)' =>
          Owner(q) /\ proc'[q].plan = proc[q].plan /\ proc'[q].at = proc[q].at
    BY <1>1 DEF Owner, Holder, Recorder, At, Holds, Records
  <1>3. OwnersDiffer'
    BY <1>2 DEF ExecInv, OwnersDiffer
  <1>4. RecordersAreFirst'
    <2> SUFFICES ASSUME NEW q \in Procs, Recorder(q)'
                 PROVE  FirstAdmission(File(q), proc[q].at, Fingerprint(q))'
      BY DEF RecordersAreFirst
    <2>1. CASE q = p
      BY <1>1, <2>1 DEF Recorder, Records, File, Fingerprint
    <2>2. CASE q # p
      BY <1>1, <2>2 DEF Recorder, ExecInv, RecordersAreFirst, File, Fingerprint
    <2> QED BY <2>1, <2>2
  <1>5. \A r, f : LineSpent(r, f) => LineSpent(r, f)'
    BY <1>2 DEF LineSpent
  <1>6. ResultsAreSpent'
    BY <1>5 DEF ExecInv, ResultsAreSpent
  <1>7. SuccessWasStarted'
    <2> SUFFICES ASSUME NEW q \in Procs, ~At(q, "idle")', proc'[q].kind = "result",
                        proc'[q].outcome = "ok"
                 PROVE  Work(proc'[q].plan) \in started'
      BY DEF SuccessWasStarted
    <2>1. CASE q = p
      BY <1>1, <2>1 DEF Honest, At
    <2>2. CASE q # p
      BY <1>1, <2>2 DEF ExecInv, SuccessWasStarted, At
    <2> QED BY <2>1, <2>2
  <1>8. LinesAtHome'
    BY DEF ExecInv, LinesAtHome
  <1> QED BY <1>3, <1>4, <1>6, <1>7, <1>8 DEF ExecInv

\* A step that writes a line: an admission is owned by who wrote it, a result
\* gives up the line that its writer owned.
LEMMA LinesKeep ==
  ASSUME ExecInv, LedgerIInv', NEW p \in Procs, NEW next \in {Idle} \union Busy,
         NEW r \in Runs, NEW line \in Lines, line.plan.run = r,
         proc' = [proc EXCEPT ![p] = next],
         ledger' = [ledger EXCEPT ![r] = Append(@, line)], started' = started,
         ~Records(next),
         Holds(next) => next.plan.run = r /\ next.at = Len(ledger[r]) + 1,
         line.kind = "result" => /\ Recorder(p) /\ proc[p].plan = line.plan
                                 /\ proc[p].plan.run = r /\ ~Holds(next),
         Honest(next, started)
  PROVE  ExecInv'
  <1> DEFINE end == Len(ledger[r]) + 1
  <1>0. /\ ledger[r] \in Seq(Lines) /\ ledger'[r] = Append(ledger[r], line)
        /\ \A s \in Runs : s # r => ledger'[s] = ledger[s]
        /\ \A s \in Runs : ledger[s] \in Seq(Lines)
    BY DEF ExecInv, LedgerIInv, LedgerTypeOK
  <1>1. /\ \A q \in Procs : q # p => proc'[q] = proc[q]
        /\ proc'[p] = next
    BY DEF ExecInv, LedgerIInv, LedgerTypeOK
  <1>2. \A q \in Procs : Owner(q)' =>
          \/ q # p /\ Owner(q)
          \/ q = p /\ Holds(next)
    BY <1>1 DEF Owner, Holder, Recorder, At, Holds, Records
  <1>3. \A s \in Runs : \A i, f :
          FirstAdmission(ledger[s], i, f) => FirstAdmission(ledger'[s], i, f)
    BY <1>0, AppendKeeps
  <1>4. end \notin DOMAIN ledger[r]
    BY <1>0
  <1>5. \A q \in Procs : Owner(q) /\ proc[q].plan.run = r => proc[q].at # end
    BY <1>4, OwnerHasLine DEF File
  <1>6. OwnersDiffer'
    BY <1>1, <1>2, <1>5 DEF ExecInv, OwnersDiffer
  <1>7. RecordersAreFirst'
    <2> SUFFICES ASSUME NEW q \in Procs, Recorder(q)'
                 PROVE  FirstAdmission(File(q), proc[q].at, Fingerprint(q))'
      BY DEF RecordersAreFirst
    <2>1. q # p /\ Recorder(q)
      BY <1>1 DEF Recorder, Records
    <2>2. proc[q].plan.run \in Runs
      BY <2>1, OwnerHasLine DEF Owner
    <2> QED BY <1>1, <1>3, <2>1, <2>2 DEF ExecInv, RecordersAreFirst, File, Fingerprint
  <1>8. ASSUME NEW s \in Runs, NEW f, LineSpent(s, f)
        PROVE  LineSpent(s, f)'
    <2>1. PICK i \in Nat :
            /\ FirstAdmission(ledger[s], i, f)
            /\ \A q \in Procs : Owner(q) /\ proc[q].plan.run = s => proc[q].at # i
      BY <1>8 DEF LineSpent
    <2>2. FirstAdmission(ledger'[s], i, f)
      BY <1>3, <2>1
    <2>3. s = r => i # end
      BY <1>4, <2>1 DEF FirstAdmission
    <2>4. \A q \in Procs : Owner(q)' /\ proc'[q].plan.run = s => proc'[q].at # i
      BY <1>1, <1>2, <2>1, <2>3
    <2> QED BY <2>2, <2>4 DEF LineSpent
  <1>9. ASSUME line.kind = "result"
        PROVE  LineSpent(r, line.plan.fingerprint)'
    <2> DEFINE i == proc[p].at
    <2>1. Owner(p) /\ Recorder(p) /\ proc[p].plan = line.plan /\ proc[p].plan.run = r
      BY <1>9 DEF Owner
    <2>2. FirstAdmission(ledger[r], i, line.plan.fingerprint)
      BY <2>1 DEF ExecInv, RecordersAreFirst, File, Fingerprint
    <2>3. i \in Nat
      BY <2>2, <1>0 DEF FirstAdmission
    <2>4. \A q \in Procs : Owner(q)' => q # p /\ Owner(q)
      BY <1>2, <1>9
    <2>5. \A q \in Procs : Owner(q)' /\ proc'[q].plan.run = r => proc'[q].at # i
      BY <1>1, <2>1, <2>4 DEF ExecInv, OwnersDiffer
    <2>6. FirstAdmission(ledger'[r], i, line.plan.fingerprint)
      BY <1>3, <2>2
    <2> QED BY <2>3, <2>5, <2>6 DEF LineSpent
  <1>10. ResultsAreSpent'
    <2> SUFFICES ASSUME NEW s \in Runs, NEW i \in DOMAIN ledger'[s],
                        ledger'[s][i].kind = "result",
                        NEW f, f = ledger'[s][i].plan.fingerprint
                 PROVE  LineSpent(s, f)'
      BY DEF ResultsAreSpent, LineSpent
    <2>1. CASE i \in DOMAIN ledger[s] /\ ledger'[s][i] = ledger[s][i]
      BY <1>8, <2>1 DEF ExecInv, ResultsAreSpent
    <2>2. CASE s = r /\ i = end /\ ledger'[s][i] = line
      BY <1>9, <2>2
    <2>3. CASE s = r
      <3>1. /\ Append(ledger[r], line)[end] = line
            /\ DOMAIN Append(ledger[r], line) = DOMAIN ledger[r] \union {end}
            /\ \A j \in DOMAIN ledger[r] : Append(ledger[r], line)[j] = ledger[r][j]
        BY <1>0
      <3> QED BY <1>0, <2>1, <2>2, <2>3, <3>1
    <2> QED BY <1>0, <2>1, <2>3
  <1>11. SuccessWasStarted'
    <2> SUFFICES ASSUME NEW q \in Procs, ~At(q, "idle")', proc'[q].kind = "result",
                        proc'[q].outcome = "ok"
                 PROVE  Work(proc'[q].plan) \in started'
      BY DEF SuccessWasStarted
    <2>1. CASE q = p
      BY <1>1, <2>1 DEF Honest, At
    <2>2. CASE q # p
      BY <1>1, <2>2 DEF ExecInv, SuccessWasStarted, At
    <2> QED BY <2>1, <2>2
  <1>12. LinesAtHome'
    <2>1. /\ Append(ledger[r], line)[end] = line
          /\ DOMAIN Append(ledger[r], line) = DOMAIN ledger[r] \union {end}
          /\ \A j \in DOMAIN ledger[r] : Append(ledger[r], line)[j] = ledger[r][j]
      BY <1>0
    <2> QED BY <1>0, <2>1 DEF ExecInv, LinesAtHome
  <1> QED BY <1>6, <1>7, <1>10, <1>11, <1>12 DEF ExecInv

-----------------------------------------------------------------------------
(* One step for each action.                                               *)

\* A process that stops owns nothing, whether or not it leaves a torn line.
LEMMA StopExec ==
  ASSUME ExecInv, LedgerIInv', NEW p \in Procs, Stop(p), ledger' = ledger, started' = started
  PROVE  ExecInv'
  BY MovesKeep DEF Stop, Idle, Holds, Records, Honest

LEMMA DieExec ==
  ASSUME ExecInv, LedgerIInv', NEW p \in Procs, Die(p)
  PROVE  ExecInv'
  <1>1. CASE UNCHANGED ledger
    BY <1>1, StopExec DEF Die
  <1>2. CASE Append1(p, "torn")
    <2> DEFINE line == Line(p, "torn")
    <2>1. proc[p] \in Busy /\ proc[p].plan.run \in Runs
      BY BusyProcess DEF Die, ExecInv
    <2>2. line \in Lines /\ line.kind # "result" /\ line.plan = proc[p].plan
      BY <2>1 DEF Busy, Lines, Line
    <2>3. ~Holds(Idle) /\ ~Records(Idle) /\ Honest(Idle, started)
      BY DEF Idle, Holds, Records, Honest
    <2>4. /\ proc' = [proc EXCEPT ![p] = Idle] /\ started' = started
          /\ ledger' = [ledger EXCEPT ![proc[p].plan.run] = Append(@, line)]
      BY <1>2 DEF Die, Stop, Append1
    <2> QED BY <2>1, <2>2, <2>3, <2>4, LinesKeep
  <1> QED BY <1>1, <1>2 DEF Die

LEMMA ExecuteExec ==
  ASSUME ExecInv, LedgerIInv', NEW p \in Procs, NEW asked \in Plans, Execute(p, asked)
  PROVE  ExecInv'
  <1> DEFINE next == [pc |-> "verify", plan |-> asked, kind |-> "admission",
                      seen |-> 0, at |-> 0, outcome |-> "none"]
  <1>1. next \in Busy /\ ~Holds(next) /\ ~Records(next) /\ Honest(next, started')
    BY DEF Busy, Outcomes, Holds, Records, Honest
  <1>2. proc' = [proc EXCEPT ![p] = next] /\ ledger' = ledger /\ started' = started
    BY DEF Execute
  <1> QED BY <1>1, <1>2, MovesKeep

LEMMA VerifyExec ==
  ASSUME ExecInv, LedgerIInv', NEW p \in Procs, Verify(p)
  PROVE  ExecInv'
  <1>0. /\ proc[p] \in Busy /\ Len(File(p)) \in Nat /\ proc[p].pc = "verify"
        /\ ledger' = ledger /\ started' = started
    BY BusyProcess DEF Verify, At, ExecInv
  <1>1. CASE Stop(p)
    BY <1>0, <1>1, StopExec
  <1>2. CASE proc' = [proc EXCEPT ![p] = [@ EXCEPT !.pc = "write", !.seen = Len(File(p))]]
    <2> DEFINE next == [proc[p] EXCEPT !.pc = "write", !.seen = Len(File(p))]
    <2>1. /\ next \in Busy /\ next.pc = "write" /\ next.plan = proc[p].plan
          /\ next.at = proc[p].at /\ next.kind = proc[p].kind /\ next.outcome = proc[p].outcome
      BY <1>0 DEF Busy
    <2>2. ~Holds(next) /\ (Records(next) => Recorder(p) /\ Owner(p))
      BY <1>0, <2>1 DEF Holds, Records, Recorder, Owner
    <2>3. Records(next) => FirstAdmission(File(p), proc[p].at, Fingerprint(p))
      BY <2>2 DEF ExecInv, RecordersAreFirst
    <2>4. Honest(next, started')
      BY <1>0, <2>1 DEF Honest, ExecInv, SuccessWasStarted, At
    <2> QED BY <1>0, <1>2, <2>1, <2>2, <2>3, <2>4, MovesKeep
  <1> QED BY <1>1, <1>2 DEF Verify

LEMMA WriteExec ==
  ASSUME ExecInv, LedgerIInv', NEW p \in Procs, Write(p)
  PROVE  ExecInv'
  <1> DEFINE next == [proc[p] EXCEPT !.pc = "reverify", !.at = Len(File(p)) + 1]
             line == Line(p, proc[p].kind)
             r    == proc[p].plan.run
  <1>1. /\ proc[p] \in Busy /\ r \in Runs /\ Len(File(p)) \in Nat /\ proc[p].pc = "write"
        /\ File(p) = ledger[r]
    BY BusyProcess DEF Write, At, ExecInv, File
  <1>2. /\ next.pc = "reverify" /\ next.plan = proc[p].plan /\ next.kind = proc[p].kind
        /\ next.at = Len(ledger[r]) + 1 /\ next.outcome = proc[p].outcome
    BY <1>1 DEF Busy
  <1>3. next \in Busy /\ line \in Lines
    <2>1. ASSUME NEW end \in Nat
          PROVE  [proc[p] EXCEPT !.pc = "reverify", !.at = end] \in Busy
      BY <1>1 DEF Busy
    <2>2. Len(File(p)) + 1 \in Nat
      BY <1>1
    <2>3. line \in Lines
      BY <1>1 DEF Busy, Lines, Line
    <2> QED BY <2>1, <2>2, <2>3
  <1>4. line.kind = proc[p].kind /\ line.plan = proc[p].plan
    BY DEF Line
  <1>5. ~Records(next) /\ (Holds(next) => proc[p].kind = "admission")
    BY <1>2 DEF Records, Holds
  <1>6. line.kind = "result" => Recorder(p) /\ ~Holds(next)
    BY <1>1, <1>4, <1>5 DEF Recorder
  <1>7. Honest(next, started)
    BY <1>1, <1>2 DEF Honest, ExecInv, SuccessWasStarted, At
  <1>8. /\ proc' = [proc EXCEPT ![p] = next] /\ started' = started
        /\ ledger' = [ledger EXCEPT ![r] = Append(@, line)]
    BY DEF Write, Append1
  <1> QED BY <1>1, <1>2, <1>3, <1>4, <1>5, <1>6, <1>7, <1>8, LinesKeep

LEMMA ReverifyExec ==
  ASSUME ExecInv, LedgerIInv', NEW p \in Procs, Reverify(p)
  PROVE  ExecInv'
  <1>0. /\ proc[p] \in Busy /\ proc[p].pc = "reverify"
        /\ ledger' = ledger /\ started' = started
    BY BusyProcess DEF Reverify, At, ExecInv
  <1>1. CASE Stop(p)
    BY <1>0, <1>1, StopExec
  <1>2. CASE ~Stop(p)
    <2> DEFINE where == IF proc[p].kind = "admission" THEN "command" ELSE "told"
               next  == [proc[p] EXCEPT !.pc = where]
    <2>1. proc' = [proc EXCEPT ![p] = next]
      BY <1>2 DEF Reverify
    <2>2. /\ next \in Busy /\ next.pc = where /\ next.plan = proc[p].plan
          /\ next.at = proc[p].at /\ next.kind = proc[p].kind /\ next.outcome = proc[p].outcome
      BY <1>0 DEF Busy
    <2>3. ~Records(next) /\ (Holds(next) => Owner(p))
      BY <1>0, <2>2 DEF Records, Holds, Owner, Holder, At
    <2>4. Honest(next, started')
      BY <1>0, <2>2 DEF Honest, ExecInv, SuccessWasStarted, At
    <2> HIDE DEF next
    <2> QED BY <1>0, <2>1, <2>2, <2>3, <2>4, MovesKeep
  <1> QED BY <1>1, <1>2

LEMMA CommandExec ==
  ASSUME ExecInv, LedgerIInv', NEW p \in Procs, NEW verdict \in Verdicts, Command(p, verdict)
  PROVE  ExecInv'
  <1> DEFINE next == [proc[p] EXCEPT !.pc = "verify", !.kind = "result",
                                     !.outcome = verdict.outcome]
  <1>1. /\ proc[p] \in Busy /\ proc[p].pc = "command" /\ ledger' = ledger
        /\ proc' = [proc EXCEPT ![p] = next] /\ started \subseteq started'
    BY BusyProcess DEF Command, At, ExecInv
  <1>2. verdict.outcome \in Outcomes /\ (verdict.outcome = "ok" => verdict.begun)
    BY DEF Verdicts, Outcomes
  <1>3. /\ next \in Busy /\ next.pc = "verify" /\ next.plan = proc[p].plan
        /\ next.at = proc[p].at /\ next.outcome = verdict.outcome
    BY <1>1, <1>2 DEF Busy
  <1>4. Owner(p) /\ ~Holds(next)
    BY <1>1, <1>3 DEF Owner, Holder, At, Holds
  <1>5. FirstAdmission(File(p), proc[p].at, Fingerprint(p))
    BY <1>1 DEF ExecInv, LedgerIInv, CommandsAreFirst, At
  <1>6. Honest(next, started')
    BY <1>2, <1>3 DEF Honest, Command, Work
  <1> HIDE DEF next
  <1> QED BY <1>1, <1>3, <1>4, <1>5, <1>6, MovesKeep

LEMMA ExecInductive == ExecInv /\ [LedgerNext]_ledgerVars => ExecInv'
  <1> SUFFICES ASSUME ExecInv, [LedgerNext]_ledgerVars
               PROVE  ExecInv'
    OBVIOUS
  <1>0. LedgerIInv'
    BY LedgerInductive DEF ExecInv
  <1>1. ASSUME NEW p \in Procs, Return(p)
        PROVE  ExecInv'
    BY <1>0, <1>1, StopExec DEF Return
  <1>2. CASE LedgerNext
    BY <1>0, <1>1, <1>2, ExecuteExec, VerifyExec, WriteExec, ReverifyExec, DieExec,
       CommandExec DEF LedgerNext
  <1>3. CASE UNCHANGED ledgerVars
    BY <1>0, <1>3 DEF ledgerVars, ExecInv, OwnersDiffer, RecordersAreFirst, ResultsAreSpent,
       SuccessWasStarted, LinesAtHome, LineSpent, Owner, Holder, Recorder, At, File, Fingerprint
  <1> QED BY <1>2, <1>3

LEMMA ExecStarts == LedgerInit => ExecInv
  <1> SUFFICES ASSUME LedgerInit PROVE ExecInv
    OBVIOUS
  <1>1. \A p \in Procs : proc[p] = Idle
    BY DEF LedgerInit
  <1>2. \A p \in Procs : ~Owner(p) /\ At(p, "idle")
    BY <1>1 DEF Owner, Holder, Recorder, At, Idle
  <1>3. \A r \in Runs : DOMAIN ledger[r] = {}
    BY DEF LedgerInit
  <1> QED BY <1>2, <1>3, LedgerStarts
          DEF ExecInv, OwnersDiffer, RecordersAreFirst, ResultsAreSpent, SuccessWasStarted,
              LinesAtHome, Owner

LEMMA ExecAlways == LedgerSpec => []ExecInv
  BY ExecStarts, ExecInductive, PTL DEF LedgerSpec

-----------------------------------------------------------------------------
(* Every step is one of SingleExecution, or none.                          *)

Claimant(p) == [work |-> Work(proc[p].plan), by |-> p]

LEMMA UnderWayIs ==
  \A c : c \in UnderWay <=> \E p \in Procs : At(p, "command") /\ c = Claimant(p)
  BY DEF UnderWay, Claimant

\* What a line of a file answers.
Told(line, i) == [work |-> Work(line.plan), line |-> i, outcome |-> line.outcome]

LEMMA RecordedIs ==
  \A a : a \in Recorded <=>
    \E r \in Runs : \E i \in DOMAIN ledger[r] :
      ledger[r][i].kind = "result" /\ a = Told(ledger[r][i], i)
  BY DEF Recorded, ResultAt, Told

LEMMA SameResults == ledger' = ledger => Recorded' = Recorded
  BY DEF Recorded, ResultAt

\* A process that is not at its command, before and after, claims nothing.
LEMMA SameClaims ==
  ASSUME ExecInv, NEW p \in Procs, NEW next \in {Idle} \union Busy,
         proc' = [proc EXCEPT ![p] = next], proc[p].pc # "command", next.pc # "command"
  PROVE  UnderWay' = UnderWay
  <1>1. /\ \A q \in Procs : q # p => proc'[q] = proc[q]
        /\ proc'[p] = next
    BY DEF ExecInv, LedgerIInv, LedgerTypeOK
  <1>2. \A q \in Procs : /\ At(q, "command")' <=> At(q, "command")
                         /\ At(q, "command") => Claimant(q)' = Claimant(q)
    BY <1>1 DEF At, Claimant
  <1>3. \A c : c \in UnderWay' <=> \E q \in Procs : At(q, "command")' /\ c = Claimant(q)'
    BY DEF UnderWay, Claimant
  <1> QED BY <1>2, <1>3, UnderWayIs

\* A result that is written adds an answer, another line adds none.
LEMMA LineRecorded ==
  ASSUME ExecInv, NEW r \in Runs, NEW line \in Lines,
         ledger' = [ledger EXCEPT ![r] = Append(@, line)]
  PROVE  Recorded' = IF line.kind # "result" THEN Recorded
                     ELSE Recorded \union {Told(line, Len(ledger[r]) + 1)}
  <1> DEFINE end == Len(ledger[r]) + 1
  <1>0. /\ ledger[r] \in Seq(Lines) /\ ledger'[r] = Append(ledger[r], line)
        /\ \A s \in Runs : s # r => ledger'[s] = ledger[s]
    BY DEF ExecInv, LedgerIInv, LedgerTypeOK
  <1>1. /\ DOMAIN ledger'[r] = DOMAIN ledger[r] \union {end}
        /\ ledger'[r][end] = line
        /\ \A i \in DOMAIN ledger[r] : ledger'[r][i] = ledger[r][i]
    <2>1. /\ DOMAIN Append(ledger[r], line) = DOMAIN ledger[r] \union {end}
          /\ Append(ledger[r], line)[end] = line
          /\ \A i \in DOMAIN ledger[r] : Append(ledger[r], line)[i] = ledger[r][i]
      BY <1>0
    <2> QED BY <1>0, <2>1
  <1>2. /\ \A s \in Runs : \A i \in DOMAIN ledger[s] :
             i \in DOMAIN ledger'[s] /\ ledger'[s][i] = ledger[s][i]
        /\ \A s \in Runs : \A i \in DOMAIN ledger'[s] :
             i \in DOMAIN ledger[s] \/ (s = r /\ i = end)
    BY <1>0, <1>1
  <1>3. \A a : a \in Recorded' <=>
          \E s \in Runs : \E i \in DOMAIN ledger'[s] :
            ledger'[s][i].kind = "result" /\ a = Told(ledger'[s][i], i)
    BY DEF Recorded, ResultAt, Told
  <1>4. ASSUME NEW a
        PROVE  a \in Recorded' <=>
                 a \in Recorded \/ (line.kind = "result" /\ a = Told(line, end))
    <2>1. ASSUME a \in Recorded'
          PROVE  a \in Recorded \/ (line.kind = "result" /\ a = Told(line, end))
      <3>1. PICK s \in Runs : \E i \in DOMAIN ledger'[s] :
              ledger'[s][i].kind = "result" /\ a = Told(ledger'[s][i], i)
        BY <1>3, <2>1
      <3>2. PICK i \in DOMAIN ledger'[s] :
              ledger'[s][i].kind = "result" /\ a = Told(ledger'[s][i], i)
        BY <3>1
      <3>3. CASE i \in DOMAIN ledger[s]
        BY <1>2, <3>2, <3>3, RecordedIs
      <3>4. CASE s = r /\ i = end
        BY <1>1, <3>2, <3>4
      <3> QED BY <1>2, <3>3, <3>4
    <2>2. ASSUME a \in Recorded
          PROVE  a \in Recorded'
      <3>1. PICK s \in Runs : \E i \in DOMAIN ledger[s] :
              ledger[s][i].kind = "result" /\ a = Told(ledger[s][i], i)
        BY <2>2, RecordedIs
      <3> QED BY <1>2, <1>3, <3>1
    <2>3. ASSUME line.kind = "result", a = Told(line, end)
          PROVE  a \in Recorded'
      BY <1>1, <1>3, <2>3
    <2> QED BY <2>1, <2>2, <2>3
  <1>5. CASE line.kind # "result"
    BY <1>4, <1>5
  <1>6. CASE line.kind = "result"
    BY <1>4, <1>6
  <1> QED BY <1>5, <1>6

\* Who owns the first admission of a work is alone with it: nobody else is about
\* to carry it out, and it has no result.
LEMMA OwnersAreAlone ==
  ASSUME ExecInv, NEW p \in Procs, Owner(p),
         FirstAdmission(File(p), proc[p].at, Fingerprint(p))
  PROVE  /\ \A c \in UnderWay : c.work = Work(proc[p].plan) => c = Claimant(p) /\ At(p, "command")
         /\ \A a \in Recorded : a.work # Work(proc[p].plan)
  <1> DEFINE r == proc[p].plan.run
             f == proc[p].plan.fingerprint
  <1>1. /\ r \in Runs /\ ledger[r] \in Seq(Lines) /\ f = Fingerprint(p) /\ File(p) = ledger[r]
    BY OwnerHasLine DEF ExecInv, LedgerIInv, LedgerTypeOK, Fingerprint, File
  <1>2. \A i, j \in Nat : FirstAdmission(ledger[r], i, f) /\ FirstAdmission(ledger[r], j, f)
                            => i = j
    <2> SUFFICES ASSUME NEW i \in Nat, NEW j \in Nat, FirstAdmission(ledger[r], i, f),
                        FirstAdmission(ledger[r], j, f), i # j
                 PROVE  FALSE
      OBVIOUS
    <2>1. i \in 1..(j - 1) \/ j \in 1..(i - 1)
      BY <1>1 DEF FirstAdmission
    <2> QED BY <2>1 DEF FirstAdmission
  <1>3. proc[p].at \in Nat
    BY <1>1 DEF FirstAdmission
  <1>4. ASSUME NEW c \in UnderWay, c.work = Work(proc[p].plan)
        PROVE  c = Claimant(p) /\ At(p, "command")
    <2>1. PICK q \in Procs : At(q, "command") /\ c = Claimant(q)
      BY <1>4, UnderWayIs
    <2>2. proc[q].plan.run = r /\ proc[q].plan.fingerprint = f
      BY <1>4, <2>1 DEF Claimant, Work
    <2>3. Owner(q) /\ FirstAdmission(ledger[r], proc[q].at, f)
      BY <2>1, <2>2 DEF Owner, Holder, ExecInv, LedgerIInv, CommandsAreFirst, File, Fingerprint
    <2>4. proc[q].at \in Nat
      BY <1>1, <2>3 DEF FirstAdmission
    <2>5. proc[q].at = proc[p].at
      BY <1>1, <1>2, <1>3, <2>3, <2>4
    <2>6. q = p
      BY <2>2, <2>3, <2>5 DEF ExecInv, OwnersDiffer
    <2> QED BY <2>1, <2>6
  <1>5. ASSUME NEW a \in Recorded, a.work = Work(proc[p].plan)
        PROVE  FALSE
    <2>1. PICK s \in Runs : \E i \in DOMAIN ledger[s] :
            ledger[s][i].kind = "result" /\ a = Told(ledger[s][i], i)
      BY <1>5, RecordedIs
    <2>2. PICK i \in DOMAIN ledger[s] : ledger[s][i].kind = "result" /\ a = Told(ledger[s][i], i)
      BY <2>1
    <2>3. <<ledger[s][i].plan.run, ledger[s][i].plan.fingerprint>> = <<r, f>>
      BY <1>5, <2>2 DEF Told, Work
    <2>4. LineSpent(s, ledger[s][i].plan.fingerprint)
      BY <2>2 DEF ExecInv, ResultsAreSpent
    <2>5. s = r
      BY <2>2, <2>3 DEF ExecInv, LinesAtHome
    <2>6. PICK j \in Nat : FirstAdmission(ledger[r], j, f) /\ proc[p].at # j
      BY <2>3, <2>4, <2>5 DEF LineSpent
    <2> QED BY <1>1, <1>2, <1>3, <2>6
  <1> QED BY <1>4, <1>5

-----------------------------------------------------------------------------
(* What the steps of the processes are in SingleExecution.                  *)

LEMMA NothingNew ==
  ASSUME UnderWay' = UnderWay, started' = started, Recorded' = Recorded
  PROVE  [Execution!Next]_(Execution!evars)
  BY DEF Execution!evars

LEMMA ClaimBegins ==
  ASSUME ExecInv, NEW p \in Procs, NEW next \in Busy,
         proc' = [proc EXCEPT ![p] = next], proc[p].pc # "command", next.pc = "command",
         next.plan = proc[p].plan
  PROVE  UnderWay' = UnderWay \union {Claimant(p)}
  <1>1. /\ \A q \in Procs : q # p => proc'[q] = proc[q]
        /\ proc'[p] = next
    BY DEF ExecInv, LedgerIInv, LedgerTypeOK
  <1>2. /\ \A q \in Procs : q # p => /\ At(q, "command")' <=> At(q, "command")
                                     /\ Claimant(q)' = Claimant(q)
        /\ At(p, "command")' /\ ~At(p, "command") /\ Claimant(p)' = Claimant(p)
    BY <1>1 DEF At, Claimant
  <1>3. \A c : c \in UnderWay' <=> \E q \in Procs : At(q, "command")' /\ c = Claimant(q)'
    BY DEF UnderWay, Claimant
  <1> QED BY <1>2, <1>3, UnderWayIs

LEMMA ClaimEnds ==
  ASSUME ExecInv, NEW p \in Procs, NEW next \in {Idle} \union Busy,
         proc' = [proc EXCEPT ![p] = next], At(p, "command"), next.pc # "command"
  PROVE  Claimant(p) \in UnderWay /\ UnderWay' = UnderWay \ {Claimant(p)}
  <1>1. /\ \A q \in Procs : q # p => proc'[q] = proc[q]
        /\ proc'[p] = next
    BY DEF ExecInv, LedgerIInv, LedgerTypeOK
  <1>2. /\ \A q \in Procs : q # p => /\ At(q, "command")' <=> At(q, "command")
                                     /\ Claimant(q)' = Claimant(q)
        /\ ~At(p, "command")'
    BY <1>1 DEF At, Claimant
  <1>3. \A c : c \in UnderWay' <=> \E q \in Procs : At(q, "command")' /\ c = Claimant(q)'
    BY DEF UnderWay, Claimant
  <1>4. \A q \in Procs : Claimant(q) = Claimant(p) => q = p
    BY DEF Claimant
  <1> QED BY <1>2, <1>3, <1>4, UnderWayIs

LEMMA ExecuteRefines ==
  ASSUME ExecInv, NEW p \in Procs, NEW asked \in Plans, Execute(p, asked)
  PROVE  [Execution!Next]_(Execution!evars)
  <1> DEFINE next == [pc |-> "verify", plan |-> asked, kind |-> "admission",
                      seen |-> 0, at |-> 0, outcome |-> "none"]
  <1>1. next \in Busy /\ next.pc # "command" /\ proc[p].pc # "command"
    BY DEF Busy, Outcomes, Execute, At
  <1>2. proc' = [proc EXCEPT ![p] = next] /\ ledger' = ledger /\ started' = started
    BY DEF Execute
  <1> QED BY <1>1, <1>2, SameClaims, SameResults, NothingNew

\* A process stops: at its command it gives up the work, elsewhere it had none.
LEMMA StopRefines ==
  ASSUME ExecInv, NEW p \in Procs, Stop(p), Recorded' = Recorded, started' = started
  PROVE  [Execution!Next]_(Execution!evars)
  <1>1. proc' = [proc EXCEPT ![p] = Idle] /\ Idle.pc # "command"
    BY DEF Stop, Idle
  <1>2. CASE At(p, "command")
    <2>1. Claimant(p) \in UnderWay /\ UnderWay' = UnderWay \ {Claimant(p)}
      BY <1>1, <1>2, ClaimEnds
    <2> QED BY <2>1 DEF Execution!Next, Execution!CarryOut
  <1>3. CASE ~At(p, "command")
    BY <1>1, <1>3, SameClaims, NothingNew DEF At
  <1> QED BY <1>2, <1>3

LEMMA DieRefines ==
  ASSUME ExecInv, NEW p \in Procs, Die(p)
  PROVE  [Execution!Next]_(Execution!evars)
  <1>1. Recorded' = Recorded
    <2>1. CASE UNCHANGED ledger
      BY <2>1, SameResults
    <2>2. CASE Append1(p, "torn")
      <3> DEFINE line == Line(p, "torn")
      <3>1. proc[p] \in Busy /\ proc[p].plan.run \in Runs
        BY BusyProcess DEF Die, ExecInv
      <3>2. line \in Lines /\ line.kind # "result"
        BY <3>1 DEF Busy, Lines, Line
      <3>3. ledger' = [ledger EXCEPT ![proc[p].plan.run] = Append(@, line)]
        BY <2>2 DEF Append1
      <3> QED BY <3>1, <3>2, <3>3, LineRecorded
    <2> QED BY <2>1, <2>2 DEF Die
  <1> QED BY <1>1, StopRefines DEF Die

LEMMA VerifyRefines ==
  ASSUME ExecInv, NEW p \in Procs, Verify(p)
  PROVE  [Execution!Next]_(Execution!evars)
  <1>0. /\ proc[p] \in Busy /\ Len(File(p)) \in Nat /\ proc[p].pc = "verify"
        /\ ledger' = ledger /\ started' = started
    BY BusyProcess DEF Verify, At, ExecInv
  <1>1. CASE Stop(p)
    BY <1>0, <1>1, StopRefines, SameResults
  <1>2. CASE proc' = [proc EXCEPT ![p] = [@ EXCEPT !.pc = "write", !.seen = Len(File(p))]]
    <2> DEFINE next == [proc[p] EXCEPT !.pc = "write", !.seen = Len(File(p))]
    <2>1. next \in Busy /\ next.pc # "command"
      BY <1>0 DEF Busy
    <2> QED BY <1>0, <1>2, <2>1, SameClaims, SameResults, NothingNew
  <1> QED BY <1>1, <1>2 DEF Verify

\* An admission answers nothing; a result is the first of its work.
LEMMA WriteRefines ==
  ASSUME ExecInv, NEW p \in Procs, Write(p)
  PROVE  [Execution!Next]_(Execution!evars)
  <1> DEFINE next == [proc[p] EXCEPT !.pc = "reverify", !.at = Len(File(p)) + 1]
             line == Line(p, proc[p].kind)
             r    == proc[p].plan.run
  <1>1. /\ proc[p] \in Busy /\ r \in Runs /\ Len(File(p)) \in Nat /\ proc[p].pc = "write"
        /\ File(p) = ledger[r]
    BY BusyProcess DEF Write, At, ExecInv, File
  <1>2. next.pc = "reverify" /\ next \in Busy /\ line \in Lines
    <2>1. ASSUME NEW end \in Nat
          PROVE  LET what == [proc[p] EXCEPT !.pc = "reverify", !.at = end]
                 IN  what.pc = "reverify" /\ what \in Busy
      BY <1>1 DEF Busy
    <2>2. Len(File(p)) + 1 \in Nat
      BY <1>1
    <2>3. line \in Lines
      BY <1>1 DEF Busy, Lines, Line
    <2> QED BY <2>1, <2>2, <2>3
  <1>3. /\ line.kind = proc[p].kind /\ line.plan = proc[p].plan
        /\ line.outcome = proc[p].outcome
    BY DEF Line
  <1>4. /\ proc' = [proc EXCEPT ![p] = next] /\ started' = started
        /\ ledger' = [ledger EXCEPT ![r] = Append(@, line)]
    BY DEF Write, Append1
  <1>5. UnderWay' = UnderWay
    BY <1>1, <1>2, <1>4, SameClaims
  <1> HIDE DEF line, next
  <1>6. CASE line.kind # "result"
    <2>1. Recorded' = Recorded
      BY <1>1, <1>2, <1>4, <1>6, LineRecorded
    <2> QED BY <1>4, <1>5, <2>1, NothingNew
  <1>7. CASE line.kind = "result"
    <2> DEFINE a == Told(line, Len(ledger[r]) + 1)
    <2>1. Recorded' = Recorded \union {a}
      BY <1>1, <1>2, <1>4, <1>7, LineRecorded
    <2>2. a.work = Work(proc[p].plan) /\ a.outcome = proc[p].outcome
      BY <1>3 DEF Told
    <2>3. Recorder(p) /\ Owner(p)
      BY <1>1, <1>3, <1>7 DEF Recorder, Owner
    <2>4. FirstAdmission(File(p), proc[p].at, Fingerprint(p))
      BY <2>3 DEF ExecInv, RecordersAreFirst
    <2>5. /\ \A c \in UnderWay : c.work # a.work
          /\ \A b \in Recorded : b.work # a.work
      BY <1>1, <2>2, <2>3, <2>4, OwnersAreAlone DEF At
    <2>6. a.outcome = "ok" => a.work \in started
      BY <1>1, <1>3, <1>7, <2>2 DEF ExecInv, SuccessWasStarted, At
    <2> HIDE DEF a
    <2>7. Execution!Answer(a) /\ a \in Recorded' \ Recorded
      BY <1>4, <1>5, <2>1, <2>5, <2>6
         DEF Execution!Answer, Execution!Claimed, Execution!Answered
    <2> QED BY <2>7 DEF Execution!Next
  <1> QED BY <1>6, <1>7

\* Who finds its admission the first of its action takes up the work.
LEMMA ReverifyRefines ==
  ASSUME ExecInv, NothingStartsTwice', NEW p \in Procs, Reverify(p)
  PROVE  [Execution!Next]_(Execution!evars)
  <1>0. /\ proc[p] \in Busy /\ proc[p].pc = "reverify"
        /\ ledger' = ledger /\ started' = started
    BY BusyProcess DEF Reverify, At, ExecInv
  <1>1. CASE Stop(p)
    BY <1>0, <1>1, StopRefines, SameResults
  <1>2. CASE ~Stop(p)
    <2> DEFINE where == IF proc[p].kind = "admission" THEN "command" ELSE "told"
               next  == [proc[p] EXCEPT !.pc = where]
    <2>1. proc' = [proc EXCEPT ![p] = next] /\ Verifies(File(p))
      BY <1>2 DEF Reverify
    <2>2. next \in Busy /\ next.pc = where /\ next.plan = proc[p].plan
      BY <1>0 DEF Busy
    <2> HIDE DEF next
    <2>3. Recorded' = Recorded
      BY <1>0, SameResults
    <2>4. CASE proc[p].kind # "admission"
      BY <1>0, <2>1, <2>2, <2>3, <2>4, SameClaims, NothingNew
    <2>5. CASE proc[p].kind = "admission"
      <3> DEFINE c == Claimant(p)
      <3>1. UnderWay' = UnderWay \union {c}
        BY <1>0, <2>1, <2>2, <2>5, ClaimBegins
      <3>2. Holder(p) /\ Owner(p)
        BY <1>0, <2>5 DEF Holder, Owner, At
      <3>3. FirstAdmission(File(p), proc[p].at, Fingerprint(p))
        BY <2>1, <3>2, VerifiedIsFirst DEF ExecInv, LedgerIInv, HoldersOwn
      <3>4. c.work = Work(proc[p].plan)
        BY DEF Claimant
      <3>5. /\ \A d \in UnderWay : d.work # c.work
            /\ \A b \in Recorded : b.work # c.work
        BY <1>0, <3>2, <3>3, <3>4, OwnersAreAlone DEF At
      <3>6. c.work \notin started
        <4>1. proc'[p] = next /\ At(p, "command")'
          BY <2>1, <2>2, <2>5 DEF ExecInv, LedgerIInv, LedgerTypeOK, At
        <4> QED BY <1>0, <2>2, <3>4, <4>1 DEF NothingStartsTwice, Work
      <3> HIDE DEF c
      <3>7. Execution!Claim(c) /\ c \in UnderWay' \ UnderWay
        BY <1>0, <2>3, <3>1, <3>5, <3>6
           DEF Execution!Claim, Execution!Claimed, Execution!Answered
      <3> QED BY <3>7 DEF Execution!Next
    <2> QED BY <2>4, <2>5
  <1> QED BY <1>1, <1>2

\* The command: started or not, the work is nobody's afterwards.
LEMMA CommandRefines ==
  ASSUME ExecInv, NEW p \in Procs, NEW verdict \in Verdicts, Command(p, verdict)
  PROVE  [Execution!Next]_(Execution!evars)
  <1> DEFINE next == [proc[p] EXCEPT !.pc = "verify", !.kind = "result",
                                     !.outcome = verdict.outcome]
  <1>1. /\ proc[p] \in Busy /\ At(p, "command") /\ ledger' = ledger
        /\ proc' = [proc EXCEPT ![p] = next]
    BY BusyProcess DEF Command, At, ExecInv
  <1>2. next \in Busy /\ next.pc # "command"
    <2>1. verdict.outcome \in Outcomes
      BY DEF Verdicts, Outcomes
    <2> QED BY <1>1, <2>1 DEF Busy
  <1> HIDE DEF next
  <1>3. Claimant(p) \in UnderWay /\ UnderWay' = UnderWay \ {Claimant(p)}
    BY <1>1, <1>2, ClaimEnds
  <1>4. started' \in {started, started \union {Claimant(p).work}}
    BY DEF Command, Claimant, Work
  <1>5. Recorded' = Recorded
    BY <1>1, SameResults
  <1> QED BY <1>3, <1>4, <1>5 DEF Execution!Next, Execution!CarryOut

LEMMA ExecStep ==
  ASSUME ExecInv, NothingStartsTwice', [LedgerNext]_ledgerVars
  PROVE  [Execution!Next]_(Execution!evars)
  <1>1. ASSUME NEW p \in Procs, Return(p)
        PROVE  [Execution!Next]_(Execution!evars)
    BY <1>1, StopRefines, SameResults DEF Return
  <1>2. CASE LedgerNext
    BY <1>1, <1>2, ExecuteRefines, VerifyRefines, WriteRefines, ReverifyRefines, DieRefines,
       CommandRefines DEF LedgerNext
  <1>3. CASE UNCHANGED ledgerVars
    <2>1. UnderWay' = UnderWay
      BY <1>3 DEF ledgerVars, UnderWay, At
    <2> QED BY <1>3, <2>1, SameResults, NothingNew DEF ledgerVars
  <1> QED BY <1>2, <1>3

\* Processes that share the ledgers of the runs and no lock carry out each
\* action of a run at most once, and record one result of it that stands,
\* however they interleave and wherever they die (runner.py, execute; ledger.py,
\* _append).
THEOREM ActionsAreRunOnce == LedgerSpec => ActionsRunOnce
  <1>1. LedgerInit => Execution!Init
    BY DEF LedgerInit, Execution!Init, UnderWay, Recorded, At, Idle
  <1>2. ExecInv /\ NothingStartsTwice' /\ [LedgerNext]_ledgerVars
          => [Execution!Next]_(Execution!evars)
    BY ExecStep
  <1> QED BY <1>1, <1>2, ExecAlways, NothingIsStartedTwice, PTL
          DEF LedgerSpec, ActionsRunOnce, Execution!Spec

-----------------------------------------------------------------------------
(* Results on the ledger.                                                  *)

ResultOn(lines, x, outcome) ==
  \E i \in DOMAIN lines :
    lines[i].kind = "result" /\ lines[i].plan = x /\ lines[i].outcome = outcome

\* Once a command has ended, its process has an outcome, and what it is about to
\* tell is on the file.
ResultWritten(p) ==
  /\ ~At(p, "idle") /\ proc[p].kind = "result" => proc[p].outcome \in {"ok", "failed"}
  /\ At(p, "told") => proc[p].kind = "result"
  /\ At(p, "told") \/ (At(p, "reverify") /\ proc[p].kind = "result") =>
       ResultOn(File(p), proc[p].plan, proc[p].outcome)

ResultsWritten == \A p \in Procs : ResultWritten(p)

\* No line of a ledger is ever changed.
LEMMA LinesStay ==
  ASSUME LedgerTypeOK, [LedgerNext]_ledgerVars, NEW r \in Runs, NEW i \in DOMAIN ledger[r]
  PROVE  i \in DOMAIN ledger'[r] /\ ledger'[r][i] = ledger[r][i]
  <1>1. ASSUME NEW p \in Procs, NEW kind, Append1(p, kind)
        PROVE  i \in DOMAIN ledger'[r] /\ ledger'[r][i] = ledger[r][i]
    <2>1. ledger[r] \in Seq(Lines)
      BY DEF LedgerTypeOK
    <2>2. /\ i \in DOMAIN Append(ledger[r], Line(p, kind))
          /\ Append(ledger[r], Line(p, kind))[i] = ledger[r][i]
      BY <2>1
    <2>3. ledger'[r] = ledger[r] \/ ledger'[r] = Append(ledger[r], Line(p, kind))
      BY <1>1 DEF Append1, LedgerTypeOK
    <2> QED BY <2>2, <2>3
  <1>2. CASE UNCHANGED ledger
    BY <1>2
  <1>3. ASSUME NEW p \in Procs, Write(p) \/ Die(p)
        PROVE  i \in DOMAIN ledger'[r] /\ ledger'[r][i] = ledger[r][i]
    BY <1>1, <1>2, <1>3 DEF Write, Die
  <1> QED BY <1>2, <1>3
          DEF LedgerNext, ledgerVars, Execute, Verify, Reverify, Return, Command

LEMMA ResultsStay ==
  ASSUME LedgerTypeOK, [LedgerNext]_ledgerVars, NEW r \in Runs, NEW asked, NEW outcome,
         ResultOn(ledger[r], asked, outcome)
  PROVE  ResultOn(ledger'[r], asked, outcome)
  BY LinesStay DEF ResultOn

\* The process that wrote its result finds it on the file.
LEMMA WriteResult ==
  ASSUME LedgerIInv, ResultsWritten, NEW p \in Procs, Write(p)
  PROVE  ResultWritten(p)'
  <1> DEFINE r == proc[p].plan.run
             line == Line(p, proc[p].kind)
  <1>1. proc[p] \in Busy /\ r \in Runs /\ File(p) \in Seq(Lines)
    BY BusyProcess DEF Write, At
  <1>2. /\ proc'[p].pc = "reverify" /\ proc'[p].plan = proc[p].plan
        /\ proc'[p].kind = proc[p].kind /\ proc'[p].outcome = proc[p].outcome
    BY <1>1 DEF Write, LedgerIInv, LedgerTypeOK, Busy
  <1>3. ledger'[r] = Append(File(p), line)
    BY <1>1 DEF Write, Append1, LedgerIInv, LedgerTypeOK, File
  <1>4. /\ Len(File(p)) + 1 \in DOMAIN ledger'[r]
        /\ ledger'[r][Len(File(p)) + 1] = line
    BY <1>1, <1>3
  <1>5. proc[p].kind = "result" => ResultOn(ledger'[r], proc[p].plan, proc[p].outcome)
    BY <1>4 DEF ResultOn, Line
  <1> QED BY <1>2, <1>5 DEF ResultsWritten, ResultWritten, At, File, Write

LEMMA ResultsInductive ==
  LedgerIInv /\ ResultsWritten /\ [LedgerNext]_ledgerVars => ResultsWritten'
  <1> SUFFICES ASSUME LedgerIInv, ResultsWritten, [LedgerNext]_ledgerVars, NEW p \in Procs
               PROVE  ResultWritten(p)'
    BY DEF ResultsWritten
  <1>1. ASSUME proc'[p] = proc[p]
        PROVE  ResultWritten(p)'
    <2>1. ~At(p, "idle") => proc[p].plan.run \in Runs
      BY BusyProcess
    <2>2. ASSUME ~At(p, "idle"), ResultOn(File(p), proc[p].plan, proc[p].outcome)
          PROVE  ResultOn(File(p), proc[p].plan, proc[p].outcome)'
      BY <1>1, <2>1, <2>2, ResultsStay DEF LedgerIInv, File
    <2> QED BY <1>1, <2>2 DEF ResultsWritten, ResultWritten, At
  <1>2. ASSUME proc'[p].pc = "idle" \/ (proc'[p].pc = "verify" /\ proc'[p].kind = "admission")
        PROVE  ResultWritten(p)'
    BY <1>2 DEF ResultWritten, At
  <1>3. CASE Verify(p)
    <2>1. proc[p] \in Busy
      BY <1>3, BusyProcess DEF Verify, At
    <2>2. \/ proc'[p] = Idle
          \/ /\ proc'[p].pc = "write" /\ proc'[p].kind = proc[p].kind
             /\ proc'[p].outcome = proc[p].outcome
      BY <1>3, <2>1 DEF Verify, Stop, LedgerIInv, LedgerTypeOK, Busy
    <2> QED BY <2>2, <1>2, <1>3 DEF ResultsWritten, ResultWritten, Verify, At, Idle
  <1>4. CASE Reverify(p)
    <2>1. proc[p] \in Busy
      BY <1>4, BusyProcess DEF Reverify, At
    <2>2. \/ proc'[p] = Idle
          \/ /\ proc'[p].pc \in {"command", "told"}
             /\ proc'[p].pc = IF proc[p].kind = "admission" THEN "command" ELSE "told"
             /\ proc'[p].kind = proc[p].kind /\ proc'[p].plan = proc[p].plan
             /\ proc'[p].outcome = proc[p].outcome
      BY <1>4, <2>1 DEF Reverify, Stop, LedgerIInv, LedgerTypeOK, Busy
    <2>3. proc[p].kind \in {"admission", "result"} /\ ledger' = ledger
      BY <1>4, <2>1 DEF Busy, Reverify
    <2> QED BY <2>2, <2>3, <1>2, <1>4
            DEF ResultsWritten, ResultWritten, Reverify, At, Idle, File
  <1>5. ASSUME NEW verdict \in Verdicts, Command(p, verdict)
        PROVE  ResultWritten(p)'
    <2>1. proc[p] \in Busy /\ verdict.outcome \in {"ok", "failed"}
      BY <1>5, BusyProcess DEF Command, At, Verdicts
    <2>2. /\ proc'[p].pc = "verify" /\ proc'[p].kind = "result"
          /\ proc'[p].outcome = verdict.outcome
      BY <1>5, <2>1 DEF Command, LedgerIInv, LedgerTypeOK, Busy
    <2> QED BY <2>1, <2>2 DEF ResultWritten, At
  <1>6. ASSUME NEW asked \in Plans, Execute(p, asked)
        PROVE  ResultWritten(p)'
    BY <1>6, <1>2 DEF Execute, LedgerIInv, LedgerTypeOK
  <1>7. CASE Return(p) \/ Die(p)
    BY <1>7, <1>2 DEF Return, Die, Stop, LedgerIInv, LedgerTypeOK, Idle
  <1>8. ASSUME NEW q \in Procs, q # p,
               \/ \E asked \in Plans : Execute(q, asked)
               \/ Verify(q) \/ Write(q) \/ Reverify(q) \/ Return(q) \/ Die(q)
               \/ \E verdict \in Verdicts : Command(q, verdict)
        PROVE  proc'[p] = proc[p]
    BY <1>8 DEF Execute, Verify, Write, Reverify, Return, Die, Command, Stop, LedgerIInv,
       LedgerTypeOK
  <1>9. CASE UNCHANGED ledgerVars
    BY <1>9, <1>1 DEF ledgerVars
  <1> QED BY <1>1, <1>3, <1>4, <1>5, <1>6, <1>7, <1>8, <1>9, WriteResult DEF LedgerNext

-----------------------------------------------------------------------------
(***************************************************************************)
(* The orchestrator.                                                       *)
(***************************************************************************)
Comments == [action : Actions, source : Sources, head : Nat, replaces : Nat,
             expired : BOOLEAN]

\* What is needed of the host's state for its plans to be plans.
HostTypeOK ==
  /\ head \in Nat /\ worktree \in Nat /\ newest \in Nat
  /\ comments \in Seq(Comments)
  /\ runs \in Nat
  /\ observation = None \/ ( /\ observation.run \in Runs
                             /\ observation.approval \in Nat )
  /\ plan = None \/ plan \in Plans

LEMMA SourceIsSource == HostTypeOK => Source \in Sources
  BY DEF HostTypeOK, Source, Sources

LEMMA HostStarts == Init => HostTypeOK
  BY DEF Init, HostTypeOK

LEMMA ApproveKeeps ==
  ASSUME HostTypeOK, NEW a \in Actions, Approve(a)
  PROVE  HostTypeOK'
  <1>1. PICK replaced \in {Len(comments), 0} :
          comments' = Append(comments,
             [action |-> a, source |-> Source, head |-> head, replaces |-> replaced,
              expired |-> FALSE])
    BY DEF Approve
  <1>2. Len(comments) \in Nat /\ head \in Nat /\ Source \in Sources
    BY SourceIsSource DEF HostTypeOK
  <1>3. [action |-> a, source |-> Source, head |-> head, replaces |-> replaced,
         expired |-> FALSE] \in Comments
    BY <1>1, <1>2 DEF Comments
  <1>4. comments' \in Seq(Comments)
    BY <1>1, <1>3 DEF HostTypeOK
  <1> QED BY <1>4 DEF Approve, HostTypeOK, repository, hostVars

LEMMA ExpireKeeps ==
  ASSUME HostTypeOK, NEW c \in DOMAIN comments, Expire(c)
  PROVE  HostTypeOK'
  <1>1. comments' \in Seq(Comments)
    <2>1. comments[c] \in Comments
      BY DEF HostTypeOK
    <2>2. [comments[c] EXCEPT !.expired = TRUE] \in Comments
      BY <2>1 DEF Comments
    <2> QED BY <2>2 DEF Expire, HostTypeOK
  <1> QED BY <1>1 DEF Expire, HostTypeOK, repository, hostVars

LEMMA ObserveKeeps ==
  ASSUME HostTypeOK, Observe
  PROVE  HostTypeOK'
  <1>1. runs' \in Nat /\ runs' \in Runs
    BY LedgerAssumption DEF Observe, HostTypeOK, Runs
  <1>2. Len(comments) \in Nat
    BY DEF HostTypeOK
  <1>3. observation'.run = runs' /\ observation'.approval \in Nat
    BY <1>2 DEF Observe
  <1> QED BY <1>1, <1>3 DEF Observe, HostTypeOK, repository

LEMMA StartKeeps ==
  ASSUME HostTypeOK, NEW a \in Actions, NEW retry \in BOOLEAN, Start(a, retry)
  PROVE  HostTypeOK'
  <1>1. plan' = [run |-> observation.run, approval |-> observation.approval,
                 fingerprint |-> [action |-> a, source |-> Source]]
    BY DEF Start
  <1>2. observation.run \in Runs /\ observation.approval \in Nat
    BY DEF Start, HostTypeOK
  <1>3. plan' \in Plans
    BY <1>1, <1>2, SourceIsSource DEF Plans, Fingerprints
  <1> QED BY <1>3 DEF Start, HostTypeOK, repository, issueVars

\* What a command leaves in the repository.
LEMMA RunKeeps ==
  ASSUME HostTypeOK, NEW p, Run(p)
  PROVE  HostTypeOK'
  <1>1. head' \in Nat /\ worktree' \in Nat /\ newest' \in Nat
    BY DEF Run, Effect, HostTypeOK, repository
  <1> QED BY <1>1 DEF Run, HostTypeOK, workVars, issueVars

LEMMA HostStep ==
  ASSUME HostTypeOK, Host
  PROVE  HostTypeOK' /\ UNCHANGED ledgerVars
  <1>1. CASE Begin \/ Restart
    BY <1>1 DEF Begin, Restart, HostTypeOK, repository, issueVars
  <1>2. CASE Observe
    BY <1>2, ObserveKeeps DEF Observe
  <1>3. ASSUME NEW c \in DOMAIN comments, Expire(c)
        PROVE  HostTypeOK' /\ UNCHANGED ledgerVars
    BY <1>3, ExpireKeeps DEF Expire
  <1>4. ASSUME NEW a \in Actions, Approve(a) \/ Await(a)
        PROVE  HostTypeOK' /\ UNCHANGED ledgerVars
    <2>1. CASE Approve(a)
      BY <2>1, ApproveKeeps DEF Approve
    <2>2. CASE Await(a)
      BY <2>2 DEF Await, HostTypeOK, repository, issueVars
    <2> QED BY <1>4, <2>1, <2>2
  <1>5. ASSUME NEW a \in Actions, NEW to, Move(a, to) \/ Validate(a, to)
        PROVE  HostTypeOK' /\ UNCHANGED ledgerVars
    BY <1>5 DEF Move, Validate, HostTypeOK, repository, issueVars
  <1>6. ASSUME NEW a \in Actions, NEW retry \in BOOLEAN, Start(a, retry)
        PROVE  HostTypeOK' /\ UNCHANGED ledgerVars
    BY <1>6, StartKeeps DEF Start
  <1> QED BY <1>1, <1>2, <1>3, <1>4, <1>5, <1>6 DEF Host

\* A step of a process is one of ActionLedger's.
LEMMA ProcessStep ==
  ASSUME HostTypeOK, NEW p \in Procs, Process(p)
  PROVE  HostTypeOK' /\ LedgerNext
  <1>1. CASE Launch(p)
    <2>1. plan \in Plans /\ Execute(p, plan)
      BY <1>1 DEF Launch, HostTypeOK
    <2> QED BY <1>1, <2>1 DEF Launch, LedgerNext, HostTypeOK, repository, workVars, issueVars
  <1>2. CASE Run(p)
    BY <1>2, RunKeeps DEF Run, LedgerNext
  <1>3. CASE Tell(p)
    BY <1>3 DEF Tell, LedgerNext, HostTypeOK, repository, workVars, issueVars
  <1>4. CASE /\ Verify(p) \/ Write(p) \/ Reverify(p) \/ Die(p)
             /\ UNCHANGED <<repository, workVars, result, pullRequest>>
    BY <1>4 DEF LedgerNext, HostTypeOK, repository, workVars, issueVars
  <1> QED BY <1>1, <1>2, <1>3, <1>4 DEF Process

LEMMA HostInductive ==
  HostTypeOK /\ [Next]_vars => HostTypeOK' /\ [LedgerNext]_ledgerVars
  <1>1. CASE HostTypeOK /\ Edit
    BY <1>1 DEF Edit, HostTypeOK, hostVars, issueVars
  <1>2. CASE HostTypeOK /\ Host
    BY <1>2, HostStep
  <1>3. ASSUME HostTypeOK, NEW p \in Procs, Process(p)
        PROVE  HostTypeOK' /\ LedgerNext
    BY <1>3, ProcessStep
  <1>4. CASE HostTypeOK /\ UNCHANGED vars
    BY <1>4 DEF vars, HostTypeOK, repository, issueVars, hostVars
  <1> QED BY <1>1, <1>2, <1>3, <1>4 DEF Next

\* The whole orchestrator implements the processes over their ledgers: what the
\* host does between two executions touches no ledger, and what it launches is a
\* plan for a run it observed (planner.py, runner.py).
THEOREM OrchestratorRunsLedgers == Spec => LedgerSpec
  <1>1. Init => LedgerInit
    BY DEF Init
  <1>2. Spec => []HostTypeOK
    BY HostStarts, HostInductive, PTL DEF Spec
  <1> QED BY <1>1, <1>2, HostInductive, PTL DEF Spec, LedgerSpec

\* Whatever the host asks for and the owner approves, no command is started a
\* second time under one observation (ledger.py, _append).
THEOREM NoWorkStartsTwice == Spec => []NothingStartsTwice
  BY OrchestratorRunsLedgers, NothingIsStartedTwice

\* Whatever the host asks for and the owner approves, a work is carried out at
\* most once under one observation, with one result (runner.py, execute).
THEOREM WorkIsRunOnce == Spec => ActionsRunOnce
  BY OrchestratorRunsLedgers, ActionsAreRunOnce

-----------------------------------------------------------------------------
(* What the host's state says of the gates behind a work, and of the plan  *)
(* in hand.                                                                *)

\* The gates that are behind a work that is in this state.
Behind ==
  [ SCOPE_VALIDATED      |-> {},
    FOCUSED_PASS         |-> {},
    FULL_PASS            |-> {"FULL_VALIDATION"},
    SOURCE_VALIDATED     |-> {"FULL_VALIDATION"},
    CHECKPOINT_COMMITTED |-> {"FULL_VALIDATION", "CHECKPOINT_COMMIT"},
    ARTIFACT_BUILT       |-> {"FULL_VALIDATION", "CHECKPOINT_COMMIT", "BUILD"},
    DEVICE_ACCEPTANCE    |-> GenericActions \ {"PUBLISH"},
    PUBLISH_READY        |-> GenericActions \ {"PUBLISH"},
    COMPLETED            |-> GenericActions ]

GateStates == DOMAIN Behind

Settled == {g \in Actions : account[g] # "open"}

Reached(s) ==
  Behind[s] \subseteq Settled /\ (s = "SCOPE_VALIDATED" \/ CodeActions \cap Settled # {})

\* The work is on its way from the state it resumes to the next gate.
PlannedStates ==
  {"CODEX_RUNNING", "ACTION_RUNNING", "RESULT_RECEIVED", "DETERMINISTIC_VALIDATION"}

Accounts == [Actions -> {"open", "waived", "reused", "passed"}]

\* A work stands where its gates allow it; between two gates the resume state
\* does, and what runs is what starts from there.
GatesBehind ==
  /\ state \in States /\ account \in Accounts
  /\ state \in GateStates => Reached(state)
  /\ state \in AuthorizationStates \union PlannedStates =>
       resume \in GateStates /\ Reached(resume)
  /\ state \in PlannedStates =>
       plan \in Plans /\ resume = ResumeState[plan.fingerprint.action]

\* Every process that is under way works on the plan of the work.
OnePlan ==
  \A p \in Procs : ~At(p, "idle") => plan # None /\ proc[p].plan = plan /\ Running

\* The comment that approved this plan, by name and on its source.
Approved(x) ==
  /\ x.approval \in DOMAIN comments
  /\ comments[x.approval].action = x.fingerprint.action
  /\ comments[x.approval].source = x.fingerprint.source

ObservationKnown == observation # None => observation.approval \in 0..Len(comments)

PlanApproved == plan # None => Approved(plan)

ResultIsTold ==
  /\ result \in {None, "ok", "failed"}
  /\ state \in {"RESULT_RECEIVED", "DETERMINISTIC_VALIDATION"} => result # None
  /\ result = "ok" => plan # None /\ ResultOn(ledger[plan.run], plan, "ok")

\* A gate that passed has a plan that was approved and that succeeded.
Earned(g) ==
  \E r \in Runs : \E i \in DOMAIN ledger[r] :
    LET line == ledger[r][i]
    IN /\ line.kind = "result" /\ line.outcome = "ok"
       /\ line.plan.fingerprint.action = g /\ Approved(line.plan)

PassesApproved == \A g \in Actions : account[g] = "passed" => Earned(g)

WorkInv ==
  /\ GatesBehind /\ OnePlan
  /\ ObservationKnown /\ PlanApproved /\ ResultIsTold /\ PassesApproved

IInv == HostTypeOK /\ LedgerIInv /\ ResultsWritten /\ WorkInv

-----------------------------------------------------------------------------
(* The moves the policy admits.                                            *)

LEMMA ActionNames ==
  ASSUME NEW a \in Actions
  PROVE  a \in {"CODE_CHANGE", "CORRECTION", "FULL_VALIDATION", "CHECKPOINT_COMMIT",
                "BUILD", "DEVICE", "PUBLISH"}
  BY DEF Actions, CodeActions, GenericActions

\* Where the work resumes decides which action comes next, but for a change and
\* its correction.
LEMMA ResumeDecides ==
  ASSUME NEW a \in Actions, NEW b \in Actions, ResumeState[a] = ResumeState[b]
  PROVE  a = b \/ (a \in CodeActions /\ b \in CodeActions)
  BY ActionNames DEF ResumeState, CodeActions

\* The gates behind a resume state are those an action needs.
LEMMA BeforeIsBehind ==
  ASSUME NEW a \in Actions
  PROVE  /\ ResumeState[a] \in GateStates
         /\ Before[a] \subseteq Behind[ResumeState[a]]
         /\ ResumeState[a] = "SCOPE_VALIDATED" <=> a \in CodeActions
         /\ SuccessState[a] \in GateStates /\ SuccessState[a] # "SCOPE_VALIDATED"
         /\ SuccessState[a] \in States
         /\ Behind[SuccessState[a]] \subseteq
              Behind[ResumeState[a]] \union (IF a \in CodeActions THEN {} ELSE {a})
  BY ActionNames DEF ResumeState, SuccessState, Before, Behind, GateStates, CodeActions,
     GenericActions, States, Documented, Terminal

LEMMA SuccessorsAreStates ==
  ASSUME NEW s \in States, NEW to \in Successors(s)
  PROVE  to \in States
  BY DEF States, Documented, Terminal, Successors

\* What is left of the moves when starts and verdicts are taken out.
LEMMA MoveCases ==
  ASSUME NEW s \in States, s \notin Terminal \union {"IDLE", "OBSERVING", "DETERMINISTIC_VALIDATION"},
         NEW to, CanMove(s, to), to # "AWAITING_APPROVAL",
         to \notin {"CODEX_RUNNING", "ACTION_RUNNING"}
  PROVE  \/ to = "CANCELLED"
         \/ s = "AWAITING_APPROVAL" /\ to \in {"CODEX_AUTHORIZED", "ACTION_AUTHORIZED"}
         \/ s \in {"CODEX_RUNNING", "ACTION_RUNNING"} /\ to = "RESULT_RECEIVED"
         \/ s = "RESULT_RECEIVED" /\ to = "DETERMINISTIC_VALIDATION"
         \/ s = "FOCUSED_PASS" /\ to = "SOURCE_VALIDATED"
         \/ s = "FULL_PASS" /\ to = "SOURCE_VALIDATED"
         \/ s \in {"CHECKPOINT_COMMITTED", "ARTIFACT_BUILT", "DEVICE_ACCEPTANCE"}
            /\ to = "PUBLISH_READY"
         \/ s = "PUBLISH_READY" /\ to = "COMPLETED"
  BY DEF States, Documented, Terminal, CanMove, Successors

\* Only an authorized state is followed by a running one.
LEMMA StartsFromApproval ==
  ASSUME NEW s \in States, NEW to \in {"CODEX_RUNNING", "ACTION_RUNNING"}, CanMove(s, to)
  PROVE  \/ s = "CODEX_AUTHORIZED" /\ to = "CODEX_RUNNING"
         \/ s = "ACTION_AUTHORIZED" /\ to = "ACTION_RUNNING"
  BY DEF States, Documented, Terminal, CanMove, Successors

\* Whoever asks for an approval stands at a gate.
LEMMA AwaitsAtGates ==
  ASSUME NEW s \in States, CanMove(s, "AWAITING_APPROVAL")
  PROVE  s \in GateStates
  BY DEF States, Documented, Terminal, CanMove, Successors, Behind, GateStates

LEMMA ValidatedMoves ==
  ASSUME NEW to, CanMove("DETERMINISTIC_VALIDATION", to), to \notin {"FAILED", "BLOCKED"}
  PROVE  to = "CANCELLED" \/ to \in GateStates
  BY DEF Documented, Terminal, CanMove, Successors, Behind, GateStates

-----------------------------------------------------------------------------
(* The gates behind a work.                                                *)

\* Gates are settled and not forgotten while a work goes on.
LEMMA ReachedStays ==
  ASSUME NEW s \in GateStates, Reached(s), Settled \subseteq Settled'
  PROVE  Reached(s)'
  BY DEF Reached

\* A gate that is left out is settled, the others stay as they are.
LEMMA SettleSettles ==
  ASSUME account \in Accounts, NEW to, NEW d \in Dispositions(to), account' = Settle(d)
  PROVE  /\ account' \in Accounts
         /\ Settled' = Settled \union (SkippedGates(state, to) \cap Actions)
         /\ \A g \in Actions : account'[g] = "passed" => account[g] = "passed"
  <1>1. DOMAIN d = SkippedGates(state, to)
    BY DEF Dispositions
  <1> QED BY <1>1 DEF Settle, Settled, Accounts

LEMMA MoveKeepsGates ==
  ASSUME GatesBehind, ResultIsTold, NEW a \in Actions, NEW to, Move(a, to)
  PROVE  GatesBehind'
  <1>1. PICK d \in Dispositions(to) :
          Allowed(Request(a, to, d, FALSE), Budget) /\ account' = Settle(d)
    BY DEF Move
  <1>2. /\ CanMove(state, to) /\ to # "AWAITING_APPROVAL" /\ resume = ResumeState[a]
        /\ state \in AuthorizationStates => state = "AWAITING_APPROVAL" \/ state = AuthorizedState(a)
    BY <1>1 DEF Allowed, Request
  <1>3. state \in States /\ to \in States /\ state' = to /\ resume' = resume /\ plan' = plan
    BY <1>2, SuccessorsAreStates DEF GatesBehind, CanMove, Move
  <1>4. to \notin {"CODEX_RUNNING", "ACTION_RUNNING"}
    BY <1>2, <1>3, StartsFromApproval
       DEF Move, AuthorizedState, RunningState, AuthorizationStates
  <1>5. /\ account' \in Accounts
        /\ Settled' = Settled \union (SkippedGates(state, to) \cap Actions)
    BY <1>1, SettleSettles DEF GatesBehind
  <1>6. Settled \subseteq Settled' /\ resume \in GateStates
    BY <1>2, <1>5, BeforeIsBehind
  <1>7. CASE to = "CANCELLED"
    BY <1>3, <1>5, <1>7 DEF GatesBehind, GateStates, Behind, AuthorizationStates, PlannedStates
  <1>8. CASE state \in AuthorizationStates \union PlannedStates
    <2>1. Reached(resume)' /\ (state \in PlannedStates => plan \in Plans)
      BY <1>3, <1>6, <1>8, ReachedStays DEF GatesBehind, Reached
    <2>2. \/ state = "AWAITING_APPROVAL" /\ to \in {"CODEX_AUTHORIZED", "ACTION_AUTHORIZED"}
          \/ state \in {"CODEX_RUNNING", "ACTION_RUNNING"} /\ to = "RESULT_RECEIVED"
          \/ state = "RESULT_RECEIVED" /\ to = "DETERMINISTIC_VALIDATION"
          \/ to = "CANCELLED"
      BY <1>2, <1>3, <1>4, <1>8, MoveCases DEF Move, AuthorizationStates, PlannedStates
    <2> QED BY <1>3, <1>5, <1>6, <1>7, <2>1, <2>2
            DEF GatesBehind, GateStates, Behind, AuthorizationStates, PlannedStates
  <1>9. CASE to # "CANCELLED" /\ state \notin AuthorizationStates \union PlannedStates
    <2>1. \/ state = "FOCUSED_PASS" /\ to = "SOURCE_VALIDATED"
          \/ state = "FULL_PASS" /\ to = "SOURCE_VALIDATED"
          \/ state \in {"CHECKPOINT_COMMITTED", "ARTIFACT_BUILT", "DEVICE_ACCEPTANCE"}
             /\ to = "PUBLISH_READY"
          \/ state = "PUBLISH_READY" /\ to = "COMPLETED"
      BY <1>2, <1>3, <1>4, <1>9, MoveCases DEF Move, AuthorizationStates, PlannedStates
    <2>2. /\ state \in GateStates /\ to \in GateStates /\ state # "SCOPE_VALIDATED"
          /\ to \notin AuthorizationStates \union PlannedStates
      BY <2>1 DEF GateStates, Behind, AuthorizationStates, PlannedStates
    <2>3. Behind[to] \subseteq Behind[state] \union (SkippedGates(state, to) \cap Actions)
      BY <2>1 DEF Behind, SkippedGates, GenericActions, Actions
    <2> QED BY <1>3, <1>5, <1>6, <2>2, <2>3 DEF GatesBehind, Reached
  <1> QED BY <1>7, <1>8, <1>9

LEMMA AwaitKeepsGates ==
  ASSUME GatesBehind, NEW a \in Actions, Await(a)
  PROVE  GatesBehind'
  <1>1. CanMove(state, "AWAITING_APPROVAL")
    BY DEF Await, MayAwait, Request
  <1>2. state \in GateStates /\ resume' = state /\ state' = "AWAITING_APPROVAL"
        /\ account' = account
    BY <1>1, AwaitsAtGates DEF GatesBehind, Await
  <1>3. "AWAITING_APPROVAL" \in States
    BY DEF States, Documented
  <1> QED BY <1>2, <1>3
          DEF GatesBehind, Reached, Settled, GateStates, Behind, AuthorizationStates, PlannedStates

LEMMA StartKeepsGates ==
  ASSUME HostTypeOK, GatesBehind, NEW a \in Actions, NEW retry \in BOOLEAN, Start(a, retry)
  PROVE  GatesBehind' /\ state \in {"CODEX_AUTHORIZED", "ACTION_AUTHORIZED"}
  <1> DEFINE q == Request(a, RunningState(a), Nothing, retry)
  <1>1. Allowed(q, Budget) /\ state' = RunningState(a) /\ UNCHANGED <<resume, account>>
    BY DEF Start, Request
  <1>2. CanMove(state, RunningState(a)) /\ resume = ResumeState[a]
    BY <1>1 DEF Allowed, Request
  <1>3. RunningState(a) \in {"CODEX_RUNNING", "ACTION_RUNNING"}
    BY DEF RunningState
  <1>4. state \in {"CODEX_AUTHORIZED", "ACTION_AUTHORIZED"} /\ state' \in States
    BY <1>1, <1>2, <1>3, StartsFromApproval, SuccessorsAreStates DEF GatesBehind, CanMove
  <1>5. plan' \in Plans /\ plan'.fingerprint.action = a
    <2>1. plan' = [run |-> observation.run, approval |-> observation.approval,
                   fingerprint |-> [action |-> a, source |-> Source]]
      BY DEF Start
    <2>2. observation.run \in Runs /\ observation.approval \in Nat
      BY DEF Start, HostTypeOK
    <2> QED BY <2>1, <2>2, SourceIsSource DEF Plans, Fingerprints
  <1>6. resume \in GateStates /\ Reached(resume)
    BY <1>4 DEF GatesBehind, AuthorizationStates
  <1> QED BY <1>1, <1>2, <1>3, <1>4, <1>5, <1>6
          DEF GatesBehind, Reached, Settled, GateStates, Behind, PlannedStates

\* The gate whose result is judged is the one the plan was for.
LEMMA ValidateKeepsGates ==
  ASSUME GatesBehind, ResultIsTold, NEW a \in Actions, NEW to, Validate(a, to)
  PROVE  GatesBehind'
  <1> DEFINE ran == plan.fingerprint.action
  <1>1. /\ CanMove(state, to) /\ resume = ResumeState[a]
        /\ to \notin {"FAILED", "BLOCKED"} => to = SuccessState[a]
    BY DEF Validate, Allowed, Request
  <1>2. /\ state = "DETERMINISTIC_VALIDATION" /\ state' = to /\ resume' = resume
        /\ plan' = plan /\ to \in States
    BY <1>1, SuccessorsAreStates DEF Validate, GatesBehind, CanMove
  <1>3. /\ plan \in Plans /\ ran \in Actions /\ ResumeState[ran] = ResumeState[a]
        /\ resume \in GateStates /\ Reached(resume)
    BY <1>1, <1>2 DEF GatesBehind, PlannedStates, Plans, Fingerprints
  <1>4. result \in {"ok", "failed"}
    BY <1>2 DEF ResultIsTold
  <1>5. CASE result = "failed"
    <2>1. to \in {"FAILED", "BLOCKED"} /\ account' = account
      BY <1>5 DEF Validate
    <2> QED BY <1>2, <2>1 DEF GatesBehind, GateStates, Behind, AuthorizationStates, PlannedStates
  <1>6. CASE result = "ok"
    <2>1. account' = [account EXCEPT ![ran] = "passed"] /\ to = SuccessState[a]
      BY <1>1, <1>6 DEF Validate
    <2>2. account' \in Accounts /\ Settled' = Settled \union {ran}
      BY <1>3, <2>1 DEF GatesBehind, Accounts, Settled
    <2>3. /\ to \in GateStates /\ to # "SCOPE_VALIDATED" /\ SuccessState[ran] = to
          /\ Behind[to] \subseteq Behind[resume] \union {ran}
      BY <1>1, <1>3, <2>1, ResumeDecides, BeforeIsBehind DEF SuccessState, CodeActions
    <2>4. resume = "SCOPE_VALIDATED" => ran \in CodeActions
      BY <1>1, <1>3, BeforeIsBehind
    <2>5. to \notin AuthorizationStates \union PlannedStates
      BY <2>3 DEF GateStates, Behind, AuthorizationStates, PlannedStates
    <2> QED BY <1>2, <1>3, <2>2, <2>3, <2>4, <2>5 DEF GatesBehind, Reached
  <1> QED BY <1>4, <1>5, <1>6

LEMMA ObserveKeepsGates ==
  ASSUME GatesBehind, Observe
  PROVE  GatesBehind'
  <1>1. /\ state \in {"OBSERVING", "AWAITING_APPROVAL"}
        /\ state' \in {"OBSERVING", "PREFLIGHT_BLOCKED", "SCOPE_VALIDATED"} \/ state' = state
    BY DEF Observe, Observed
  <1>2. state # "AWAITING_APPROVAL" => state' \in {"OBSERVING", "PREFLIGHT_BLOCKED", "SCOPE_VALIDATED"}
    BY <1>1
  <1>3. {"OBSERVING", "PREFLIGHT_BLOCKED", "SCOPE_VALIDATED"} \subseteq States
    BY DEF States, Documented, Terminal
  <1>4. UNCHANGED <<resume, plan, account>>
    BY DEF Observe
  <1>5. CASE state' = state
    BY <1>4, <1>5 DEF GatesBehind, Reached, Settled
  <1>6. CASE state' # state
    BY <1>1, <1>3, <1>4, <1>6
       DEF GatesBehind, Reached, Settled, GateStates, Behind, AuthorizationStates, PlannedStates
  <1> QED BY <1>5, <1>6

LEMMA BeginKeepsGates ==
  ASSUME GatesBehind, Begin \/ Restart
  PROVE  GatesBehind'
  <1>1. /\ state' \in {"IDLE", "OBSERVING"} /\ account' \in Accounts
    BY DEF Begin, Restart, GatesBehind, Open, Accounts
  <1>2. {"IDLE", "OBSERVING"} \subseteq States
    BY DEF States, Documented
  <1> QED BY <1>1, <1>2 DEF GatesBehind, GateStates, Behind, AuthorizationStates, PlannedStates

LEMMA GatesInductive ==
  ASSUME HostTypeOK, GatesBehind, ResultIsTold, [Next]_vars
  PROVE  GatesBehind'
  <1>1. CASE UNCHANGED <<state, resume, plan, account>>
    BY <1>1 DEF GatesBehind, Reached, Settled
  <1>2. CASE Host
    <2>1. ASSUME NEW a \in Actions, NEW to, Move(a, to) \/ Validate(a, to)
          PROVE  GatesBehind'
      BY <2>1, MoveKeepsGates, ValidateKeepsGates
    <2>2. ASSUME NEW a \in Actions, Approve(a) \/ Await(a)
          PROVE  GatesBehind'
      BY <2>2, <1>1, AwaitKeepsGates DEF Approve, hostVars
    <2>3. ASSUME NEW c, Expire(c)
          PROVE  GatesBehind'
      BY <2>3, <1>1 DEF Expire, hostVars
    <2> QED BY <1>2, <2>1, <2>2, <2>3, BeginKeepsGates, ObserveKeepsGates, StartKeepsGates
            DEF Host
  <1>3. ASSUME NEW p \in Procs, Process(p)
        PROVE  UNCHANGED <<state, resume, plan, account>>
    BY <1>3 DEF Process, Launch, Run, Tell, workVars
  <1>4. CASE Edit \/ UNCHANGED vars
    BY <1>4, <1>1 DEF Edit, vars, hostVars
  <1> QED BY <1>1, <1>2, <1>3, <1>4 DEF Next

-----------------------------------------------------------------------------
(* The plan in hand, its approval and its result.                          *)

\* A comment keeps what it approves; only its expiry changes.
LEMMA ApprovalsStay ==
  ASSUME HostTypeOK, [Next]_vars, NEW c \in DOMAIN comments
  PROVE  /\ c \in DOMAIN comments'
         /\ comments'[c].action = comments[c].action /\ comments'[c].source = comments[c].source
  <1>1. comments \in Seq(Comments)
    BY DEF HostTypeOK
  <1>2. ASSUME NEW a, Approve(a)
        PROVE  /\ c \in DOMAIN comments' /\ comments'[c] = comments[c]
    <2>1. PICK comment : comments' = Append(comments, comment)
      BY <1>2 DEF Approve
    <2> QED BY <1>1, <2>1
  <1>3. ASSUME NEW d \in DOMAIN comments, Expire(d)
        PROVE  /\ c \in DOMAIN comments'
               /\ comments'[c].action = comments[c].action
               /\ comments'[c].source = comments[c].source
    <2>1. comments[c] \in Comments
      BY <1>1
    <2> QED BY <1>1, <1>3, <2>1 DEF Expire, Comments
  <1>4. CASE UNCHANGED comments
    BY <1>4
  <1>5. CASE Host
    BY <1>2, <1>3, <1>4, <1>5
       DEF Host, Begin, Observe, Restart, Await, Move, Validate, Start, issueVars
  <1>6. CASE \E p \in Procs : Process(p)
    BY <1>6, <1>4 DEF Process, Launch, Run, Tell, workVars, issueVars
  <1> QED BY <1>4, <1>5, <1>6 DEF Next, Edit, vars, issueVars

LEMMA ApprovedStays ==
  ASSUME HostTypeOK, [Next]_vars, NEW x, Approved(x)
  PROVE  Approved(x)'
  BY ApprovalsStay DEF Approved

LEMMA EarnedStays ==
  ASSUME HostTypeOK, LedgerTypeOK, [Next]_vars, NEW g, Earned(g)
  PROVE  Earned(g)'
  <1>1. [LedgerNext]_ledgerVars
    BY HostInductive
  <1>2. PICK r \in Runs : \E i \in DOMAIN ledger[r] :
          /\ ledger[r][i].kind = "result" /\ ledger[r][i].outcome = "ok"
          /\ ledger[r][i].plan.fingerprint.action = g /\ Approved(ledger[r][i].plan)
    BY DEF Earned
  <1>3. PICK i \in DOMAIN ledger[r] :
          /\ ledger[r][i].kind = "result" /\ ledger[r][i].outcome = "ok"
          /\ ledger[r][i].plan.fingerprint.action = g /\ Approved(ledger[r][i].plan)
    BY <1>2
  <1>4. i \in DOMAIN ledger'[r] /\ ledger'[r][i] = ledger[r][i]
    BY <1>1, LinesStay
  <1>5. PICK x : x = ledger[r][i].plan
    OBVIOUS
  <1>6. Approved(x)'
    BY <1>3, <1>5, ApprovedStays
  <1> QED BY <1>3, <1>4, <1>5, <1>6 DEF Earned, Approved

LEMMA ObservationInductive ==
  ASSUME HostTypeOK, ObservationKnown, [Next]_vars
  PROVE  ObservationKnown'
  <1>1. CASE Observe
    BY <1>1 DEF Observe, ObservationKnown
  <1>2. comments \in Seq(Comments) /\ comments' \in Seq(Comments)
    BY HostInductive DEF HostTypeOK
  <1>3. Len(comments) <= Len(comments')
    <2>1. Len(comments) = 0 \/ Len(comments) \in DOMAIN comments
      BY <1>2
    <2> QED BY <1>2, <2>1, ApprovalsStay
  <1>4. CASE UNCHANGED observation
    BY <1>2, <1>3, <1>4 DEF ObservationKnown
  <1>5. CASE Host
    BY <1>1, <1>4, <1>5
       DEF Host, ObservationKnown, Begin, Restart, Approve, Await, Expire, Move, Validate,
           Start, issueVars
  <1>6. CASE \E p \in Procs : Process(p)
    BY <1>4, <1>6 DEF Process, Launch, Run, Tell, workVars, issueVars
  <1> QED BY <1>4, <1>5, <1>6 DEF Next, Edit, vars, issueVars

\* What is started was approved by name, on the source it is planned on.
LEMMA StartIsApproved ==
  ASSUME HostTypeOK, GatesBehind, ObservationKnown,
         NEW a \in Actions, NEW retry \in BOOLEAN, Start(a, retry)
  PROVE  PlanApproved'
  <1> DEFINE q == Request(a, RunningState(a), Nothing, retry)
  <1>1. Allowed(q, Budget) /\ q.from = state /\ state \in AuthorizationStates
    BY StartKeepsGates DEF Start, Request, AuthorizationStates
  <1>2. Authorized(q)
    BY <1>1 DEF Allowed
  <1>3. /\ Authorization.status = "valid" /\ Authorization.action = a
        /\ Authorization.source = Source
    BY <1>2 DEF Authorized, Request
  <1>4. /\ observation # None /\ observation.approval # 0
        /\ comments[observation.approval].action = a
        /\ comments[observation.approval].source = Source
    BY <1>3 DEF Authorization
  <1>5. observation.approval \in DOMAIN comments
    BY <1>4 DEF ObservationKnown, HostTypeOK
  <1>6. /\ plan'.approval = observation.approval /\ plan'.fingerprint.action = a
        /\ plan'.fingerprint.source = Source /\ comments' = comments
    BY DEF Start, issueVars
  <1> QED BY <1>4, <1>5, <1>6 DEF PlanApproved, Approved

LEMMA PlanInductive ==
  ASSUME HostTypeOK, GatesBehind, ObservationKnown, PlanApproved, [Next]_vars
  PROVE  PlanApproved'
  <1>1. CASE UNCHANGED plan
    <2>1. ASSUME plan # None
          PROVE  Approved(plan)'
      <3>1. Approved(plan)
        BY <2>1 DEF PlanApproved
      <3> QED BY <1>1, <3>1, ApprovalsStay DEF Approved
    <2> QED BY <1>1, <2>1 DEF PlanApproved
  <1>2. CASE Host
    BY <1>1, <1>2, StartIsApproved
       DEF Host, PlanApproved, Begin, Observe, Restart, Approve, Await, Expire, Move,
           Validate, hostVars
  <1>3. CASE \E p \in Procs : Process(p)
    BY <1>1, <1>3 DEF Process, Launch, Run, Tell, workVars
  <1> QED BY <1>1, <1>2, <1>3 DEF Next, Edit, vars, hostVars

\* While processes are under way they all work on one plan, and the host waits.
LEMMA OnePlanInductive ==
  ASSUME HostTypeOK, LedgerIInv, OnePlan, [Next]_vars
  PROVE  OnePlan'
  <1>1. CASE UNCHANGED <<proc, plan, state>>
    BY <1>1 DEF OnePlan, At, Running
  <1>2. CASE (\A p \in Procs : At(p, "idle")) /\ Host
    BY <1>2, HostStep DEF OnePlan, At, ledgerVars
  <1>3. ASSUME NEW p \in Procs, Process(p)
        PROVE  OnePlan'
    <2>1. plan' = plan /\ Running' = Running
      BY <1>3 DEF Process, Launch, Run, Tell, workVars, Running
    <2>2. /\ \A q \in Procs : q # p => proc'[q] = proc[q]
          /\ \/ proc'[p].pc = "idle"
             \/ ~At(p, "idle") /\ proc'[p].plan = proc[p].plan
             \/ plan # None /\ Running /\ proc'[p].plan = plan
      <3>1. CASE Launch(p)
        BY <3>1 DEF Launch, Execute, LedgerIInv, LedgerTypeOK
      <3>2. CASE Run(p)
        BY <3>2 DEF Run, Command, LedgerIInv, LedgerTypeOK, At, Busy, Idle
      <3>3. CASE Tell(p) \/ Die(p)
        BY <3>3 DEF Tell, Return, Die, Stop, LedgerIInv, LedgerTypeOK, Idle
      <3>4. CASE Verify(p) \/ Write(p) \/ Reverify(p)
        <4>1. proc[p] \in Busy /\ ~At(p, "idle")
          BY <3>4, BusyProcess DEF Verify, Write, Reverify, At
        <4>2. CASE Verify(p)
          <5>1. \A q \in Procs : q # p => proc'[q] = proc[q]
            BY <4>2 DEF Verify, Stop, LedgerIInv, LedgerTypeOK
          <5>2. proc'[p] = Idle \/ proc'[p].plan = proc[p].plan
            BY <4>1, <4>2 DEF Verify, Stop, LedgerIInv, LedgerTypeOK, Busy
          <5> QED BY <4>1, <5>1, <5>2 DEF Idle
        <4>3. CASE Write(p)
          BY <4>1, <4>3 DEF Write, LedgerIInv, LedgerTypeOK, Busy
        <4>4. CASE Reverify(p)
          BY <4>1, <4>4 DEF Reverify, Stop, LedgerIInv, LedgerTypeOK, Busy, Idle
        <4> QED BY <3>4, <4>2, <4>3, <4>4
      <3> QED BY <1>3, <3>1, <3>2, <3>3, <3>4 DEF Process
    <2> QED BY <2>1, <2>2 DEF OnePlan, At
  <1> QED BY <1>1, <1>2, <1>3 DEF Next, Edit, vars, hostVars, ledgerVars

\* What a process tells is on the ledger of the plan in hand.
LEMMA ToldIsWritten ==
  ASSUME HostTypeOK, LedgerIInv, ResultsWritten, OnePlan, NEW p \in Procs, Tell(p)
  PROVE  /\ result' \in {"ok", "failed"} /\ Running /\ plan # None
         /\ result' = "ok" => ResultOn(ledger[plan.run], plan, "ok")
  <1>1. At(p, "told") /\ ~At(p, "idle")
    BY DEF Tell, Return, At
  <1>2. /\ proc[p].outcome \in {"ok", "failed"} /\ proc[p].plan = plan /\ Running /\ plan # None
        /\ ResultOn(ledger[plan.run], plan, proc[p].outcome)
    BY <1>1 DEF ResultsWritten, ResultWritten, OnePlan, File
  <1>3. result' \in {"ok", "failed"} /\ (result' = "ok" => proc[p].outcome = "ok")
    BY <1>2 DEF Tell
  <1> QED BY <1>2, <1>3

LEMMA ResultInductive ==
  ASSUME HostTypeOK, LedgerIInv, ResultsWritten, GatesBehind, OnePlan, ResultIsTold,
         [Next]_vars
  PROVE  ResultIsTold'
  <1> DEFINE judged == {"RESULT_RECEIVED", "DETERMINISTIC_VALIDATION"}
  <1>1. None \notin {"ok", "failed"}
    BY OrchestratorAssumption DEF Outcomes
  <1>2. ASSUME UNCHANGED <<plan, result>>
        PROVE  /\ result' \in {None, "ok", "failed"}
               /\ result' = "ok" => plan' # None /\ ResultOn(ledger'[plan'.run], plan', "ok")
    <2>1. [LedgerNext]_ledgerVars /\ LedgerTypeOK
      BY HostInductive DEF LedgerIInv
    <2>2. plan # None => plan.run \in Runs
      BY DEF HostTypeOK, Plans
    <2> QED BY <1>2, <2>1, <2>2, ResultsStay DEF ResultIsTold
  <1>3. CASE UNCHANGED <<plan, result, state>>
    BY <1>2, <1>3 DEF ResultIsTold
  <1>4. CASE Host
    <2>1. ASSUME NEW a \in Actions, NEW to, Move(a, to)
          PROVE  ResultIsTold'
      <3>1. CanMove(state, to) /\ state \in States
        BY <2>1 DEF Move, Allowed, Request, GatesBehind
      <3>2. to = "DETERMINISTIC_VALIDATION" => state = "RESULT_RECEIVED"
        BY <3>1 DEF CanMove, Successors, States, Documented, Terminal
      <3> QED BY <2>1, <1>2, <3>2 DEF Move, ResultIsTold
    <2>2. ASSUME NEW a \in Actions, NEW to, Validate(a, to)
          PROVE  ResultIsTold'
      <3>1. CanMove("DETERMINISTIC_VALIDATION", to)
        BY <2>2 DEF Validate, Allowed, Request
      <3>2. to \notin judged
        BY <3>1 DEF CanMove, Successors, Documented, Terminal
      <3> QED BY <2>2, <1>2, <3>2 DEF Validate, ResultIsTold
    <2>3. ASSUME NEW a \in Actions, NEW retry \in BOOLEAN, Start(a, retry)
          PROVE  ResultIsTold'
      <3>1. result' = None /\ state' \notin judged
        BY <2>3 DEF Start, Request, RunningState
      <3> QED BY <3>1, <1>1 DEF ResultIsTold
    <2>4. CASE Restart
      BY <2>4, <1>1 DEF Restart, ResultIsTold
    <2>5. CASE Begin \/ Observe \/ \E a \in Actions : Await(a)
      <3>1. state' \notin judged \/ state' = state
        <4>1. CASE Begin \/ \E a \in Actions : Await(a)
          BY <4>1 DEF Begin, Await
        <4>2. CASE Observe
          BY <4>2 DEF Observe, Observed
        <4> QED BY <2>5, <4>1, <4>2
      <3>2. UNCHANGED <<plan, result>>
        BY <2>5 DEF Begin, Observe, Await
      <3> QED BY <1>2, <3>1, <3>2 DEF ResultIsTold
    <2>6. CASE (\E a \in Actions : Approve(a)) \/ \E c \in DOMAIN comments : Expire(c)
      BY <2>6, <1>3 DEF Approve, Expire, hostVars
    <2> QED BY <1>4, <2>1, <2>2, <2>3, <2>4, <2>5, <2>6 DEF Host
  <1>5. ASSUME NEW p \in Procs, Process(p)
        PROVE  ResultIsTold'
    <2>1. CASE Tell(p)
      <3>1. UNCHANGED <<plan, state, ledger>>
        BY <2>1 DEF Tell, Return, workVars
      <3> QED BY <2>1, <3>1, ToldIsWritten DEF ResultIsTold, Running
    <2>2. CASE ~Tell(p)
      <3>1. UNCHANGED <<plan, result, state>>
        BY <1>5, <2>2 DEF Process, Launch, Run, workVars
      <3> QED BY <3>1, <1>3
    <2> QED BY <2>1, <2>2
  <1>6. CASE Edit \/ UNCHANGED vars
    BY <1>6, <1>3 DEF Edit, vars, hostVars
  <1> QED BY <1>4, <1>5, <1>6 DEF Next

LEMMA PassesInductive ==
  ASSUME HostTypeOK, LedgerIInv, WorkInv, [Next]_vars
  PROVE  PassesApproved'
  <1> USE DEF WorkInv
  <1>1. ASSUME NEW g \in Actions, account'[g] = "passed"
        PROVE  account[g] = "passed" \/ Earned(g)
    <2>1. CASE UNCHANGED account
      BY <1>1, <2>1
    <2>2. ASSUME NEW a \in Actions, NEW to, Move(a, to)
          PROVE  account[g] = "passed"
      BY <2>2, <1>1, SettleSettles DEF Move, GatesBehind
    <2>3. ASSUME NEW a \in Actions, NEW to, Validate(a, to)
          PROVE  account[g] = "passed" \/ Earned(g)
      <3>1. CASE result = "ok" /\ g = plan.fingerprint.action
        <4>1. plan \in Plans /\ Approved(plan) /\ ResultOn(ledger[plan.run], plan, "ok")
          BY <3>1 DEF ResultIsTold, PlanApproved, HostTypeOK
        <4> QED BY <3>1, <4>1 DEF Earned, ResultOn, Plans
      <3>2. CASE ~(result = "ok" /\ g = plan.fingerprint.action)
        BY <2>3, <1>1, <3>2 DEF Validate, GatesBehind, Accounts
      <3> QED BY <3>1, <3>2
    <2>4. CASE Restart
      BY <1>1, <2>4 DEF Restart, Open
    <2>5. CASE Host
      BY <2>1, <2>2, <2>3, <2>4, <2>5
         DEF Host, Begin, Observe, Approve, Await, Expire, Start, hostVars
    <2>6. CASE \E p \in Procs : Process(p)
      BY <2>1, <2>6 DEF Process, Launch, Run, Tell, workVars
    <2> QED BY <2>1, <2>5, <2>6 DEF Next, Edit, vars, hostVars
  <1> QED BY <1>1, EarnedStays DEF PassesApproved, LedgerIInv

-----------------------------------------------------------------------------

LEMMA WorkStarts == Init => IInv
  <1> SUFFICES ASSUME Init PROVE IInv
    OBVIOUS
  <1>1. HostTypeOK /\ LedgerIInv
    BY HostStarts, LedgerStarts DEF Init
  <1>2. \A p \in Procs : At(p, "idle")
    BY DEF Init, LedgerInit, At, Idle
  <1>3. ResultsWritten /\ OnePlan
    BY <1>2 DEF ResultsWritten, ResultWritten, OnePlan, At
  <1>4. GatesBehind
    BY DEF Init, GatesBehind, States, Documented, Accounts, Open, GateStates, Behind,
       AuthorizationStates, PlannedStates
  <1>5. None \notin {"ok", "failed"}
    BY OrchestratorAssumption DEF Outcomes
  <1>6. ObservationKnown /\ PlanApproved /\ ResultIsTold /\ PassesApproved
    BY <1>5 DEF Init, ObservationKnown, PlanApproved, ResultIsTold, PassesApproved, Open
  <1> QED BY <1>1, <1>3, <1>4, <1>6 DEF IInv, WorkInv

LEMMA WorkInductive == IInv /\ [Next]_vars => IInv'
  <1> SUFFICES ASSUME IInv, [Next]_vars PROVE IInv'
    OBVIOUS
  <1> USE DEF IInv, WorkInv
  <1>1. HostTypeOK' /\ [LedgerNext]_ledgerVars
    BY HostInductive
  <1>2. LedgerIInv' /\ ResultsWritten'
    BY <1>1, LedgerInductive, ResultsInductive
  <1>3. GatesBehind' /\ OnePlan'
    BY GatesInductive, OnePlanInductive
  <1>4. ObservationKnown' /\ PlanApproved'
    BY ObservationInductive, PlanInductive
  <1>5. ResultIsTold' /\ PassesApproved'
    BY ResultInductive, PassesInductive
  <1> QED BY <1>1, <1>2, <1>3, <1>4, <1>5

LEMMA WorkAlways == Spec => []IInv
  BY WorkStarts, WorkInductive, PTL DEF Spec

\* One piece of work, with any number of processes over its ledgers: however the
\* host chooses among the moves the policy admits, as long as the resume states
\* it names are its own, and though AWAITING_APPROVAL does not say which gate it
\* was entered from, nothing runs and nothing completes over an open gate.
\* Branch, task and policy stay what they are (policy.py, RESUME_STATE_FOR_ACTION).
THEOREM GatesAreInOrder == Spec => []GatesInOrder
  <1>1. IInv => GatesInOrder
    <2> SUFFICES ASSUME IInv PROVE GatesInOrder
      OBVIOUS
    <2>1. GatesBehind
      BY DEF IInv, WorkInv
    <2>2. ASSUME state \in {"CODEX_RUNNING", "ACTION_RUNNING"}
          PROVE  /\ Before[plan.fingerprint.action] \subseteq Settled
                 /\ plan.fingerprint.action \in CodeActions \/ CodeActions \cap Settled # {}
      <3>1. /\ plan.fingerprint.action \in Actions
            /\ resume = ResumeState[plan.fingerprint.action] /\ Reached(resume)
        BY <2>1, <2>2 DEF GatesBehind, PlannedStates, Plans, Fingerprints
      <3> QED BY <3>1, BeforeIsBehind DEF Reached
    <2>3. ASSUME state = "COMPLETED"
          PROVE  GenericActions \subseteq Settled /\ CodeActions \cap Settled # {}
      BY <2>1, <2>3 DEF GatesBehind, Reached, GateStates, Behind
    <2> QED BY <2>2, <2>3 DEF GatesInOrder, Settled
  <1> QED BY <1>1, WorkAlways, PTL

\* A gate counts as passed only for a command that succeeded on a ledger, under a
\* comment that names the action and the source the plan was made on (policy.py,
\* _validate_authorization; runner.py, execute).
THEOREM PassesWereEarned == Spec => []PassesAreEarned
  <1>1. IInv => PassesAreEarned
    BY DEF IInv, WorkInv, PassesApproved, Earned, Approved, PassesAreEarned
  <1> QED BY <1>1, WorkAlways, PTL
=============================================================================
