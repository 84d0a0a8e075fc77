---------------------------- MODULE ActionLedger ----------------------------
(***************************************************************************)
(* The processes that execute a plan (runner.py) and the ledger of a run   *)
(* that they append to (ledger.py).  The lock of a RuntimeLedger is one of *)
(* threads: two processes that execute the same plan interleave between    *)
(* the verification of the file, the write and the verification after it.  *)
(*                                                                         *)
(* A line holds the kind of its event, the plan, the sequence number and,  *)
(* for a result, the outcome; the chain of hashes is not apart from the    *)
(* sequence number.  A process that dies in os.write leaves a torn line.   *)
(***************************************************************************)
EXTENDS Naturals, Sequences, ActionPolicy, ActionResult

CONSTANTS Procs,      \* processes that execute plans
          MaxRuns,    \* observations, each of which draws an identifier
          MaxMishaps  \* deaths, and executions beside another one

ASSUME LedgerAssumption == {MaxRuns, MaxMishaps} \subseteq Nat

Runs == 1..MaxRuns

\* The source fingerprint takes the commit and the names of the files that
\* differ from it, not what is in them.
Sources == [head : Nat, modified : BOOLEAN]

Fingerprints == [action : Actions, source : Sources]
Plans == [run : Runs, approval : Nat, fingerprint : Fingerprints]

VARIABLES ledger,     \* per run, the lines of its file
          proc,       \* per process, its plan and the step it is at
          started,    \* the commands started: run and fingerprint
          mishaps

ledgerVars == <<ledger, proc, started, mishaps>>

Lines == [kind : {"admission", "result", "torn"}, plan : Plans, sequence : Nat,
          outcome : Outcomes]
Idle == [pc |-> "idle"]

\* The place a line took in the file, at, is known to nobody; it is history.
Busy == [pc : {"verify", "write", "reverify", "command", "told"}, plan : Plans,
         kind : {"admission", "result"}, seen : Nat, at : Nat, outcome : Outcomes]

LedgerInit ==
  /\ ledger = [r \in Runs |-> <<>>]
  /\ proc = [p \in Procs |-> Idle]
  /\ started = {}
  /\ mishaps = 0

\* Is line i of the file an admission of this action?
Admits(lines, i, fingerprint) ==
  lines[i].kind = "admission" /\ lines[i].plan.fingerprint = fingerprint

Admitted(lines, fingerprint) == \E i \in DOMAIN lines : Admits(lines, i, fingerprint)

Verifies(lines) ==
  \A i \in DOMAIN lines :
    /\ lines[i].kind # "torn" /\ lines[i].sequence = i
    /\ lines[i].kind = "admission" =>
         \A j \in 1..(i - 1) : ~Admits(lines, j, lines[i].plan.fingerprint)
    /\ lines[i].kind = "result" =>
         \E j \in 1..(i - 1) : Admits(lines, j, lines[i].plan.fingerprint)

\* The file of the run that p works for.
File(p) == ledger[proc[p].plan.run]

At(p, pc) == proc[p].pc = pc
Stop(p) == proc' = [proc EXCEPT ![p] = Idle]

Execute(p, plan) ==
  /\ At(p, "idle")
  /\ proc' = [proc EXCEPT ![p] = [pc |-> "verify", plan |-> plan, kind |-> "admission",
                                  seen |-> 0, at |-> 0, outcome |-> "none"]]
  /\ IF \A q \in Procs : At(q, "idle") THEN UNCHANGED mishaps
     ELSE mishaps < MaxMishaps /\ mishaps' = mishaps + 1
  /\ UNCHANGED <<ledger, started>>

Verify(p) ==
  /\ At(p, "verify")
  /\ IF /\ Verifies(File(p))
        /\ proc[p].kind = "admission" =>
             ~Admitted(File(p), proc[p].plan.fingerprint)
     THEN proc' = [proc EXCEPT ![p] = [@ EXCEPT !.pc = "write", !.seen = Len(File(p))]]
     ELSE Stop(p)
  /\ UNCHANGED <<ledger, started, mishaps>>

Line(p, kind) ==
  [kind |-> kind, plan |-> proc[p].plan, sequence |-> proc[p].seen + 1,
   outcome |-> proc[p].outcome]

Append1(p, kind) ==
  ledger' = [ledger EXCEPT ![proc[p].plan.run] = Append(@, Line(p, kind))]

Write(p) ==
  /\ At(p, "write")
  /\ Append1(p, proc[p].kind)
  /\ proc' = [proc EXCEPT ![p] = [@ EXCEPT !.pc = "reverify", !.at = Len(File(p)) + 1]]
  /\ UNCHANGED <<started, mishaps>>

\* Mutant: the file is not verified again after the write.
ReverifyNothing(p) ==
  /\ At(p, "reverify")
  /\ proc' = [proc EXCEPT ![p] =
       [@ EXCEPT !.pc = IF proc[p].kind = "admission" THEN "command" ELSE "told"]]
  /\ UNCHANGED <<ledger, started, mishaps>>

Reverify(p) ==
  /\ At(p, "reverify")
  /\ IF Verifies(File(p))
     THEN proc' = [proc EXCEPT ![p] =
            [@ EXCEPT !.pc = IF proc[p].kind = "admission" THEN "command" ELSE "told"]]
     ELSE Stop(p)
  /\ UNCHANGED <<ledger, started, mishaps>>

\* The subprocess, from its start to the parsed result.
Command(p, verdict) ==
  /\ At(p, "command")
  /\ started' = started \union
       (IF verdict.begun THEN {<<proc[p].plan.run, proc[p].plan.fingerprint>>} ELSE {})
  /\ proc' = [proc EXCEPT ![p] =
                [@ EXCEPT !.pc = "verify", !.kind = "result", !.outcome = verdict.outcome]]
  /\ UNCHANGED <<ledger, mishaps>>

\* execute returns: the result is printed.
Return(p) == At(p, "told") /\ Stop(p) /\ UNCHANGED <<ledger, started, mishaps>>

Die(p) ==
  /\ ~At(p, "idle") /\ mishaps < MaxMishaps /\ mishaps' = mishaps + 1
  /\ Stop(p)
  /\ \/ UNCHANGED ledger
     \/ At(p, "write") /\ Append1(p, "torn")
  /\ UNCHANGED started

LedgerNext ==
  \E p \in Procs :
    \/ \E plan \in Plans : Execute(p, plan)
    \/ Verify(p) \/ Write(p) \/ Reverify(p) \/ Return(p) \/ Die(p)
    \/ \E verdict \in Verdicts : Command(p, verdict)

LedgerSpec == LedgerInit /\ [][LedgerNext]_ledgerVars

-----------------------------------------------------------------------------
\* A process about to start a command works under a run that has not started
\* this action yet, by whichever process and after whichever death, though a
\* plan may be executed by several processes at once (ledger.py, _append
\* verifies on both sides of its write).
NothingStartsTwice ==
  \A p \in Procs : At(p, "command") =>
    <<proc[p].plan.run, proc[p].plan.fingerprint>> \notin started

\* The works that are under way and the results there are, as SingleExecution
\* has them.
Work(asked) == <<asked.run, asked.fingerprint>>

UnderWay ==
  {[work |-> Work(proc[p].plan), by |-> p] : p \in {q \in Procs : At(q, "command")}}

ResultAt(r, i) ==
  [work |-> Work(ledger[r][i].plan), line |-> i, outcome |-> ledger[r][i].outcome]

Recorded ==
  UNION {{ResultAt(r, i) : i \in {j \in DOMAIN ledger[r] : ledger[r][j].kind = "result"}} :
           r \in Runs}

Execution ==
  INSTANCE SingleExecution WITH
    claimed <- UnderWay, begun <- started, answers <- Recorded

\* Processes that share a file and no lock, and die anywhere, carry out each
\* action of a run at most once and record one result of it (runner.py,
\* execute; ledger.py, _append).
ActionsRunOnce == Execution!Spec
=============================================================================
