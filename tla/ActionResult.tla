---------------------------- MODULE ActionResult ----------------------------
(***************************************************************************)
(* What the orchestrator makes of a command that ended (results.py) and of *)
(* what the process adapter reports of it (runner.py).                     *)
(*                                                                         *)
(* Of the text a command prints, a family of commands knows what it takes  *)
(* for a success, what it takes for a failure, and other words that are    *)
(* its own, such as a count; counts themselves, hashes and excerpts are    *)
(* left out.  Exit codes are 0, another one, or none.                      *)
(***************************************************************************)
EXTENDS Naturals

Texts == SUBSET {"success", "failure", "other"}

\* compileall and git diff --check say nothing when all is well.
Quiet     == {"compileall", "git_diff_check"}
Reporting == {"flutter_test", "flutter_analyze", "build"}
Families  == {"pytest", "generic_command"} \union Quiet \union Reporting

Evidence(success, failure, recognized) ==
  [success |-> success, failure |-> failure, recognized |-> recognized]

PytestEvidence(text) ==
  Evidence("success" \in text /\ "failure" \notin text, "failure" \in text, text # {})

QuietEvidence(text) == Evidence("failure" \notin text, "failure" \in text, TRUE)

\* A report may hold both signals.
ReportedEvidence(text) ==
  Evidence("success" \in text, "failure" \in text, text # {})

GenericEvidence(text) == Evidence(FALSE, "failure" \in text, TRUE)

FamilyEvidence(family, text) ==
  CASE family = "pytest"          -> PytestEvidence(text)
    [] family \in Quiet           -> QuietEvidence(text)
    [] family \in Reporting       -> ReportedEvidence(text)
    [] family = "generic_command" -> GenericEvidence(text)

Reports == [family : Families, started : BOOLEAN, timedOut : BOOLEAN,
            exit : {"none", "zero", "other"}, text : Texts]

\* What the adapter reports: a process that could not be started, one that was
\* stopped at its timeout, one that ended.  Of a text that is too long it keeps
\* the beginning.
Raws ==
  {raw \in Reports :
     /\ ~raw.started => ~raw.timedOut /\ raw.text = {}
     /\ (raw.exit = "none") = (~raw.started \/ raw.timedOut)}

\* A process whose exit code and output contradict each other.
Contradicts(raw) ==
  LET evidence == FamilyEvidence(raw.family, raw.text)
  IN \/ raw.exit = "zero" /\ evidence.failure
     \/ raw.exit # "zero" /\ evidence.success /\ ~evidence.failure

FailureClass(raw) ==
  IF ~raw.started THEN "harness"
  ELSE IF raw.timedOut THEN "timeout"
  ELSE IF Contradicts(raw) \/ ~FamilyEvidence(raw.family, raw.text).recognized
  THEN "provenance"
  ELSE IF raw.exit = "zero" THEN "none" ELSE "command"

Succeeds(raw) == FailureClass(raw) = "none" /\ raw.exit = "zero"

\* All that the runner and its caller go by: was the command started, and how
\* did it end?
Outcomes == {"none", "ok", "failed"}

Verdict(raw) ==
  [begun |-> raw.started, outcome |-> IF Succeeds(raw) THEN "ok" ELSE "failed"]

\* The verdicts there are on Raws (VerdictsOfRaws in Orchestrator_proofs).
Verdicts == {[begun |-> FALSE, outcome |-> "failed"], [begun |-> TRUE, outcome |-> "failed"],
             [begun |-> TRUE, outcome |-> "ok"]}
=============================================================================
