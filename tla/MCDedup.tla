------------------------------ MODULE MCDedup ------------------------------
(* The reports of the three producers at one location.                     *)
EXTENDS Dedup

\* OpenGrep: rule confidence HIGH, MEDIUM or LOW (confidenceFromMetadata).
Pattern(c) ==
  [conf |-> c, label |-> SeverityFromConfidence(c), pinned |-> FALSE, src |-> "PATTERN",
   reason |-> "none", exploitable |-> FALSE, cvss |-> 0]

\* A contract violation B5 did not change (violationToFinding), with a CVE.
Violation ==
  [conf |-> 65, label |-> "MEDIUM", pinned |-> FALSE, src |-> "SEMANTIC",
   reason |-> "none", exploitable |-> FALSE, cvss |-> 98]

\* The same one, suppressed or elevated by B5 (processB5Findings).
SuppressedByB5 ==
  [Violation EXCEPT !.label = "SUPPRESSED", !.pinned = TRUE, !.reason = "safe", !.cvss = 0]
ElevatedByB5 ==
  [Violation EXCEPT !.label = "BLOCK", !.pinned = TRUE, !.conf = 95, !.exploitable = TRUE,
                    !.cvss = 0]

\* LLM verdicts (verdictToFinding): exploitable with a label of its own, and
\* not exploitable.
Exploitable(c) ==
  [conf |-> c, label |-> "HIGH", pinned |-> FALSE, src |-> "SEMANTIC", reason |-> "none",
   exploitable |-> TRUE, cvss |-> 0]
NotExploitable(c) ==
  [conf |-> c, label |-> "LOW", pinned |-> TRUE, src |-> "SEMANTIC", reason |-> "none",
   exploitable |-> FALSE, cvss |-> 0]

MCReports == {Pattern(90), Pattern(65), Pattern(40), Violation, SuppressedByB5, ElevatedByB5,
              Exploitable(70), Exploitable(42), NotExploitable(90), NotExploitable(20)}
ReportsOfOpenGrep == {Pattern(90), Pattern(65)}
=============================================================================
