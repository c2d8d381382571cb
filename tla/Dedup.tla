------------------------------- MODULE Dedup -------------------------------
(***************************************************************************)
(* The deduplication and scoring layer (dedup.Layer.process) and the       *)
(* findings row it leads to, for one finding_id: one CWE at one line of    *)
(* one file.  In every scan, detectors report the location any number of   *)
(* times, in any order; dedup then drops the reports history knows, merges *)
(* the others, scores the survivor, applies the suppression rules, and the *)
(* row is upserted.  Gates 3 and 4 of the cascade are stubs.               *)
(*                                                                         *)
(* Confidences are percentages.  A report is a record: conf, label,        *)
(* pinned (SeverityPinned), src (SourcePath), reason (SuppressReason),     *)
(* exploitable, and cvss in percent (0: no CVE).                           *)
(***************************************************************************)
EXTENDS Naturals, Sequences, Functions

CONSTANTS
  Reports,     \* the reports detectors can make of this location
  MaxReports,  \* bound: reports per scan
  Automatable, \* the CWE is in cweAutomatable
  AutoReason,  \* reason of AutoSuppress for the path, or "none"
  AckReason,   \* reason of a sidecar rule that matches the location
  None         \* no row

ConfBlock  == 92
ConfHigh   == 75
ConfMedium == 60
ConfLow    == 30
BoostCrossPath       == 15
BoostSSVCActive      == 10
BoostSSVCAutomatable == 5
FloorPatternPath     == 60

Severities == <<"SUPPRESSED", "LOW", "MEDIUM", "HIGH", "BLOCK">>
Rank(sev) == CHOOSE i \in DOMAIN Severities : Severities[i] = sev

Labels == {Severities[i] : i \in DOMAIN Severities}

SeverityFromConfidence(c) ==
  CASE c >= ConfBlock  -> "BLOCK"
    [] c >= ConfHigh /\ c < ConfBlock -> "HIGH"
    [] c >= ConfMedium /\ c < ConfHigh -> "MEDIUM"
    [] c >= ConfLow /\ c < ConfMedium -> "LOW"
    [] c < ConfLow -> "SUPPRESSED"

\* A report, and what merging makes of some.
MergedReports ==
  [conf : 0..100, label : Labels, pinned : BOOLEAN, src : {"PATTERN", "SEMANTIC", "BOTH"},
   reason : STRING, exploitable : BOOLEAN, cvss : 0..100]

(***************************************************************************)
(* What the producers see to: only the reasoning path pins a severity, to  *)
(* LOW or to one that the confidence backs, and only it finds anything     *)
(* exploitable; what it reports unpinned and not exploitable in a class    *)
(* that can be automated is a contract violation, filed at 65 %.           *)
(***************************************************************************)
ASSUME DedupAssumption ==
  /\ Reports \subseteq MergedReports
  /\ \A r \in Reports :
       /\ r.src # "BOTH"
       /\ r.pinned => \/ r.label = "LOW"
                      \/ Rank(r.label) <= Rank(SeverityFromConfidence(r.conf))
       /\ r.src = "PATTERN" => ~r.exploitable
       /\ r.src = "SEMANTIC" /\ Automatable => r.pinned \/ r.exploitable \/ r.conf = 65
  /\ MaxReports \in Nat
  /\ Automatable \in BOOLEAN
  /\ {AutoReason, AckReason} \subseteq STRING /\ AckReason # "none"

VARIABLES
  arrived, \* what the detectors of the current scan reported so far
  active,  \* KEV or EPSS call the CVE actively exploited, as of this scan
  acked,   \* the sidecar holds the matching rule, as of this scan
  row,     \* the findings row: severity, confidence, reason; or None
  due      \* history: what the last scan's reports amount to by themselves

vars == <<arrived, active, acked, row, due>>

Rows == [sev : Labels, conf : 0..100,
         reason : {"none", AckReason, AutoReason} \cup {r.reason : r \in Reports}]

TypeOK ==
  /\ arrived \in Seq(Reports) /\ Len(arrived) <= MaxReports
  /\ active \in BOOLEAN
  /\ acked \in BOOLEAN
  /\ row \in Rows \cup {None}
  /\ due \in Rows \cup {None}

-----------------------------------------------------------------------------
(* process, step by step.                                                  *)

\* Mutant: any row at the location makes the report old.
UnchangedLocation(r) == row # None

\* dedupHistorical: the report says what the persisted row says.
Unchanged(r) ==
  /\ row # None
  /\ row.sev = r.label
  /\ row.conf = r.conf
  /\ row.reason = r.reason

\* Mutant: the later report wins.
MergeLatest(a, b) ==
  [b EXCEPT !.src = IF a.src # b.src \/ "BOTH" \in {a.src, b.src} THEN "BOTH" ELSE @,
            !.label = IF a.pinned THEN a.label ELSE @,
            !.pinned = a.pinned \/ b.pinned]

\* Mutant: the earlier report wins.
MergeEarliest(a, b) ==
  [a EXCEPT !.src = IF a.src # b.src \/ "BOTH" \in {a.src, b.src} THEN "BOTH" ELSE @,
            !.label = IF b.pinned THEN b.label ELSE @,
            !.pinned = a.pinned \/ b.pinned]

\* Mutant: the merged report keeps the winner's label and the lower confidence.
MergeCautious(a, b) ==
  LET winner == IF b.conf > a.conf THEN b ELSE a
      loser  == IF b.conf > a.conf THEN a ELSE b
  IN [winner EXCEPT !.conf = loser.conf,
                    !.src = IF a.src # b.src \/ "BOTH" \in {a.src, b.src} THEN "BOTH" ELSE @,
                    !.label = IF loser.pinned THEN loser.label ELSE @,
                    !.pinned = winner.pinned \/ loser.pinned]

\* Gate 1: the more confident of two reports (the earlier on a tie) absorbs
\* the other; the path becomes BOTH across paths, a pinned severity stays.
Merge(a, b) ==
  LET winner == IF b.conf > a.conf THEN b ELSE a
      loser  == IF b.conf > a.conf THEN a ELSE b
      crossPath == a.src # b.src \/ "BOTH" \in {a.src, b.src}
  IN [winner EXCEPT !.src = IF crossPath THEN "BOTH" ELSE @,
                    !.label = IF loser.pinned THEN loser.label ELSE @,
                    !.pinned = winner.pinned \/ loser.pinned]

MergeAll(s) ==
  LET merged[n \in 1..Len(s)] == IF n = 1 THEN s[1] ELSE Merge(merged[n - 1], s[n])
  IN merged[Len(s)]

Least(x, y) == IF x < y THEN x ELSE y
Most(x, y) == IF x < y THEN y ELSE x
\* Confidence after a boost, capped at 100 %.
Boosted(c, cond, boost) == IF cond THEN Least(c + boost, 100) ELSE c

\* applyBoostAndScore, with the SSVC dimensions DeriveSSVC finds.
Score(f, act) ==
  LET eligible == f.exploitable \/ f.src = "BOTH"
      c1 == Boosted(f.conf, f.src = "BOTH" /\ f.conf < ConfBlock, BoostCrossPath)
      c2 == Most(c1, f.cvss)
      c3 == Boosted(c2, eligible /\ f.cvss > 0 /\ act, BoostSSVCActive)
      c4 == Boosted(c3, eligible /\ Automatable, BoostSSVCAutomatable)
      c5 == IF f.src = "PATTERN" THEN Most(c4, FloorPatternPath) ELSE c4
  IN [sev |-> IF f.pinned THEN f.label ELSE SeverityFromConfidence(c5),
      conf |-> c5, reason |-> f.reason]

\* AutoSuppress by path, then the sidecar for what is not suppressed yet.
Suppress(v, ack) ==
  CASE AutoReason # "none" -> [v EXCEPT !.sev = "SUPPRESSED", !.reason = AutoReason]
    [] AutoReason = "none" /\ ack /\ v.sev # "SUPPRESSED" ->
         [v EXCEPT !.sev = "SUPPRESSED", !.reason = AckReason]
    [] AutoReason = "none" /\ (~ack \/ v.sev = "SUPPRESSED") -> v

Verdict(s, act, ack) == Suppress(Score(MergeAll(s), act), ack)

\* What process makes of the reports s, the persisted row given.
Passed(survivors, r) == IF Unchanged(r) THEN survivors ELSE Append(survivors, r)
Survivors(s) ==
  LET survivors[n \in 0..Len(s)] == IF n = 0 THEN <<>> ELSE Passed(survivors[n - 1], s[n])
  IN survivors[Len(s)]

-----------------------------------------------------------------------------
Init ==
  /\ arrived = <<>>
  /\ active \in BOOLEAN
  /\ acked \in BOOLEAN
  /\ row = None
  /\ due = None

\* A detection path reports the location.
Report(r) ==
  /\ Len(arrived) < MaxReports
  /\ arrived' = Append(arrived, r)
  /\ UNCHANGED <<active, acked, row, due>>

\* Dedup runs and the survivor, if any, is persisted; without the snapshots
\* (the query failed) every report survives.  The next scan may meet another
\* catalogue of exploited CVEs and another sidecar.
EndScan ==
  /\ \E survivors \in {Survivors(arrived), arrived} :
       row' = IF survivors = <<>> THEN row ELSE Verdict(survivors, active, acked)
  /\ due' = IF arrived = <<>> THEN due ELSE Verdict(arrived, active, acked)
  /\ arrived' = <<>>
  /\ active' \in BOOLEAN
  /\ acked' \in BOOLEAN

Next == EndScan \/ \E r \in Reports : Report(r)

Spec == Init /\ [][Next]_vars

-----------------------------------------------------------------------------
(* Properties.                                                             *)

AtMostOnePinned(s) ==
  \A i, j \in DOMAIN s : s[i].pinned /\ s[j].pinned => i = j
\* Equally confident reports agree on what the merge takes from the winner alone
\* (the path, the pinned label and the pin itself are combined from both).
TiesAgree(s) ==
  \A i, j \in DOMAIN s : s[i].conf = s[j].conf =>
    [s[i] EXCEPT !.src = s[j].src, !.label = s[j].label, !.pinned = s[j].pinned] = s[j]
Reordered(s) == {[i \in DOMAIN s |-> s[p[i]]] : p \in Surjection(DOMAIN s, DOMAIN s)}

(* The verdict does not depend on the order in which concurrent detection   *)
(* paths deliver their reports, as long as at most one has a pinned         *)
(* severity and ties in confidence are between like reports.                *)
OrderIrrelevant ==
  arrived # <<>> /\ AtMostOnePinned(arrived) /\ TiesAgree(arrived) =>
    \A s \in Reordered(arrived) :
      Verdict(s, active, acked) = Verdict(arrived, active, acked)

(* A second opinion never lowers a verdict that is derived from confidence: *)
(* the merged label is at least that of each report alone.  Not so when all *)
(* reports are below 45 % (a PATTERN finding alone is lifted to 60 %, the   *)
(* merged one is not), or when the CVSS score belongs to a less confident   *)
(* report (it is dropped in the merge).                                     *)
CorroborationNeverLowers ==
  (/\ arrived # <<>>
   /\ \A i \in DOMAIN arrived : ~arrived[i].pinned /\ arrived[i].cvss = 0
   /\ \E i \in DOMAIN arrived : arrived[i].conf + BoostCrossPath >= FloorPatternPath
   /\ TiesAgree(arrived))
  => \A i \in DOMAIN arrived :
       Rank(Verdict(<<arrived[i]>>, active, acked).sev)
         <= Rank(Verdict(arrived, active, acked).sev)

(* No row claims more than its confidence supports, however reports were    *)
(* merged, pinned or boosted: pinned labels come with a confidence that     *)
(* backs them, and merging keeps the higher one.  Only LOW may be more: a   *)
(* verdict of not exploitable is pinned to it whatever its confidence       *)
(* (verdict.go:170-188), which may be one of SUPPRESSED.                    *)
NeverOverstated ==
  row # None => row.sev = "LOW" \/ Rank(row.sev) <= Rank(SeverityFromConfidence(row.conf))

(* A scan in which every report differs from the persisted row leaves its   *)
(* own verdict in the row: history suppresses no changed verdict.           *)
ChangedVerdictLands ==
  [][/\ arrived # <<>> /\ arrived' = <<>>
     /\ \A i \in DOMAIN arrived :
          row # [sev |-> arrived[i].label, conf |-> arrived[i].conf, reason |-> arrived[i].reason]
     => row' = Verdict(arrived, active, acked)]_vars

(* What dedup_test.go:142-158 and gates.go:49-51 say of duplicates (the     *)
(* merged finding has the highest confidence) for a scan over a populated   *)
(* database: the row never ends up below the reports of the last scan.      *)
RescanKeepsVerdict ==
  arrived = <<>> /\ due # None => Rank(row.sev) >= Rank(due.sev)
=============================================================================
