------------------------------ MODULE Contracts ------------------------------
(***************************************************************************)
(* B3, the deterministic contract check of one enriched surface            *)
(* (semantic/contracts), with its only call to the model: three scoped     *)
(* yes/no samples on a sink that no structure clears.  Next to it the      *)
(* weak-crypto check of the same surface (semantic/crypto).                *)
(*                                                                         *)
(* The text of a surface is abstracted to what the two checks ask of it:   *)
(* which CWEs have an anchor among the sink nodes, which in the code.      *)
(*                                                                         *)
(* A surface is a record                                                   *)
(*   kind       what Targeting selected it for                             *)
(*   sinks      CWEs with an anchor in a sink node of a taint path         *)
(*   text       CWEs with an anchor in the code, strings stripped          *)
(*   path       the taint analysis gave it a call path                     *)
(*   sanitized  every taint path to it passes a sanitizer                  *)
(*   body       "none", "stub" (below 50 characters) or "full"             *)
(*   taint      it has sink nodes at all                                   *)
(*   weak       weaknesses the crypto patterns find in code and sinks      *)
(*   secure     it names a safe random generator                           *)
(***************************************************************************)
EXTENDS Naturals, FiniteSets, Sequences

Verdicts == {"inconclusive", "safe", "violation"}

Rank(v) == CASE v = "inconclusive" -> 0 [] v = "safe" -> 1 [] v = "violation" -> 2

\* CWE-862 has no sink signature: the rulebook leaves it to the analysis.
NoSinkModel == {862}
Rulebook == {22, 78, 79, 89, 94, 327, 502, 862, 918}
NoCWE == 0

ApplicableCWEs(kind) ==
  CASE kind = "external_input" -> <<22, 89, 78, 79, 94, 502, 918>>
    [] kind = "auth_boundary"  -> <<862, 89, 78>>
    [] kind = "idor_candidate" -> <<862, 89, 78, 22>>
    [] kind = "dangerous_sink" -> <<327>>
    [] OTHER                   -> <<>>

\* SQL is anchored by sink nodes alone: its method names are common words.
Anchored(s, c) == c \in s.sinks \/ (s.body # "none" /\ c # 89 /\ c \in s.text)

(***************************************************************************)
(* The samples of one escalation: how many answered yes and how many no;   *)
(* the rest failed.                                                        *)
(***************************************************************************)
EscalationSamples == 3
Votes == {v \in [yes : 0..EscalationSamples, no : 0..EscalationSamples] :
            v.yes + v.no <= EscalationSamples}

\* Mutant of Escalate: a tie clears the sink.
EscalateTieClears(s, v) == IF s.body # "none" /\ v.yes >= v.no THEN "safe" ELSE "violation"

Escalate(s, v) == IF s.body # "none" /\ v.yes > v.no THEN "safe" ELSE "violation"

\* The verdict of one applicable CWE, the samples being v.
VerdictFor(s, c, v) ==
  IF c \in NoSinkModel
  THEN IF s.sanitized THEN "safe" ELSE "inconclusive"
  ELSE CASE ~s.path     -> "inconclusive"
         [] s.sanitized -> "safe"
         [] OTHER       -> Escalate(s, v)

Candidate(s, c, v) == [cwe |-> c, verdict |-> VerdictFor(s, c, v), sunk |-> c \in s.sinks \ NoSinkModel]

\* Mutant of Better: the order of the verdicts before it was turned round.
BetterOld(c, best) == c.verdict = "inconclusive" /\ best.verdict # "inconclusive"

\* The test by which a later candidate replaces the best one so far.
Better(c, best) ==
  \/ Rank(c.verdict) > Rank(best.verdict)
  \/ /\ c.verdict = "violation" /\ best.verdict = "violation"
     /\ \/ c.sunk /\ ~best.sunk
        \/ c.sunk = best.sunk /\ c.cwe < best.cwe

\* No CWE has been looked at yet.
NoCandidate == [cwe |-> NoCWE, verdict |-> "none", sunk |-> FALSE]

\* Without an anchor, and unless the CWE has no sink signature, there is nothing to decide.
Considered(s, c) == c \in NoSinkModel \/ Anchored(s, c)

\* One turn of the loop: the CWE is c, the best candidate so far best.
Turn(s, c, v, best) ==
  LET new == Candidate(s, c, v)
  IN  IF Considered(s, c) /\ (best = NoCandidate \/ Better(new, best)) THEN new ELSE best

\* Walks the CWEs of the list; votes gives the samples of each.
Best(s, list, votes) ==
  LET best[n \in 0..Len(list)] ==
        IF n = 0 THEN NoCandidate ELSE Turn(s, list[n], votes[list[n]], best[n - 1])
  IN  best[Len(list)]

Check(s, votes) ==
  LET cwes == ApplicableCWEs(s.kind)
      best == Best(s, cwes, votes)
  IN  IF cwes = <<>> THEN [verdict |-> "inconclusive", cwe |-> NoCWE]
      ELSE IF best = NoCandidate THEN [verdict |-> "inconclusive", cwe |-> Head(cwes)]
      ELSE [verdict |-> best.verdict, cwe |-> IF best.verdict = "safe" THEN NoCWE ELSE best.cwe]

\* The CWEs the model is asked about.
Escalated(s) ==
  LET cwes == ApplicableCWEs(s.kind)
  IN  {c \in {cwes[i] : i \in DOMAIN cwes} \ NoSinkModel :
         Anchored(s, c) /\ s.path /\ ~s.sanitized /\ s.body # "none"}

(***************************************************************************)
(* The crypto check: one finding at most per weakness, a safe generator    *)
(* anywhere in the surface excuses a weak one.                             *)
(***************************************************************************)
Crypto(s) == {c \in {321, 327, 338, 916} :
                c \in s.weak /\ (c = 338 => ~s.secure)}
=============================================================================
