------------------------------- MODULE Funnel -------------------------------
(***************************************************************************)
(* The reasoning path of a scan (Pipeline.runReasoning) from the selected  *)
(* surfaces to the findings it sends: B2 enriches, the crypto check and    *)
(* the contract check B3 look at each surface, B4 triages what B3 cannot   *)
(* decide, B5 reviews what is left, one surface at a time, and what B5     *)
(* concludes about a violation of B3 suppresses it, elevates it or leaves  *)
(* it as it was.                                                           *)
(*                                                                         *)
(* Every answer of the model is arbitrary and every request to it may      *)
(* fail.  The review of one surface is the module Investigation.           *)
(***************************************************************************)
EXTENDS Contracts, Investigation

CONSTANTS
  Surfaces, \* surfaces Targeting selects
  Shapes,   \* what the surfaces can look like after enrichment (see Contracts)
  None      \* not checked, not reviewed

ASSUME FunnelAssumption ==
  /\ None \notin Surfaces
  /\ \A f \in Shapes : DOMAIN f = Surfaces

TriageThreshold == 50
SuppressAt      == 75
ElevateAt       == 70

VARIABLES
  phase,   \* "target", "enrich", "crypto", "contracts", "triage", "analyse", "report", "done" or "failed"
  surface, \* what each surface looks like
  b3,      \* the result of the contract check
  votes,   \* the samples behind it, while B3 lasts
  b4,      \* "none", "escalate", "drop" or "stub"
  cur,     \* the surface under review
  queue,   \* surfaces that still wait for their review
  review,  \* what the review of a surface came to
  sent,    \* what was sent on the findings channel, per surface
  crypto   \* crypto findings sent

funnelVars == <<phase, surface, b3, votes, b4, cur, queue, review, sent, crypto>>
vars == <<funnelVars, invVars>>

Findings == [exploitable : BOOLEAN, conf : Nat]
Outcomes == [what : {"analysis", "suppressed", "elevated", "unchanged"},
             severity : {"BLOCK", "HIGH", "MEDIUM", "LOW", "SUPPRESSED", "label"}]

TypeOK ==
  /\ InvTypeOK
  /\ phase \in {"target", "enrich", "crypto", "contracts", "triage", "analyse", "report", "done", "failed"}
  /\ surface \in Shapes
  /\ DOMAIN b3 = Surfaces /\ DOMAIN votes = Surfaces /\ DOMAIN review = Surfaces
  /\ \A s \in Surfaces :
       b3[s] # None => b3[s].verdict \in Verdicts /\ b3[s].cwe \in Rulebook \cup {NoCWE}
  /\ b4 \in [Surfaces -> {"none", "escalate", "drop", "stub"}]
  /\ cur \in Surfaces \cup {None}
  /\ queue \subseteq Surfaces
  /\ \A s \in Surfaces : review[s] \in Findings \cup {None}
  /\ sent \in [Surfaces -> Seq(Outcomes)]
  /\ crypto \subseteq Surfaces \X Nat

Init ==
  /\ InvInit
  /\ phase = "target"
  /\ surface \in Shapes
  /\ b3 = [s \in Surfaces |-> None]
  /\ votes = [s \in Surfaces |-> <<>>]
  /\ b4 = [s \in Surfaces |-> "none"]
  /\ cur = None /\ queue = {}
  /\ review = [s \in Surfaces |-> None]
  /\ sent = [s \in Surfaces |-> <<>>]
  /\ crypto = {}

Goto(p) == phase' = p

\* B1 selects the surfaces; without a CPG, or without a surface, the path ends.
Target ==
  /\ phase = "target"
  /\ Goto("enrich") \/ Goto("done")
  /\ UNCHANGED <<surface, b3, votes, b4, cur, queue, review, sent, crypto, invVars>>

\* B2 enriches them, or fails and fails the path.
Enrich ==
  /\ phase = "enrich"
  /\ Goto("crypto") \/ Goto("failed")
  /\ UNCHANGED <<surface, b3, votes, b4, cur, queue, review, sent, crypto, invVars>>

\* The crypto findings go out at once; a cancelled check is only logged.
CryptoCheckAll ==
  /\ phase = "crypto"
  /\ Goto("contracts")
  /\ \/ crypto' = UNION {{s} \X Crypto(surface[s]) : s \in Surfaces}
     \/ UNCHANGED crypto
  /\ UNCHANGED <<surface, b3, votes, b4, cur, queue, review, sent, invVars>>

\* B3 checks a surface, in a worker of its own.
CheckSurface(s) ==
  /\ phase = "contracts" /\ b3[s] = None
  /\ \E v \in [Escalated(surface[s]) -> Votes] :
       LET all == [c \in Rulebook |-> IF c \in DOMAIN v THEN v[c] ELSE [yes |-> 0, no |-> 0]]
       IN  /\ b3' = [b3 EXCEPT ![s] = Check(surface[s], all)]
           /\ votes' = [votes EXCEPT ![s] = v]
  /\ UNCHANGED <<phase, surface, b4, cur, queue, review, sent, crypto, invVars>>

CheckAllEnds ==
  /\ phase = "contracts" /\ \A s \in Surfaces : b3[s] # None
  /\ Goto("triage")
  /\ votes' = [s \in Surfaces |-> <<>>]
  /\ UNCHANGED <<surface, b3, b4, cur, queue, review, sent, crypto, invVars>>

Is(v) == {s \in Surfaces : b3[s] # None /\ b3[s].verdict = v}
Violations == Is("violation")
Inconclusives == Is("inconclusive")

(***************************************************************************)
(* B4 scores an inconclusive surface.  A stub is dropped unasked, a failed *)
(* request scores the threshold itself and so does an answer without a     *)
(* number in it.                                                           *)
(***************************************************************************)
Disposition(score) == IF score >= TriageThreshold THEN "escalate" ELSE "drop"

Triage(s) ==
  /\ phase = "triage" /\ s \in Inconclusives /\ b4[s] = "none"
  /\ IF surface[s].body # "full"
     THEN b4' = [b4 EXCEPT ![s] = "stub"]
     ELSE \E score \in Confidences \cup {TriageThreshold} : b4' = [b4 EXCEPT ![s] = Disposition(score)]
  /\ UNCHANGED <<phase, surface, b3, votes, cur, queue, review, sent, crypto, invVars>>

\* Evidence of a tainted sink, or at least a CWE the contract check named.
TaintGate(s) == surface[s].taint \/ b3[s].cwe # NoCWE

Escalations == {s \in Inconclusives : b4[s] = "escalate" /\ TaintGate(s)}

TriageEnds ==
  /\ phase = "triage" /\ \A s \in Inconclusives : b4[s] # "none"
  /\ Goto("analyse")
  /\ queue' = Violations \cup Escalations
  /\ UNCHANGED <<surface, b3, votes, b4, cur, review, sent, crypto, invVars>>

\* B5 takes the next surface of a fixed order.
Begin(s) ==
  /\ phase = "analyse" /\ cur = None /\ queue # {}
  /\ s = CHOOSE x \in queue : TRUE
  /\ cur' = s /\ queue' = queue \ {s}
  /\ Open(b3[s].cwe \in Rulebook)
  /\ UNCHANGED <<phase, surface, b3, votes, b4, review, sent, crypto>>

Work ==
  /\ cur # None
  /\ Review
  /\ UNCHANGED funnelVars

\* The finding of the review; a surface that was lost has none.
Finding ==
  [exploitable |-> verdict.exploitable,
   conf |-> IF verdict.conf = 0 THEN 50 ELSE verdict.conf]

End ==
  /\ cur # None /\ stage \in {"done", "lost"}
  /\ review' = IF stage = "done" THEN [review EXCEPT ![cur] = Finding] ELSE review
  /\ cur' = None
  /\ stage' = "idle" /\ round' = 0
  /\ gated' = FALSE /\ investigated' = FALSE /\ calls' = 0 /\ used' = {}
  /\ chased' = FALSE /\ nudged' = FALSE
  /\ verdict' = Empty /\ informed' = FALSE /\ vetoed' = FALSE
  /\ UNCHANGED <<phase, surface, b3, votes, b4, queue, sent, crypto>>

ScanEnds ==
  /\ phase = "analyse" /\ cur = None /\ queue = {}
  /\ Goto("report")
  /\ UNCHANGED <<surface, b3, votes, b4, cur, queue, review, sent, crypto, invVars>>

SeverityFromConfidence(c) ==
  CASE c >= 92 -> "BLOCK" [] c >= 75 -> "HIGH" [] c >= 60 -> "MEDIUM"
    [] c >= 30 -> "LOW" [] OTHER -> "SUPPRESSED"

Suppresses(f) == ~f.exploitable /\ f.conf >= SuppressAt
Elevates(f)   == f.exploitable /\ f.conf >= ElevateAt

\* Mutant of Handled: a surface counts as handled once it has been reviewed.
HandledIfReviewed(s) == review[s] # None

(***************************************************************************)
(* What a review makes of a violation.  The CWE of a review is the one     *)
(* the contract check named, so it never differs from the violation's.     *)
(***************************************************************************)
Handled(s) == review[s] # None /\ (Suppresses(review[s]) \/ Elevates(review[s]))

ProcessB5(s) ==
  LET f == review[s]
  IN  IF f = None THEN <<>>
      ELSE CASE s \notin Violations -> <<[what |-> "analysis",
                                          severity |-> IF f.exploitable THEN "label" ELSE "LOW"]>>
             [] s \in Violations /\ Suppresses(f) ->
                  <<[what |-> "suppressed", severity |-> "SUPPRESSED"]>>
             [] s \in Violations /\ Elevates(f) ->
                  <<[what |-> "elevated", severity |-> SeverityFromConfidence(f.conf)]>>
             [] OTHER -> <<>>

NoChange(s) ==
  IF s \in Violations /\ ~Handled(s)
  THEN <<[what |-> "unchanged", severity |-> "MEDIUM"]>>
  ELSE <<>>

\* The results of B5 go out, then every violation it did not handle.
Report ==
  /\ phase = "report"
  /\ sent' = [s \in Surfaces |-> ProcessB5(s) \o NoChange(s)]
  /\ Goto("done")
  /\ UNCHANGED <<surface, b3, votes, b4, cur, queue, review, crypto, invVars>>

Terminated == phase \in {"done", "failed"} /\ UNCHANGED vars

Next ==
  \/ Target \/ Enrich \/ CryptoCheckAll \/ CheckAllEnds \/ TriageEnds
  \/ \E s \in Surfaces : CheckSurface(s) \/ Triage(s) \/ Begin(s)
  \/ Work \/ End \/ ScanEnds \/ Report
  \/ Terminated

Spec == Init /\ [][Next]_vars

(***************************************************************************)
(* One goroutine runs the path and every request to the model has a        *)
(* deadline, so a step that can be taken is taken.                         *)
(***************************************************************************)
FairSpec == Spec /\ WF_vars(Next)

-----------------------------------------------------------------------------
(* Properties                                                              *)

\* The review of a violation has come to a conclusion that changes it.
Reviewed == cur # None /\ stage = "done" /\ cur \in Violations
Decides  == Reviewed /\ (Suppresses(Finding) \/ Elevates(Finding))

(***************************************************************************)
(* A claim nobody investigated leaves a violation as it was, whichever way *)
(* it goes and however sure the model is (analysis.go:274-303).            *)
(***************************************************************************)
UninvestigatedNeverDecides == Decides => investigated

(***************************************************************************)
(* A review makes a violation BLOCK only when two names of tools were      *)
(* called and the second opinion did not object; and an objection never    *)
(* turns a claim of exploitability into a suppression (analysis.go:320-366,*)
(* reasoning.go:44-50).                                                    *)
(***************************************************************************)
BlockNeedsTwoAngles ==
  /\ Reviewed /\ Elevates(Finding) /\ SeverityFromConfidence(Finding.conf) = "BLOCK"
       => Cardinality(used) >= 2 /\ ~vetoed
  /\ Reviewed /\ Suppresses(Finding) => ~vetoed

(***************************************************************************)
(* When the path ends well, every violation of B3 has been sent exactly    *)
(* once, whatever failed on the way, and nothing B3 proved safe was sent   *)
(* (reasoning.go:446-467).                                                 *)
(***************************************************************************)
EveryViolationReportedOnce ==
  phase = "done" =>
    \A s \in Surfaces : /\ s \in Violations => Len(sent[s]) = 1
                        /\ s \in Is("safe") => sent[s] = <<>>

(***************************************************************************)
(* A surface B3 drops as safe has, for some CWE, a sanitizer on every path *)
(* or a majority of the samples for it: a failed request never clears it,  *)
(* and no CWE that was found violated is hidden by another one that is     *)
(* safe or undecided (contracts/check.go:52-66, 404-467).                  *)
(***************************************************************************)
SafeNeedsProof ==
  phase = "contracts" => \A s \in Surfaces : b3[s] # None =>
    LET convicted == {c \in Escalated(surface[s]) : votes[s][c].yes <= votes[s][c].no}
        cleared   == Escalated(surface[s]) \ convicted
    IN  /\ b3[s].verdict = "safe" => surface[s].sanitized \/ cleared # {}
        /\ convicted # {} => b3[s].verdict = "violation" /\ b3[s].cwe \in convicted

(***************************************************************************)
(* The path ends, whatever the model answers and whatever fails: no        *)
(* sequence of nudges goes on for ever (analysis.go:501-686).              *)
(***************************************************************************)
ReasoningEnds == <>(phase \in {"done", "failed"})

(***************************************************************************)
(* What decides about a violation rests on what a tool returned, as        *)
(* analysis.go:301-303 says an uninvestigated claim never does.            *)
(***************************************************************************)
DecidedOnEvidence == Decides => informed
=============================================================================
