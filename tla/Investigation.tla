---------------------------- MODULE Investigation ----------------------------
(***************************************************************************)
(* B5, the review of one surface by the LLM (analysis.Scanner.scanOne and  *)
(* runToolLoop): rounds in which the model calls graph tools or answers,   *)
(* nudges that refuse an answer, a final round without tools, a retry of   *)
(* an empty answer, the gates that lower a verdict nobody checked and the  *)
(* second opinion on a confident one.                                      *)
(*                                                                         *)
(* A verdict is [exploitable, conf, hedged]; confidences are percentages.  *)
(* What the model answers is arbitrary, and so is whether a call to it or  *)
(* to a tool fails.                                                        *)
(***************************************************************************)
EXTENDS Naturals, FiniteSets

CONSTANTS
  MaxToolCalls, \* rounds of the tool loop
  Tools,        \* the tools offered to the model
  Bogus,        \* a name the model makes up
  Confidences   \* percentages a verdict can carry

ASSUME InvestigationAssumption ==
  /\ MaxToolCalls \in Nat \ {0}
  /\ Bogus \notin Tools /\ IsFiniteSet(Tools)
  /\ Confidences \subseteq Nat

UninvestigatedCap == 50
DualToolThreshold == 85
ConsistencyFloor  == 60

Min2(a, b) == IF a < b THEN a ELSE b

\* Hedging words are looked for in claims of exploitability alone.
Verdict == {v \in [exploitable : BOOLEAN, conf : Confidences, hedged : BOOLEAN] :
              v.hedged => v.exploitable}
Empty == [exploitable |-> FALSE, conf |-> 0, hedged |-> FALSE]

VARIABLES
  stage,        \* "idle", "loop", "final", "retry", "judge", "probe", "done" or "lost"
  round,        \* rounds of the tool loop used up
  gated,        \* the CWE of the surface demands an investigation
  investigated, \* the model has called a tool
  calls,        \* tool calls so far, counted up to two
  used,         \* names of the tools called
  chased,       \* the nudge for a second hop was spent
  nudged,       \* the nudge for a second kind of tool was spent
  verdict,      \* the verdict as it stands
  informed,     \* history: the answering conversation holds the result of a tool
  vetoed        \* history: the second opinion said no

invVars == <<stage, round, gated, investigated, calls, used, chased, nudged,
             verdict, informed, vetoed>>

InvTypeOK ==
  /\ stage \in {"idle", "loop", "final", "retry", "judge", "probe", "done", "lost"}
  /\ round \in 0..MaxToolCalls
  /\ gated \in BOOLEAN /\ investigated \in BOOLEAN
  /\ calls \in 0..2
  /\ used \subseteq Tools \cup {Bogus}
  /\ chased \in BOOLEAN /\ nudged \in BOOLEAN
  /\ verdict \in [exploitable : BOOLEAN, conf : Nat, hedged : BOOLEAN]
  /\ informed \in BOOLEAN
  /\ vetoed \in BOOLEAN

InvInit ==
  /\ stage = "idle" /\ round = 0
  /\ gated = FALSE /\ investigated = FALSE /\ calls = 0 /\ used = {}
  /\ chased = FALSE /\ nudged = FALSE
  /\ verdict = Empty /\ informed = FALSE /\ vetoed = FALSE

\* scanOne begins with a surface whose CWE demands an investigation or not.
Open(g) ==
  /\ stage = "idle"
  /\ stage' = "loop" /\ round' = 0
  /\ gated' = g /\ investigated' = FALSE /\ calls' = 0 /\ used' = {}
  /\ chased' = FALSE /\ nudged' = FALSE
  /\ verdict' = Empty /\ informed' = FALSE /\ vetoed' = FALSE

\* Mutant of NextRound: the loop starts over instead of asking for an answer.
NextRoundWraps ==
  /\ round' = (round + 1) % MaxToolCalls
  /\ stage' = "loop"

NextRound ==
  /\ round' = round + 1
  /\ stage' = IF round' = MaxToolCalls THEN "final" ELSE "loop"

\* A request fails, or the deadline of the surface has passed: it is dropped.
AskFails ==
  /\ stage \in {"loop", "final"}
  /\ stage' = "lost"
  /\ UNCHANGED <<round, gated, investigated, calls, used, chased, nudged, verdict, informed, vetoed>>

\* A tool on offer may return nodes of the graph; any other name is an error text.
CanReturn(name) == name \in Tools

(***************************************************************************)
(* The model calls tools, at most two here.  A made-up name and a failed    *)
(* query return an error text, and when all of them do answered is false;   *)
(* every name counts as used all the same.                                  *)
(***************************************************************************)
CallTools(names, n, answered) ==
  /\ stage = "loop"
  /\ names # {} /\ Cardinality(names) <= n
  /\ answered => \E t \in names : CanReturn(t)
  /\ NextRound
  /\ investigated' = TRUE
  /\ calls' = Min2(2, calls + n)
  /\ used' = used \cup names
  /\ informed' = (informed \/ answered)
  /\ UNCHANGED <<gated, chased, nudged, verdict, vetoed>>

\* An answer before any tool call is refused, on every round.
MustInvestigate == gated /\ ~investigated
\* An exploitable verdict after a single call is refused once.
MustChase(v) == gated /\ investigated /\ calls < 2 /\ ~chased /\ v.exploitable
\* A confident one that rests on one kind of tool is refused once.
MustDiversify(v) ==
  /\ gated /\ investigated /\ ~nudged /\ Cardinality(used) < 2
  /\ v.exploitable /\ v.conf >= DualToolThreshold

\* An answer that is refused costs a round; the model is told why.
Refuse(v) ==
  /\ stage = "loop"
  /\ NextRound
  /\ \/ MustInvestigate /\ UNCHANGED <<chased, nudged>>
     \/ ~MustInvestigate /\ MustChase(v) /\ chased' = TRUE /\ UNCHANGED nudged
     \/ ~MustInvestigate /\ ~MustChase(v) /\ MustDiversify(v) /\ nudged' = TRUE /\ UNCHANGED chased
  /\ UNCHANGED <<gated, investigated, calls, used, verdict, informed, vetoed>>

Accepted(v) == ~MustInvestigate /\ ~MustChase(v) /\ ~MustDiversify(v)

\* An answer that stands, in the loop or in the final round without tools.
Answer(v) ==
  /\ \/ stage = "loop" /\ Accepted(v)
     \/ stage = "final"
  /\ verdict' = v /\ stage' = "judge"
  /\ UNCHANGED <<round, gated, investigated, calls, used, chased, nudged, informed, vetoed>>

\* The accepted answer is empty: context overflow or truncated output.
AnswerEmpty ==
  /\ \/ stage = "loop" /\ Accepted(Empty)
     \/ stage = "final"
  /\ stage' = "retry"
  /\ UNCHANGED <<round, gated, investigated, calls, used, chased, nudged, verdict, informed, vetoed>>

(***************************************************************************)
(* One retry of the bare prompt: no tools, none of the conversation.  What *)
(* the loop counted is kept.                                               *)
(***************************************************************************)
Retry(v) ==
  /\ stage = "retry"
  /\ verdict' = v /\ stage' = "judge" /\ informed' = FALSE
  /\ UNCHANGED <<round, gated, investigated, calls, used, chased, nudged, vetoed>>

RetryFails ==
  /\ stage = "retry"
  /\ stage' = "lost"
  /\ UNCHANGED <<round, gated, investigated, calls, used, chased, nudged, verdict, informed, vetoed>>

\* Mutants: the gate of one direction only, as it first was; no gate on the angle.
UninvestigatedOneWay(v) == gated /\ ~investigated /\ v.exploitable
SingleAngleNever(v) == FALSE

\* The gates on a verdict: nothing called, one kind of tool, a hedged claim.
Uninvestigated(v) == gated /\ ~investigated
SingleAngle(v) ==
  gated /\ investigated /\ Cardinality(used) < 2 /\ v.exploitable /\ v.conf >= DualToolThreshold
Hedges(v) == v.exploitable /\ v.hedged

Judged(v) ==
  IF Uninvestigated(v) \/ SingleAngle(v) \/ Hedges(v)
  THEN [v EXCEPT !.conf = Min2(@, UninvestigatedCap)]
  ELSE v

NeedsProbe(v) == v.exploitable /\ v.conf >= DualToolThreshold

Judge ==
  /\ stage = "judge"
  /\ verdict' = Judged(verdict)
  /\ stage' = IF NeedsProbe(Judged(verdict)) THEN "probe" ELSE "done"
  /\ UNCHANGED <<round, gated, investigated, calls, used, chased, nudged, informed, vetoed>>

\* A second opinion that says no takes thirty points, and below the floor the claim.
Lowered(v) ==
  LET c == IF v.conf < 30 THEN 0 ELSE v.conf - 30
  IN  [v EXCEPT !.conf = c, !.exploitable = c >= ConsistencyFloor]

Probe(no) ==
  /\ stage = "probe"
  /\ verdict' = IF no THEN Lowered(verdict) ELSE verdict
  /\ vetoed' = no
  /\ stage' = "done"
  /\ UNCHANGED <<round, gated, investigated, calls, used, chased, nudged, informed>>

Review ==
  \/ AskFails \/ AnswerEmpty \/ RetryFails \/ Judge
  \/ \E names \in SUBSET (Tools \cup {Bogus}), n \in 1..2 :
       \E answered \in BOOLEAN : CallTools(names, n, answered)
  \/ \E v \in Verdict : Refuse(v) \/ Answer(v) \/ Retry(v)
  \/ \E no \in BOOLEAN : Probe(no)
=============================================================================
