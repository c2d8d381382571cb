---------------------------- MODULE FunnelProofs ----------------------------
(***************************************************************************)
(* Proofs about Funnel, for any surfaces, tools, confidences and any       *)
(* answers of the model: what a review needs before it decides about a     *)
(* violation, that a violation is reported once, and what a surface needs  *)
(* before the contract check drops it.                                     *)
(***************************************************************************)
EXTENDS Funnel, FiniteSetTheorems, WellFoundedInduction, TLAPS

-----------------------------------------------------------------------------
(* Induction over the natural numbers, from the order on them being well   *)
(* founded.                                                                 *)

Below == {p \in Nat \X Nat : p[1] < p[2]}

(* A set of numbers with 0 and the successor of each of its members is Nat. *)
LEMMA NatSetInduction ==
  ASSUME NEW S, 0 \in S, \A n \in Nat : n \in S => n + 1 \in S
  PROVE  Nat \subseteq S
<1>1. IsWellFoundedOn(Below, Nat)
  BY NatLessThanWellFounded DEF OpToRel, Below
<1> SUFFICES ASSUME Nat \ S # {} PROVE FALSE
  OBVIOUS
<1>2. PICK x \in Nat \ S : \A y \in Nat \ S : <<y, x>> \notin Below
  BY <1>1, WFMin
<1>3. x # 0 /\ x - 1 \in Nat /\ <<x - 1, x>> \in Below
  BY DEF Below
<1>4. x - 1 \in S
  BY <1>2, <1>3
<1> QED
  BY <1>3, <1>4

-----------------------------------------------------------------------------
(* The contract check.                                                     *)

(* f tells the best candidate after each of the first n turns of the loop.  *)
IsLoop(f, s, list, samples, n) ==
  f = [i \in 0..n |-> IF i = 0 THEN NoCandidate
                      ELSE Turn(s, list[i], samples[list[i]], f[i - 1])]

LEMMA LoopExists ==
  ASSUME NEW s, NEW list, NEW samples, NEW n \in Nat
  PROVE  \E f : IsLoop(f, s, list, samples, n)
<1> DEFINE S == {m \in Nat : \E f : IsLoop(f, s, list, samples, m)}
<1>1. 0 \in S
  <2>1. IsLoop([i \in 0..0 |-> NoCandidate], s, list, samples, 0)
    BY DEF IsLoop
  <2> QED
    BY <2>1
<1>2. ASSUME NEW m \in Nat, m \in S
      PROVE  m + 1 \in S
  <2>1. PICK f : IsLoop(f, s, list, samples, m)
    BY <1>2
  <2> DEFINE g == [i \in 0..(m + 1) |->
                     IF i <= m THEN f[i] ELSE Turn(s, list[i], samples[list[i]], f[m])]
  <2>2. \A i \in 0..m : f[i] = IF i = 0 THEN NoCandidate
                               ELSE Turn(s, list[i], samples[list[i]], f[i - 1])
    BY <2>1 DEF IsLoop
  <2>3. \A i \in 0..(m + 1) : g[i] = IF i = 0 THEN NoCandidate
                                     ELSE Turn(s, list[i], samples[list[i]], g[i - 1])
    BY <2>2
  <2>4. g = [i \in 0..(m + 1) |-> g[i]]
    OBVIOUS
  <2> HIDE DEF g
  <2>5. g = [i \in 0..(m + 1) |-> IF i = 0 THEN NoCandidate
                                  ELSE Turn(s, list[i], samples[list[i]], g[i - 1])]
    BY <2>3, <2>4
  <2> QED
    BY <2>5 DEF IsLoop
<1> HIDE DEF S
<1>3. n \in S
  BY <1>1, <1>2, NatSetInduction
<1> QED
  BY <1>3 DEF S

(* The verdicts and their order; a candidate is told from none.             *)
LEMMA CandidatesAreRanked ==
  ASSUME NEW s, NEW c, NEW v
  PROVE  LET new == Candidate(s, c, v) IN
           /\ new.verdict = VerdictFor(s, c, v) /\ new.cwe = c
           /\ new.verdict \in Verdicts /\ Rank(new.verdict) \in 0..2
           /\ new # NoCandidate
<1>1. VerdictFor(s, c, v) \in Verdicts
  BY DEF VerdictFor, Escalate, Verdicts
<1>2. \A w \in Verdicts : Rank(w) \in 0..2
  BY DEF Verdicts, Rank
<1> QED
  BY <1>1, <1>2 DEF Candidate, NoCandidate, Verdicts

(* One turn keeps a candidate that is none and at least as good as the old  *)
(* one and the one of the turn.                                             *)
LEMMA TurnKeepsBest ==
  ASSUME NEW s, NEW c, NEW v, NEW best,
         best = NoCandidate \/ (best # NoCandidate /\ best.verdict \in Verdicts)
  PROVE  LET new == Candidate(s, c, v)
             turn == Turn(s, c, v, best)
         IN  /\ turn \in {best, new}
             /\ turn = new => Considered(s, c) \/ best = new
             /\ best # NoCandidate => /\ turn # NoCandidate
                                      /\ Rank(best.verdict) <= Rank(turn.verdict)
             /\ Considered(s, c) => /\ turn # NoCandidate
                                    /\ Rank(new.verdict) <= Rank(turn.verdict)
<1> DEFINE new == Candidate(s, c, v)
<1>1. new # NoCandidate /\ Rank(new.verdict) \in 0..2
  BY CandidatesAreRanked
<1>2. best # NoCandidate => Rank(best.verdict) \in 0..2
  BY DEF Verdicts, Rank
<1>3. best # NoCandidate /\ Better(new, best) => Rank(best.verdict) <= Rank(new.verdict)
  BY <1>1, <1>2 DEF Better
<1>4. best # NoCandidate /\ ~Better(new, best) => Rank(new.verdict) <= Rank(best.verdict)
  BY <1>1, <1>2 DEF Better
<1> HIDE DEF new
<1> QED
  BY <1>1, <1>2, <1>3, <1>4 DEF Turn, new

(* What the loop keeps: a candidate of its list, none of it better by rank. *)
LEMMA BestIsBest ==
  ASSUME NEW s, NEW list, NEW samples, Len(list) \in Nat
  PROVE  LET best == Best(s, list, samples)
             cand(i) == Candidate(s, list[i], samples[list[i]])
             seen == {i \in 1..Len(list) : Considered(s, list[i])}
         IN  /\ best = NoCandidate \/ \E i \in seen : best = cand(i)
             /\ \A i \in seen : best # NoCandidate /\ Rank(cand(i).verdict) <= Rank(best.verdict)
<1> DEFINE L == Len(list)
           cand(i) == Candidate(s, list[i], samples[list[i]])
           f == CHOOSE g : IsLoop(g, s, list, samples, L)
           Kept(m, b) == /\ b = NoCandidate \/ \E i \in 1..m : Considered(s, list[i]) /\ b = cand(i)
                         /\ \A i \in 1..m : Considered(s, list[i]) =>
                              b # NoCandidate /\ Rank(cand(i).verdict) <= Rank(b.verdict)
           S == {m \in Nat : m <= L => Kept(m, f[m])}
<1>1. IsLoop(f, s, list, samples, L)
  BY LoopExists
<1>2. Best(s, list, samples) = f[L]
  BY DEF Best, IsLoop
<1> HIDE DEF f
<1>3. /\ f[0] = NoCandidate
      /\ \A m \in Nat : m + 1 <= L => f[m + 1] = Turn(s, list[m + 1], samples[list[m + 1]], f[m])
  BY <1>1 DEF IsLoop
<1>4. 0 \in S
  BY <1>3
<1>5. ASSUME NEW m \in Nat, m \in S
      PROVE  m + 1 \in S
  <2> SUFFICES ASSUME m + 1 <= L PROVE Kept(m + 1, f[m + 1])
    OBVIOUS
  <2> DEFINE b == f[m]
             t == f[m + 1]
             new == cand(m + 1)
  <2>1. Kept(m, b)
    BY <1>5
  <2>2. b = NoCandidate \/ (b # NoCandidate /\ b.verdict \in Verdicts)
    BY <2>1, CandidatesAreRanked
  <2>3. /\ t \in {b, new}
        /\ t = new => Considered(s, list[m + 1]) \/ b = new
        /\ b # NoCandidate => t # NoCandidate /\ Rank(b.verdict) <= Rank(t.verdict)
        /\ Considered(s, list[m + 1]) => t # NoCandidate /\ Rank(new.verdict) <= Rank(t.verdict)
    BY <1>3, <2>2, TurnKeepsBest
  <2>4. \A i \in 1..(m + 1) : Rank(cand(i).verdict) \in 0..2
    BY CandidatesAreRanked
  <2>5. (b # NoCandidate => Rank(b.verdict) \in 0..2) /\ (t # NoCandidate => Rank(t.verdict) \in 0..2)
    BY <2>2, <2>3, CandidatesAreRanked DEF Rank, Verdicts
  <2> HIDE DEF b, t, cand, new
  <2>6. t = NoCandidate \/ \E i \in 1..(m + 1) : Considered(s, list[i]) /\ t = cand(i)
    <3>1. CASE t = b
      BY <2>1, <3>1
    <3>2. CASE t = new /\ t # b
      BY <2>3, <3>2 DEF new
    <3> QED
      BY <2>3, <3>1, <3>2
  <2>7. ASSUME NEW i \in 1..(m + 1), Considered(s, list[i])
        PROVE  t # NoCandidate /\ Rank(cand(i).verdict) <= Rank(t.verdict)
    <3>1. CASE i = m + 1
      BY <2>3, <2>7, <3>1 DEF new
    <3>2. CASE i \in 1..m
      <4>1. b # NoCandidate /\ Rank(cand(i).verdict) <= Rank(b.verdict)
        BY <2>1, <2>7, <3>2
      <4> QED
        BY <2>3, <2>4, <2>5, <4>1
    <3> QED
      BY <3>1, <3>2
  <2> QED
    BY <2>6, <2>7 DEF t
<1> HIDE DEF S
<1>6. L \in S
  BY <1>4, <1>5, NatSetInduction
<1> USE DEF S
<1>7. Kept(L, f[L])
  BY <1>6
<1> QED
  BY <1>2, <1>7

LEMMA ApplicableAreRules ==
  ASSUME NEW kind
  PROVE  LET cwes == ApplicableCWEs(kind) IN
           /\ Len(cwes) \in Nat /\ DOMAIN cwes = 1..Len(cwes)
           /\ \A i \in 1..Len(cwes) : cwes[i] \in Rulebook
           /\ cwes # <<>> => Head(cwes) \in Rulebook
<1>1. CASE kind = "external_input"
  BY <1>1 DEF ApplicableCWEs, Rulebook
<1>2. CASE kind = "auth_boundary"
  BY <1>2 DEF ApplicableCWEs, Rulebook
<1>3. CASE kind = "idor_candidate"
  BY <1>3 DEF ApplicableCWEs, Rulebook
<1>4. CASE kind = "dangerous_sink"
  BY <1>4 DEF ApplicableCWEs, Rulebook
<1>5. CASE kind \notin {"external_input", "auth_boundary", "idor_candidate", "dangerous_sink"}
  BY <1>5 DEF ApplicableCWEs
<1> QED
  BY <1>1, <1>2, <1>3, <1>4, <1>5

\* The samples of every CWE, given the ones that were taken.
AllVotes(v) == [c \in Rulebook |-> IF c \in DOMAIN v THEN v[c] ELSE [yes |-> 0, no |-> 0]]

(***************************************************************************)
(* The verdict on a surface: a violation names a CWE of the rulebook that  *)
(* the samples did not clear, and takes precedence over whatever else was  *)
(* found; safe rests on a sanitizer or on samples.                         *)
(***************************************************************************)
LEMMA CheckIsSound ==
  ASSUME NEW s, NEW v \in [Escalated(s) -> Votes]
  PROVE  LET r == Check(s, AllVotes(v))
             convicted == {c \in Escalated(s) : v[c].yes <= v[c].no}
             cleared   == Escalated(s) \ convicted
         IN  /\ r.verdict \in Verdicts /\ r.cwe \in Rulebook \cup {NoCWE}
             /\ r.verdict = "violation" => r.cwe \in Rulebook
             /\ r.verdict = "safe" => s.sanitized \/ cleared # {}
             /\ convicted # {} => r.verdict = "violation" /\ r.cwe \in convicted
<1> DEFINE list == ApplicableCWEs(s.kind)
           all == AllVotes(v)
           best == Best(s, list, all)
           cand(i) == Candidate(s, list[i], all[list[i]])
           seen == {i \in 1..Len(list) : Considered(s, list[i])}
           r == Check(s, all)
           convicted == {c \in Escalated(s) : v[c].yes <= v[c].no}
<1>1. /\ Len(list) \in Nat /\ DOMAIN list = 1..Len(list)
      /\ \A i \in 1..Len(list) : list[i] \in Rulebook
      /\ list # <<>> => Head(list) \in Rulebook
  BY ApplicableAreRules
<1>2. /\ best = NoCandidate \/ \E i \in seen : best = cand(i)
      /\ \A i \in seen : best # NoCandidate /\ Rank(cand(i).verdict) <= Rank(best.verdict)
  BY <1>1, BestIsBest
<1>3. ASSUME NEW i \in seen
      PROVE  /\ cand(i).cwe = list[i] /\ cand(i).verdict \in Verdicts
             /\ cand(i).verdict = VerdictFor(s, list[i], all[list[i]])
             /\ cand(i) # NoCandidate
  BY CandidatesAreRanked
<1>4. /\ list = <<>> => r = [verdict |-> "inconclusive", cwe |-> NoCWE]
      /\ list # <<>> /\ best = NoCandidate => r = [verdict |-> "inconclusive", cwe |-> Head(list)]
      /\ list # <<>> /\ best # NoCandidate
           => r = [verdict |-> best.verdict, cwe |-> IF best.verdict = "safe" THEN NoCWE ELSE best.cwe]
  BY DEF Check
<1>5. list = <<>> => best = NoCandidate
  BY <1>1, <1>2
<1> HIDE DEF best, cand, r, list, all
<1>6. r.verdict \in Verdicts /\ r.cwe \in Rulebook \cup {NoCWE}
  BY <1>1, <1>2, <1>3, <1>4, <1>5 DEF Verdicts
<1>7. r.verdict = "violation" => r.cwe \in Rulebook
  BY <1>1, <1>2, <1>3, <1>4, <1>5
<1>8. ASSUME NEW i \in seen, list[i] \in Escalated(s)
      PROVE  /\ list[i] \notin NoSinkModel /\ s.path /\ ~s.sanitized /\ s.body # "none"
             /\ all[list[i]] = v[list[i]] /\ v[list[i]].yes \in Nat /\ v[list[i]].no \in Nat
  <2>1. all[list[i]] = v[list[i]]
    BY <1>1, <1>8 DEF all, AllVotes
  <2>2. v[list[i]] \in Votes
    BY <1>8
  <2>3. v[list[i]].yes \in Nat /\ v[list[i]].no \in Nat
    BY <2>2 DEF Votes, EscalationSamples
  <2> QED
    BY <1>8, <2>1, <2>3 DEF Escalated
<1>9. r.verdict = "safe" => s.sanitized \/ Escalated(s) \ convicted # {}
  <2> SUFFICES ASSUME r.verdict = "safe", ~s.sanitized
               PROVE  Escalated(s) \ convicted # {}
    OBVIOUS
  <2>1. PICK i \in seen : best = cand(i) /\ best.verdict = "safe"
    BY <1>2, <1>4, <1>5
  <2>2. VerdictFor(s, list[i], all[list[i]]) = "safe"
    BY <1>3, <2>1
  <2>3. /\ list[i] \notin NoSinkModel /\ s.path
        /\ s.body # "none" /\ all[list[i]].yes > all[list[i]].no
    BY <2>2 DEF VerdictFor, Escalate
  <2>4. list[i] \in Escalated(s)
    BY <1>1, <2>3 DEF Escalated, Considered, list
  <2>5. list[i] \notin convicted
    BY <1>8, <2>3, <2>4
  <2> QED
    BY <2>4, <2>5
<1>10. ASSUME NEW c \in convicted
       PROVE  r.verdict = "violation" /\ r.cwe \in convicted
  <2>1. PICK i \in seen : list[i] = c
    BY <1>1 DEF Escalated, Considered, list
  <2>2. VerdictFor(s, c, all[c]) = "violation"
    BY <1>8, <2>1 DEF VerdictFor, Escalate
  <2>3. best # NoCandidate /\ Rank("violation") <= Rank(best.verdict)
    BY <1>2, <1>3, <2>1, <2>2
  <2>4. best.verdict = "violation"
    BY <1>2, <1>3, <2>3 DEF Rank, Verdicts
  <2>5. PICK j \in seen : best = cand(j)
    BY <1>2, <2>3
  <2>6. VerdictFor(s, list[j], all[list[j]]) = "violation"
    BY <1>3, <2>4, <2>5
  <2>7. list[j] \in Escalated(s)
    BY <1>1, <2>6 DEF VerdictFor, Escalated, Considered, list
  <2>8. v[list[j]].yes <= v[list[j]].no
    BY <1>8, <2>6, <2>7 DEF VerdictFor, Escalate
  <2> QED
    BY <1>3, <1>4, <1>5, <2>4, <2>5, <2>7, <2>8
<1> QED
  BY <1>6, <1>7, <1>9, <1>10 DEF r, all

-----------------------------------------------------------------------------
(* The inductive invariant.                                                *)

\* What the contract check said is what it says of some samples.
Contracted ==
  \A s \in Surfaces : b3[s] # None =>
    \E v \in [Escalated(surface[s]) -> Votes] :
      /\ b3[s] = Check(surface[s], AllVotes(v))
      /\ phase = "contracts" => votes[s] = v

Undecided == Violations \cup Inconclusives

\* Only what the contract check did not drop is queued and reviewed, one at a time.
Phases ==
  /\ phase \in {"target", "enrich", "crypto"} => \A s \in Surfaces : b3[s] = None
  /\ phase \in {"target", "enrich", "crypto", "contracts", "triage"} =>
       queue = {} /\ \A s \in Surfaces : review[s] = None
  /\ phase # "analyse" => cur = None
  /\ queue \subseteq Undecided
  /\ cur \in Undecided \cup {None}
  /\ \A s \in Surfaces : review[s] # None => s \in Undecided

\* The review is about the surface it was opened for.
Matching ==
  /\ cur = None <=> stage = "idle"
  /\ cur # None => gated = (b3[cur].cwe \in Rulebook)

\* What the gates and the second opinion leave of a verdict.
Gates ==
  /\ stage = "loop" => round < MaxToolCalls
  /\ stage \in {"judge", "probe"} => verdict.conf \in Confidences
  /\ stage = "probe" => verdict.exploitable /\ verdict.conf >= DualToolThreshold
  /\ stage \in {"probe", "done"} =>
       /\ Uninvestigated(verdict) => verdict.conf <= UninvestigatedCap
       /\ ~SingleAngle(verdict)
  /\ vetoed =>
       /\ stage = "done"
       /\ verdict.exploitable => \E c \in Confidences : verdict.conf + 30 <= c
       /\ ~verdict.exploitable => verdict.conf < ConsistencyFloor

IInv == TypeOK /\ Contracted /\ Phases /\ Matching /\ Gates /\ EveryViolationReportedOnce

-----------------------------------------------------------------------------
(* The review of a surface.                                                *)

Verdicts5 == [exploitable : BOOLEAN, conf : Nat, hedged : BOOLEAN]

LEMMA ReviewStep ==
  ASSUME InvTypeOK, Gates, Review
  PROVE  InvTypeOK' /\ Gates' /\ stage' # "idle" /\ gated' = gated
<1> USE InvestigationAssumption
<1>1. /\ \A v \in Verdict : v \in Verdicts5 /\ v.conf \in Confidences
      /\ Empty \in Verdicts5
  BY DEF Verdict, Verdicts5, Empty
<1>2. Min2(2, calls + 1) \in 0..2 /\ Min2(2, calls + 2) \in 0..2
  BY DEF InvTypeOK, Min2
<1>3. CASE AskFails
  BY <1>3 DEF AskFails, InvTypeOK, Gates
<1>4. CASE AnswerEmpty
  BY <1>4 DEF AnswerEmpty, InvTypeOK, Gates
<1>5. CASE RetryFails
  BY <1>5 DEF RetryFails, InvTypeOK, Gates
<1>6. CASE Judge
  <2> DEFINE w == Judged(verdict)
  <2>1. verdict \in Verdicts5 /\ verdict.conf \in Confidences /\ stage = "judge" /\ ~vetoed
    BY <1>6 DEF Judge, InvTypeOK, Gates, Verdicts5
  <2>2. /\ w \in Verdicts5
        /\ w = verdict \/ (w.conf <= UninvestigatedCap /\ w.conf \in Nat)
        /\ Uninvestigated(verdict) \/ SingleAngle(verdict) => w.conf <= UninvestigatedCap
    BY <2>1 DEF Judged, Min2, UninvestigatedCap, Verdicts5
  <2>3. Uninvestigated(w) => w.conf <= UninvestigatedCap
    BY <2>2 DEF Uninvestigated
  <2>4. ~SingleAngle(w)
    BY <2>1, <2>2 DEF SingleAngle, UninvestigatedCap, DualToolThreshold, Verdicts5
  <2>5. NeedsProbe(w) => w.exploitable /\ w.conf >= DualToolThreshold /\ w.conf \in Confidences
    BY <2>1, <2>2 DEF NeedsProbe, UninvestigatedCap, DualToolThreshold
  <2>6. /\ verdict' = w /\ stage' = IF NeedsProbe(w) THEN "probe" ELSE "done"
        /\ UNCHANGED <<round, gated, investigated, calls, used, chased, nudged, informed, vetoed>>
    BY <1>6 DEF Judge
  <2> HIDE DEF w
  <2>7. InvTypeOK'
    BY <2>2, <2>6 DEF InvTypeOK, Verdicts5
  <2>8. Gates'
    BY <2>1, <2>3, <2>4, <2>5, <2>6 DEF Gates, Uninvestigated, SingleAngle
  <2> QED
    BY <2>6, <2>7, <2>8
<1>7. ASSUME NEW names \in SUBSET (Tools \cup {Bogus}), NEW n \in 1..2, NEW answered \in BOOLEAN,
             CallTools(names, n, answered)
      PROVE  InvTypeOK' /\ Gates' /\ stage' # "idle" /\ gated' = gated
  <2>1. round' \in 0..MaxToolCalls /\ stage' \in {"loop", "final"} /\ (stage' = "loop" => round' < MaxToolCalls)
    BY <1>7 DEF CallTools, NextRound, InvTypeOK, Gates
  <2>2. /\ gated' = gated /\ vetoed' = vetoed /\ verdict' = verdict /\ ~vetoed
        /\ chased' = chased /\ nudged' = nudged /\ investigated' = TRUE
        /\ used' = used \cup names /\ calls' = Min2(2, calls + n)
    BY <1>7 DEF CallTools, Gates
  <2>3. calls' \in 0..2
    BY <1>2, <2>2
  <2>4. informed' \in BOOLEAN
    BY <1>7 DEF CallTools, InvTypeOK
  <2> QED
    BY <2>1, <2>2, <2>3, <2>4 DEF InvTypeOK, Gates
<1>8. ASSUME NEW v \in Verdict, Refuse(v)
      PROVE  InvTypeOK' /\ Gates' /\ stage' # "idle" /\ gated' = gated
  <2>1. round' \in 0..MaxToolCalls /\ stage' \in {"loop", "final"} /\ (stage' = "loop" => round' < MaxToolCalls)
    BY <1>8 DEF Refuse, NextRound, InvTypeOK, Gates
  <2>2. /\ UNCHANGED <<gated, investigated, calls, used, verdict, informed, vetoed>> /\ ~vetoed
        /\ chased' \in BOOLEAN /\ nudged' \in BOOLEAN
    BY <1>8 DEF Refuse, InvTypeOK, Gates
  <2> QED
    BY <2>1, <2>2 DEF InvTypeOK, Gates
<1>9. ASSUME NEW v \in Verdict, Answer(v) \/ Retry(v)
      PROVE  InvTypeOK' /\ Gates' /\ stage' # "idle" /\ gated' = gated
  <2>1. /\ stage' = "judge" /\ verdict' = v /\ informed' \in BOOLEAN /\ ~vetoed
        /\ UNCHANGED <<round, gated, investigated, calls, used, chased, nudged, vetoed>>
    BY <1>9 DEF Answer, Retry, InvTypeOK, Gates
  <2> QED
    BY <1>1, <2>1 DEF InvTypeOK, Gates, Verdicts5
<1>10. ASSUME NEW no \in BOOLEAN, Probe(no)
       PROVE  InvTypeOK' /\ Gates' /\ stage' # "idle" /\ gated' = gated
  <2>1. /\ verdict \in Verdicts5 /\ verdict.conf \in Confidences /\ verdict.conf \in Nat
        /\ verdict.exploitable /\ verdict.conf >= 85 /\ stage = "probe" /\ ~vetoed
        /\ Uninvestigated(verdict) => verdict.conf <= UninvestigatedCap
        /\ ~SingleAngle(verdict)
    BY <1>10 DEF Probe, InvTypeOK, Gates, Verdicts5, DualToolThreshold
  <2>2. gated => investigated
    BY <2>1 DEF Uninvestigated, UninvestigatedCap
  <2>3. ~(gated /\ investigated /\ Cardinality(used) < 2)
    BY <2>1 DEF SingleAngle, DualToolThreshold
  <2>4. /\ stage' = "done" /\ vetoed' = no
        /\ UNCHANGED <<round, gated, investigated, calls, used, chased, nudged, informed>>
    BY <1>10 DEF Probe
  <2>5. CASE no
    <3> DEFINE c == verdict.conf - 30
               claim == c >= ConsistencyFloor
    <3>1. verdict' = Lowered(verdict)
      BY <1>10, <2>5 DEF Probe
    <3>5. c \in Nat /\ claim \in BOOLEAN /\ (claim <=> c >= 60)
      BY <2>1 DEF ConsistencyFloor
    <3>6. Lowered(verdict) = [verdict EXCEPT !.conf = c, !.exploitable = claim]
      <4>1. (IF verdict.conf < 30 THEN 0 ELSE verdict.conf - 30) = c
        BY <2>1
      <4> HIDE DEF c
      <4> QED
        BY <4>1, Zenon DEF Lowered, claim
    <3> HIDE DEF c, claim
    <3>2. /\ verdict' \in Verdicts5 /\ verdict'.conf = c
          /\ verdict'.exploitable <=> c >= 60
      BY <2>1, <3>1, <3>5, <3>6 DEF Verdicts5
    <3>3. InvTypeOK'
      BY <2>4, <2>5, <3>2 DEF InvTypeOK, Verdicts5
    <3>4. Gates'
      BY <2>1, <2>2, <2>3, <2>4, <3>2 DEF c, Gates, Uninvestigated, SingleAngle, ConsistencyFloor
    <3> QED
      BY <2>4, <3>3, <3>4
  <2>6. CASE ~no
    BY <1>10, <2>1, <2>4, <2>6 DEF Probe, InvTypeOK, Gates, Uninvestigated, SingleAngle
  <2> QED
    BY <2>5, <2>6
<1> QED
  BY <1>3, <1>4, <1>5, <1>6, <1>7, <1>8, <1>9, <1>10 DEF Review

-----------------------------------------------------------------------------
(* The steps of the path.                                                  *)

LEMMA InitIInv == Init => IInv
<1> SUFFICES ASSUME Init PROVE IInv
  OBVIOUS
<1>1. InvTypeOK /\ Gates /\ stage = "idle"
  <2>1. /\ stage = "idle" /\ round = 0 /\ calls = 0 /\ used = {} /\ verdict = Empty
        /\ gated = FALSE /\ investigated = FALSE /\ chased = FALSE /\ nudged = FALSE
        /\ informed = FALSE /\ vetoed = FALSE
    BY DEF Init, InvInit
  <2>2. Empty \in [exploitable : BOOLEAN, conf : Nat, hedged : BOOLEAN]
    BY DEF Empty
  <2>3. round \in 0..MaxToolCalls /\ calls \in 0..2 /\ used \subseteq Tools \cup {Bogus}
    BY <2>1, InvestigationAssumption
  <2>4. /\ gated \in BOOLEAN /\ investigated \in BOOLEAN /\ chased \in BOOLEAN
        /\ nudged \in BOOLEAN /\ informed \in BOOLEAN /\ vetoed \in BOOLEAN
    BY <2>1, Zenon
  <2>5. InvTypeOK
    BY <2>1, <2>2, <2>3, <2>4 DEF InvTypeOK
  <2>6. Gates
    BY <2>1 DEF Gates
  <2> QED
    BY <2>1, <2>5, <2>6
<1>2. TypeOK
  <2>1. DOMAIN b3 = Surfaces /\ DOMAIN votes = Surfaces /\ DOMAIN review = Surfaces
    BY DEF Init
  <2>2. \A s \in Surfaces : b3[s] = None /\ review[s] = None
    BY DEF Init
  <2>3. b4 \in [Surfaces -> {"none", "escalate", "drop", "stub"}]
    BY DEF Init
  <2>4. sent \in [Surfaces -> Seq(Outcomes)]
    BY DEF Init
  <2>5. /\ phase = "target" /\ surface \in Shapes /\ cur \in Surfaces \cup {None}
        /\ queue \subseteq Surfaces /\ crypto \subseteq Surfaces \X Nat
    BY DEF Init
  <2> QED
    BY <1>1, <2>1, <2>2, <2>3, <2>4, <2>5 DEF TypeOK
<1>3. Contracted /\ Phases /\ EveryViolationReportedOnce
  BY DEF Init, Contracted, Phases, EveryViolationReportedOnce
<1>4. Matching
  BY <1>1 DEF Init, Matching
<1> QED
  BY <1>1, <1>2, <1>3, <1>4 DEF IInv

(* What a step keeps that leaves the contract check and the review alone.   *)
LEMMA SameReview ==
  ASSUME IInv, UNCHANGED <<surface, b3, cur, queue, review, invVars>>,
         phase' \in {"enrich", "crypto", "contracts", "triage", "report", "done", "failed"},
         phase' # "done" \/ sent' = sent,
         phase' = "enrich" => phase = "target",
         phase' = "crypto" => phase = "enrich",
         phase' = "contracts" => phase = "crypto",
         phase' = "triage" => phase \in {"contracts", "triage"},
         phase' = "report" => cur = None,
         phase' = "done" => phase = "target",
         phase' = "failed" => phase = "enrich"
  PROVE  /\ InvTypeOK' /\ Contracted' /\ Phases' /\ Matching' /\ Gates'
         /\ EveryViolationReportedOnce'
<1> USE DEF IInv
<1>1. InvTypeOK /\ Contracted /\ Phases /\ Matching /\ Gates
  BY DEF TypeOK
<1>2. InvTypeOK' /\ Gates'
  BY <1>1 DEF InvTypeOK, Gates, invVars, Uninvestigated, SingleAngle
<1>3. Contracted'
  <2>1. phase' = "contracts" => \A s \in Surfaces : b3[s] = None
    BY <1>1 DEF Phases
  <2> QED
    BY <1>1, <2>1 DEF Contracted
<1>4. Phases'
  BY <1>1 DEF Phases, Undecided, Violations, Inconclusives, Is
<1>5. Matching'
  BY <1>1 DEF Matching, invVars
<1>6. EveryViolationReportedOnce'
  BY <1>1 DEF Phases, EveryViolationReportedOnce, Violations, Is
<1> QED
  BY <1>2, <1>3, <1>4, <1>5, <1>6

LEMMA QuietStep ==
  ASSUME IInv,
         \/ Target \/ Enrich \/ CryptoCheckAll \/ CheckAllEnds \/ ScanEnds
         \/ \E s \in Surfaces : Triage(s)
  PROVE  IInv'
<1>1. TypeOK /\ Phases
  BY DEF IInv
<1>2. CASE Target \/ Enrich
  <2>1. /\ UNCHANGED <<surface, b3, votes, b4, cur, queue, review, sent, crypto, invVars>>
        /\ phase' \in {"enrich", "crypto", "done", "failed"}
        /\ phase' \in {"enrich", "done"} => phase = "target"
        /\ phase' \in {"crypto", "failed"} => phase = "enrich"
    BY <1>2 DEF Target, Enrich, Goto
  <2>2. TypeOK'
    BY <1>1, <2>1 DEF TypeOK, InvTypeOK, invVars
  <2> QED
    BY <2>1, <2>2, SameReview DEF IInv
<1>3. CASE CryptoCheckAll
  <2>1. /\ UNCHANGED <<surface, b3, votes, b4, cur, queue, review, sent, invVars>>
        /\ phase = "crypto" /\ phase' = "contracts"
    BY <1>3 DEF CryptoCheckAll, Goto
  <2>2. crypto' \subseteq Surfaces \X Nat
    BY SMTT(30), <1>1, <1>3 DEF CryptoCheckAll, Crypto, TypeOK
  <2>3. TypeOK'
    BY <1>1, <2>1, <2>2 DEF TypeOK, InvTypeOK, invVars
  <2> QED
    BY <2>1, <2>3, SameReview DEF IInv
<1>4. CASE CheckAllEnds
  <2>1. /\ UNCHANGED <<surface, b3, b4, cur, queue, review, sent, crypto, invVars>>
        /\ phase = "contracts" /\ phase' = "triage"
        /\ DOMAIN votes' = Surfaces
    BY <1>4 DEF CheckAllEnds, Goto
  <2>2. TypeOK'
    BY <1>1, <2>1 DEF TypeOK, InvTypeOK, invVars
  <2> QED
    BY <2>1, <2>2, SameReview DEF IInv
<1>5. CASE ScanEnds
  <2>1. /\ UNCHANGED <<surface, b3, votes, b4, cur, queue, review, sent, crypto, invVars>>
        /\ phase' = "report" /\ cur = None
    BY <1>5 DEF ScanEnds, Goto
  <2>2. TypeOK'
    BY <1>1, <2>1 DEF TypeOK, InvTypeOK, invVars
  <2> QED
    BY <2>1, <2>2, SameReview DEF IInv
<1>6. ASSUME NEW s \in Surfaces, Triage(s)
      PROVE  IInv'
  <2>1. /\ UNCHANGED <<phase, surface, b3, votes, cur, queue, review, sent, crypto, invVars>>
        /\ phase = "triage"
    BY <1>6 DEF Triage
  <2>2. b4' \in [Surfaces -> {"none", "escalate", "drop", "stub"}]
    BY <1>1, <1>6 DEF Triage, Disposition, TypeOK
  <2>3. TypeOK'
    BY <1>1, <2>1, <2>2 DEF TypeOK, InvTypeOK, invVars
  <2> QED
    BY <2>1, <2>3, SameReview DEF IInv
<1> QED
  BY <1>2, <1>3, <1>4, <1>5, <1>6

LEMMA CheckStep ==
  ASSUME IInv, NEW s \in Surfaces, CheckSurface(s)
  PROVE  IInv'
<1>1. TypeOK /\ Contracted /\ Phases /\ Matching /\ Gates
  BY DEF IInv
<1>2. PICK v \in [Escalated(surface[s]) -> Votes] :
        /\ b3' = [b3 EXCEPT ![s] = Check(surface[s], AllVotes(v))]
        /\ votes' = [votes EXCEPT ![s] = v]
  BY DEF CheckSurface, AllVotes
<1>3. /\ UNCHANGED <<phase, surface, b4, cur, queue, review, sent, crypto, invVars>>
      /\ phase = "contracts"
  BY DEF CheckSurface
<1>4. /\ DOMAIN b3' = Surfaces /\ DOMAIN votes' = Surfaces
      /\ b3'[s] = Check(surface[s], AllVotes(v)) /\ votes'[s] = v
      /\ \A t \in Surfaces \ {s} : b3'[t] = b3[t] /\ votes'[t] = votes[t]
  BY <1>1, <1>2 DEF TypeOK
<1>5. b3'[s].verdict \in Verdicts /\ b3'[s].cwe \in Rulebook \cup {NoCWE}
  BY <1>4, CheckIsSound
<1>6. TypeOK'
  <2>1. \A t \in Surfaces : b3'[t] # None =>
          b3'[t].verdict \in Verdicts /\ b3'[t].cwe \in Rulebook \cup {NoCWE}
    BY <1>1, <1>4, <1>5 DEF TypeOK
  <2> QED
    BY <1>1, <1>3, <1>4, <2>1 DEF TypeOK, InvTypeOK, invVars
<1>7. Contracted'
  BY <1>1, <1>3, <1>4 DEF Contracted
<1>8. Phases'
  BY <1>1, <1>3 DEF Phases
<1>9. Matching' /\ Gates'
  BY <1>1, <1>3 DEF Phases, Matching, Gates, invVars, Uninvestigated, SingleAngle
<1>10. EveryViolationReportedOnce'
  BY <1>3 DEF EveryViolationReportedOnce
<1> QED
  BY <1>6, <1>7, <1>8, <1>9, <1>10 DEF IInv

LEMMA QueueStep ==
  ASSUME IInv, TriageEnds
  PROVE  IInv'
<1>1. TypeOK /\ Contracted /\ Phases /\ Matching /\ Gates
  BY DEF IInv
<1>2. /\ phase = "triage" /\ phase' = "analyse" /\ queue' = Violations \cup Escalations
      /\ UNCHANGED <<surface, b3, votes, b4, cur, review, sent, crypto, invVars>>
  BY DEF TriageEnds, Goto
<1>3. queue' \subseteq Undecided /\ Undecided' = Undecided /\ Undecided \subseteq Surfaces
  BY <1>2 DEF Escalations, Undecided, Violations, Inconclusives, Is
<1>4. TypeOK'
  BY <1>1, <1>2, <1>3 DEF TypeOK, InvTypeOK, invVars
<1>5. Contracted' /\ Matching' /\ Gates'
  BY <1>1, <1>2 DEF Contracted, Matching, Gates, invVars, Uninvestigated, SingleAngle
<1>6. Phases'
  BY <1>1, <1>2, <1>3 DEF Phases
<1>7. EveryViolationReportedOnce'
  BY <1>2 DEF EveryViolationReportedOnce
<1> QED
  BY <1>4, <1>5, <1>6, <1>7 DEF IInv

LEMMA BeginStep ==
  ASSUME IInv, NEW s \in Surfaces, Begin(s)
  PROVE  IInv'
<1>1. TypeOK /\ Contracted /\ Phases /\ Matching /\ Gates
  BY DEF IInv
<1>2. /\ phase = "analyse" /\ cur = None /\ cur' = s /\ queue' = queue \ {s} /\ s # None
      /\ Open(b3[s].cwe \in Rulebook)
      /\ UNCHANGED <<phase, surface, b3, votes, b4, review, sent, crypto>>
  BY FunnelAssumption DEF Begin
<1>3. s \in queue
  BY DEF Begin
<1>4. /\ stage' = "loop" /\ round' = 0 /\ calls' = 0 /\ used' = {} /\ verdict' = Empty
      /\ gated' = (b3[s].cwe \in Rulebook) /\ investigated' = FALSE
      /\ chased' = FALSE /\ nudged' = FALSE /\ informed' = FALSE /\ vetoed' = FALSE
  BY <1>2 DEF Open
<1>5. InvTypeOK'
  <2>1. Empty \in [exploitable : BOOLEAN, conf : Nat, hedged : BOOLEAN]
    BY DEF Empty
  <2>2. round' \in 0..MaxToolCalls /\ calls' \in 0..2 /\ used' \subseteq Tools \cup {Bogus}
    BY <1>4, InvestigationAssumption
  <2>3. /\ investigated' \in BOOLEAN /\ chased' \in BOOLEAN /\ nudged' \in BOOLEAN
        /\ informed' \in BOOLEAN /\ vetoed' \in BOOLEAN
    BY <1>4, Zenon
  <2>4. gated' \in BOOLEAN
    BY <1>4
  <2> QED
    BY <1>4, <2>1, <2>2, <2>3, <2>4 DEF InvTypeOK
<1>6. Gates'
  BY <1>4, InvestigationAssumption DEF Gates
<1>7. TypeOK'
  BY <1>1, <1>2, <1>5 DEF TypeOK
<1>8. Contracted'
  BY <1>1, <1>2 DEF Contracted
<1>9. Phases'
  BY <1>1, <1>2, <1>3 DEF Phases, Undecided, Violations, Inconclusives, Is
<1>10. Matching'
  BY <1>2, <1>4 DEF Matching
<1>11. EveryViolationReportedOnce'
  BY <1>2 DEF EveryViolationReportedOnce
<1> QED
  BY <1>6, <1>7, <1>8, <1>9, <1>10, <1>11 DEF IInv

LEMMA WorkStep ==
  ASSUME IInv, Work
  PROVE  IInv'
<1>1. TypeOK /\ InvTypeOK /\ Contracted /\ Phases /\ Matching /\ Gates
  BY DEF IInv, TypeOK
<1>2. UNCHANGED funnelVars /\ cur # None /\ Review
  BY DEF Work
<1>3. InvTypeOK' /\ Gates' /\ stage' # "idle" /\ gated' = gated
  BY <1>1, <1>2, ReviewStep
<1>4. TypeOK'
  BY <1>1, <1>2, <1>3 DEF TypeOK, funnelVars
<1>5. Contracted'
  BY <1>1, <1>2 DEF Contracted, funnelVars
<1>6. Phases'
  BY <1>1, <1>2 DEF Phases, funnelVars, Undecided, Violations, Inconclusives, Is
<1>7. Matching'
  BY <1>1, <1>2, <1>3 DEF Matching, funnelVars
<1>8. EveryViolationReportedOnce'
  BY <1>1, <1>2 DEF Phases, EveryViolationReportedOnce, funnelVars
<1> QED
  BY <1>3, <1>4, <1>5, <1>6, <1>7, <1>8 DEF IInv

LEMMA EndStep ==
  ASSUME IInv, End
  PROVE  IInv'
<1>1. TypeOK /\ InvTypeOK /\ Contracted /\ Phases /\ Matching /\ Gates
  BY DEF IInv, TypeOK
<1>2. /\ cur # None /\ cur' = None
      /\ UNCHANGED <<phase, surface, b3, votes, b4, queue, sent, crypto>>
      /\ review' = review \/ review' = [review EXCEPT ![cur] = Finding]
  BY DEF End
<1>3. /\ stage' = "idle" /\ round' = 0 /\ calls' = 0 /\ used' = {} /\ verdict' = Empty
      /\ gated' = FALSE /\ investigated' = FALSE
      /\ chased' = FALSE /\ nudged' = FALSE /\ informed' = FALSE /\ vetoed' = FALSE
  BY DEF End
<1>4. InvTypeOK'
  <2>1. Empty \in [exploitable : BOOLEAN, conf : Nat, hedged : BOOLEAN]
    BY DEF Empty
  <2>2. round' \in 0..MaxToolCalls /\ calls' \in 0..2 /\ used' \subseteq Tools \cup {Bogus}
    BY <1>3, InvestigationAssumption
  <2>3. /\ gated' \in BOOLEAN /\ investigated' \in BOOLEAN /\ chased' \in BOOLEAN
        /\ nudged' \in BOOLEAN /\ informed' \in BOOLEAN /\ vetoed' \in BOOLEAN
    BY <1>3, Zenon
  <2> QED
    BY <1>3, <2>1, <2>2, <2>3 DEF InvTypeOK
<1>5. Gates'
  BY <1>3 DEF Gates
<1>6. Finding \in Findings
  BY <1>1 DEF Finding, Findings, InvTypeOK
<1>7. /\ DOMAIN review' = Surfaces
      /\ \A s \in Surfaces : review'[s] \in {review[s], Finding} /\ (s # cur => review'[s] = review[s])
  BY <1>1, <1>2 DEF TypeOK
<1>8. TypeOK'
  BY <1>1, <1>2, <1>4, <1>6, <1>7 DEF TypeOK
<1>9. Contracted'
  BY <1>1, <1>2 DEF Contracted
<1>10. Phases'
  BY <1>1, <1>2, <1>7 DEF Phases, Undecided, Violations, Inconclusives, Is
<1>11. Matching'
  BY <1>2, <1>3 DEF Matching
<1>12. EveryViolationReportedOnce'
  BY <1>1, <1>2 DEF Phases, EveryViolationReportedOnce
<1> QED
  BY <1>5, <1>8, <1>9, <1>10, <1>11, <1>12 DEF IInv

(* What the report sends for one surface.                                   *)
LEMMA ReportOfOne ==
  ASSUME TypeOK, Phases, NEW s \in Surfaces
  PROVE  LET out == ProcessB5(s) \o NoChange(s) IN
           /\ out \in Seq(Outcomes)
           /\ s \in Violations => Len(out) = 1
           /\ s \in Is("safe") => out = <<>>
<1>1. review[s] \in Findings \cup {None}
  BY DEF TypeOK
<1>2. CASE s \in Violations
  <2>1. CASE review[s] # None /\ Suppresses(review[s])
    <3>1. ProcessB5(s) = <<[what |-> "suppressed", severity |-> "SUPPRESSED"]>>
      BY <1>1, <1>2, <2>1 DEF ProcessB5, Suppresses, Elevates
    <3>2. NoChange(s) = <<>>
      BY <2>1 DEF NoChange, Handled
    <3> QED
      BY <1>2, <3>1, <3>2 DEF Outcomes, Violations, Is
  <2>2. CASE review[s] # None /\ Elevates(review[s])
    <3>1. ProcessB5(s) = <<[what |-> "elevated", severity |-> SeverityFromConfidence(review[s].conf)]>>
      BY <1>1, <1>2, <2>2 DEF ProcessB5, Suppresses, Elevates
    <3>2. NoChange(s) = <<>>
      BY <2>2 DEF NoChange, Handled
    <3>3. SeverityFromConfidence(review[s].conf) \in {"BLOCK", "HIGH", "MEDIUM", "LOW", "SUPPRESSED"}
      BY DEF SeverityFromConfidence
    <3> QED
      BY <1>2, <3>1, <3>2, <3>3 DEF Outcomes, Violations, Is
  <2>3. CASE review[s] = None \/ (~Suppresses(review[s]) /\ ~Elevates(review[s]))
    <3>1. ProcessB5(s) = <<>>
      BY <1>2, <2>3 DEF ProcessB5
    <3>2. NoChange(s) = <<[what |-> "unchanged", severity |-> "MEDIUM"]>>
      BY <1>2, <2>3 DEF NoChange, Handled
    <3> QED
      BY <1>2, <3>1, <3>2 DEF Outcomes, Violations, Is
  <2> QED
    BY <2>1, <2>2, <2>3
<1>3. CASE s \notin Violations
  <2>1. NoChange(s) = <<>>
    BY <1>3 DEF NoChange
  <2>2. CASE review[s] = None
    <3>1. ProcessB5(s) = <<>>
      BY <2>2 DEF ProcessB5
    <3> QED
      BY <1>3, <2>1, <3>1
  <2>3. CASE review[s] # None
    <3>1. s \notin Is("safe")
      BY <2>3 DEF Phases, Undecided, Violations, Inconclusives, Is
    <3>2. PICK sev \in {"label", "LOW"} : ProcessB5(s) = <<[what |-> "analysis", severity |-> sev]>>
      BY <1>3, <2>3 DEF ProcessB5
    <3> QED
      BY <1>3, <2>1, <3>1, <3>2 DEF Outcomes
  <2> QED
    BY <2>2, <2>3
<1> QED
  BY <1>2, <1>3

LEMMA ReportStep ==
  ASSUME IInv, Report
  PROVE  IInv'
<1>1. TypeOK /\ InvTypeOK /\ Contracted /\ Phases /\ Matching /\ Gates
  BY DEF IInv, TypeOK
<1>2. /\ phase = "report" /\ phase' = "done"
      /\ sent' = [s \in Surfaces |-> ProcessB5(s) \o NoChange(s)]
      /\ UNCHANGED <<surface, b3, votes, b4, cur, queue, review, crypto, invVars>>
  BY DEF Report, Goto
<1>3. \A s \in Surfaces : /\ sent'[s] \in Seq(Outcomes)
                          /\ s \in Violations => Len(sent'[s]) = 1
                          /\ s \in Is("safe") => sent'[s] = <<>>
  BY <1>1, <1>2, ReportOfOne
<1>4. sent' \in [Surfaces -> Seq(Outcomes)]
  BY <1>2, <1>3
<1>5. InvTypeOK' /\ Gates' /\ Matching'
  BY <1>1, <1>2 DEF InvTypeOK, Gates, Matching, invVars, Uninvestigated, SingleAngle
<1>6. TypeOK'
  BY <1>1, <1>2, <1>4, <1>5 DEF TypeOK
<1>7. Contracted'
  BY <1>1, <1>2 DEF Contracted
<1>8. Phases'
  BY <1>1, <1>2 DEF Phases, Undecided, Violations, Inconclusives, Is
<1>9. EveryViolationReportedOnce'
  BY <1>2, <1>3 DEF EveryViolationReportedOnce, Violations, Is
<1> QED
  BY <1>5, <1>6, <1>7, <1>8, <1>9 DEF IInv

LEMMA NextIInv == IInv /\ [Next]_vars => IInv'
<1> SUFFICES ASSUME IInv, [Next]_vars PROVE IInv'
  OBVIOUS
<1>1. CASE UNCHANGED vars
  <2> USE <1>1 DEF IInv, vars, funnelVars, invVars
  <2>1. TypeOK'
    BY DEF TypeOK, InvTypeOK
  <2>2. Contracted'
    BY DEF Contracted
  <2>3. Phases' /\ EveryViolationReportedOnce'
    BY DEF Phases, EveryViolationReportedOnce, Undecided, Violations, Inconclusives, Is
  <2>4. Matching' /\ Gates'
    BY DEF Matching, Gates, Uninvestigated, SingleAngle
  <2> QED
    BY <2>1, <2>2, <2>3, <2>4
<1> QED
  BY <1>1, QuietStep, CheckStep, QueueStep, BeginStep, WorkStep, EndStep, ReportStep
  DEF Next, Terminated

LEMMA Invariance == Spec => []IInv
BY InitIInv, NextIInv, PTL DEF Spec

-----------------------------------------------------------------------------
(* The theorems.                                                           *)

(***************************************************************************)
(* The state of the path and of the review in progress keep their types,   *)
(* whatever the model answers (reasoning.go, analysis.go).                 *)
(***************************************************************************)
THEOREM TypeCorrect == Spec => []TypeOK
BY Invariance, PTL DEF IInv

(* The review of a violation always has the investigation gate on.          *)
LEMMA ReviewedIsGated == IInv /\ Reviewed => gated /\ stage = "done"
<1> SUFFICES ASSUME IInv, Reviewed PROVE gated /\ stage = "done"
  OBVIOUS
<1>1. cur \in Surfaces /\ b3[cur] # None /\ b3[cur].verdict = "violation" /\ cur # None /\ stage = "done"
  BY DEF Reviewed, Violations, Is
<1>2. PICK v \in [Escalated(surface[cur]) -> Votes] : b3[cur] = Check(surface[cur], AllVotes(v))
  BY <1>1 DEF IInv, Contracted
<1>3. b3[cur].cwe \in Rulebook
  BY <1>1, <1>2, CheckIsSound
<1> QED
  BY <1>1, <1>3 DEF IInv, Matching

(***************************************************************************)
(* Whatever the model claims and however sure it is, a review in which it  *)
(* called no tool neither suppresses nor elevates a violation              *)
(* (analysis.go:274-303).                                                  *)
(***************************************************************************)
THEOREM NoToolNoDecision == Spec => []UninvestigatedNeverDecides
<1>1. IInv => UninvestigatedNeverDecides
  <2> SUFFICES ASSUME IInv, Decides, ~investigated PROVE FALSE
    BY DEF UninvestigatedNeverDecides
  <2>1. gated /\ stage = "done"
    BY ReviewedIsGated DEF Decides
  <2>2. verdict.conf <= 50 /\ verdict.conf \in Nat
    BY <2>1 DEF IInv, Gates, Uninvestigated, UninvestigatedCap, TypeOK, InvTypeOK
  <2> QED
    BY <2>2 DEF Decides, Suppresses, Elevates, Finding, SuppressAt, ElevateAt
<1> QED
  BY <1>1, Invariance, PTL

(***************************************************************************)
(* Answers in the range the prompt asks for (b5_analysis.md.tmpl:180; no   *)
(* code checks it): a review makes a violation BLOCK only after calls of   *)
(* two tools and without an objection, and an objection never becomes a    *)
(* suppression (analysis.go:320-366, reasoning.go:44-50).                  *)
(***************************************************************************)
THEOREM TwoAnglesToBlock ==
  ASSUME Confidences \subseteq 0..100
  PROVE  Spec => []BlockNeedsTwoAngles
<1>1. IInv => BlockNeedsTwoAngles
  <2> SUFFICES ASSUME IInv, Reviewed PROVE BlockNeedsTwoAngles
    BY DEF BlockNeedsTwoAngles
  <2>1. gated /\ stage = "done" /\ verdict.conf \in Nat /\ Gates
    BY ReviewedIsGated DEF IInv, TypeOK, InvTypeOK
  <2>2. Cardinality(used) \in Nat
    <3>1. IsFiniteSet(Tools \cup {Bogus})
      BY InvestigationAssumption, FS_AddElement
    <3>2. IsFiniteSet(used)
      BY <3>1, FS_Subset DEF IInv, TypeOK, InvTypeOK
    <3> QED
      BY <3>2, FS_CardinalityType
  <2>3. ASSUME Elevates(Finding), SeverityFromConfidence(Finding.conf) = "BLOCK"
        PROVE  Cardinality(used) >= 2 /\ ~vetoed
    <3>1. verdict.exploitable /\ verdict.conf >= 92
      BY <2>1, <2>3 DEF Elevates, SeverityFromConfidence, Finding
    <3>2. investigated
      BY <2>1, <3>1 DEF Gates, Uninvestigated, UninvestigatedCap
    <3>3. Cardinality(used) >= 2
      BY <2>1, <2>2, <3>1, <3>2 DEF Gates, SingleAngle, DualToolThreshold
    <3>4. ~vetoed
      BY <2>1, <3>1 DEF Gates
    <3> QED
      BY <3>3, <3>4
  <2>4. ASSUME Suppresses(Finding)
        PROVE  ~vetoed
    BY <2>1, <2>4 DEF Suppresses, Finding, SuppressAt, Gates, ConsistencyFloor
  <2> QED
    BY <2>3, <2>4 DEF BlockNeedsTwoAngles
<1> QED
  BY <1>1, Invariance, PTL

(***************************************************************************)
(* However many surfaces there are and whatever fails: when the path has   *)
(* ended well, every violation was sent exactly once and nothing the       *)
(* contract check proved safe was (reasoning.go:446-467).                  *)
(***************************************************************************)
THEOREM ViolationsAreReportedOnce == Spec => []EveryViolationReportedOnce
BY Invariance, PTL DEF IInv

(***************************************************************************)
(* For any surface and any answers to its samples: the loop over the CWEs  *)
(* drops a surface only on a sanitizer or a majority, and lets no CWE that *)
(* is safe or undecided hide one found violated                            *)
(* (contracts/check.go:52-66, 404-467).                                    *)
(***************************************************************************)
THEOREM DroppedOnProof == Spec => []SafeNeedsProof
<1>1. IInv => SafeNeedsProof
  <2> SUFFICES ASSUME IInv, phase = "contracts", NEW s \in Surfaces, b3[s] # None
               PROVE  LET convicted == {c \in Escalated(surface[s]) : votes[s][c].yes <= votes[s][c].no}
                          cleared   == Escalated(surface[s]) \ convicted
                      IN  /\ b3[s].verdict = "safe" => surface[s].sanitized \/ cleared # {}
                          /\ convicted # {} => b3[s].verdict = "violation" /\ b3[s].cwe \in convicted
    BY DEF SafeNeedsProof
  <2>1. PICK v \in [Escalated(surface[s]) -> Votes] :
          b3[s] = Check(surface[s], AllVotes(v)) /\ votes[s] = v
    BY DEF IInv, Contracted
  <2> QED
    BY <2>1, CheckIsSound
<1> QED
  BY <1>1, Invariance, PTL
=============================================================================
