------------------------ MODULE DetectionPathsProofs ------------------------
(***************************************************************************)
(* Proofs about DetectionPaths, for any findings, any workers on the two   *)
(* fanned-out paths and any capacity of the channel: types, that nothing   *)
(* is lost or delivered twice, that the channel is closed behind the last  *)
(* send, and that the stage implements the promise in Gather.              *)
(***************************************************************************)
EXTENDS DetectionPaths, TLAPS

-----------------------------------------------------------------------------
(* The inductive invariant.                                                *)

Elems(s) == {s[i] : i \in DOMAIN s}
Distinct(s) == \A i, j \in DOMAIN s : s[i] = s[j] => i = j

\* The findings a path may come up with.
Reports(p, f) ==
  \/ p \in Fanned /\ \E w \in Workers : PathOf[w] = p /\ f \in Found[w]
  \/ p = "reasoning" /\ f \in Crypto \cup Analysis

\* What has left the paths.
Sent == Elems(chan) \cup {f \in Findings : got[f] = 1}

\* Workers run only while their path waits for them.
Stages ==
  /\ \A p \in Fanned : pc[p] \in {"start", "wait", "send", "done"}
  /\ pc["reasoning"] # "wait"
  /\ \A w \in Workers :
       /\ worker[w] \in {"scan", "collect", "append"} => pc[PathOf[w]] = "wait"
       /\ pc[PathOf[w]] = "start" => worker[w] = "new"

\* The slice is as it was read until it is written.
Slices ==
  \A w \in Workers : worker[w] = "append" =>
    mu[PathOf[w]] = w /\ copy[w] = buf[PathOf[w]]

\* The slice of a path holds what its workers reported and nothing else.
Ledger ==
  /\ \A f \in owed : \E p \in Paths : Reports(p, f)
  /\ \A w \in Workers : \A f \in Found[w] :
       /\ worker[w] \in {"new", "scan"} => f \notin owed
       /\ worker[w] \in {"collect", "append"} => f \in owed
       /\ f \in buf[PathOf[w]] <=> worker[w] = "done" /\ f \in owed
  /\ \A p \in Fanned : \A f \in buf[p] : Reports(p, f)
  /\ pc["reasoning"] \in {"start", "enrich", "crypto"} => Disjoint(owed, Crypto \cup Analysis)
  /\ pc["reasoning"] = "analyse" => Disjoint(owed, Analysis)

\* What a path owes it is about to send or has sent, and never both.
Sending ==
  \A p \in Paths :
    /\ pc[p] \notin {"analyse", "send"} => out[p] = {}
    /\ \A f \in out[p] : Reports(p, f) /\ f \in owed /\ f \notin Sent
    /\ \A f \in Findings : Reports(p, f) =>
         /\ pc[p] \notin {"analyse", "send", "done"} => f \notin Sent
         /\ pc[p] \in {"analyse", "send", "done"} /\ f \in owed => f \in out[p] \cup Sent

\* A finding is in the channel once, or has been received once.
Channel ==
  /\ Sent \subseteq owed
  /\ Distinct(chan)
  /\ \A f \in Findings : got[f] \in {0, 1} /\ (f \in Elems(chan) => got[f] = 0)

Ending ==
  /\ closed => GroupDone
  /\ main # "range" => closed /\ chan = <<>> /\ (main = "ok" => ~err)

IInv == TypeOK /\ Stages /\ Slices /\ Ledger /\ Sending /\ Channel /\ Ending

-----------------------------------------------------------------------------
(* Sequences and origins.                                                  *)

LEMMA ElemsAppend ==
  ASSUME NEW S, NEW s \in Seq(S), NEW x \in S
  PROVE  /\ Append(s, x) \in Seq(S) /\ Elems(Append(s, x)) = Elems(s) \cup {x}
         /\ Distinct(s) /\ x \notin Elems(s) => Distinct(Append(s, x))
<1> DEFINE t == Append(s, x)
<1>1. /\ t \in Seq(S) /\ Len(t) = Len(s) + 1 /\ t[Len(t)] = x
      /\ \A i \in 1..Len(s) : t[i] = s[i]
  OBVIOUS
<1>2. DOMAIN s = 1..Len(s) /\ DOMAIN t = 1..(Len(s) + 1) /\ Len(s) \in Nat
  BY <1>1
<1>3. Elems(t) = Elems(s) \cup {x}
  BY <1>1, <1>2 DEF Elems
<1>4. ASSUME Distinct(s), x \notin Elems(s) PROVE Distinct(t)
  BY <1>1, <1>2, <1>4 DEF Distinct, Elems
<1> QED
  BY <1>1, <1>3, <1>4

LEMMA ElemsTail ==
  ASSUME NEW S, NEW s \in Seq(S), s # <<>>
  PROVE  /\ Tail(s) \in Seq(S) /\ Len(Tail(s)) < Len(s)
         /\ Head(s) \in S /\ Elems(s) = Elems(Tail(s)) \cup {Head(s)}
         /\ Distinct(s) => Distinct(Tail(s)) /\ Head(s) \notin Elems(Tail(s))
<1> DEFINE t == Tail(s)
<1>1. /\ t \in Seq(S) /\ Len(t) = Len(s) - 1 /\ Len(s) \in Nat \ {0} /\ Head(s) = s[1]
      /\ \A i \in 1..(Len(s) - 1) : t[i] = s[i + 1]
  OBVIOUS
<1>2. DOMAIN s = 1..Len(s) /\ DOMAIN t = 1..(Len(s) - 1)
  BY <1>1
<1>3. Head(s) \in S /\ \A i \in 2..Len(s) : i - 1 \in DOMAIN t /\ s[i] = t[i - 1]
  BY <1>1, <1>2
<1>4. Elems(s) = Elems(t) \cup {s[1]}
  <2>1. Elems(t) \subseteq Elems(s) /\ s[1] \in Elems(s)
    BY <1>1, <1>2 DEF Elems
  <2>2. ASSUME NEW i \in DOMAIN s PROVE s[i] \in Elems(t) \cup {s[1]}
    <3>1. i = 1 \/ i \in 2..Len(s)
      BY <1>1, <1>2
    <3> QED
      BY <1>3, <3>1 DEF Elems
  <2> QED
    BY <2>1, <2>2 DEF Elems
<1>5. ASSUME Distinct(s) PROVE Distinct(t) /\ s[1] \notin Elems(t)
  BY <1>1, <1>2, <1>5 DEF Distinct, Elems
<1> QED
  BY <1>1, <1>3, <1>4, <1>5

(* No finding has two sources.                                              *)
LEMMA OneSource ==
  /\ \A w, x \in Workers : \A f : f \in Found[w] /\ f \in Found[x] => w = x
  /\ \A w \in Workers : \A f \in Found[w] : f \notin Crypto /\ f \notin Analysis
  /\ \A f \in Crypto : f \notin Analysis
BY PathsAssumption DEF Disjoint

LEMMA ReportsUnique ==
  ASSUME NEW p \in Paths, NEW q \in Paths, NEW f, Reports(p, f), Reports(q, f)
  PROVE  p = q
BY OneSource DEF Reports, Fanned, Paths

LEMMA ReportsTypes ==
  /\ \A w \in Workers : PathOf[w] \in Fanned /\ PathOf[w] \in Paths /\ PathOf[w] # "reasoning"
  /\ \A w \in Workers : Found[w] \subseteq Findings /\ \A f \in Found[w] : Reports(PathOf[w], f)
  /\ Crypto \subseteq Findings /\ Analysis \subseteq Findings
  /\ \A f \in Crypto \cup Analysis : Reports("reasoning", f)
  /\ "reasoning" \in Paths /\ "reasoning" \notin Fanned /\ Fanned \subseteq Paths
BY PathsAssumption DEF Reports, Fanned, Paths

-----------------------------------------------------------------------------
(* At first.                                                               *)

LEMMA InitIInv == Init => IInv
<1> SUFFICES ASSUME Init PROVE IInv
  OBVIOUS
<1> USE PathsAssumption DEF Init
<1>1. TypeOK
  <2>1. chan \in Seq(Findings) /\ Len(chan) <= Cap
    OBVIOUS
  <2> QED
    BY <2>1 DEF TypeOK
<1>2. Elems(chan) = {} /\ Sent = {}
  BY DEF Elems, Sent
<1>3. Stages
  BY ReportsTypes DEF Stages
<1>4. Slices
  BY DEF Slices
<1>5. Ledger
  BY ReportsTypes DEF Ledger, Disjoint
<1>6. Sending
  BY <1>2 DEF Sending
<1>7. Channel
  BY <1>2 DEF Channel, Distinct
<1>8. Ending
  BY DEF Ending
<1> QED
  BY <1>1, <1>3, <1>4, <1>5, <1>6, <1>7, <1>8 DEF IInv

-----------------------------------------------------------------------------
(* Types.                                                                  *)

LEMMA TypeStep == TypeOK /\ Stages /\ [Next]_vars => TypeOK'
<1> SUFFICES ASSUME TypeOK, Stages, [Next]_vars PROVE TypeOK'
  OBVIOUS
<1> USE DEF workerVars, pathVars
<1>1. ASSUME NEW p \in Paths, FanOut(p) PROVE TypeOK'
  BY <1>1 DEF TypeOK, FanOut, Goto
<1>2. ASSUME NEW w \in Workers, Scan(w) PROVE TypeOK'
  BY <1>2, ReportsTypes DEF TypeOK, Scan
<1>3. ASSUME NEW w \in Workers, Lock(w) PROVE TypeOK'
  BY <1>3, ReportsTypes DEF TypeOK, Lock
<1>4. ASSUME NEW w \in Workers, AppendFound(w) PROVE TypeOK'
  <2>1. copy[w] \cup Found[w] \subseteq Findings /\ PathOf[w] \in Fanned
    BY ReportsTypes DEF TypeOK
  <2> QED
    BY <1>4, <2>1 DEF TypeOK, AppendFound
<1>5. ASSUME NEW p \in Paths, WorkersDone(p) PROVE TypeOK'
  BY <1>5 DEF TypeOK, WorkersDone, Goto, Stages, Paths
<1>6. CASE SelectSurfaces
  BY <1>6, ReportsTypes DEF TypeOK, SelectSurfaces, Goto
<1>7. CASE Enrich
  BY <1>7, ReportsTypes DEF TypeOK, Enrich, Goto
<1>8. CASE CheckCrypto
  BY <1>8, ReportsTypes DEF TypeOK, CheckCrypto, Goto
<1>9. CASE Analyse
  BY <1>9, ReportsTypes DEF TypeOK, Analyse, Goto
<1>10. ASSUME NEW p \in Paths, Send(p) PROVE TypeOK'
  <2>1. PICK f \in out[p] : chan' = Append(chan, f) /\ out' = [out EXCEPT ![p] = @ \ {f}]
    BY <1>10 DEF Send
  <2>2. f \in Findings /\ out[p] \ {f} \subseteq Findings
    BY <2>1 DEF TypeOK
  <2>3. chan' \in Seq(Findings) /\ Len(chan') = Len(chan) + 1 /\ Len(chan) \in Nat
    BY <2>1, <2>2 DEF TypeOK
  <2>4. Len(chan') <= Cap
    BY <1>10, <2>3, PathsAssumption DEF Send
  <2> QED
    BY <1>10, <2>1, <2>2, <2>3, <2>4 DEF TypeOK, Send
<1>11. ASSUME NEW p \in Paths, PathReturns(p) PROVE TypeOK'
  BY <1>11 DEF TypeOK, PathReturns, Goto
<1>12. CASE Close \/ Finish \/ UNCHANGED vars
  BY <1>12 DEF TypeOK, Close, Finish, vars
<1>13. CASE Receive
  <2>1. /\ chan' \in Seq(Findings) /\ Len(chan') < Len(chan) /\ Head(chan) \in Findings
        /\ Len(chan) \in Nat /\ Len(chan') \in Nat
    BY <1>13, ElemsTail DEF TypeOK, Receive
  <2>2. Len(chan') <= Cap
    BY <2>1, PathsAssumption DEF TypeOK
  <2> QED
    BY <1>13, <2>1, <2>2 DEF TypeOK, Receive
<1> QED
  BY <1>1, <1>2, <1>3, <1>4, <1>5, <1>6, <1>7, <1>8, <1>9, <1>10, <1>11, <1>12, <1>13
  DEF Next, Worker, Path, Reasoning, Main, Finished

-----------------------------------------------------------------------------
(* What the steps do to what was sent.                                     *)

LEMMA SendShape ==
  ASSUME TypeOK, Channel, NEW p \in Paths, Send(p)
  PROVE  \E f \in out[p] :
           /\ f \in Findings /\ out' = [out EXCEPT ![p] = out[p] \ {f}]
           /\ Elems(chan') = Elems(chan) \cup {f} /\ Sent' = Sent \cup {f}
           /\ f \notin Sent => Distinct(chan')
<1>1. PICK f \in out[p] : chan' = Append(chan, f) /\ out' = [out EXCEPT ![p] = @ \ {f}]
  BY DEF Send
<1>2. f \in Findings /\ chan \in Seq(Findings) /\ got' = got
  BY DEF TypeOK, Send
<1>3. /\ Elems(chan') = Elems(chan) \cup {f}
      /\ Distinct(chan) /\ f \notin Elems(chan) => Distinct(chan')
  BY <1>1, <1>2, ElemsAppend
<1>4. Sent' = Sent \cup {f}
  BY <1>2, <1>3 DEF Sent
<1>5. f \notin Sent => Distinct(chan')
  BY <1>3 DEF Sent, Channel
<1> QED
  BY <1>1, <1>2, <1>3, <1>4, <1>5

LEMMA ReceiveShape ==
  ASSUME TypeOK, Channel, Receive
  PROVE  /\ Head(chan) \in Findings /\ got[Head(chan)] = 0 /\ Head(chan) \in Sent
         /\ got' = [got EXCEPT ![Head(chan)] = 1]
         /\ Elems(chan) = Elems(chan') \cup {Head(chan)} /\ Head(chan) \notin Elems(chan')
         /\ Distinct(chan') /\ Sent' = Sent
<1> DEFINE f == Head(chan)
<1>1. chan # <<>> /\ chan' = Tail(chan) /\ chan \in Seq(Findings)
  BY DEF Receive, TypeOK
<1>2. /\ f \in Findings /\ Elems(chan) = Elems(chan') \cup {f}
      /\ Distinct(chan') /\ f \notin Elems(chan')
  BY <1>1, ElemsTail DEF Channel
<1>3. got[f] = 0 /\ got' = [got EXCEPT ![f] = 1]
  <2>1. got[f] = 0
    BY <1>2 DEF Channel
  <2>2. got' = [got EXCEPT ![f] = got[f] + 1]
    BY DEF Receive
  <2> QED
    BY <2>1, <2>2
<1>4. f \in Sent
  BY <1>2 DEF Sent
<1>5. {g \in Findings : got'[g] = 1} = {g \in Findings : got[g] = 1} \cup {f}
  BY <1>2, <1>3 DEF TypeOK
<1>6. Sent' = Sent
  <2>1. Sent = Elems(chan) \cup {g \in Findings : got[g] = 1}
    BY DEF Sent
  <2>2. Sent' = Elems(chan') \cup {g \in Findings : got'[g] = 1}
    BY DEF Sent, Elems
  <2> QED
    BY <1>2, <1>5, <2>1, <2>2, Zenon
<1> QED
  BY <1>2, <1>3, <1>4, <1>6

LEMMA SentKept ==
  ASSUME UNCHANGED <<chan, got>>
  PROVE  Sent' = Sent /\ Elems(chan') = Elems(chan) /\ (Distinct(chan) => Distinct(chan'))
BY DEF Sent, Elems, Distinct

-----------------------------------------------------------------------------
(* Stages of the workers and their slices.                                 *)

LEMMA StagesStep == TypeOK /\ Stages /\ [Next]_vars => Stages'
<1> SUFFICES ASSUME TypeOK, Stages, [Next]_vars PROVE Stages'
  OBVIOUS
<1> USE DEF workerVars, pathVars
<1>1. ASSUME NEW p \in Paths, FanOut(p) PROVE Stages'
  <2>1. pc[p] = "start" /\ p \in Fanned /\ p # "reasoning" /\ "reasoning" \in Paths
    BY <1>1, ReportsTypes DEF FanOut
  <2>2. CASE /\ pc' = [pc EXCEPT ![p] = "wait"]
             /\ \E E \in SUBSET {w \in Workers : PathOf[w] = p} :
                  worker' = [w \in Workers |-> IF PathOf[w] # p THEN worker[w]
                                               ELSE IF w \in E THEN "scan" ELSE "done"]
    BY <2>1, <2>2, ReportsTypes DEF Stages, TypeOK
  <2>3. CASE pc' = [pc EXCEPT ![p] = "done"] /\ worker' = worker
    BY <2>1, <2>3, ReportsTypes DEF Stages, TypeOK
  <2> QED
    BY <1>1, <2>2, <2>3 DEF FanOut, Goto
<1>2. ASSUME NEW w \in Workers, Worker(w) PROVE Stages'
  BY <1>2 DEF Worker, Scan, Lock, AppendFound, Stages, TypeOK
<1>3. ASSUME NEW p \in Paths, WorkersDone(p) PROVE Stages'
  BY <1>3, ReportsTypes DEF WorkersDone, Goto, Stages, TypeOK
<1>4. CASE Reasoning
  <2>1. /\ worker' = worker /\ pc["reasoning"] # "wait"
        /\ \E l \in {"enrich", "crypto", "analyse", "send", "done"} : pc' = [pc EXCEPT !["reasoning"] = l]
    BY <1>4 DEF Reasoning, SelectSurfaces, Enrich, CheckCrypto, Analyse, Goto
  <2> QED
    BY <2>1, ReportsTypes DEF Stages, TypeOK
<1>5. ASSUME NEW p \in Paths, PathReturns(p) PROVE Stages'
  BY <1>5, ReportsTypes DEF PathReturns, Goto, Stages, TypeOK
<1>6. ASSUME UNCHANGED <<worker, pc>> PROVE Stages'
  BY <1>6 DEF Stages
<1> QED
  BY <1>1, <1>2, <1>3, <1>4, <1>5, <1>6
  DEF Next, Path, Main, Finished, Send, Close, Receive, Finish, vars

LEMMA SlicesStep == TypeOK /\ Stages /\ Slices /\ [Next]_vars => Slices'
<1> SUFFICES ASSUME TypeOK, Stages, Slices, [Next]_vars PROVE Slices'
  OBVIOUS
<1> USE DEF workerVars, pathVars
<1>1. ASSUME NEW p \in Paths, FanOut(p) PROVE Slices'
  BY <1>1 DEF FanOut, Slices, TypeOK
<1>2. ASSUME NEW w \in Workers, Scan(w) PROVE Slices'
  BY <1>2 DEF Scan, Slices, TypeOK
<1>3. ASSUME NEW w \in Workers, Lock(w) PROVE Slices'
  <2>1. PathOf[w] \in Fanned /\ w # None /\ \A x \in Workers : x # None
    BY PathsAssumption
  <2> QED
    BY <1>3, <2>1 DEF Lock, Slices, TypeOK
<1>4. ASSUME NEW w \in Workers, AppendFound(w) PROVE Slices'
  <2>1. PathOf[w] \in Fanned
    BY PathsAssumption
  <2> QED
    BY <1>4, <2>1 DEF AppendFound, Slices, TypeOK
<1>5. ASSUME UNCHANGED <<worker, copy, mu, buf>> PROVE Slices'
  BY <1>5 DEF Slices
<1> QED
  BY <1>1, <1>2, <1>3, <1>4, <1>5
  DEF Next, Worker, Path, Reasoning, Main, Finished, WorkersDone, SelectSurfaces, Enrich,
      CheckCrypto, Analyse, Send, PathReturns, Close, Receive, Finish, vars

-----------------------------------------------------------------------------
(* The slices hold what the workers reported.                              *)

LEMMA LedgerStep == TypeOK /\ Stages /\ Slices /\ Ledger /\ [Next]_vars => Ledger'
<1> SUFFICES ASSUME TypeOK, Stages, Slices, Ledger, [Next]_vars PROVE Ledger'
  OBVIOUS
<1> USE DEF workerVars, pathVars
<1>1. ASSUME NEW p \in Paths, FanOut(p) PROVE Ledger'
  <2>1. /\ p \in Fanned /\ p # "reasoning" /\ "reasoning" \in Paths
        /\ \A w \in Workers : PathOf[w] = p => worker[w] = "new"
    BY <1>1, ReportsTypes DEF FanOut, Stages
  <2>2. /\ pc'["reasoning"] = pc["reasoning"] /\ owed' = owed /\ buf' = buf
    BY <1>1, <2>1 DEF FanOut, Goto, TypeOK
  <2>3. \A w \in Workers : \/ worker'[w] = worker[w]
                           \/ worker[w] = "new" /\ worker'[w] \in {"scan", "done"}
    BY <1>1, <2>1 DEF FanOut, TypeOK
  <2> QED
    BY <2>2, <2>3 DEF Ledger
<1>2. ASSUME NEW w \in Workers, Scan(w) PROVE Ledger'
  <2>1. UNCHANGED <<pc, buf>> /\ worker[w] = "scan" /\ \A x \in Workers \ {w} : worker'[x] = worker[x]
    BY <1>2 DEF Scan, TypeOK
  <2>2. CASE worker'[w] = "collect" /\ owed' = owed \cup Found[w]
    <3>1. \A f \in owed' : \E p \in Paths : Reports(p, f)
      BY <2>2, ReportsTypes DEF Ledger
    <3>2. \A x \in Workers : \A f \in Found[x] : f \in owed' <=> f \in owed \/ x = w
      BY <2>2, OneSource
    <3>3. Disjoint(Found[w], Crypto \cup Analysis)
      BY PathsAssumption
    <3> QED
      BY <2>1, <2>2, <3>1, <3>2, <3>3 DEF Ledger, Disjoint
  <2>3. CASE worker'[w] = "done" /\ owed' = owed
    BY <2>1, <2>3 DEF Ledger
  <2> QED
    BY <1>2, <2>2, <2>3 DEF Scan, TypeOK
<1>3. ASSUME NEW w \in Workers, Lock(w) PROVE Ledger'
  BY <1>3 DEF Lock, Ledger, TypeOK
<1>4. ASSUME NEW w \in Workers, AppendFound(w) PROVE Ledger'
  <2> DEFINE p == PathOf[w]
  <2>1. /\ p \in Fanned /\ worker[w] = "append" /\ copy[w] = buf[p]
        /\ UNCHANGED <<pc, owed>>
    BY <1>4, ReportsTypes DEF AppendFound, Slices
  <2>2. /\ buf' = [buf EXCEPT ![p] = buf[p] \cup Found[w]]
        /\ worker' = [worker EXCEPT ![w] = "done"]
    BY <1>4, <2>1 DEF AppendFound
  <2>3. \A x \in Workers : \A f \in Found[x] :
          f \in buf'[PathOf[x]] <=> f \in buf[PathOf[x]] \/ x = w
    BY <2>1, <2>2, OneSource, ReportsTypes DEF TypeOK
  <2>4. \A q \in Fanned : \A f \in buf'[q] : Reports(q, f)
    BY <2>1, <2>2, ReportsTypes DEF TypeOK, Ledger
  <2> QED
    BY <2>1, <2>2, <2>3, <2>4 DEF Ledger, TypeOK
<1>5. ASSUME NEW p \in Paths, WorkersDone(p) \/ PathReturns(p) PROVE Ledger'
  <2>1. /\ UNCHANGED <<worker, buf, owed>>
        /\ \E l \in {"send", "done"} : pc' = [pc EXCEPT ![p] = l]
    BY <1>5 DEF WorkersDone, PathReturns, Goto
  <2> QED
    BY <2>1, ReportsTypes DEF Ledger, TypeOK
<1>6. CASE SelectSurfaces \/ Enrich
  <2>1. /\ UNCHANGED <<worker, buf, owed>> /\ pc["reasoning"] \in {"start", "enrich"}
        /\ pc'["reasoning"] \in {"enrich", "crypto", "done"}
    BY <1>6, ReportsTypes DEF SelectSurfaces, Enrich, Goto, TypeOK
  <2> QED
    BY <2>1 DEF Ledger
<1>7. CASE CheckCrypto
  <2>1. /\ UNCHANGED <<worker, buf>> /\ pc["reasoning"] = "crypto" /\ pc'["reasoning"] = "analyse"
    BY <1>7, ReportsTypes DEF CheckCrypto, Goto, TypeOK
  <2>0. PICK F \in {{}, Crypto} : owed' = owed \cup F
    BY <1>7 DEF CheckCrypto
  <2>2. \A w \in Workers : \A f \in Found[w] : f \in owed' <=> f \in owed
    BY <2>0, OneSource
  <2>3. Disjoint(owed', Analysis)
    BY <2>0, <2>1, OneSource DEF Ledger, Disjoint
  <2>4. \A f \in owed' : \E p \in Paths : Reports(p, f)
    BY <2>0, ReportsTypes DEF Ledger
  <2> QED
    BY <2>1, <2>2, <2>3, <2>4 DEF Ledger
<1>8. CASE Analyse
  <2>1. /\ UNCHANGED <<worker, buf>> /\ pc'["reasoning"] = "send"
    BY <1>8, ReportsTypes DEF Analyse, Goto, TypeOK
  <2>0. PICK F \in SUBSET Analysis : owed' = owed \cup F
    BY <1>8 DEF Analyse
  <2>2. \A w \in Workers : \A f \in Found[w] : f \in owed' <=> f \in owed
    BY <2>0, OneSource
  <2>3. \A f \in owed' : \E p \in Paths : Reports(p, f)
    BY <2>0, ReportsTypes DEF Ledger
  <2> QED
    BY <2>1, <2>2, <2>3 DEF Ledger
<1>9. ASSUME UNCHANGED <<worker, buf, owed, pc>> PROVE Ledger'
  BY <1>9 DEF Ledger
<1> QED
  BY <1>1, <1>2, <1>3, <1>4, <1>5, <1>6, <1>7, <1>8, <1>9
  DEF Next, Worker, Path, Reasoning, Main, Finished, Send, Close, Receive, Finish, vars

-----------------------------------------------------------------------------
(* What is owed is on its way or sent, once.                               *)

LEMMA SendingStep ==
  TypeOK /\ Stages /\ Ledger /\ Sending /\ Channel /\ [Next]_vars => Sending'
<1> SUFFICES ASSUME TypeOK, Stages, Ledger, Sending, Channel, [Next]_vars PROVE Sending'
  OBVIOUS
<1> USE DEF workerVars, pathVars
<1>1. ASSUME NEW p \in Paths, FanOut(p) PROVE Sending'
  <2>1. /\ UNCHANGED <<out, owed, chan, got>> /\ p \in Fanned /\ pc[p] = "start"
        /\ pc' \in {[pc EXCEPT ![p] = "wait"], [pc EXCEPT ![p] = "done"]}
    BY <1>1 DEF FanOut, Goto
  <2>2. \A w \in Workers : PathOf[w] = p => \A f \in Found[w] : f \notin owed
    BY <2>1 DEF Stages, Ledger
  <2>3. \A f \in Findings : Reports(p, f) => f \notin owed
    BY <2>1, <2>2, ReportsTypes DEF Reports
  <2> QED
    BY <2>1, <2>3, SentKept DEF Sending, TypeOK
<1>2. ASSUME NEW w \in Workers, Scan(w) PROVE Sending'
  <2> DEFINE p == PathOf[w]
  <2>1. /\ UNCHANGED <<pc, out, chan, got>> /\ p \in Paths /\ pc[p] = "wait"
        /\ owed' \in {owed, owed \cup Found[w]}
    BY <1>2, ReportsTypes DEF Scan, Stages
  <2>2. ASSUME NEW q \in Paths, NEW f \in Findings, Reports(q, f), f \in owed', f \notin owed
        PROVE  q = p
    BY <2>1, <2>2, ReportsTypes, ReportsUnique
  <2> QED
    BY <2>1, <2>2, SentKept DEF Sending
<1>3. ASSUME NEW p \in Paths, WorkersDone(p) PROVE Sending'
  <2>1. /\ UNCHANGED <<owed, chan, got>> /\ p \in Fanned /\ pc[p] = "wait"
        /\ \A w \in Workers : PathOf[w] = p => worker[w] = "done"
        /\ out' = [out EXCEPT ![p] = buf[p]] /\ pc' = [pc EXCEPT ![p] = "send"]
    BY <1>3 DEF WorkersDone, Goto, Stages, Paths
  <2>2. \A f \in Findings : Reports(p, f) => f \notin Sent /\ (f \in buf[p] <=> f \in owed)
    <3>1. SUFFICES ASSUME NEW f \in Findings, NEW w \in Workers, PathOf[w] = p, f \in Found[w]
                   PROVE  f \notin Sent /\ (f \in buf[p] <=> f \in owed)
      BY <2>1, ReportsTypes DEF Reports
    <3>2. Reports(p, f)
      BY <3>1, ReportsTypes
    <3> QED
      BY <2>1, <3>1, <3>2 DEF Sending, Ledger
  <2>3. \A f \in buf[p] : f \in Findings /\ Reports(p, f)
    BY <2>1 DEF Ledger, TypeOK
  <2> QED
    BY <2>1, <2>2, <2>3, SentKept DEF Sending, TypeOK
<1>4. CASE SelectSurfaces \/ Enrich
  <2>1. /\ UNCHANGED <<out, owed, chan, got>> /\ pc["reasoning"] \in {"start", "enrich"}
        /\ \E l \in {"enrich", "crypto", "done"} : pc' = [pc EXCEPT !["reasoning"] = l]
    BY <1>4 DEF SelectSurfaces, Enrich, Goto
  <2>2. \A f \in Findings : Reports("reasoning", f) => f \notin owed
    BY <2>1, ReportsTypes DEF Ledger, Disjoint, Reports
  <2> QED
    BY <2>1, <2>2, SentKept, ReportsTypes DEF Sending, TypeOK
<1>5. CASE CheckCrypto
  <2>1. /\ UNCHANGED <<chan, got>> /\ pc["reasoning"] = "crypto"
        /\ pc' = [pc EXCEPT !["reasoning"] = "analyse"]
    BY <1>5 DEF CheckCrypto, Goto
  <2>2. PICK F \in {{}, Crypto} : out' = [out EXCEPT !["reasoning"] = F] /\ owed' = owed \cup F
    BY <1>5 DEF CheckCrypto
  <2>3. \A f \in Findings : Reports("reasoning", f) => f \notin owed /\ f \notin Sent
    BY <2>1, ReportsTypes DEF Ledger, Disjoint, Reports, Channel
  <2>4. \A f \in F : f \in Findings /\ Reports("reasoning", f)
    BY ReportsTypes
  <2>5. ASSUME NEW q \in Paths, NEW f \in Findings, Reports(q, f), f \in owed', f \notin owed
        PROVE  q = "reasoning"
    BY <2>2, <2>4, <2>5, ReportsTypes, ReportsUnique
  <2> QED
    BY <2>1, <2>2, <2>3, <2>4, <2>5, SentKept, ReportsTypes DEF Sending, TypeOK
<1>6. CASE Analyse
  <2>1. /\ UNCHANGED <<chan, got>> /\ pc["reasoning"] = "analyse" /\ out["reasoning"] = {}
        /\ pc' = [pc EXCEPT !["reasoning"] = "send"]
    BY <1>6 DEF Analyse, Goto
  <2>2. PICK F \in SUBSET Analysis : out' = [out EXCEPT !["reasoning"] = F] /\ owed' = owed \cup F
    BY <1>6 DEF Analyse
  <2>3. \A f \in F : f \in Findings /\ Reports("reasoning", f) /\ f \notin owed /\ f \notin Sent
    BY <2>1, ReportsTypes DEF Ledger, Disjoint, Channel
  <2>5. ASSUME NEW q \in Paths, NEW f \in Findings, Reports(q, f), f \in owed', f \notin owed
        PROVE  q = "reasoning"
    BY <2>2, <2>3, <2>5, ReportsTypes, ReportsUnique
  <2> QED
    BY <2>1, <2>2, <2>3, <2>5, SentKept, ReportsTypes DEF Sending, TypeOK
<1>7. ASSUME NEW p \in Paths, Send(p) PROVE Sending'
  <2>1. PICK f \in out[p] : /\ f \in Findings /\ out' = [out EXCEPT ![p] = out[p] \ {f}]
                            /\ Sent' = Sent \cup {f}
    BY <1>7, SendShape
  <2>2. UNCHANGED <<pc, owed>> /\ Reports(p, f) /\ f \in owed
    BY <1>7 DEF Send, Sending
  <2>3. \A q \in Paths : Reports(q, f) => q = p
    BY <2>2, ReportsUnique
  <2> QED
    BY <2>1, <2>2, <2>3 DEF Sending, TypeOK
<1>8. ASSUME NEW p \in Paths, PathReturns(p) PROVE Sending'
  BY <1>8, SentKept DEF PathReturns, Goto, Sending, TypeOK
<1>9. CASE Receive
  BY <1>9, ReceiveShape DEF Receive, Sending
<1>10. ASSUME UNCHANGED <<out, owed, chan, got, pc>> PROVE Sending'
  BY <1>10, SentKept DEF Sending
<1> QED
  BY <1>1, <1>2, <1>3, <1>4, <1>5, <1>6, <1>7, <1>8, <1>9, <1>10
  DEF Next, Worker, Path, Reasoning, Main, Finished, Lock, AppendFound, Close, Finish, vars

LEMMA ChannelStep ==
  TypeOK /\ Sending /\ Channel /\ [Next]_vars => Channel'
<1> SUFFICES ASSUME TypeOK, Sending, Channel, [Next]_vars PROVE Channel'
  OBVIOUS
<1> USE DEF workerVars, pathVars
<1>1. ASSUME NEW p \in Paths, Send(p) PROVE Channel'
  <2>1. PICK f \in out[p] : /\ f \in Findings /\ Sent' = Sent \cup {f}
                            /\ Elems(chan') = Elems(chan) \cup {f}
                            /\ f \notin Sent => Distinct(chan')
    BY <1>1, SendShape
  <2>2. f \notin Sent /\ f \in owed /\ UNCHANGED <<owed, got>>
    BY <1>1 DEF Send, Sending
  <2>3. got[f] = 0
    BY <2>1, <2>2 DEF Channel, Sent
  <2> QED
    BY <2>1, <2>2, <2>3 DEF Channel
<1>2. CASE Receive
  <2>1. owed' = owed
    BY <1>2 DEF Receive
  <2> QED
    BY <1>2, <2>1, ReceiveShape DEF Channel, TypeOK
<1>3. ASSUME UNCHANGED <<chan, got>>, owed \subseteq owed' PROVE Channel'
  BY <1>3, SentKept DEF Channel
<1> QED
  BY <1>1, <1>2, <1>3
  DEF Next, Worker, Path, Reasoning, Main, Finished, FanOut, Scan, Lock, AppendFound, WorkersDone,
      SelectSurfaces, Enrich, CheckCrypto, Analyse, PathReturns, Close, Finish, vars

-----------------------------------------------------------------------------
(* Nothing moves behind the end.                                           *)

LEMMA DoneIsQuiet ==
  ASSUME Stages, Sending, GroupDone, Next
  PROVE  UNCHANGED <<pathVars, owed>> /\ (UNCHANGED chan \/ Receive)
<1> USE DEF workerVars, pathVars
<1>1. \A p \in Paths : pc[p] = "done" /\ out[p] = {}
  BY DEF GroupDone, Sending
<1>2. \A w \in Workers : pc[PathOf[w]] = "done" /\ ~Scan(w)
  BY <1>1, ReportsTypes DEF Stages, Scan
<1>3. \A p \in Paths : ~Path(p)
  BY <1>1, ReportsTypes
  DEF Path, FanOut, WorkersDone, Send, PathReturns, Reasoning, SelectSurfaces, Enrich,
      CheckCrypto, Analyse
<1> QED
  BY <1>2, <1>3 DEF Next, Worker, Lock, AppendFound, Close, Main, Receive, Finish, Finished, vars

LEMMA EndingStep == Stages /\ Sending /\ Ending /\ [Next]_vars => Ending'
<1> SUFFICES ASSUME Stages, Sending, Ending, [Next]_vars PROVE Ending'
  OBVIOUS
<1> USE DEF workerVars, pathVars
<1>1. CASE UNCHANGED vars
  BY <1>1 DEF Ending, GroupDone, vars
<1>2. ASSUME Next, GroupDone PROVE Ending'
  <2>1. UNCHANGED <<pc, err>> /\ (UNCHANGED chan \/ Receive)
    BY <1>2, DoneIsQuiet
  <2>2. GroupDone'
    BY <1>2, <2>1 DEF GroupDone
  <2>3. CASE Receive
    BY <2>2, <2>3 DEF Receive, Ending
  <2>4. CASE Finish
    BY <2>2, <2>4 DEF Finish, Ending
  <2>5. ASSUME UNCHANGED <<chan, main>>, closed => closed' PROVE Ending'
    BY <2>1, <2>2, <2>5 DEF Ending
  <2>6. ASSUME ~Receive, ~Finish PROVE UNCHANGED <<chan, main>> /\ (closed => closed')
    BY <1>2, <2>1, <2>6
    DEF Next, Worker, Path, Reasoning, Main, Finished, FanOut, Scan, Lock, AppendFound, WorkersDone,
        SelectSurfaces, Enrich, CheckCrypto, Analyse, Send, PathReturns, Close, vars
  <2> QED
    BY <2>3, <2>4, <2>5, <2>6
<1>3. ASSUME Next, ~GroupDone PROVE Ending'
  <2>1. ~closed /\ main = "range"
    BY <1>3 DEF Ending
  <2>2. closed' = closed /\ main' = main
    BY <1>3, <2>1
    DEF Next, Worker, Path, Reasoning, Main, Finished, FanOut, Scan, Lock, AppendFound, WorkersDone,
        SelectSurfaces, Enrich, CheckCrypto, Analyse, Send, PathReturns, Close, Receive, Finish, vars
  <2> QED
    BY <2>1, <2>2 DEF Ending
<1> QED
  BY <1>1, <1>2, <1>3

LEMMA NextIInv == IInv /\ [Next]_vars => IInv'
BY TypeStep, StagesStep, SlicesStep, LedgerStep, SendingStep, ChannelStep, EndingStep DEF IInv

LEMMA Invariance == Spec => []IInv
BY InitIInv, NextIInv, PTL DEF Spec

-----------------------------------------------------------------------------
(* The theorems.                                                           *)

(* When all paths are done and the channel is drained, what was received    *)
(* is what was owed.                                                        *)
LEMMA DrainedIsOwed ==
  ASSUME IInv, GroupDone, chan = <<>>
  PROVE  \A f \in Findings : got[f] = IF f \in owed THEN 1 ELSE 0
<1> SUFFICES ASSUME NEW f \in Findings PROVE got[f] = IF f \in owed THEN 1 ELSE 0
  OBVIOUS
<1>1. Elems(chan) = {} /\ got[f] \in {0, 1} /\ Sent \subseteq owed
  BY DEF Elems, IInv, Channel
<1>2. f \in Sent <=> got[f] = 1
  BY <1>1 DEF Sent
<1>3. ASSUME f \in owed PROVE f \in Sent
  <2>1. PICK p \in Paths : Reports(p, f)
    BY <1>3 DEF IInv, Ledger
  <2>2. pc[p] = "done" /\ out[p] = {}
    BY DEF GroupDone, IInv, Sending
  <2> QED
    BY <1>3, <2>1, <2>2 DEF IInv, Sending
<1> QED
  BY <1>1, <1>2, <1>3

(***************************************************************************)
(* Workers, paths, slices, channel and counts keep their types             *)
(* (pipeline.go:343-372).                                                  *)
(***************************************************************************)
THEOREM TypeCorrect == Spec => []TypeOK
<1>1. IInv => TypeOK
  BY DEF IInv
<1> QED
  BY <1>1, Invariance, PTL

(***************************************************************************)
(* For any number of workers, findings and places in the channel: a stage  *)
(* that succeeds has handed on every finding exactly once                  *)
(* (pipeline.go:343-372).                                                  *)
(***************************************************************************)
THEOREM EverythingArrivesOnce == Spec => []NothingLostOnSuccess
<1>1. IInv => NothingLostOnSuccess
  <2> SUFFICES ASSUME IInv, main = "ok"
               PROVE  \A f \in Findings : got[f] = IF f \in owed THEN 1 ELSE 0
    BY DEF NothingLostOnSuccess
  <2>1. GroupDone /\ chan = <<>>
    BY DEF IInv, Ending
  <2> QED
    BY <2>1, DrainedIsOwed
<1> QED
  BY <1>1, Invariance, PTL

(***************************************************************************)
(* The channel is closed only when no path has anything left to send, so   *)
(* that no send meets a closed channel (pipeline.go:357-360).              *)
(***************************************************************************)
THEOREM ClosedBehindLastSend == Spec => []CloseAfterLastSend
<1>1. IInv => CloseAfterLastSend
  BY DEF IInv, Ending, Sending, GroupDone, CloseAfterLastSend
<1> QED
  BY <1>1, Invariance, PTL

-----------------------------------------------------------------------------
(* The promise of the stage.                                               *)

Delivered == {f \in Findings : got[f] > 0}
Outcome == IF main = "range" THEN "running" ELSE main

LEMMA PromiseStep == IInv /\ IInv' /\ [Next]_vars => [Promise!Next]_(Promise!vars)
<1> SUFFICES ASSUME IInv, IInv', [Next]_vars PROVE [Promise!Next]_(Promise!vars)
  OBVIOUS
<1> USE DEF workerVars, pathVars
<1>0. TypeOK /\ Stages /\ Ledger /\ Sending /\ Channel /\ Ending
  BY DEF IInv
<1>a. ASSUME UNCHANGED <<owed, got, err, main>> PROVE UNCHANGED (Promise!vars)
  BY <1>a DEF Promise!vars
<1>b. ASSUME ~GroupDone, UNCHANGED <<got, err, main>>, NEW F \in SUBSET Findings, owed' = owed \cup F
      PROVE  Promise!Find
  <2>1. main = "range"
    BY <1>0, <1>b DEF Ending
  <2>2. F \ owed \in SUBSET (Findings \ owed) /\ owed' = owed \cup (F \ owed)
    BY <1>b
  <2> QED
    BY <1>b, <2>1, <2>2 DEF Promise!Find
<1>1. ASSUME NEW w \in Workers, Scan(w) PROVE [Promise!Next]_(Promise!vars)
  <2>1. ~GroupDone /\ UNCHANGED <<got, err, main>>
    BY <1>0, <1>1, ReportsTypes DEF Scan, GroupDone, Stages
  <2>2. \E F \in SUBSET Findings : owed' = owed \cup F
    <3>1. Found[w] \in SUBSET Findings /\ {} \in SUBSET Findings
      BY ReportsTypes
    <3>2. owed' = owed \cup Found[w] \/ owed' = owed \cup {}
      BY <1>1 DEF Scan
    <3> QED
      BY <3>1, <3>2
  <2> QED
    BY <1>b, <2>1, <2>2 DEF Promise!Next
<1>2. CASE CheckCrypto \/ Analyse
  <2>1. ~GroupDone /\ UNCHANGED <<got, err, main>>
    BY <1>2, ReportsTypes DEF CheckCrypto, Analyse, GroupDone
  <2>2. \E F \in SUBSET Findings : owed' = owed \cup F
    BY <1>2, ReportsTypes DEF CheckCrypto, Analyse
  <2> QED
    BY <1>b, <2>1, <2>2 DEF Promise!Next
<1>3. CASE Enrich
  <2>1. ~GroupDone /\ UNCHANGED <<got, owed, main>>
    BY <1>3, ReportsTypes DEF Enrich, GroupDone
  <2>2. main = "range"
    BY <1>0, <2>1 DEF Ending
  <2>3. CASE err' = TRUE
    BY <2>1, <2>2, <2>3 DEF Promise!Next, Promise!Break
  <2>4. CASE err' = err
    BY <1>a, <2>1, <2>4
  <2> QED
    BY <1>3, <2>3, <2>4 DEF Enrich
<1>4. CASE Receive
  <2>1. main = "range" /\ UNCHANGED <<owed, err, main>>
    BY <1>4 DEF Receive
  <2>2. PICK f \in Findings : got[f] = 0 /\ f \in Sent /\ got' = [got EXCEPT ![f] = 1]
    BY <1>0, <1>4, ReceiveShape
  <2>3. f \in owed /\ f \notin Delivered
    BY <1>0, <2>2 DEF Channel, Delivered
  <2>4. {g \in Findings : got'[g] > 0} = Delivered \cup {f}
    BY <1>0, <2>2 DEF TypeOK, Delivered
  <2> QED
    BY <2>1, <2>3, <2>4 DEF Promise!Next, Promise!Deliver, Delivered
<1>5. CASE Finish
  <2>1. /\ GroupDone /\ chan = <<>> /\ main = "range" /\ UNCHANGED <<owed, got, err>>
        /\ main' = IF err THEN "error" ELSE "ok"
    BY <1>5 DEF Finish
  <2>2. Delivered = owed
    BY <1>0, <2>1, DrainedIsOwed DEF Delivered, TypeOK
  <2>3. CASE err
    BY <2>1, <2>3 DEF Promise!Next, Promise!GiveUp
  <2>4. CASE ~err
    BY <2>1, <2>2, <2>4 DEF Promise!Next, Promise!Succeed, Delivered
  <2> QED
    BY <2>3, <2>4
<1> QED
  BY <1>a, <1>1, <1>2, <1>3, <1>4, <1>5
  DEF Next, Worker, Path, Reasoning, Main, Finished, FanOut, Lock, AppendFound, WorkersDone,
      SelectSurfaces, Send, PathReturns, Close, vars

(***************************************************************************)
(* The stage implements Gather, the promise to the stages behind it: each  *)
(* of its steps is a step of the promise or invisible to it                *)
(* (pipeline.go:343-372).                                                  *)
(***************************************************************************)
THEOREM StageImplementsGather == Spec => ImplementsGather
<1>1. Init => Promise!Init
  BY DEF Init, Promise!Init
<1> QED
  BY <1>1, Invariance, PromiseStep, PTL DEF Spec, ImplementsGather, Promise!Spec
=============================================================================
