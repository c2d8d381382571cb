--------------------------- MODULE DetectionPaths ---------------------------
(***************************************************************************)
(* The concurrent detection stage of Pipeline.StartScanProcess: three      *)
(* goroutines of one errgroup (runDeterministic, runReasoning and the      *)
(* orchestrator) send findings into a bounded channel, a closer goroutine  *)
(* closes it once the group is done, and the main goroutine ranges over it *)
(* and then asks the group for its error.                                  *)
(*                                                                         *)
(* Two of the paths fan out themselves: runDeterministic into the taint    *)
(* analysis and OpenGrep, Engine.Run into one goroutine per scanner.  These *)
(* workers append to a slice under a mutex; the path sends the slice when  *)
(* all of them are done.  An append is a read of the slice header and a    *)
(* write of it.                                                            *)
(***************************************************************************)
EXTENDS Naturals, Sequences

CONSTANTS
  Findings, \* findings that can come up in one scan
  Workers,  \* goroutines of the fanned-out paths
  PathOf,   \* the path a worker belongs to
  Found,    \* per worker, what it reports when it succeeds
  Crypto,   \* what the crypto check of the reasoning path reports
  Analysis, \* what the contract and LLM analysis can report
  Cap,      \* capacity of findCh
  None      \* nobody holds the mutex

Fanned == {"deterministic", "orchestrator"}
Paths == Fanned \cup {"reasoning"}

Disjoint(S, T) == S \cap T = {}

ASSUME PathsAssumption ==
  /\ PathOf \in [Workers -> Fanned]
  /\ Found \in [Workers -> SUBSET Findings]
  /\ Crypto \subseteq Findings
  /\ Analysis \subseteq Findings
  /\ Disjoint(Crypto, Analysis)
  /\ \A w \in Workers :
       /\ Disjoint(Found[w], Crypto \cup Analysis)
       /\ \A x \in Workers \ {w} : Disjoint(Found[w], Found[x])
  /\ Cap \in Nat \ {0}
  /\ None \notin Workers

VARIABLES
  worker, \* where each worker stands
  copy,   \* the slice header a worker has read
  mu,     \* holder of the mutex of each fanned-out path
  buf,    \* rawBuf of runDeterministic, all of Engine.Run
  pc,     \* where each path stands
  out,    \* findings a path is about to send
  chan,   \* findCh
  closed, \* findCh is closed
  err,    \* the error of the errgroup
  main,   \* the main goroutine: "range", "ok" or "error"
  got,    \* allFindings: how often each finding was received
  owed    \* history: all that workers and reasoning came up with

workerVars == <<worker, copy, mu, buf>>
pathVars   == <<pc, out, err>>
vars       == <<workerVars, pathVars, chan, closed, main, got, owed>>

TypeOK ==
  /\ worker \in [Workers -> {"new", "scan", "collect", "append", "done"}]
  /\ copy \in [Workers -> SUBSET Findings]
  /\ mu \in [Fanned -> Workers \cup {None}]
  /\ buf \in [Fanned -> SUBSET Findings]
  /\ pc \in [Paths -> {"start", "enrich", "crypto", "analyse", "wait", "send", "done"}]
  /\ out \in [Paths -> SUBSET Findings]
  /\ chan \in Seq(Findings) /\ Len(chan) <= Cap
  /\ closed \in BOOLEAN
  /\ err \in BOOLEAN
  /\ main \in {"range", "ok", "error"}
  /\ got \in [Findings -> Nat]
  /\ owed \subseteq Findings

Init ==
  /\ worker = [w \in Workers |-> "new"]
  /\ copy = [w \in Workers |-> {}]
  /\ mu = [p \in Fanned |-> None]
  /\ buf = [p \in Fanned |-> {}]
  /\ pc = [p \in Paths |-> "start"]
  /\ out = [p \in Paths |-> {}]
  /\ chan = <<>>
  /\ closed = FALSE
  /\ err = FALSE
  /\ main = "range"
  /\ got = [f \in Findings |-> 0]
  /\ owed = {}

Goto(p, l) == pc' = [pc EXCEPT ![p] = l]

-----------------------------------------------------------------------------
(* The fanned-out paths and their workers.                                 *)

\* Spawns the workers: both of runDeterministic, the scanners that support the
\* stack of Engine.Run.  A failing stack detection only leaves a warning.
FanOut(p) ==
  /\ pc[p] = "start"
  /\ p \in Fanned
  /\ \/ /\ \E E \in SUBSET {w \in Workers : PathOf[w] = p} :
             /\ p = "deterministic" => \A w \in Workers : PathOf[w] = p => w \in E
             /\ worker' = [w \in Workers |->
                             IF PathOf[w] # p THEN worker[w]
                             ELSE IF w \in E THEN "scan" ELSE "done"]
        /\ Goto(p, "wait")
     \/ /\ p = "orchestrator"
        /\ Goto(p, "done")
        /\ UNCHANGED worker
  /\ UNCHANGED <<copy, mu, buf, out, err, chan, closed, main, got, owed>>

\* The analysis succeeds, or fails (or has nothing to do) and is skipped.
Scan(w) ==
  /\ worker[w] = "scan"
  /\ \/ /\ worker' = [worker EXCEPT ![w] = "collect"]
        /\ owed' = owed \cup Found[w]
     \/ /\ worker' = [worker EXCEPT ![w] = "done"]
        /\ UNCHANGED owed
  /\ UNCHANGED <<copy, mu, buf, pathVars, chan, closed, main, got>>

\* Mutant: the slice is read outside the mutex.
LockFree(w) ==
  /\ worker[w] = "collect"
  /\ copy' = [copy EXCEPT ![w] = buf[PathOf[w]]]
  /\ worker' = [worker EXCEPT ![w] = "append"]
  /\ UNCHANGED <<mu, buf, pathVars, chan, closed, main, got, owed>>

\* Takes the mutex and reads the slice.
Lock(w) ==
  /\ worker[w] = "collect"
  /\ mu[PathOf[w]] = None
  /\ mu' = [mu EXCEPT ![PathOf[w]] = w]
  /\ copy' = [copy EXCEPT ![w] = buf[PathOf[w]]]
  /\ worker' = [worker EXCEPT ![w] = "append"]
  /\ UNCHANGED <<buf, pathVars, chan, closed, main, got, owed>>

\* Mutant: an early return behind the first finding keeps the mutex.
AppendFoundKeepsLock(w) ==
  /\ worker[w] = "append"
  /\ buf' = [buf EXCEPT ![PathOf[w]] = copy[w] \cup Found[w]]
  /\ mu' = [mu EXCEPT ![PathOf[w]] = IF copy[w] = {} THEN w ELSE None]
  /\ worker' = [worker EXCEPT ![w] = "done"]
  /\ UNCHANGED <<copy, pathVars, chan, closed, main, got, owed>>

\* Writes the slice and releases the mutex.
AppendFound(w) ==
  /\ worker[w] = "append"
  /\ buf' = [buf EXCEPT ![PathOf[w]] = copy[w] \cup Found[w]]
  /\ mu' = [mu EXCEPT ![PathOf[w]] = None]
  /\ worker' = [worker EXCEPT ![w] = "done"]
  /\ UNCHANGED <<copy, pathVars, chan, closed, main, got, owed>>

\* All workers are done: the slice is what the path sends.
WorkersDone(p) ==
  /\ pc[p] = "wait"
  /\ \A w \in Workers : PathOf[w] = p => worker[w] = "done"
  /\ out' = [out EXCEPT ![p] = buf[p]]
  /\ Goto(p, "send")
  /\ UNCHANGED <<workerVars, err, chan, closed, main, got, owed>>

-----------------------------------------------------------------------------
(* runReasoning.                                                           *)

\* Without surfaces (no CPG, none selected) the path ends at once.
SelectSurfaces ==
  /\ pc["reasoning"] = "start"
  /\ Goto("reasoning", "enrich") \/ Goto("reasoning", "done")
  /\ UNCHANGED <<workerVars, out, err, chan, closed, main, got, owed>>

\* The only error a path returns; nothing has been sent by this path then.
Enrich ==
  /\ pc["reasoning"] = "enrich"
  /\ \/ Goto("reasoning", "crypto") /\ UNCHANGED err
     \/ Goto("reasoning", "done") /\ err' = TRUE
  /\ UNCHANGED <<workerVars, out, chan, closed, main, got, owed>>

\* Findings of the crypto check, none if it fails.
CheckCrypto ==
  /\ pc["reasoning"] = "crypto"
  /\ \E F \in {{}, Crypto} :
       /\ out' = [out EXCEPT !["reasoning"] = F]
       /\ owed' = owed \cup F
  /\ Goto("reasoning", "analyse")
  /\ UNCHANGED <<workerVars, err, chan, closed, main, got>>

\* Contract check, triage and LLM analysis, when the crypto findings are out.
Analyse ==
  /\ pc["reasoning"] = "analyse"
  /\ out["reasoning"] = {}
  /\ \E F \in SUBSET Analysis :
       /\ out' = [out EXCEPT !["reasoning"] = F]
       /\ owed' = owed \cup F
  /\ Goto("reasoning", "send")
  /\ UNCHANGED <<workerVars, err, chan, closed, main, got>>

-----------------------------------------------------------------------------
(* The channel.                                                            *)

\* One send; it blocks while the channel is full.
Send(p) ==
  /\ Len(chan) < Cap
  /\ \E f \in out[p] :
       /\ chan' = Append(chan, f)
       /\ out' = [out EXCEPT ![p] = @ \ {f}]
  /\ UNCHANGED <<workerVars, pc, err, closed, main, got, owed>>

PathReturns(p) ==
  /\ pc[p] = "send"
  /\ out[p] = {}
  /\ Goto(p, "done")
  /\ UNCHANGED <<workerVars, out, err, chan, closed, main, got, owed>>

\* Mutant: the closer waits for the fanned-out paths only.
GroupDoneFanned == \A p \in Fanned : pc[p] = "done"

\* All goroutines of the errgroup have returned.
GroupDone == \A p \in Paths : pc[p] = "done"

\* The closer goroutine: g.Wait, then close.
Close ==
  /\ GroupDone
  /\ ~closed
  /\ closed' = TRUE
  /\ UNCHANGED <<workerVars, pathVars, chan, main, got, owed>>

\* The range loop of the main goroutine takes one finding.
Receive ==
  /\ main = "range"
  /\ chan # <<>>
  /\ got' = [got EXCEPT ![Head(chan)] = @ + 1]
  /\ chan' = Tail(chan)
  /\ UNCHANGED <<workerVars, pathVars, closed, main, owed>>

\* Mutant: the group's error is not looked at.
FinishIgnoringError ==
  /\ main = "range"
  /\ closed
  /\ chan = <<>>
  /\ GroupDone
  /\ main' = "ok"
  /\ UNCHANGED <<workerVars, pathVars, chan, closed, got, owed>>

\* The loop ends on a closed, drained channel; the group's error decides.
Finish ==
  /\ main = "range"
  /\ closed
  /\ chan = <<>>
  /\ GroupDone
  /\ main' = IF err THEN "error" ELSE "ok"
  /\ UNCHANGED <<workerVars, pathVars, chan, closed, got, owed>>

\* The stage is over.
Finished == main # "range" /\ UNCHANGED vars

-----------------------------------------------------------------------------
Worker(w) == Scan(w) \/ Lock(w) \/ AppendFound(w)
Reasoning == SelectSurfaces \/ Enrich \/ CheckCrypto \/ Analyse
Path(p) == FanOut(p) \/ WorkersDone(p) \/ Send(p) \/ PathReturns(p)
           \/ (p = "reasoning" /\ Reasoning)
Main == Receive \/ Finish

Next ==
  \/ \E w \in Workers : Worker(w)
  \/ \E p \in Paths : Path(p)
  \/ Close
  \/ Main
  \/ Finished

Spec == Init /\ [][Next]_vars

\* The Go scheduler runs every goroutine that can run, and every analysis returns.
Fairness ==
  /\ \A w \in Workers : WF_vars(Worker(w))
  /\ \A p \in Paths : WF_vars(Path(p))
  /\ WF_vars(Close)
  /\ WF_vars(Main)

FairSpec == Spec /\ Fairness

-----------------------------------------------------------------------------
(* Properties.                                                             *)

(* A successful stage hands on every finding that came up, exactly once:    *)
(* none is lost in a slice two workers append to, in the channel when it is *)
(* closed, or behind the error of another path.                             *)
NothingLostOnSuccess ==
  main = "ok" => \A f \in Findings : got[f] = IF f \in owed THEN 1 ELSE 0

(* The channel is closed only behind the last send: nobody is left who      *)
(* would panic on a closed channel.                                         *)
CloseAfterLastSend ==
  closed => \A p \in Paths : out[p] = {} /\ pc[p] = "done"

(* The stage always ends: a full channel, a failed path or a mutex never    *)
(* leaves a goroutine waiting for ever.                                     *)
StageEnds == <>(main # "range")

(* The stage implements the promise in module Gather.                       *)
Promise == INSTANCE Gather WITH
  delivered <- {f \in Findings : got[f] > 0},
  broken <- err,
  outcome <- IF main = "range" THEN "running" ELSE main

ImplementsGather == Promise!Spec
=============================================================================
