---------------------------- MODULE JoernClient ----------------------------
(***************************************************************************)
(* The lifecycle of the Joern subprocess: cpg_engine.Client.Start, Stop,   *)
(* the crash watcher goroutine and waitReady, and the pipeline's use of    *)
(* them when the port is taken (startJoern, resolvePortConflict, Close).   *)
(*                                                                         *)
(* Several clients (one per CLI process) compete for the one TCP port.  A  *)
(* caller is a goroutine that calls Start and Stop of its client in any    *)
(* order; the pipeline has one caller per client, the type promises that   *)
(* several are safe.  The subprocess is a JVM behind a wrapper: it binds   *)
(* the port some time after it was spawned, exits when the port is taken,  *)
(* and may exit at any moment.                                             *)
(***************************************************************************)
EXTENDS Naturals, FiniteSets

CONSTANTS
  Clients,  \* cpg_engine.Client values
  Callers,  \* goroutines that call Start and Stop
  ClientOf, \* the client a caller works on
  Procs,    \* bound: subprocesses that can ever be spawned
  None      \* no process, no holder

ASSUME JoernAssumption ==
  /\ ClientOf \in [Callers -> Clients]
  /\ None \notin Procs
  /\ None \notin Callers

VARIABLES
  mu,       \* Client.mu: the caller that holds it, or None
  cmd,      \* Client.cmd: the managed subprocess, or None
  crashed,  \* Client.crashed
  stopping, \* Client.stopping
  pc,       \* where each caller stands; "idle" between calls
  taken,    \* the subprocess a Stop call took out of its client
  proc,     \* life of each subprocess
  spawner,  \* the client that spawned it
  signals,  \* signals sent to it
  watcher,  \* its crash watcher goroutine
  port,     \* the process bound to the port, or None
  owner,    \* the process resolvePortConflict asks the operator about
  attached  \* per caller, the process whose answer ended its last waitReady

clientVars == <<mu, cmd, crashed, stopping>>
callVars   == <<pc, taken, owner, attached>>
procVars   == <<proc, spawner, signals, watcher, port>>
vars       == <<clientVars, callVars, procVars>>

PCs == {"idle", "check", "recheck", "spawn", "ready", "ping", "conflict", "asking",
        "freeing", "mark", "term", "wait", "reap"}

TypeOK ==
  /\ mu \in [Clients -> Callers \cup {None}]
  /\ cmd \in [Clients -> Procs \cup {None}]
  /\ crashed \in [Clients -> BOOLEAN]
  /\ stopping \in [Clients -> BOOLEAN]
  /\ pc \in [Callers -> PCs]
  /\ taken \in [Callers -> Procs \cup {None}]
  /\ proc \in [Procs -> {"unborn", "starting", "listening", "exited"}]
  /\ spawner \in [Procs -> Clients \cup {None}]
  /\ signals \in [Procs -> SUBSET {"TERM", "KILL"}]
  /\ watcher \in [Procs -> {"none", "waiting", "flagged", "done"}]
  /\ port \in Procs \cup {None}
  /\ owner \in [Callers -> Procs \cup {None}]
  /\ attached \in [Callers -> Procs \cup {None}]

Init ==
  /\ mu = [c \in Clients |-> None]
  /\ cmd = [c \in Clients |-> None]
  /\ crashed = [c \in Clients |-> FALSE]
  /\ stopping = [c \in Clients |-> FALSE]
  /\ pc = [k \in Callers |-> "idle"]
  /\ taken = [k \in Callers |-> None]
  /\ proc = [p \in Procs |-> "unborn"]
  /\ spawner = [p \in Procs |-> None]
  /\ signals = [p \in Procs |-> {}]
  /\ watcher = [p \in Procs |-> "none"]
  /\ port = None
  /\ owner = [k \in Callers |-> None]
  /\ attached = [k \in Callers |-> None]

Alive(p) == proc[p] \in {"starting", "listening"}

Goto(k, l) == pc' = [pc EXCEPT ![k] = l]
\* The call of k returns to its caller.
Return(k) == Goto(k, "idle")

-----------------------------------------------------------------------------
(* Client.Start.                                                           *)

\* Takes the mutex; an existing subprocess ends the call.  The second Start is
\* the retry of resolvePortConflict, after the port became free or 15 s passed.
StartLock(k) ==
  LET c == ClientOf[k] IN
  /\ pc[k] \in {"idle", "freeing"}
  /\ mu[c] = None
  /\ \/ /\ cmd[c] # None
        /\ Return(k)
        /\ UNCHANGED <<mu, stopping, attached>>
     \/ /\ cmd[c] = None
        /\ mu' = [mu EXCEPT ![c] = k]
        /\ stopping' = [stopping EXCEPT ![c] = FALSE]
        /\ attached' = [attached EXCEPT ![k] = None]
        /\ Goto(k, IF pc[k] = "idle" THEN "check" ELSE "recheck")
  /\ UNCHANGED <<cmd, crashed, taken, owner, procVars>>

\* checkPortAvailable: the port is only probed, nothing is reserved.  A first
\* ErrPortInUse is resolved, that of the retry is only logged.
StartCheck(k) ==
  LET c == ClientOf[k] IN
  /\ pc[k] \in {"check", "recheck"}
  /\ \/ /\ port # None
        /\ mu' = [mu EXCEPT ![c] = None]
        /\ IF pc[k] = "check" THEN Goto(k, "conflict") ELSE Return(k)
     \/ /\ port = None
        /\ Goto(k, "spawn")
        /\ UNCHANGED mu
  /\ UNCHANGED <<cmd, crashed, stopping, taken, owner, attached, procVars>>

\* cmd.Start, then cmd, done and crashed are set and the mutex released; the
\* crash watcher of the new process starts.
StartSpawn(k) ==
  LET c == ClientOf[k] IN
  /\ pc[k] = "spawn"
  /\ mu' = [mu EXCEPT ![c] = None]
  /\ \/ /\ \E p \in Procs :
             /\ proc[p] = "unborn"
             /\ proc' = [proc EXCEPT ![p] = "starting"]
             /\ spawner' = [spawner EXCEPT ![p] = c]
             /\ watcher' = [watcher EXCEPT ![p] = "waiting"]
             /\ cmd' = [cmd EXCEPT ![c] = p]
        /\ crashed' = [crashed EXCEPT ![c] = FALSE]
        /\ Goto(k, "ready")
     \/ /\ Return(k)
        /\ UNCHANGED <<proc, spawner, watcher, cmd, crashed>>
  /\ UNCHANGED <<stopping, taken, owner, attached, signals, port>>

\* waitReady, top of the loop.
ReadyCheck(k) ==
  /\ pc[k] = "ready"
  /\ IF crashed[ClientOf[k]] THEN Return(k)
                             ELSE Goto(k, "ping")
  /\ UNCHANGED <<clientVars, taken, owner, attached, procVars>>

\* Mutant: a Start that gives up forgets the process it has spawned.
ReadyPingForgets(k) ==
  /\ pc[k] = "ping"
  /\ \/ /\ port # None
        /\ attached' = [attached EXCEPT ![k] = port]
        /\ Return(k)
        /\ UNCHANGED cmd
     \/ /\ Goto(k, "ready")
        /\ UNCHANGED <<cmd, attached>>
     \/ /\ Return(k)
        /\ cmd' = [cmd EXCEPT ![ClientOf[k]] = None]
        /\ UNCHANGED attached
  /\ UNCHANGED <<mu, crashed, stopping, taken, owner, procVars>>

\* One ping of whatever listens on the port; a failed one is retried until the
\* attempts or the context are used up.
ReadyPing(k) ==
  /\ pc[k] = "ping"
  /\ \/ /\ port # None
        /\ attached' = [attached EXCEPT ![k] = port]
        /\ Return(k)
     \/ /\ Goto(k, "ready")
        /\ UNCHANGED attached
     \/ /\ Return(k)
        /\ UNCHANGED attached
  /\ UNCHANGED <<clientVars, taken, owner, procVars>>

-----------------------------------------------------------------------------
(* Pipeline.resolvePortConflict.                                           *)

\* Mutant: pid 0, the answer for an unidentified owner, is not told apart.
FindOwnerUnchecked(k) ==
  /\ pc[k] = "conflict"
  /\ owner' = [owner EXCEPT ![k] = IF port = None THEN 0 ELSE port]
  /\ Goto(k, "asking")
  /\ UNCHANGED <<clientVars, taken, attached, procVars>>

\* The owner of the port is looked up and the operator is asked about it.
FindOwner(k) ==
  /\ pc[k] = "conflict"
  /\ \/ /\ Return(k)
        /\ UNCHANGED owner
     \/ /\ port # None
        /\ owner' = [owner EXCEPT ![k] = port]
        /\ Goto(k, "asking")
  /\ UNCHANGED <<clientVars, taken, attached, procVars>>

\* The operator declines, or the process gets a SIGTERM if it still exists.
KillOwner(k) ==
  /\ pc[k] = "asking"
  /\ owner' = [owner EXCEPT ![k] = None]
  /\ \/ /\ Return(k)
        /\ UNCHANGED signals
     \/ /\ Alive(owner[k])
        /\ signals' = [signals EXCEPT ![owner[k]] = @ \cup {"TERM"}]
        /\ Goto(k, "freeing")
  /\ UNCHANGED <<clientVars, taken, attached, proc, spawner, watcher, port>>

-----------------------------------------------------------------------------
(* Client.Stop.                                                            *)

\* Mutant: the process stays in the client while it is being stopped.
StopTakeKeeps(k) ==
  LET c == ClientOf[k] IN
  /\ pc[k] = "idle"
  /\ mu[c] = None
  /\ IF cmd[c] = None
       THEN Return(k) /\ UNCHANGED <<taken, attached>>
       ELSE /\ taken' = [taken EXCEPT ![k] = cmd[c]]
            /\ attached' = [attached EXCEPT ![k] = None]
            /\ Goto(k, "mark")
  /\ UNCHANGED <<clientVars, owner, procVars>>

\* Under the mutex: takes the process out of the client.
StopTake(k) ==
  LET c == ClientOf[k] IN
  /\ pc[k] = "idle"
  /\ mu[c] = None
  /\ IF cmd[c] = None
       THEN Return(k) /\ UNCHANGED <<cmd, taken, attached>>
       ELSE /\ taken' = [taken EXCEPT ![k] = cmd[c]]
            /\ attached' = [attached EXCEPT ![k] = None]
            /\ cmd' = [cmd EXCEPT ![c] = None]
            /\ Goto(k, "mark")
  /\ UNCHANGED <<mu, crashed, stopping, owner, procVars>>

\* Outside the mutex: announces an intentional stop.
StopMark(k) ==
  /\ pc[k] = "mark"
  /\ stopping' = [stopping EXCEPT ![ClientOf[k]] = TRUE]
  /\ Goto(k, "term")
  /\ UNCHANGED <<mu, cmd, crashed, taken, owner, attached, procVars>>

StopTerm(k) ==
  /\ pc[k] = "term"
  /\ signals' = [signals EXCEPT ![taken[k]] = @ \cup {"TERM"}]
  /\ Goto(k, "wait")
  /\ UNCHANGED <<clientVars, taken, owner, attached, proc, spawner, watcher, port>>

\* Mutant: Stop does not wait again behind SIGKILL.
StopReturnEarly(k) ==
  /\ pc[k] \in {"wait", "reap"}
  /\ pc[k] = "reap" \/ watcher[taken[k]] = "done"
  /\ taken' = [taken EXCEPT ![k] = None]
  /\ Return(k)
  /\ UNCHANGED <<clientVars, owner, attached, procVars>>

\* Mutant: Stop waits for the process itself, not for its watcher.
StopReturnOnExit(k) ==
  /\ pc[k] \in {"wait", "reap"}
  /\ proc[taken[k]] = "exited"
  /\ taken' = [taken EXCEPT ![k] = None]
  /\ Return(k)
  /\ UNCHANGED <<clientVars, owner, attached, procVars>>

\* The watcher has closed done: Stop returns nil.
StopReturn(k) ==
  /\ pc[k] \in {"wait", "reap"}
  /\ watcher[taken[k]] = "done"
  /\ taken' = [taken EXCEPT ![k] = None]
  /\ Return(k)
  /\ UNCHANGED <<clientVars, owner, attached, procVars>>

\* Mutant: a second SIGTERM in place of SIGKILL.
StopKillPolitely(k) ==
  /\ pc[k] = "wait"
  /\ signals' = [signals EXCEPT ![taken[k]] = @ \cup {"TERM"}]
  /\ Goto(k, "reap")
  /\ UNCHANGED <<clientVars, taken, owner, attached, proc, spawner, watcher, port>>

\* The stop timeout or the context ends first: SIGKILL.
StopKill(k) ==
  /\ pc[k] = "wait"
  /\ signals' = [signals EXCEPT ![taken[k]] = @ \cup {"KILL"}]
  /\ Goto(k, "reap")
  /\ UNCHANGED <<clientVars, taken, owner, attached, proc, spawner, watcher, port>>

-----------------------------------------------------------------------------
(* The crash watcher of p, and the life of p itself.                       *)

\* Mutant: an exit after Start has returned with success is no crash.
WatcherFlagBeforeReady(p) ==
  /\ watcher[p] = "waiting"
  /\ proc[p] = "exited"
  /\ crashed' = [crashed EXCEPT ![spawner[p]] =
                   @ \/ \A k \in Callers : ClientOf[k] = spawner[p] => attached[k] = None]
  /\ watcher' = [watcher EXCEPT ![p] = "flagged"]
  /\ UNCHANGED <<mu, cmd, stopping, callVars, proc, spawner, signals, port>>

\* Mutant: an exit behind a SIGTERM is taken for an orderly stop.
WatcherFlagUnlessTold(p) ==
  /\ watcher[p] = "waiting"
  /\ proc[p] = "exited"
  /\ crashed' = [crashed EXCEPT ![spawner[p]] = @ \/ signals[p] = {}]
  /\ watcher' = [watcher EXCEPT ![p] = "flagged"]
  /\ UNCHANGED <<mu, cmd, stopping, callVars, proc, spawner, signals, port>>

\* cmd.Wait has returned: the flag of the client is raised.
WatcherFlag(p) ==
  /\ watcher[p] = "waiting"
  /\ proc[p] = "exited"
  /\ crashed' = [crashed EXCEPT ![spawner[p]] = TRUE]
  /\ watcher' = [watcher EXCEPT ![p] = "flagged"]
  /\ UNCHANGED <<mu, cmd, stopping, callVars, proc, spawner, signals, port>>

\* The exit has been logged and done is closed.
WatcherDone(p) ==
  /\ watcher[p] = "flagged"
  /\ watcher' = [watcher EXCEPT ![p] = "done"]
  /\ UNCHANGED <<clientVars, callVars, proc, spawner, signals, port>>

\* The JVM binds the port, or finds it taken and exits.
Bind(p) ==
  /\ proc[p] = "starting"
  /\ IF port = None
       THEN port' = p /\ proc' = [proc EXCEPT ![p] = "listening"]
       ELSE proc' = [proc EXCEPT ![p] = "exited"] /\ UNCHANGED port
  /\ UNCHANGED <<clientVars, callVars, spawner, signals, watcher>>

\* A crash, or the effect of a signal.
Exit(p) ==
  /\ Alive(p)
  /\ proc' = [proc EXCEPT ![p] = "exited"]
  /\ port' = IF port = p THEN None ELSE port
  /\ UNCHANGED <<clientVars, callVars, spawner, signals, watcher>>

-----------------------------------------------------------------------------
StartStep(k) == StartLock(k) \/ StartCheck(k) \/ StartSpawn(k) \/ ReadyCheck(k) \/ ReadyPing(k)
                \/ FindOwner(k) \/ KillOwner(k)
StopStep(k) == StopTake(k) \/ StopMark(k) \/ StopTerm(k) \/ StopReturn(k) \/ StopKill(k)
Watcher(p) == WatcherFlag(p) \/ WatcherDone(p)

Next ==
  \/ \E k \in Callers : StartStep(k) \/ StopStep(k)
  \/ \E p \in Procs : Watcher(p) \/ Bind(p) \/ Exit(p)

Spec == Init /\ [][Next]_vars

\* Goroutines are scheduled, a spawned JVM gets to its bind, SIGKILL works, and
\* the timer of Stop fires.  Nothing says that a SIGTERM is obeyed.
Fairness ==
  /\ \A p \in Procs : /\ WF_vars(Watcher(p))
                      /\ WF_vars(Bind(p))
                      /\ WF_vars("KILL" \in signals[p] /\ Exit(p))
  /\ \A k \in Callers : WF_vars(StopMark(k) \/ StopTerm(k) \/ StopReturn(k) \/ StopKill(k))

FairSpec == Spec /\ Fairness

-----------------------------------------------------------------------------
(* Properties.                                                             *)

(* No subprocess is orphaned: one that is alive is the managed process of   *)
(* the client that spawned it, or is held by a Stop call that will wait for *)
(* its exit (Start's "Callers must call Stop", whatever Start returned).    *)
NoOrphan ==
  \A p \in Procs : Alive(p) =>
    \/ cmd[spawner[p]] = p
    \/ \E k \in Callers : taken[k] = p /\ pc[k] \in {"mark", "term", "wait", "reap"}

(* Two owners never share a subprocess: what a Stop call took is no longer  *)
(* managed by any client and not held by another Stop call, so no signal is *)
(* sent to the process of a later Start.                                    *)
ExclusiveStop ==
  \A k \in Callers : taken[k] # None =>
    /\ \A c \in Clients : cmd[c] # taken[k]
    /\ \A j \in Callers \ {k} : taken[j] # taken[k]

(* Stop returns nil only when the process it stopped has exited and freed   *)
(* the port, by SIGTERM or by SIGKILL.                                      *)
StopReapsProcess ==
  [][\A k \in Callers : taken[k] # None /\ taken'[k] = None
       => proc[taken[k]] = "exited" /\ port # taken[k]]_vars

(* The crash flag is about the process the client manages: while one is     *)
(* managed and no Start is under way, the flag is raised only after that    *)
(* process exited.  Otherwise every query fails on a healthy server.        *)
CrashFlagHonest ==
  \A c \in Clients : cmd[c] # None /\ crashed[c] => proc[cmd[c]] = "exited"

(* The inductive strengthening of TypeOK, NoOrphan and ExclusiveStop (proved *)
(* in JoernClientProofs): a Start that holds the mutex sees no managed      *)
(* process, a process managed or held belongs to the client that spawned    *)
(* it, and a process whose watcher is not done is managed or held.          *)
Stopping(k) == pc[k] \in {"mark", "term", "wait", "reap"}

MutexHeld ==
  \A k \in Callers : pc[k] \in {"check", "recheck", "spawn"} =>
    mu[ClientOf[k]] = k /\ cmd[ClientOf[k]] = None

Belongs ==
  /\ \A c \in Clients : cmd[c] # None => spawner[cmd[c]] = c /\ watcher[cmd[c]] # "none"
  /\ \A k \in Callers :
       /\ taken[k] # None <=> Stopping(k)
       /\ taken[k] # None => spawner[taken[k]] = ClientOf[k] /\ watcher[taken[k]] # "none"

Watched ==
  \A p \in Procs :
    /\ watcher[p] = "none" <=> proc[p] = "unborn"
    /\ watcher[p] \in {"flagged", "done"} => proc[p] = "exited"
    /\ port = p => proc[p] = "listening"
    /\ watcher[p] \in {"waiting", "flagged"} =>
         /\ spawner[p] \in Clients
         /\ cmd[spawner[p]] = p \/ \E k \in Callers : taken[k] = p

IInv == TypeOK /\ MutexHeld /\ Belongs /\ Watched /\ ExclusiveStop

(* With one caller per client, as in the pipeline, a client has no managed  *)
(* process while its caller is stopping the previous one.                   *)
OneAtATime == \A k \in Callers : Stopping(k) => cmd[ClientOf[k]] = None

(* Stop always returns: a process that ignores SIGTERM is killed.           *)
StopTerminates ==
  \A k \in Callers : taken[k] # None ~> taken[k] = None

(* A Start that was answered by another process's server (the port is       *)
(* probed before the JVM binds it) does not stay unnoticed: the client's    *)
(* own JVM binds, or its failure raises the crash flag, or it is stopped.   *)
ForeignServerNoticed ==
  \A k \in Callers :
    LET c == ClientOf[k] IN
    (attached[k] # None /\ cmd[c] # None /\ attached[k] # cmd[c])
      ~> (crashed[c] \/ cmd[c] = None \/ port = cmd[c])
(* A scan whose server another scan's operator has killed (portmgr.go:64-65 *)
(* asks about a pid, not about whose it is) gets to know: once that server  *)
(* has exited its own client raises the crash flag, which ends calls in     *)
(* flight, or stops it.  Only an operator signals a managed process, see    *)
(* ExclusiveStop.                                                           *)
KilledServerNoticed ==
  \A p \in Procs :
    LET Hit == spawner[p] # None /\ cmd[spawner[p]] = p /\ signals[p] # {} IN
    (Hit /\ proc[p] = "exited") ~> (~Hit \/ crashed[spawner[p]])
=============================================================================
