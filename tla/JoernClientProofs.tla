------------------------- MODULE JoernClientProofs -------------------------
(***************************************************************************)
(* Proofs about JoernClient, for any number of clients, callers per client *)
(* and subprocesses: types, and that the subprocess always has exactly one *)
(* owner who will stop it; and, with one caller per client, that the crash *)
(* flag is about the managed process.                                      *)
(***************************************************************************)
EXTENDS JoernClient, TLAPS

(* Nothing was spawned yet.                                                 *)
LEMMA InitInvariant == Init => IInv /\ CrashFlagHonest /\ OneAtATime
<1> SUFFICES ASSUME Init PROVE IInv /\ CrashFlagHonest /\ OneAtATime
  OBVIOUS
<1> USE JoernAssumption DEF Init
<1>1. TypeOK
  BY DEF TypeOK, PCs
<1>2. MutexHeld /\ Belongs /\ Watched
  BY DEF MutexHeld, Belongs, Watched, Stopping
<1>3. ExclusiveStop /\ CrashFlagHonest /\ OneAtATime
  BY DEF ExclusiveStop, CrashFlagHonest, OneAtATime, Stopping
<1> QED
  BY <1>1, <1>2, <1>3 DEF IInv

(* A step of a caller, a watcher or a subprocess keeps the types.           *)
LEMMA TypeStep == IInv /\ [Next]_vars => TypeOK'
<1> SUFFICES ASSUME IInv, [Next]_vars PROVE TypeOK'
  OBVIOUS
<1> USE JoernAssumption DEF IInv, TypeOK, clientVars, callVars, procVars, PCs, Goto, Return
<1>1. ASSUME NEW k \in Callers, StartStep(k) PROVE TypeOK'
  <2>1. CASE StartLock(k)
    <3>1. \E l \in {"idle", "check", "recheck"} : pc' = [pc EXCEPT ![k] = l]
      BY <2>1 DEF StartLock
    <3>2. pc' \in [Callers -> PCs]
      BY <3>1
    <3>3. mu' \in [Clients -> Callers \cup {None}] /\ stopping' \in [Clients -> BOOLEAN]
          /\ attached' \in [Callers -> Procs \cup {None}]
      <4>1. CASE cmd[ClientOf[k]] # None
        BY <2>1, <4>1 DEF StartLock
      <4>2. CASE cmd[ClientOf[k]] = None
        <5>1. /\ mu' = [mu EXCEPT ![ClientOf[k]] = k]
              /\ stopping' = [stopping EXCEPT ![ClientOf[k]] = FALSE]
              /\ attached' = [attached EXCEPT ![k] = None]
          BY <2>1, <4>2 DEF StartLock
        <5> QED
          BY <5>1
      <4> QED
        BY <4>1, <4>2
    <3> QED
      BY <2>1, <3>2, <3>3 DEF StartLock
  <2>2. CASE StartCheck(k)
    BY <2>2 DEF StartCheck
  <2>3. CASE StartSpawn(k)
    <3>1. \E l \in {"idle", "ready"} : pc' = [pc EXCEPT ![k] = l]
      BY <2>3 DEF StartSpawn
    <3>2. pc' \in [Callers -> PCs]
      BY <3>1
    <3>3. /\ proc' \in [Procs -> {"unborn", "starting", "listening", "exited"}]
          /\ watcher' \in [Procs -> {"none", "waiting", "flagged", "done"}]
      BY <2>3 DEF StartSpawn
    <3>4. spawner' \in [Procs -> Clients \cup {None}]
      BY <2>3 DEF StartSpawn
    <3>5. cmd' \in [Clients -> Procs \cup {None}]
      BY <2>3 DEF StartSpawn
    <3>6. mu' \in [Clients -> Callers \cup {None}]
      BY <2>3 DEF StartSpawn
    <3>7. crashed' \in [Clients -> BOOLEAN]
      BY <2>3 DEF StartSpawn
    <3> QED
      BY <2>3, <3>2, <3>3, <3>4, <3>5, <3>6, <3>7 DEF StartSpawn
  <2>4. CASE ReadyCheck(k) \/ ReadyPing(k)
    BY <2>4 DEF ReadyCheck, ReadyPing
  <2>5. CASE FindOwner(k)
    BY <2>5 DEF FindOwner
  <2>6. CASE KillOwner(k)
    BY <2>6 DEF KillOwner, Alive
  <2> QED
    BY <1>1, <2>1, <2>2, <2>3, <2>4, <2>5, <2>6 DEF StartStep
<1>2. ASSUME NEW k \in Callers, StopStep(k) PROVE TypeOK'
  <2>1. CASE StopTake(k)
    BY <2>1 DEF StopTake
  <2>2. CASE StopMark(k)
    BY <2>2 DEF StopMark
  <2>4. CASE StopReturn(k)
    BY <2>4 DEF StopReturn
  <2>3. CASE StopTerm(k) \/ StopKill(k)
    BY <2>3 DEF StopTerm, StopKill
  <2> QED
    BY <1>2, <2>1, <2>2, <2>3, <2>4 DEF StopStep
<1>3. ASSUME NEW p \in Procs, Watcher(p) PROVE TypeOK'
  <2>1. crashed' \in [Clients -> BOOLEAN]
    <3>1. CASE WatcherFlag(p)
      <4>1. spawner[p] \in Clients
        BY <3>1 DEF WatcherFlag, Watched
      <4> QED
        BY <3>1, <4>1 DEF WatcherFlag
    <3>2. CASE WatcherDone(p)
      BY <3>2 DEF WatcherDone
    <3> QED
      BY <1>3, <3>1, <3>2 DEF Watcher
  <2>2. watcher' \in [Procs -> {"none", "waiting", "flagged", "done"}]
    BY <1>3 DEF Watcher, WatcherFlag, WatcherDone
  <2> QED
    BY <1>3, <2>1, <2>2 DEF Watcher, WatcherFlag, WatcherDone
<1>4. ASSUME NEW p \in Procs, Bind(p) \/ Exit(p) PROVE TypeOK'
  BY <1>4 DEF Bind, Exit
<1>5. CASE UNCHANGED vars
  BY <1>5 DEF vars
<1> QED
  BY <1>1, <1>2, <1>3, <1>4, <1>5 DEF Next

(* Only Start and Stop move processes between owners; every other step      *)
(* leaves the mutex, the managed and the held processes alone, and no call  *)
(* enters or leaves a critical part.                                        *)
LEMMA OwnerSteps ==
  ASSUME IInv, [Next]_vars
  PROVE  \/ \E k \in Callers : \/ StartLock(k) \/ StartCheck(k) \/ StartSpawn(k)
                               \/ StopTake(k) \/ StopReturn(k)
         \/ /\ UNCHANGED <<mu, cmd, taken, spawner>>
            /\ \A k \in Callers : /\ Stopping(k)' <=> Stopping(k)
                                  /\ pc'[k] \in {"check", "recheck", "spawn"} => pc'[k] = pc[k]
<1> DEFINE Quiet == /\ UNCHANGED <<mu, cmd, taken, spawner>>
                    /\ \A k \in Callers :
                         /\ Stopping(k)' <=> Stopping(k)
                         /\ pc'[k] \in {"check", "recheck", "spawn"} => pc'[k] = pc[k]
<1> USE DEF IInv, TypeOK, clientVars, callVars, procVars, Goto, Return, Stopping
<1>1. ASSUME NEW k \in Callers, ReadyCheck(k) \/ ReadyPing(k) \/ FindOwner(k) \/ KillOwner(k)
      PROVE  Quiet
  BY <1>1 DEF ReadyCheck, ReadyPing, FindOwner, KillOwner
<1>2. ASSUME NEW k \in Callers, StopMark(k) \/ StopTerm(k) \/ StopKill(k) PROVE Quiet
  BY <1>2 DEF StopMark, StopTerm, StopKill
<1>3. ASSUME NEW p \in Procs, Watcher(p) \/ Bind(p) \/ Exit(p) PROVE Quiet
  BY <1>3 DEF Watcher, WatcherFlag, WatcherDone, Bind, Exit
<1>4. CASE UNCHANGED vars
  BY <1>4 DEF vars
<1> QED
  BY <1>1, <1>2, <1>3, <1>4 DEF Next, StartStep, StopStep

(* A Start in its critical part holds the mutex, and its client manages     *)
(* nothing: no other caller can spawn there.                                *)
LEMMA MutexStep == IInv /\ [Next]_vars => MutexHeld'
<1> SUFFICES ASSUME IInv, [Next]_vars PROVE MutexHeld'
  OBVIOUS
<1> USE JoernAssumption DEF IInv, TypeOK, clientVars, callVars, procVars, Goto, Return, MutexHeld
<1>1. ASSUME NEW k \in Callers, StartLock(k) PROVE MutexHeld'
  BY <1>1 DEF StartLock
<1>2. ASSUME NEW k \in Callers, StartCheck(k) PROVE MutexHeld'
  BY <1>2 DEF StartCheck
<1>3. ASSUME NEW k \in Callers, StartSpawn(k) PROVE MutexHeld'
  BY <1>3 DEF StartSpawn
<1>4. ASSUME NEW k \in Callers, StopTake(k) \/ StopReturn(k) PROVE MutexHeld'
  BY <1>4 DEF StopTake, StopReturn
<1>5. ASSUME UNCHANGED <<mu, cmd>>,
             \A k \in Callers : pc'[k] \in {"check", "recheck", "spawn"} => pc'[k] = pc[k]
      PROVE  MutexHeld'
  BY <1>5
<1> QED
  BY <1>1, <1>2, <1>3, <1>4, <1>5, OwnerSteps
(* A process managed or held was spawned by that client, after every step.  *)
LEMMA BelongsStep == IInv /\ [Next]_vars => Belongs'
<1> SUFFICES ASSUME IInv, [Next]_vars PROVE Belongs'
  OBVIOUS
<1> USE JoernAssumption DEF IInv, TypeOK, clientVars, callVars, procVars, Goto, Return
<1>0. \A p \in Procs : watcher[p] # "none" => watcher'[p] # "none"
  BY DEF Next, StartStep, StopStep, vars, StartLock, StartCheck, StartSpawn, ReadyCheck,
         ReadyPing, FindOwner, KillOwner, StopTake, StopMark, StopTerm, StopReturn, StopKill,
         Watcher, WatcherFlag, WatcherDone, Bind, Exit
<1>1. ASSUME NEW k \in Callers, StartLock(k) \/ StartCheck(k) PROVE Belongs'
  BY <1>1 DEF StartLock, StartCheck, Belongs, Stopping
<1>2. ASSUME NEW k \in Callers, StartSpawn(k) PROVE Belongs'
  <2>1. CASE UNCHANGED <<proc, spawner, watcher, cmd, crashed>> /\ pc' = [pc EXCEPT ![k] = "idle"]
    BY <1>2, <2>1 DEF StartSpawn, Belongs, Stopping
  <2>2. ASSUME NEW p \in Procs, proc[p] = "unborn", pc' = [pc EXCEPT ![k] = "ready"],
               spawner' = [spawner EXCEPT ![p] = ClientOf[k]],
               watcher' = [watcher EXCEPT ![p] = "waiting"],
               cmd' = [cmd EXCEPT ![ClientOf[k]] = p]
        PROVE  Belongs'
    <3>1. watcher[p] = "none"
      BY <2>2 DEF Watched
    <3> QED
      BY <1>2, <2>2, <3>1 DEF StartSpawn, Belongs, Stopping
  <2> QED
    BY <1>2, <2>1, <2>2 DEF StartSpawn
<1>3. ASSUME NEW k \in Callers, StopTake(k) PROVE Belongs'
  BY <1>3 DEF StopTake, Belongs, Stopping
<1>4. ASSUME NEW k \in Callers, StopReturn(k) PROVE Belongs'
  BY <1>4 DEF StopReturn, Belongs, Stopping
<1>5. ASSUME UNCHANGED <<cmd, taken, spawner>>,
             \A k \in Callers : Stopping(k)' <=> Stopping(k)
      PROVE  Belongs'
  BY <1>0, <1>5 DEF Belongs
<1> QED
  BY <1>1, <1>2, <1>3, <1>4, <1>5, OwnerSteps

(* A process is never in two hands: a Stop takes it out of its client, and  *)
(* a Start only hands out processes it has just created.                    *)
LEMMA ExclusiveStep == IInv /\ [Next]_vars => ExclusiveStop'
<1> SUFFICES ASSUME IInv, [Next]_vars PROVE ExclusiveStop'
  OBVIOUS
<1> USE JoernAssumption DEF IInv, TypeOK, clientVars, callVars, procVars, ExclusiveStop
<1>1. ASSUME NEW k \in Callers, StartLock(k) \/ StartCheck(k) PROVE ExclusiveStop'
  BY <1>1 DEF StartLock, StartCheck
<1>2. ASSUME NEW k \in Callers, StartSpawn(k) PROVE ExclusiveStop'
  <2>1. taken' = taken
    BY <1>2 DEF StartSpawn
  <2>2. CASE cmd' = cmd
    BY <2>1, <2>2
  <2>3. ASSUME NEW p \in Procs, proc[p] = "unborn", cmd' = [cmd EXCEPT ![ClientOf[k]] = p]
        PROVE  ExclusiveStop'
    <3>1. \A j \in Callers : taken[j] # p
      BY <2>3 DEF Watched, Belongs
    <3> QED
      BY <2>1, <2>3, <3>1
  <2> QED
    BY <1>2, <2>2, <2>3 DEF StartSpawn
<1>3. ASSUME NEW k \in Callers, StopTake(k) PROVE ExclusiveStop'
  <2>1. CASE UNCHANGED <<cmd, taken>>
    BY <2>1
  <2>2. CASE /\ cmd[ClientOf[k]] # None
             /\ taken' = [taken EXCEPT ![k] = cmd[ClientOf[k]]]
             /\ cmd' = [cmd EXCEPT ![ClientOf[k]] = None]
    <3>1. \A c \in Clients \ {ClientOf[k]} : cmd[c] # cmd[ClientOf[k]]
      BY <2>2 DEF Belongs
    <3> QED
      BY <2>2, <3>1
  <2> QED
    BY <1>3, <2>1, <2>2 DEF StopTake
<1>4. ASSUME NEW k \in Callers, StopReturn(k) PROVE ExclusiveStop'
  BY <1>4 DEF StopReturn
<1>5. ASSUME UNCHANGED <<cmd, taken>> PROVE ExclusiveStop'
  BY <1>5
<1> QED
  BY <1>1, <1>2, <1>3, <1>4, <1>5, OwnerSteps

(* Every process that still has to be watched is managed or held, after     *)
(* every step; only an exited one is given up.                              *)
LEMMA WatchedStep == IInv /\ [Next]_vars => Watched'
<1> SUFFICES ASSUME IInv, [Next]_vars PROVE Watched'
  OBVIOUS
<1> USE JoernAssumption DEF IInv, TypeOK, clientVars, callVars, procVars
<1>1. ASSUME UNCHANGED <<proc, spawner, watcher, port, cmd, taken>> PROVE Watched'
  BY <1>1 DEF Watched
<1>2. ASSUME NEW k \in Callers,
             StartLock(k) \/ StartCheck(k) \/ ReadyCheck(k) \/ ReadyPing(k) \/ FindOwner(k)
             \/ KillOwner(k) \/ StopMark(k) \/ StopTerm(k) \/ StopKill(k)
      PROVE  Watched'
  BY <1>1, <1>2 DEF StartLock, StartCheck, ReadyCheck, ReadyPing, FindOwner, KillOwner, StopMark,
                    StopTerm, StopKill
<1>3. ASSUME NEW k \in Callers, StartSpawn(k) PROVE Watched'
  <2>1. CASE UNCHANGED <<proc, spawner, watcher, cmd, crashed>>
    BY <1>1, <1>3, <2>1 DEF StartSpawn
  <2>2. ASSUME NEW p \in Procs, proc[p] = "unborn",
               proc' = [proc EXCEPT ![p] = "starting"],
               spawner' = [spawner EXCEPT ![p] = ClientOf[k]],
               watcher' = [watcher EXCEPT ![p] = "waiting"],
               cmd' = [cmd EXCEPT ![ClientOf[k]] = p]
        PROVE  Watched'
    <3>1. cmd[ClientOf[k]] = None /\ port' = port /\ taken' = taken
      BY <1>3 DEF StartSpawn, MutexHeld
    <3> QED
      BY <2>2, <3>1 DEF Watched
  <2> QED
    BY <1>3, <2>1, <2>2 DEF StartSpawn
<1>4. ASSUME NEW k \in Callers, StopTake(k) PROVE Watched'
  <2>1. CASE cmd[ClientOf[k]] = None
    BY <1>1, <1>4, <2>1 DEF StopTake
  <2>2. CASE cmd[ClientOf[k]] # None
    <3>1. taken[k] = None
      BY <1>4 DEF StopTake, Belongs, Stopping
    <3>2. /\ taken' = [taken EXCEPT ![k] = cmd[ClientOf[k]]]
          /\ cmd' = [cmd EXCEPT ![ClientOf[k]] = None]
          /\ UNCHANGED <<proc, spawner, watcher, port>>
      BY <1>4, <2>2 DEF StopTake
    <3>3. ASSUME NEW p \in Procs, watcher[p] \in {"waiting", "flagged"}
          PROVE  cmd'[spawner[p]] = p \/ \E j \in Callers : taken'[j] = p
      <4>1. CASE cmd[spawner[p]] = p
        BY <3>2, <3>3, <4>1 DEF Watched
      <4>2. ASSUME NEW j \in Callers, taken[j] = p PROVE \E i \in Callers : taken'[i] = p
        BY <3>1, <3>2, <4>2
      <4> QED
        BY <3>3, <4>1, <4>2 DEF Watched
    <3> QED
      BY <3>2, <3>3 DEF Watched
  <2> QED
    BY <2>1, <2>2
<1>5. ASSUME NEW k \in Callers, StopReturn(k) PROVE Watched'
  <2>1. /\ watcher[taken[k]] = "done" /\ taken' = [taken EXCEPT ![k] = None]
        /\ UNCHANGED <<cmd, proc, spawner, watcher, port>>
    BY <1>5 DEF StopReturn
  <2>2. ASSUME NEW p \in Procs, watcher[p] \in {"waiting", "flagged"}, NEW j \in Callers,
               taken[j] = p
        PROVE  taken'[j] = p
    BY <2>1, <2>2
  <2> QED
    BY <2>1, <2>2 DEF Watched
<1>6. ASSUME NEW p \in Procs, Watcher(p) PROVE Watched'
  BY <1>6 DEF Watcher, WatcherFlag, WatcherDone, Watched
<1>7. ASSUME NEW p \in Procs, Bind(p) PROVE Watched'
  BY <1>7 DEF Bind, Watched
<1>8. ASSUME NEW p \in Procs, Exit(p) PROVE Watched'
  BY <1>8 DEF Exit, Alive, Watched
<1>9. CASE UNCHANGED vars
  BY <1>1, <1>9 DEF vars
<1> QED
  BY <1>2, <1>3, <1>4, <1>5, <1>6, <1>7, <1>8, <1>9 DEF Next, StartStep, StopStep
(* The strengthened invariant is inductive.                                 *)
LEMMA InvariantStep == IInv /\ [Next]_vars => IInv'
BY TypeStep, MutexStep, BelongsStep, ExclusiveStep, WatchedStep DEF IInv

-----------------------------------------------------------------------------
(* Types, for any number of clients, callers and subprocesses.              *)
THEOREM TypeCorrect == Spec => []TypeOK
<1>1. IInv => TypeOK
  BY DEF IInv
<1> QED
  BY <1>1, InitInvariant, InvariantStep, PTL DEF Spec

(* No subprocess is ever orphaned while its process lives on, however Start *)
(* and Stop calls interleave.                                               *)
THEOREM NeverOrphaned == Spec => []NoOrphan
<1>1. IInv => NoOrphan
  <2> SUFFICES ASSUME IInv, NEW p \in Procs, Alive(p)
               PROVE  \/ cmd[spawner[p]] = p
                      \/ \E k \in Callers : /\ taken[k] = p
                                            /\ pc[k] \in {"mark", "term", "wait", "reap"}
    BY DEF NoOrphan
  <2> USE JoernAssumption DEF IInv, TypeOK
  <2>1. watcher[p] \in {"waiting", "flagged"}
    BY DEF Watched, Alive
  <2>2. CASE cmd[spawner[p]] = p
    BY <2>2
  <2>3. ASSUME NEW k \in Callers, taken[k] = p
        PROVE  pc[k] \in {"mark", "term", "wait", "reap"}
    BY <2>3 DEF Belongs, Stopping
  <2> QED
    BY <2>1, <2>2, <2>3 DEF Watched
<1> QED
  BY <1>1, InitInvariant, InvariantStep, PTL DEF Spec

(* No two Stop calls, and no Stop call and a client, ever hold the same     *)
(* subprocess.                                                              *)
THEOREM StopIsExclusive == Spec => []ExclusiveStop
<1>1. IInv => ExclusiveStop
  BY DEF IInv
<1> QED
  BY <1>1, InitInvariant, InvariantStep, PTL DEF Spec

(* Stop returns only behind the exit of the process it took.                *)
THEOREM StopReaps == Spec => StopReapsProcess
<1>1. ASSUME IInv, [Next]_vars, NEW k \in Callers, taken[k] # None, taken'[k] = None
      PROVE  proc[taken[k]] = "exited" /\ port # taken[k]
  <2> USE JoernAssumption DEF IInv, TypeOK, clientVars, callVars, procVars
  <2>1. StopReturn(k)
    <3>1. ASSUME NEW j \in Callers, StopTake(j) PROVE FALSE
      BY <1>1, <3>1 DEF StopTake
    <3>2. ASSUME NEW j \in Callers, StopReturn(j) PROVE StopReturn(k)
      BY <1>1, <3>2 DEF StopReturn
    <3>3. ASSUME NEW j \in Callers, StartLock(j) \/ StartCheck(j) \/ StartSpawn(j) PROVE FALSE
      BY <1>1, <3>3 DEF StartLock, StartCheck, StartSpawn
    <3> QED
      BY <1>1, <3>1, <3>2, <3>3, OwnerSteps
  <2>2. watcher[taken[k]] = "done" /\ taken[k] \in Procs
    BY <1>1, <2>1 DEF StopReturn
  <2> QED
    BY <1>1, <2>2 DEF Watched
<1>2. IInv /\ [Next]_vars
        => [\A k \in Callers : taken[k] # None /\ taken'[k] = None
              => proc[taken[k]] = "exited" /\ port # taken[k]]_vars
  BY <1>1
<1> QED
  BY <1>2, InitInvariant, InvariantStep, PTL DEF Spec, StopReapsProcess

-----------------------------------------------------------------------------
(* With one caller per client, a client manages nothing while its caller is *)
(* stopping a process.                                                      *)
LEMMA OneAtATimeStep ==
  ASSUME \A j, k \in Callers : ClientOf[j] = ClientOf[k] => j = k
  PROVE  IInv /\ OneAtATime /\ [Next]_vars => OneAtATime'
<1> SUFFICES ASSUME IInv, OneAtATime, [Next]_vars PROVE OneAtATime'
  OBVIOUS
<1> USE JoernAssumption DEF IInv, TypeOK, clientVars, callVars, procVars, Goto, Return, OneAtATime,
                           Stopping
<1>1. ASSUME NEW k \in Callers, StartLock(k) \/ StartCheck(k) PROVE OneAtATime'
  BY <1>1 DEF StartLock, StartCheck
<1>2. ASSUME NEW k \in Callers, StartSpawn(k) PROVE OneAtATime'
  <2>1. ~Stopping(k)' /\ pc[k] = "spawn"
    BY <1>2 DEF StartSpawn
  <2>2. ASSUME NEW j \in Callers \ {k}
        PROVE  pc'[j] = pc[j] /\ cmd'[ClientOf[j]] = cmd[ClientOf[j]]
    BY <1>2 DEF StartSpawn
  <2> QED
    BY <2>1, <2>2
<1>3. ASSUME NEW k \in Callers, StopTake(k) \/ StopReturn(k) PROVE OneAtATime'
  <2>1. \A c \in Clients : cmd'[c] \in {None, cmd[c]}
    BY <1>3 DEF StopTake, StopReturn
  <2>2. \A j \in Callers \ {k} : pc'[j] = pc[j]
    BY <1>3 DEF StopTake, StopReturn
  <2>3. pc'[k] = "idle" \/ cmd'[ClientOf[k]] = None
    BY <1>3 DEF StopTake, StopReturn
  <2> QED
    BY <2>1, <2>2, <2>3
<1>4. ASSUME UNCHANGED cmd, \A k \in Callers : Stopping(k)' <=> Stopping(k) PROVE OneAtATime'
  BY <1>4
<1> QED
  BY <1>1, <1>2, <1>3, <1>4, OwnerSteps

(* Under the same assumption only the watcher of the managed process can    *)
(* raise the flag of its client, and Start lowers it.                       *)
LEMMA CrashFlagStep ==
  ASSUME \A j, k \in Callers : ClientOf[j] = ClientOf[k] => j = k
  PROVE  IInv /\ OneAtATime /\ CrashFlagHonest /\ [Next]_vars => CrashFlagHonest'
<1> SUFFICES ASSUME IInv, OneAtATime, CrashFlagHonest, [Next]_vars PROVE CrashFlagHonest'
  OBVIOUS
<1> USE JoernAssumption DEF IInv, TypeOK, clientVars, callVars, procVars, CrashFlagHonest
<1>1. ASSUME UNCHANGED crashed, \A c \in Clients : cmd'[c] \in {None, cmd[c]},
             \A p \in Procs : proc[p] = "exited" => proc'[p] = "exited"
      PROVE  CrashFlagHonest'
  BY <1>1
<1>2. ASSUME NEW k \in Callers,
             StartLock(k) \/ StartCheck(k) \/ ReadyCheck(k) \/ ReadyPing(k) \/ FindOwner(k)
             \/ KillOwner(k) \/ StopStep(k)
      PROVE  CrashFlagHonest'
  BY <1>1, <1>2 DEF StartLock, StartCheck, ReadyCheck, ReadyPing, FindOwner, KillOwner, StopStep,
                    StopTake, StopMark, StopTerm, StopReturn, StopKill
<1>3. ASSUME NEW k \in Callers, StartSpawn(k) PROVE CrashFlagHonest'
  BY <1>1, <1>3 DEF StartSpawn
<1>4. ASSUME NEW p \in Procs, WatcherFlag(p) PROVE CrashFlagHonest'
  <2>1. proc[p] = "exited" /\ spawner[p] \in Clients
        /\ crashed' = [crashed EXCEPT ![spawner[p]] = TRUE] /\ UNCHANGED <<cmd, proc>>
    BY <1>4 DEF WatcherFlag, Watched
  <2>2. cmd[spawner[p]] \in {p, None}
    BY <1>4 DEF WatcherFlag, Watched, Belongs, OneAtATime
  <2> QED
    BY <2>1, <2>2
<1>5. ASSUME NEW p \in Procs, WatcherDone(p) \/ Bind(p) \/ Exit(p) PROVE CrashFlagHonest'
  BY <1>1, <1>5 DEF WatcherDone, Bind, Exit
<1>6. CASE UNCHANGED vars
  BY <1>1, <1>6 DEF vars
<1> QED
  BY <1>2, <1>3, <1>4, <1>5, <1>6 DEF Next, StartStep, Watcher

(* The crash flag is about the managed process as long as each client has   *)
(* one caller, which is how the pipeline uses it; with two callers TLC      *)
(* finds a counterexample.                                                  *)
THEOREM CrashFlagIsHonest ==
  ASSUME \A j, k \in Callers : ClientOf[j] = ClientOf[k] => j = k
  PROVE  Spec => []CrashFlagHonest
<1> DEFINE J == IInv /\ OneAtATime /\ CrashFlagHonest
<1>1. Init => J
  BY InitInvariant
<1>2. J /\ [Next]_vars => J'
  BY InvariantStep, OneAtATimeStep, CrashFlagStep
<1> QED
  BY <1>1, <1>2, PTL DEF Spec
=============================================================================
