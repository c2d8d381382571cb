----------------------------- MODULE JoernQuery -----------------------------
(***************************************************************************)
(* The conversation of one scan with the REPL of its Joern server.  Every  *)
(* query is one POST and a series of polls for its result (doQuery); a     *)
(* query the client has given up stays with the server, which works off    *)
(* its queue in order.  The client is buildFullCPG, behind a snapshot that *)
(* was or was not loaded: BuildCPG imports the project, with a second      *)
(* language if the first attempt fails, verifies what it imported and      *)
(* saves it; then the stages of the scan query it.                         *)
(*                                                                         *)
(* A graph is abstracted to the query that made it and whether it has      *)
(* methods.  Each query of the script is sent once, so it is its own uuid. *)
(***************************************************************************)
EXTENDS Naturals, Sequences

CONSTANTS
  MaxAttempts, \* languages BuildCPG tries: given, or auto-detection and a guess
  Faults,      \* what may go wrong: "die", "transport", "refuse", "quiet"
  NoGraph      \* the REPL has no active project

Attempts == 1..MaxAttempts
Load == <<"load", 0>>
Import(i) == <<"import", i>>
Size(i)   == <<"size", i>>
Save == <<"save", 0>>
Page == <<"page", 0>>
Built == <<"built", 0>>
Failed == <<"failed", 0>>
Ended == {Built, Failed}
Queries == {Load, Save, Page} \cup {Import(i) : i \in Attempts} \cup {Size(i) : i \in Attempts}
Graphs == [from : Queries, methods : BOOLEAN] \cup {NoGraph}

ASSUME QueryAssumption ==
  /\ MaxAttempts \in Nat \ {0}
  /\ Faults \subseteq {"die", "transport", "refuse", "quiet"}
  /\ NoGraph \notin [from : Queries, methods : BOOLEAN]

VARIABLES
  step,    \* the query in hand, or how it all ended
  polling, \* its POST was answered
  late,    \* deadlines that have passed
  idle,    \* no news for JoernIdleTimeout
  garbled, \* history: a response to the query in hand was lost or unreadable
  failed,  \* history: queries that doQuery returned an error for
  up,      \* the server process lives
  crashed, \* the flag of the client, raised by the watcher of the process
  queue,   \* queries the server has accepted and not begun
  answer,  \* what /result has for a query: "none", "refused", "zero" or "many"
  graph    \* the active graph of the REPL

clientVars == <<step, polling, late, idle, garbled, failed>>
serverVars == <<up, queue, answer, graph>>
vars == <<clientVars, crashed, serverVars>>

TypeOK ==
  /\ step \in Queries \cup Ended
  /\ polling \in BOOLEAN /\ idle \in BOOLEAN /\ garbled \in BOOLEAN
  /\ late \subseteq {"build", "query"}
  /\ failed \subseteq Queries
  /\ up \in BOOLEAN /\ crashed \in BOOLEAN
  /\ queue \in Seq(Queries)
  /\ answer \in [Queries -> {"none", "refused", "zero", "many"}]
  /\ graph \in Graphs

Init ==
  /\ step \in {Load, Import(1)}
  /\ polling = FALSE /\ late = {} /\ idle = FALSE /\ garbled = FALSE /\ failed = {}
  /\ up = TRUE /\ crashed = FALSE
  /\ queue = <<>>
  /\ answer = [q \in Queries |-> "none"]
  /\ graph = NoGraph

-----------------------------------------------------------------------------
(* BuildCPG and its caller.                                                *)

NextAttempt(i) == IF i < MaxAttempts THEN Import(i + 1) ELSE Failed

\* Mutant of AfterImport: the graph is verified although the import failed.
AfterImportAnyway(i, ok) == Size(i)

\* A failed import is not verified: the graph would be that of another import.
AfterImport(i, ok) == IF ok THEN Size(i) ELSE NextAttempt(i)

\* Where the script goes on when a query has ended.
After(q, ok) ==
  CASE q[1] = "load"   -> Import(1)
    [] q[1] = "import" -> AfterImport(q[2], ok)
    [] q[1] = "size"   -> IF ~ok THEN NextAttempt(q[2])
                          ELSE IF answer[q] = "many" THEN Save ELSE Failed
    [] q[1] = "save"   -> IF ok THEN Page ELSE Failed
    [] q[1] = "page"   -> Built

-----------------------------------------------------------------------------
(* doQuery.                                                                *)

\* Mutant of Deadline: callers without a deadline get none.
DeadlineOfCaller(q) == IF q[1] \in {"import", "size"} THEN "build" ELSE "none"

\* The imports and checks of a build share its deadline; every other caller
\* has none of its own and gets one per query.
Deadline(q) == IF q[1] \in {"import", "size"} THEN "build" ELSE "query"

Expired == Deadline(step) \in late

\* doQuery returns to its caller.
Return(ok) ==
  /\ step' = After(step, ok)
  /\ polling' = FALSE /\ idle' = FALSE /\ garbled' = FALSE
  /\ late' = late \ {"query"}
  /\ failed' = IF ok THEN failed ELSE failed \cup {step}

(***************************************************************************)
(* postQuery: accepted, refused by a dead server or an expired context, or *)
(* lost on its way there or back; nothing is ever posted again.            *)
(***************************************************************************)
Post ==
  /\ step \notin Ended /\ ~polling
  /\ \/ /\ crashed \/ Expired \/ ~up
        /\ Return(FALSE)
        /\ UNCHANGED queue
     \/ /\ ~crashed /\ ~Expired /\ up
        /\ queue' = Append(queue, step)
        /\ polling' = TRUE
        /\ UNCHANGED <<step, late, idle, garbled, failed>>
     \/ /\ ~crashed /\ ~Expired /\ garbled
        /\ queue' \in {queue, Append(queue, step)}
        /\ Return(FALSE)
  /\ UNCHANGED <<crashed, up, answer, graph>>

\* The poll loop leaves before it asks again.
GiveUp ==
  /\ step \notin Ended /\ polling
  /\ Expired \/ crashed \/ idle
  /\ Return(FALSE)
  /\ UNCHANGED <<crashed, serverVars>>

Polls == step \notin Ended /\ polling /\ ~Expired /\ ~crashed /\ ~idle

\* What the server says of a query it has not finished: 202, nothing yet, or the
\* failure without a word of a REPL that is still starting.
Unfinished == {"accepted", "empty", "cold"}

\* Mutant of StillWorking: success=false is a failed query.
StillWorkingWarm(r) == r \in {"accepted", "empty"}

StillWorking(r) == r \in {"accepted", "empty", "cold"}

\* Everything but a 202 resets the idle clock.
PollUnfinished(r) ==
  /\ Polls /\ up /\ answer[step] = "none"
  /\ IF StillWorking(r)
     THEN /\ idle' = (idle /\ r = "accepted")
          /\ UNCHANGED <<step, polling, late, garbled, failed>>
     ELSE Return(FALSE)
  /\ UNCHANGED <<crashed, serverVars>>

\* A request that gets no response is tried again; one that cannot be read is not.
PollGarbled ==
  /\ Polls /\ up /\ garbled
  /\ Return(FALSE)
  /\ UNCHANGED <<crashed, serverVars>>

PollAnswered ==
  /\ Polls /\ up /\ answer[step] # "none"
  /\ Return(answer[step] # "refused")
  /\ UNCHANGED <<crashed, serverVars>>

-----------------------------------------------------------------------------
(* Clocks, network and server.                                             *)

\* The deadline of the query in hand passes.
DeadlinePasses ==
  /\ step \notin Ended
  /\ late' = late \cup ({Deadline(step)} \ {"none"})
  /\ UNCHANGED <<step, polling, idle, garbled, failed, crashed, serverVars>>

IdleExpires ==
  /\ step \notin Ended /\ polling
  /\ idle' = TRUE
  /\ UNCHANGED <<step, polling, late, garbled, failed, crashed, serverVars>>

\* The next response is lost or comes out garbled.
Garble ==
  /\ "transport" \in Faults /\ step \notin Ended
  /\ garbled' = TRUE
  /\ UNCHANGED <<step, polling, late, idle, failed, crashed, serverVars>>

\* What the REPL makes of a query, as <<its answer, the active graph after it>>.
Effects(q) ==
  LET Refused == IF "refuse" \in Faults THEN {<<"refused", graph>>, <<"refused", NoGraph>>} ELSE {}
      Quiet   == IF "quiet" \in Faults THEN {<<"many", NoGraph>>} ELSE {}
      New     == {<<"many", [from |-> q, methods |-> m]>> : m \in BOOLEAN}
      Of(g)   == IF g = NoGraph THEN {<<"refused", g>>}
                 ELSE {<<IF g.methods THEN "many" ELSE "zero", g>>}
  IN  CASE q[1] = "import" -> New \cup Quiet \cup Refused
        [] q[1] = "load"   -> {<<"many", [from |-> q, methods |-> TRUE]>>} \cup Refused
        [] OTHER           -> Of(graph) \cup {e \in Refused : e[2] = graph}

\* One thread takes the queries in the order they came.
Work ==
  /\ up /\ queue # <<>>
  /\ \E e \in Effects(Head(queue)) :
       /\ answer' = [answer EXCEPT ![Head(queue)] = e[1]]
       /\ graph' = e[2]
  /\ queue' = Tail(queue)
  /\ UNCHANGED <<clientVars, crashed, up>>

Die ==
  /\ "die" \in Faults /\ up
  /\ up' = FALSE /\ graph' = NoGraph /\ queue' = <<>>
  /\ UNCHANGED <<clientVars, crashed, answer>>

\* The watcher of the process notices.
Watch ==
  /\ ~up /\ ~crashed
  /\ crashed' = TRUE
  /\ UNCHANGED <<clientVars, serverVars>>

Terminated == step \in Ended /\ UNCHANGED vars

Client == Post \/ GiveUp \/ PollGarbled \/ PollAnswered \/ \E r \in Unfinished : PollUnfinished(r)

Next ==
  \/ Client \/ DeadlinePasses \/ IdleExpires \/ Garble
  \/ Work \/ Die \/ Watch
  \/ Terminated

Spec == Init /\ [][Next]_vars

(***************************************************************************)
(* The goroutine of the client runs and its clock advances.  The server    *)
(* owes nothing: it may hang for ever, with or without answering polls.    *)
(***************************************************************************)
FairSpec == Spec /\ WF_vars(Client) /\ WF_vars(DeadlinePasses)

-----------------------------------------------------------------------------
(* Properties.                                                             *)

(***************************************************************************)
(* A graph that BuildCPG has verified is one it imported itself, with      *)
(* methods in it, and no query that was given up on the way can still      *)
(* replace it: neither the snapshot loaded before nor a slow first attempt *)
(* passes for the project (build.go:143-186).                              *)
(***************************************************************************)
Verified == step \in {Save, Page, Built}

BuiltGraphIsNew ==
  Verified /\ up =>
    /\ graph # NoGraph
    /\ graph.methods /\ graph.from \in {Import(i) : i \in Attempts}
    /\ \A k \in DOMAIN queue : queue[k][1] \notin {"load", "import"}

(***************************************************************************)
(* No query fails on a healthy server: an error means that the server is   *)
(* gone, refused the query, sent something unreadable or was silent for    *)
(* too long (http.go:146-261).                                             *)
(***************************************************************************)
Excused(q) ==
  ~up \/ garbled \/ idle \/ Deadline(q) \in late \/ answer[q] = "refused"

FailsForCause == [][\A q \in failed' \ failed : Excused(q)]_vars

(***************************************************************************)
(* The script ends, whatever the server does: hang, crash, lose responses, *)
(* or answer every poll with a result that is not there yet                *)
(* (http.go:69-89, 155-175).                                               *)
(***************************************************************************)
ScriptEnds == <>(step \in Ended)
=============================================================================
