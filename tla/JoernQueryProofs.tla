-------------------------- MODULE JoernQueryProofs --------------------------
(***************************************************************************)
(* Proofs about JoernQuery, for any number of languages and any faults:    *)
(* types, that the graph a build has verified is the one it imported, and  *)
(* that no query fails on a healthy server.                                *)
(***************************************************************************)
EXTENDS JoernQuery, TLAPS

-----------------------------------------------------------------------------
(* The inductive invariant.                                                *)

\* Imports and counts of the script that have not been posted.
Ahead(q) ==
  \/ q = step /\ ~polling /\ q[1] \in {"import", "size"}
  \/ step[1] = "load" /\ q[1] \in {"import", "size"}
  \/ step[1] = "import" /\ \/ q[1] = "import" /\ q[2] > step[2]
                           \/ q[1] = "size" /\ q[2] >= step[2]
  \/ step[1] = "size" /\ q[1] \in {"import", "size"} /\ q[2] > step[2]

\* The server knows nothing of them.
Fresh ==
  \A q \in Queries : Ahead(q) =>
    answer[q] = "none" /\ \A k \in DOMAIN queue : queue[k] # q

\* The import in hand was posted last: once it is answered nothing is left.
LastIn ==
  step[1] = "import" =>
    /\ \A k \in DOMAIN queue : queue[k] = step => k = Len(queue)
    /\ up /\ answer[step] # "none" =>
         /\ queue = <<>>
         /\ answer[step] # "refused" => graph = NoGraph \/ graph.from = step

\* While the methods are counted, nothing but the count is in the queue.
Counting ==
  step[1] = "size" /\ up =>
    /\ \A k \in DOMAIN queue : queue[k] = step
    /\ graph = NoGraph \/ graph.from = Import(step[2])
    /\ answer[step] = "many" => graph # NoGraph /\ graph.methods

IInv == TypeOK /\ Fresh /\ LastIn /\ Counting /\ BuiltGraphIsNew

-----------------------------------------------------------------------------
(* The script.                                                             *)

(* A query is known by its kind and its attempt.                            *)
LEMMA QueryShape ==
  /\ \A q \in Queries :
       /\ q[1] \in {"load", "import", "size", "save", "page"}
       /\ q[1] = "load" => q = Load
       /\ q[1] = "import" => q[2] \in Attempts /\ q = Import(q[2])
       /\ q[1] = "size" => q[2] \in Attempts /\ q = Size(q[2])
       /\ q[1] = "save" => q = Save
       /\ q[1] = "page" => q = Page
       /\ q \notin Ended
  /\ Load \in Queries /\ Save \in Queries /\ Page \in Queries
  /\ \A i \in Attempts : Import(i) \in Queries /\ Size(i) \in Queries
<1>1. ASSUME NEW q \in Queries, q \in {Load, Save, Page}
      PROVE  /\ q[1] \in {"load", "save", "page"}
             /\ q[1] = "load" => q = Load
             /\ q[1] = "save" => q = Save
             /\ q[1] = "page" => q = Page
             /\ q \notin Ended
  BY <1>1 DEF Load, Save, Page, Ended, Built, Failed
<1>2. ASSUME NEW i \in Attempts
      PROVE  /\ Import(i)[1] = "import" /\ Import(i)[2] = i /\ Import(i) \notin Ended
             /\ Size(i)[1] = "size" /\ Size(i)[2] = i /\ Size(i) \notin Ended
  BY DEF Import, Size, Ended, Built, Failed
<1> QED
  BY <1>1, <1>2 DEF Queries

(* The next attempt is a later one.                                         *)
LEMMA NextAttemptShape ==
  ASSUME NEW i \in Attempts
  PROVE  \/ i + 1 \in Attempts /\ NextAttempt(i) = Import(i + 1)
         \/ NextAttempt(i) = Failed
BY QueryAssumption DEF NextAttempt, Attempts

(* Where the script goes on.                                                *)
LEMMA AfterShape ==
  ASSUME NEW q \in Queries, NEW ok \in BOOLEAN
  PROVE  \/ q = Load /\ After(q, ok) = Import(1)
         \/ ok /\ q[1] = "import" /\ After(q, ok) = Size(q[2])
         \/ /\ q[1] \in {"import", "size"} /\ q[2] + 1 \in Attempts
            /\ After(q, ok) = Import(q[2] + 1)
         \/ ok /\ q[1] = "size" /\ answer[q] = "many" /\ After(q, ok) = Save
         \/ q = Save /\ After(q, ok) = Page
         \/ q = Page /\ After(q, ok) = Built
         \/ After(q, ok) = Failed
<1>1. CASE q[1] = "load"
  BY <1>1, QueryShape DEF After
<1>2. CASE q[1] = "import"
  <2>1. q[2] \in Attempts
    BY <1>2, QueryShape
  <2>2. After(q, ok) = IF ok THEN Size(q[2]) ELSE NextAttempt(q[2])
    BY <1>2 DEF After, AfterImport
  <2> QED
    BY <1>2, <2>1, <2>2, NextAttemptShape
<1>3. CASE q[1] = "size"
  <2>1. q[2] \in Attempts
    BY <1>3, QueryShape
  <2>2. After(q, ok) = IF ~ok THEN NextAttempt(q[2])
                       ELSE IF answer[q] = "many" THEN Save ELSE Failed
    BY <1>3 DEF After
  <2> QED
    BY <1>3, <2>1, <2>2, NextAttemptShape
<1>4. CASE q[1] \in {"save", "page"}
  BY <1>4, QueryShape DEF After
<1> QED
  BY <1>1, <1>2, <1>3, <1>4, QueryShape

-----------------------------------------------------------------------------
(* The kinds of steps.                                                     *)

\* A query returns to its caller, possibly behind a POST whose answer was lost.
ReturnStep(ok) ==
  /\ step \in Queries
  /\ step' = After(step, ok) /\ polling' = FALSE
  /\ ok => up /\ answer[step] \notin {"none", "refused"}
  /\ queue' = queue \/ (queue' = Append(queue, step) /\ ~ok)
  /\ UNCHANGED <<up, answer, graph>>

AcceptStep ==
  /\ step \in Queries /\ ~polling
  /\ polling' = TRUE /\ queue' = Append(queue, step)
  /\ UNCHANGED <<step, up, answer, graph>>

WorkStep ==
  /\ up /\ queue # <<>> /\ queue' = Tail(queue)
  /\ \E e \in Effects(Head(queue)) :
       answer' = [answer EXCEPT ![Head(queue)] = e[1]] /\ graph' = e[2]
  /\ UNCHANGED <<step, polling, up>>

DieStep ==
  /\ ~up' /\ queue' = <<>> /\ graph' = NoGraph
  /\ UNCHANGED <<step, polling, answer>>

\* Clocks, faults of the network, polls without a result.
IdleStep == UNCHANGED <<step, polling, queue, up, answer, graph>>

LEMMA StepKinds ==
  ASSUME TypeOK, [Next]_vars
  PROVE  (\E ok \in BOOLEAN : ReturnStep(ok)) \/ AcceptStep \/ WorkStep \/ DieStep \/ IdleStep
<1> USE DEF clientVars, serverVars, vars
<1>0. step \notin Ended => step \in Queries
  BY DEF TypeOK
<1>1. CASE Post
  BY <1>0, <1>1 DEF Post, Return, ReturnStep, AcceptStep
<1>2. CASE GiveUp
  BY <1>0, <1>2 DEF GiveUp, Return, ReturnStep
<1>3. CASE PollGarbled
  BY <1>0, <1>3 DEF PollGarbled, Polls, Return, ReturnStep
<1>4. CASE PollAnswered
  BY <1>0, <1>4 DEF PollAnswered, Polls, Return, ReturnStep
<1>5. CASE \E r \in Unfinished : PollUnfinished(r)
  BY <1>5 DEF PollUnfinished, Unfinished, StillWorking, IdleStep
<1>6. CASE Work
  BY <1>6 DEF Work, WorkStep
<1>7. CASE Die
  BY <1>7 DEF Die, DieStep
<1>8. CASE DeadlinePasses \/ IdleExpires \/ Garble \/ Watch \/ Terminated \/ UNCHANGED vars
  BY <1>8 DEF DeadlinePasses, IdleExpires, Garble, Watch, Terminated, IdleStep
<1> QED
  BY <1>1, <1>2, <1>3, <1>4, <1>5, <1>6, <1>7, <1>8 DEF Next, Client

(* What the REPL does to answer and graph, by kind of query.                *)
LEMMA EffectShape ==
  ASSUME TypeOK, NEW q \in Queries, NEW e \in Effects(q)
  PROVE  /\ e[1] \in {"refused", "zero", "many"} /\ e[2] \in Graphs
         /\ q[1] = "import" /\ e[1] # "refused" => e[2] = NoGraph \/ e[2].from = q
         /\ q[1] \notin {"load", "import"} =>
              e[2] = graph /\ (e[1] = "many" => graph # NoGraph /\ graph.methods)
<1>1. CASE q[1] = "import"
  <2>1. \/ e \in {<<"refused", graph>>, <<"refused", NoGraph>>, <<"many", NoGraph>>}
        \/ \E m \in BOOLEAN : e = <<"many", [from |-> q, methods |-> m]>>
    BY <1>1 DEF Effects
  <2>2. \A m \in BOOLEAN : [from |-> q, methods |-> m] \in Graphs
    BY DEF Graphs
  <2>3. graph \in Graphs /\ NoGraph \in Graphs
    BY DEF TypeOK, Graphs
  <2> QED
    BY <1>1, <2>1, <2>2, <2>3
<1>2. CASE q[1] = "load"
  <2>1. e \in {<<"refused", graph>>, <<"refused", NoGraph>>,
               <<"many", [from |-> q, methods |-> TRUE]>>}
    BY <1>2 DEF Effects
  <2>2. [from |-> q, methods |-> TRUE] \in Graphs /\ graph \in Graphs /\ NoGraph \in Graphs
    BY DEF TypeOK, Graphs
  <2>3. CASE e \in {<<"refused", graph>>, <<"refused", NoGraph>>}
    BY <1>2, <2>2, <2>3
  <2>4. CASE e = <<"many", [from |-> q, methods |-> TRUE]>>
    <3>1. e[1] = "many" /\ e[2] = [from |-> q, methods |-> TRUE]
      BY <2>4
    <3> QED
      BY <1>2, <2>2, <3>1
  <2> QED
    BY <2>1, <2>3, <2>4
<1>3. CASE q[1] \notin {"load", "import"}
  <2>1. \/ e \in {<<"refused", graph>>, <<"refused", NoGraph>>} /\ e[2] = graph
        \/ graph = NoGraph /\ e = <<"refused", graph>>
        \/ graph # NoGraph /\ e = <<IF graph.methods THEN "many" ELSE "zero", graph>>
    BY <1>3 DEF Effects
  <2>2. graph \in Graphs
    BY DEF TypeOK
  <2> QED
    BY <1>3, <2>1, <2>2
<1> QED
  BY <1>1, <1>2, <1>3

-----------------------------------------------------------------------------
(* The invariant holds at first.                                           *)

LEMMA InitIInv == Init => IInv
<1> SUFFICES ASSUME Init PROVE IInv
  OBVIOUS
<1> USE DEF Init
<1>1. 1 \in Attempts
  BY QueryAssumption DEF Attempts
<1>2. TypeOK
  <2>1. step \in Queries /\ queue \in Seq(Queries) /\ graph \in Graphs
    BY <1>1, QueryShape DEF Graphs
  <2>2. answer \in [Queries -> {"none", "refused", "zero", "many"}]
    OBVIOUS
  <2> QED
    BY <2>1, <2>2 DEF TypeOK
<1>3. Fresh
  BY DEF Fresh
<1>4. step[1] \in {"load", "import"} /\ step \in Queries
  BY <1>1, QueryShape DEF Load, Import
<1>5. LastIn
  BY <1>4, QueryShape DEF LastIn
<1>6. Counting
  BY <1>4 DEF Counting
<1>7. BuiltGraphIsNew
  BY <1>4 DEF BuiltGraphIsNew, Verified, Save, Page, Built
<1> QED
  BY <1>2, <1>3, <1>5, <1>6, <1>7 DEF IInv

-----------------------------------------------------------------------------
(* Types.                                                                  *)

LEMMA AfterType ==
  ASSUME NEW q \in Queries, NEW ok \in BOOLEAN
  PROVE  After(q, ok) \in Queries \cup Ended
<1>1. 1 \in Attempts
  BY QueryAssumption DEF Attempts
<1>2. q[1] = "import" => q[2] \in Attempts
  BY QueryShape
<1>3. Built \in Ended /\ Failed \in Ended
  BY DEF Ended
<1>4. \A i \in Attempts : Import(i) \in Queries /\ Size(i) \in Queries
  BY QueryShape
<1> QED
  BY <1>1, <1>2, <1>3, <1>4, AfterShape, QueryShape

LEMMA ReturnType ==
  ASSUME TypeOK, step \in Queries, NEW ok \in BOOLEAN, Return(ok)
  PROVE  /\ step' \in Queries \cup Ended
         /\ polling' \in BOOLEAN /\ idle' \in BOOLEAN /\ garbled' \in BOOLEAN
         /\ late' \subseteq {"build", "query"} /\ failed' \subseteq Queries
BY AfterType DEF Return, TypeOK

LEMMA TypeStep ==
  ASSUME TypeOK, [Next]_vars
  PROVE  TypeOK'
<1> USE DEF clientVars, serverVars, vars
<1>0. step \notin Ended => step \in Queries
  BY DEF TypeOK
<1>1. CASE Post
  <2>1. step \in Queries
    BY <1>0, <1>1 DEF Post
  <2>2. queue' \in Seq(Queries)
    <3>1. queue \in Seq(Queries) /\ Append(queue, step) \in Seq(Queries)
      BY <2>1 DEF TypeOK
    <3> QED
      BY <1>1, <3>1 DEF Post
  <2>3. CASE Return(FALSE)
    BY <1>1, <2>1, <2>2, <2>3, ReturnType DEF Post, TypeOK
  <2>4. CASE polling' = TRUE /\ UNCHANGED <<step, late, idle, garbled, failed>>
    BY <1>1, <2>2, <2>4 DEF Post, TypeOK
  <2> QED
    BY <1>1, <2>3, <2>4 DEF Post
<1>2. CASE GiveUp
  BY <1>0, <1>2, ReturnType DEF GiveUp, TypeOK
<1>3. CASE PollGarbled
  BY <1>0, <1>3, ReturnType DEF PollGarbled, Polls, TypeOK
<1>4. CASE PollAnswered
  <2>1. PICK ok \in BOOLEAN : Return(ok)
    BY <1>4 DEF PollAnswered
  <2> QED
    BY <1>0, <1>4, <2>1, ReturnType DEF PollAnswered, Polls, TypeOK
<1>5. CASE \E r \in Unfinished : PollUnfinished(r)
  BY <1>5 DEF PollUnfinished, Unfinished, StillWorking, TypeOK
<1>6. CASE Work
  <2>1. Head(queue) \in Queries /\ Tail(queue) \in Seq(Queries)
    BY <1>6 DEF Work, TypeOK
  <2>2. PICK e \in Effects(Head(queue)) :
          answer' = [answer EXCEPT ![Head(queue)] = e[1]] /\ graph' = e[2]
    BY <1>6 DEF Work
  <2>3. e[1] \in {"refused", "zero", "many"} /\ e[2] \in Graphs
    BY <2>1, EffectShape
  <2> QED
    BY <1>6, <2>1, <2>2, <2>3 DEF Work, TypeOK
<1>7. CASE Die
  <2>1. NoGraph \in Graphs /\ <<>> \in Seq(Queries)
    BY DEF Graphs
  <2> QED
    BY <1>7, <2>1 DEF Die, TypeOK
<1>8. CASE DeadlinePasses
  <2>1. Deadline(step) \in {"build", "query"}
    BY DEF Deadline
  <2>2. late' \subseteq {"build", "query"}
    BY <1>8, <2>1 DEF DeadlinePasses, TypeOK
  <2> QED
    BY <1>8, <2>2 DEF DeadlinePasses, TypeOK
<1>9. CASE IdleExpires \/ Garble \/ Watch
  BY <1>9 DEF IdleExpires, Garble, Watch, TypeOK
<1>10. CASE UNCHANGED vars
  BY <1>10 DEF TypeOK
<1> QED
  BY <1>1, <1>2, <1>3, <1>4, <1>5, <1>6, <1>7, <1>8, <1>9, <1>10 DEF Next, Client, Terminated


-----------------------------------------------------------------------------
(* What has not been posted is unknown to the server.                      *)

(* A query that ends takes no other with it but those of its attempt.       *)
LEMMA AheadAfter ==
  ASSUME step \in Queries, NEW ok \in BOOLEAN, step' = After(step, ok),
         NEW q \in Queries, Ahead(q)'
  PROVE  Ahead(q) /\ q # step
<1>1. q[1] \in {"import", "size"} /\ q[2] \in Nat
  BY QueryShape, QueryAssumption DEF Ahead, Attempts
<1>2. step[1] \in {"import", "size"} => step[2] \in Nat
  BY QueryShape, QueryAssumption DEF Attempts
<1>3. CASE step = Load
  BY <1>1, <1>3 DEF Ahead, Load
<1>4. CASE step[1] = "import" /\ step' = Size(step[2])
  BY <1>1, <1>2, <1>4 DEF Ahead, Size
<1>5. CASE step[1] \in {"import", "size"} /\ step' = Import(step[2] + 1)
  BY <1>1, <1>2, <1>5 DEF Ahead, Import
<1>6. CASE step' \in {Save, Page, Built, Failed}
  BY <1>1, <1>6 DEF Ahead, Save, Page, Built, Failed
<1> QED
  BY <1>3, <1>4, <1>5, <1>6, AfterShape

LEMMA FreshStep ==
  ASSUME TypeOK, Fresh, [Next]_vars
  PROVE  Fresh'
<1> SUFFICES ASSUME NEW q \in Queries, Ahead(q)'
             PROVE  answer'[q] = "none" /\ \A k \in DOMAIN queue' : queue'[k] # q
  BY DEF Fresh
<1>0. queue \in Seq(Queries)
  BY DEF TypeOK
<1>1. ASSUME NEW ok \in BOOLEAN, ReturnStep(ok)
      PROVE  answer'[q] = "none" /\ \A k \in DOMAIN queue' : queue'[k] # q
  <2>1. Ahead(q) /\ q # step /\ step \in Queries
    BY <1>1, AheadAfter DEF ReturnStep
  <2>2. answer[q] = "none" /\ \A k \in DOMAIN queue : queue[k] # q
    BY <2>1 DEF Fresh
  <2>3. answer' = answer /\ (queue' = queue \/ queue' = Append(queue, step))
    BY <1>1 DEF ReturnStep
  <2> QED
    BY <1>0, <2>1, <2>2, <2>3
<1>2. CASE AcceptStep
  <2>1. q # step /\ Ahead(q)
    BY <1>2, QueryShape, QueryAssumption DEF AcceptStep, Ahead, Attempts
  <2>2. answer[q] = "none" /\ \A k \in DOMAIN queue : queue[k] # q
    BY <2>1 DEF Fresh
  <2>3. answer' = answer /\ queue' = Append(queue, step) /\ step \in Queries
    BY <1>2 DEF AcceptStep
  <2> QED
    BY <1>0, <2>1, <2>2, <2>3
<1>3. CASE WorkStep
  <2>1. Ahead(q)
    BY <1>3 DEF WorkStep, Ahead
  <2>2. answer[q] = "none" /\ \A k \in DOMAIN queue : queue[k] # q
    BY <2>1 DEF Fresh
  <2>3. queue' = Tail(queue) /\ queue # <<>>
    BY <1>3 DEF WorkStep
  <2>4. Head(queue) # q
    BY <1>0, <2>2, <2>3
  <2>5. PICK e : answer' = [answer EXCEPT ![Head(queue)] = e[1]]
    BY <1>3 DEF WorkStep
  <2>6. answer'[q] = answer[q]
    BY <2>4, <2>5 DEF TypeOK
  <2> QED
    BY <1>0, <2>2, <2>3, <2>6
<1>4. CASE DieStep
  <2>1. Ahead(q)
    BY <1>4 DEF DieStep, Ahead
  <2> QED
    BY <1>4, <2>1 DEF DieStep, Fresh
<1>5. CASE IdleStep
  <2>1. Ahead(q)
    BY <1>5 DEF IdleStep, Ahead
  <2> QED
    BY <1>5, <2>1 DEF IdleStep, Fresh
<1> QED
  BY <1>1, <1>2, <1>3, <1>4, <1>5, StepKinds

-----------------------------------------------------------------------------
(* An import that was answered was the last query the server had.          *)

LEMMA LastInStep ==
  ASSUME TypeOK, Fresh, LastIn, Fresh', [Next]_vars
  PROVE  LastIn'
<1> SUFFICES ASSUME step'[1] = "import"
             PROVE  /\ \A k \in DOMAIN queue' : queue'[k] = step' => k = Len(queue')
                    /\ up' /\ answer'[step'] # "none" =>
                         /\ queue' = <<>>
                         /\ answer'[step'] # "refused" => graph' = NoGraph \/ graph'.from = step'
  BY DEF LastIn
<1>0. queue \in Seq(Queries)
  BY DEF TypeOK
<1>1. ASSUME NEW ok \in BOOLEAN, ReturnStep(ok)
      PROVE  answer'[step'] = "none" /\ \A k \in DOMAIN queue' : queue'[k] # step'
  <2>1. step' \in Queries
    BY <1>1, AfterType DEF ReturnStep, Ended, Built, Failed
  <2>2. \A q \in Queries : q = step' => Ahead(q)'
    BY <1>1 DEF ReturnStep, Ahead
  <2> QED
    BY <2>1, <2>2 DEF Fresh
<1>2. CASE AcceptStep
  <2>1. Ahead(step) /\ step \in Queries
    BY <1>2 DEF AcceptStep, Ahead
  <2>2. answer[step] = "none" /\ \A k \in DOMAIN queue : queue[k] # step
    BY <2>1 DEF Fresh
  <2>3. step' = step /\ answer' = answer /\ queue' = Append(queue, step)
    BY <1>2 DEF AcceptStep
  <2>4. \A k \in DOMAIN queue' : queue'[k] = step => k = Len(queue')
    BY <1>0, <2>1, <2>2, <2>3
  <2> QED
    BY <2>2, <2>3, <2>4
<1>3. CASE WorkStep
  <2> DEFINE h == Head(queue)
  <2>1. /\ step' = step /\ up /\ queue # <<>> /\ queue' = Tail(queue)
        /\ step[1] = "import" /\ step \in Queries
    BY <1>3 DEF WorkStep, TypeOK, Ended, Built, Failed
  <2>2. PICK e \in Effects(h) : answer' = [answer EXCEPT ![h] = e[1]] /\ graph' = e[2]
    BY <1>3 DEF WorkStep
  <2>3. answer[step] = "none" /\ \A k \in DOMAIN queue : queue[k] = step => k = Len(queue)
    BY <2>1 DEF LastIn
  <2>4. \A k \in DOMAIN queue' : queue'[k] = step => k = Len(queue')
    BY <1>0, <2>1, <2>3
  <2>5. CASE h = step
    <3>1. 1 \in DOMAIN queue /\ queue[1] = step
      BY <1>0, <2>1, <2>5
    <3>2. Len(queue) = 1
      BY <2>3, <3>1
    <3>3. queue' = <<>>
      BY <1>0, <2>1, <3>2
    <3>4. answer'[step] = e[1]
      BY <2>1, <2>2, <2>5 DEF TypeOK
    <3>5. e[1] # "refused" => graph' = NoGraph \/ graph'.from = step
      BY <2>1, <2>2, <2>5, EffectShape
    <3> QED
      BY <2>1, <2>4, <3>3, <3>4, <3>5
  <2>6. CASE h # step
    <3>1. answer'[step] = "none"
      BY <2>1, <2>2, <2>3, <2>6 DEF TypeOK
    <3> QED
      BY <2>1, <2>4, <3>1
  <2> QED
    BY <2>5, <2>6
<1>4. CASE DieStep
  BY <1>4 DEF DieStep
<1>5. CASE IdleStep
  BY <1>5 DEF IdleStep, LastIn
<1> QED
  BY <1>1, <1>2, <1>3, <1>4, <1>5, StepKinds

-----------------------------------------------------------------------------
(* The count is of the graph that was imported.                            *)

LEMMA CountingStep ==
  ASSUME TypeOK, LastIn, Counting, Fresh', [Next]_vars
  PROVE  Counting'
<1> SUFFICES ASSUME step'[1] = "size", up'
             PROVE  /\ \A k \in DOMAIN queue' : queue'[k] = step'
                    /\ graph' = NoGraph \/ graph'.from = Import(step'[2])
                    /\ answer'[step'] = "many" => graph' # NoGraph /\ graph'.methods
  BY DEF Counting
<1>0. queue \in Seq(Queries)
  BY DEF TypeOK
<1>1. ASSUME NEW ok \in BOOLEAN, ReturnStep(ok)
      PROVE  /\ queue' = <<>> /\ answer'[step'] = "none"
             /\ graph' = NoGraph \/ graph'.from = Import(step'[2])
  <2>1. step \in Queries /\ step' = After(step, ok)
    BY <1>1 DEF ReturnStep
  <2>2. ok /\ step[1] = "import" /\ step' = Size(step[2])
    BY <2>1, AfterShape DEF Import, Save, Page, Built, Failed
  <2>3. step = Import(step[2]) /\ step'[2] = step[2]
    BY <2>1, <2>2, QueryShape DEF Size
  <2>4. up /\ answer[step] \notin {"none", "refused"} /\ queue' = queue /\ graph' = graph
    BY <1>1, <2>2 DEF ReturnStep
  <2>5. queue = <<>> /\ (graph = NoGraph \/ graph.from = step)
    BY <2>2, <2>4 DEF LastIn
  <2>6. step' \in Queries /\ \A q \in Queries : q = step' => Ahead(q)'
    BY <1>1, <2>1, AfterType DEF ReturnStep, Ahead, Ended, Built, Failed
  <2>7. answer'[step'] = "none"
    BY <2>6 DEF Fresh
  <2> QED
    BY <2>3, <2>4, <2>5, <2>7
<1>2. CASE AcceptStep
  <2>1. /\ step' = step /\ answer' = answer /\ graph' = graph /\ queue' = Append(queue, step)
        /\ up /\ step \in Queries
    BY <1>2 DEF AcceptStep
  <2>2. \A k \in DOMAIN queue : queue[k] = step
    BY <2>1 DEF Counting
  <2>3. \A k \in DOMAIN queue' : queue'[k] = step
    BY <1>0, <2>1, <2>2
  <2> QED
    BY <2>1, <2>3 DEF Counting
<1>3. CASE WorkStep
  <2>1. /\ step' = step /\ up /\ queue # <<>> /\ queue' = Tail(queue)
        /\ step[1] = "size" /\ step \in Queries
    BY <1>3 DEF WorkStep, TypeOK, Ended, Built, Failed
  <2>2. \A k \in DOMAIN queue : queue[k] = step
    BY <2>1 DEF Counting
  <2>3. Head(queue) = step /\ \A k \in DOMAIN queue' : queue'[k] = step
    BY <1>0, <2>1, <2>2
  <2>4. PICK e \in Effects(step) : answer' = [answer EXCEPT ![step] = e[1]] /\ graph' = e[2]
    BY <1>3, <2>3 DEF WorkStep
  <2>5. graph' = graph /\ (e[1] = "many" => graph # NoGraph /\ graph.methods)
    BY <2>1, <2>4, EffectShape
  <2>6. answer'[step] = e[1]
    BY <2>1, <2>4 DEF TypeOK
  <2> QED
    BY <2>1, <2>3, <2>5, <2>6 DEF Counting
<1>4. CASE DieStep
  BY <1>4 DEF DieStep
<1>5. CASE IdleStep
  BY <1>5 DEF IdleStep, Counting
<1> QED
  BY <1>1, <1>2, <1>3, <1>4, <1>5, StepKinds

-----------------------------------------------------------------------------
(* The verified graph.                                                     *)

LEMMA BuiltGraphStep ==
  ASSUME TypeOK, Counting, BuiltGraphIsNew, [Next]_vars
  PROVE  BuiltGraphIsNew'
<1> DEFINE Good(g) == g # NoGraph /\ g.methods /\ g.from \in {Import(i) : i \in Attempts}
           Harmless(s) == \A k \in DOMAIN s : s[k][1] \notin {"load", "import"}
<1> SUFFICES ASSUME Verified', up'
             PROVE  Good(graph') /\ Harmless(queue')
  BY DEF BuiltGraphIsNew
<1>0. queue \in Seq(Queries)
  BY DEF TypeOK
<1>a. Verified /\ up => Good(graph) /\ Harmless(queue)
  BY DEF BuiltGraphIsNew
<1>1. ASSUME NEW ok \in BOOLEAN, ReturnStep(ok)
      PROVE  Good(graph') /\ Harmless(queue')
  <2>1. /\ step \in Queries /\ step' = After(step, ok) /\ up /\ graph' = graph
        /\ queue' = queue \/ queue' = Append(queue, step)
    BY <1>1 DEF ReturnStep
  <2>2. \/ step[1] = "size" /\ answer[step] = "many"
        \/ step \in {Save, Page}
    BY <2>1, AfterShape DEF Verified, Import, Size, Save, Page, Built, Failed
  <2>3. CASE step[1] = "size" /\ answer[step] = "many"
    <3>1. step[2] \in Attempts
      BY <2>1, <2>3, QueryShape
    <3>2. Good(graph) /\ \A k \in DOMAIN queue : queue[k] = step
      BY <2>1, <2>3, <3>1 DEF Counting
    <3>3. \A k \in DOMAIN queue' : queue'[k] = step
      BY <1>0, <2>1, <3>2
    <3> QED
      BY <2>1, <2>3, <3>2, <3>3
  <2>4. CASE step \in {Save, Page}
    <3>1. Good(graph) /\ Harmless(queue) /\ step[1] \notin {"load", "import"}
      BY <1>a, <2>1, <2>4 DEF Verified, Save, Page
    <3>2. \A k \in DOMAIN queue' : queue'[k] = step \/ (k \in DOMAIN queue /\ queue'[k] = queue[k])
      BY <1>0, <2>1
    <3> QED
      BY <2>1, <3>1, <3>2
  <2> QED
    BY <2>2, <2>3, <2>4
<1>2. CASE AcceptStep
  <2>1. /\ step' = step /\ graph' = graph /\ queue' = Append(queue, step)
        /\ up /\ step \in Queries
    BY <1>2 DEF AcceptStep
  <2>2. Good(graph) /\ Harmless(queue) /\ step[1] \notin {"load", "import"}
    BY <1>a, <2>1, QueryShape DEF Verified, Save, Page, Ended
  <2>3. \A k \in DOMAIN queue' : queue'[k] = step \/ (k \in DOMAIN queue /\ queue'[k] = queue[k])
    BY <1>0, <2>1
  <2> QED
    BY <2>1, <2>2, <2>3
<1>3. CASE WorkStep
  <2>1. step' = step /\ up /\ queue # <<>> /\ queue' = Tail(queue)
    BY <1>3 DEF WorkStep
  <2>2. Good(graph) /\ Harmless(queue)
    BY <1>a, <2>1 DEF Verified
  <2>3. Head(queue) \in Queries /\ Head(queue)[1] \notin {"load", "import"} /\ Harmless(queue')
    BY <1>0, <2>1, <2>2
  <2>4. graph' = graph
    BY <1>3, <2>3, EffectShape DEF WorkStep
  <2> QED
    BY <2>2, <2>3, <2>4
<1>4. CASE DieStep
  BY <1>4 DEF DieStep
<1>5. CASE IdleStep
  BY <1>a, <1>5 DEF IdleStep, Verified
<1> QED
  BY <1>1, <1>2, <1>3, <1>4, <1>5, StepKinds

-----------------------------------------------------------------------------
(* The theorems.                                                           *)

LEMMA NextIInv == IInv /\ [Next]_vars => IInv'
BY TypeStep, FreshStep, LastInStep, CountingStep, BuiltGraphStep DEF IInv

LEMMA Invariance == Spec => []IInv
BY InitIInv, NextIInv, PTL DEF Spec

(***************************************************************************)
(* Every variable keeps its type: the script, the clocks and flags of      *)
(* doQuery (http.go:100-263), the queue and the graph of the REPL.         *)
(***************************************************************************)
THEOREM TypeCorrect == Spec => []TypeOK
<1>1. IInv => TypeOK
  BY DEF IInv
<1> QED
  BY <1>1, Invariance, PTL

(***************************************************************************)
(* Whatever the server refuses, loses or answers too late, and however     *)
(* many languages are tried, the graph that BuildCPG has verified is one   *)
(* it imported itself, with methods in it, and nothing still queued can    *)
(* replace it (build.go:143-186).                                          *)
(***************************************************************************)
THEOREM BuiltGraph == Spec => []BuiltGraphIsNew
<1>1. IInv => BuiltGraphIsNew
  BY DEF IInv
<1> QED
  BY <1>1, Invariance, PTL

-----------------------------------------------------------------------------
(* Failures.                                                               *)

\* The watcher raises the flag for a process that is gone, and none is started again.
FlagIsHonest == crashed => ~up

LEMMA FlagStep == FlagIsHonest /\ [Next]_vars => FlagIsHonest'
<1> SUFFICES ASSUME FlagIsHonest, [Next]_vars PROVE FlagIsHonest'
  OBVIOUS
<1> USE DEF clientVars, serverVars, vars
<1>1. CASE Watch \/ Die
  BY <1>1 DEF Watch, Die, FlagIsHonest
<1>2. ASSUME UNCHANGED <<crashed, up>> PROVE FlagIsHonest'
  BY <1>2 DEF FlagIsHonest
<1> QED
  BY <1>1, <1>2
  DEF Next, Client, Post, GiveUp, PollGarbled, PollAnswered, PollUnfinished, DeadlinePasses,
      IdleExpires, Garble, Work, Terminated

(* A query that does not return, or returns well, has not failed.           *)
LEMMA OnlyReturnFails ==
  ASSUME FlagIsHonest, [Next]_vars, NEW q \in failed' \ failed
  PROVE  Excused(q)
<1> USE DEF clientVars, serverVars, vars
<1>1. ASSUME Return(FALSE), Expired \/ crashed \/ ~up \/ idle \/ garbled PROVE Excused(q)
  BY <1>1 DEF Return, Excused, Expired, FlagIsHonest
<1>2. CASE Post
  BY <1>1, <1>2 DEF Post
<1>3. CASE GiveUp
  BY <1>1, <1>3 DEF GiveUp
<1>4. CASE PollGarbled
  BY <1>1, <1>4 DEF PollGarbled
<1>5. CASE PollAnswered
  <2>1. q = step /\ answer[step] = "refused"
    BY <1>5 DEF PollAnswered, Return
  <2> QED
    BY <2>1 DEF Excused
<1>6. ASSUME UNCHANGED failed PROVE FALSE
  BY <1>6
<1>7. CASE \E r \in Unfinished : PollUnfinished(r)
  BY <1>6, <1>7 DEF PollUnfinished, Unfinished, StillWorking
<1> QED
  BY <1>2, <1>3, <1>4, <1>5, <1>6, <1>7
  DEF Next, Client, DeadlinePasses, IdleExpires, Garble, Work, Die, Watch, Terminated

(***************************************************************************)
(* doQuery returns an error only when the server is gone or refused the    *)
(* query, a response was unreadable, or a deadline or the idle clock has   *)
(* run out (http.go:146-261).                                              *)
(***************************************************************************)
THEOREM FailuresHaveCauses == Spec => FailsForCause
<1>1. Init => FlagIsHonest
  BY DEF Init, FlagIsHonest
<1>2. FlagIsHonest /\ [Next]_vars => [\A q \in failed' \ failed : Excused(q)]_vars
  BY OnlyReturnFails
<1> QED
  BY <1>1, <1>2, FlagStep, PTL DEF Spec, FailsForCause
=============================================================================
