---------------------------- MODULE FindingsProofs ----------------------------
(***************************************************************************)
(* Proofs about what a scan says of the code.                              *)
(*                                                                         *)
(* Attribution, for any call graph, any surfaces and any taint paths: the  *)
(* worklist searches choose what the definition of a surface asks for, a   *)
(* path is attributed to one surface, the nearest, and a surface keeps the *)
(* sinks of its own paths.                                                 *)
(*                                                                         *)
(* Dedup, for any reports the producers may make and any number of them:   *)
(* types, that the verdict depends on which reports were made and not on   *)
(* their order, that a further report never lowers it, that no row claims  *)
(* more than its confidence backs, and that a changed verdict reaches the  *)
(* row.                                                                    *)
(***************************************************************************)
EXTENDS Attribution, Dedup, FiniteSetTheorems, WellFoundedInduction, TLAPS

-----------------------------------------------------------------------------
(* Numbers: induction and least elements, from the order on them being     *)
(* well founded.                                                           *)

Below == {p \in Nat \X Nat : p[1] < p[2]}

(* A set of numbers with 0 and the successor of each of its members is Nat. *)
LEMMA NatSetInduction ==
  ASSUME NEW S, 0 \in S, \A n \in Nat : n \in S => n + 1 \in S
  PROVE  Nat \subseteq S
<1>1. IsWellFoundedOn(Below, Nat)
  BY NatLessThanWellFounded DEF OpToRel, Below
<1> SUFFICES ASSUME Nat \ S # {} PROVE FALSE
  OBVIOUS
<1>2. PICK x \in Nat \ S : \A y \in Nat \ S : <<y, x>> \notin Below
  BY <1>1, WFMin
<1>3. x # 0 /\ x - 1 \in Nat /\ <<x - 1, x>> \in Below
  BY DEF Below
<1>4. x - 1 \in S
  BY <1>2, <1>3
<1> QED
  BY <1>3, <1>4

(* A set of numbers that is not empty has a least one.                      *)
LEMMA LeastNumber ==
  ASSUME NEW S \in SUBSET Nat, S # {}
  PROVE  \E n \in S : \A k \in Nat : k < n => k \notin S
<1>1. IsWellFoundedOn(Below, Nat)
  BY NatLessThanWellFounded DEF OpToRel, Below
<1>2. PICK x \in S : \A y \in S : <<y, x>> \notin Below
  BY <1>1, WFMin
<1> QED
  BY <1>2 DEF Below

-----------------------------------------------------------------------------
(* Sequences.                                                              *)

(* A sequence over a set is one over any larger set.                        *)
LEMMA WiderSeq ==
  ASSUME NEW S, NEW T, S \subseteq T, NEW s \in Seq(S)
  PROVE  s \in Seq(T)
<1>1. Len(s) \in Nat /\ s = [i \in 1..Len(s) |-> s[i]] /\ \A i \in 1..Len(s) : s[i] \in T
  OBVIOUS
<1> QED
  BY <1>1

(* What is in a sequence.                                                   *)
LEMMA SeqElement ==
  ASSUME NEW S, NEW s \in Seq(S)
  PROVE  \A i \in DOMAIN s : s[i] \in S
<1>1. DOMAIN s = 1..Len(s)
  OBVIOUS
<1> QED
  BY <1>1

(* Where the elements of two sequences end up when one follows the other.   *)
LEMMA Concatenation ==
  ASSUME NEW S, NEW s \in Seq(S), NEW t \in Seq(S)
  PROVE  /\ s \o t \in Seq(S) /\ Len(s \o t) = Len(s) + Len(t)
         /\ DOMAIN (s \o t) = 1..Len(s \o t)
         /\ \A i \in 1..Len(s) : (s \o t)[i] = s[i]
         /\ \A i \in DOMAIN (s \o t) : i > Len(s) =>
              i - Len(s) \in DOMAIN t /\ (s \o t)[i] = t[i - Len(s)]
         /\ \A i \in DOMAIN t : i + Len(s) \in DOMAIN (s \o t) /\ (s \o t)[i + Len(s)] = t[i]
<1>1. s \o t \in Seq(S) /\ Len(s \o t) = Len(s) + Len(t)
  OBVIOUS
<1>2. Len(s) \in Nat /\ Len(t) \in Nat /\ DOMAIN t = 1..Len(t)
  OBVIOUS
<1>3. DOMAIN (s \o t) = 1..Len(s \o t)
  BY <1>1
<1>4. \A i \in 1..Len(s) : (s \o t)[i] = s[i]
  OBVIOUS
<1>5. ASSUME NEW i \in DOMAIN (s \o t), i > Len(s)
      PROVE  i - Len(s) \in DOMAIN t /\ (s \o t)[i] = t[i - Len(s)]
  BY <1>1, <1>2, <1>3, <1>5
<1>6. ASSUME NEW i \in DOMAIN t
      PROVE  i + Len(s) \in DOMAIN (s \o t) /\ (s \o t)[i + Len(s)] = t[i]
  BY <1>1, <1>2, <1>3, <1>5
<1> QED
  BY <1>1, <1>3, <1>4, <1>5, <1>6

(* A sequence has finitely many elements.                                   *)
LEMMA FiniteRange ==
  ASSUME NEW S, NEW s \in Seq(S)
  PROVE  IsFiniteSet(ToSet(s)) /\ ToSet(s) \subseteq S
<1>1. Len(s) \in Nat /\ DOMAIN s = 1..Len(s) /\ s \in [1..Len(s) -> ToSet(s)]
  BY DEF ToSet
<1>2. s \in Surjection(1..Len(s), ToSet(s))
  BY <1>1 DEF Surjection, ToSet
<1>3. IsFiniteSet(1..Len(s))
  BY <1>1, FS_Interval
<1>4. ToSet(s) \subseteq S
  BY SeqElement DEF ToSet
<1> QED
  BY <1>2, <1>3, <1>4, FS_Surjection

(* A finite set as a sequence: each of its members is in it.                *)
LEMMA SetAsSequence ==
  ASSUME NEW S, IsFiniteSet(S)
  PROVE  /\ SetToSeq(S) \in Seq(S)
         /\ Len(SetToSeq(S)) \in Nat /\ Len(SetToSeq(S)) = Cardinality(S)
         /\ DOMAIN SetToSeq(S) = 1..Len(SetToSeq(S))
         /\ \A x \in S : \E i \in DOMAIN SetToSeq(S) : SetToSeq(S)[i] = x
<1> DEFINE n == Cardinality(S)
           f == SetToSeq(S)
<1>1. n \in Nat /\ ExistsBijection(1..n, S)
  BY FS_CardinalityType
<1>2. \E g \in [1..n -> S] : IsInjective(g)
  BY <1>1 DEF ExistsBijection, Bijection, Injection
<1>3. f \in [1..n -> S] /\ IsInjective(f)
  BY <1>2 DEF SetToSeq
<1>4. IsFiniteSet(1..n) /\ Cardinality(1..n) = n
  BY <1>1, FS_Interval
<1> HIDE DEF n
<1>5. f \in Injection(1..n, S)
  BY <1>3 DEF Injection
<1>6. f \in Surjection(1..n, S)
  BY <1>4, <1>5, FS_Injection DEF n
<1> HIDE DEF f
<1>7. DOMAIN f = 1..n /\ f \in Seq(S) /\ Len(f) = n
  BY <1>1, <1>3
<1>8. \A x \in S : \E i \in 1..n : f[i] = x
  BY <1>6 DEF Surjection
<1> QED
  BY <1>1, <1>7, <1>8 DEF f, n

-----------------------------------------------------------------------------
(* Walks over a call graph.                                                *)

(* A callee of S is what some call leads to from a member of S.             *)
LEMMA CalleeOf ==
  ASSUME NEW graph, NEW S, NEW x
  PROVE  x \in Callees(graph, S) <=> \E c \in graph : c[1] \in S /\ c[2] = x
<1>1. ASSUME x \in Callees(graph, S) PROVE \E c \in graph : c[1] \in S /\ c[2] = x
  BY <1>1, Zenon DEF Callees
<1>2. ASSUME NEW c \in graph, c[1] \in S, c[2] = x PROVE x \in Callees(graph, S)
  BY <1>2, Zenon DEF Callees
<1> QED
  BY <1>1, <1>2

\* One more step.
Further(graph, S) == S \cup Callees(graph, S)

\* f tells what lies within each of the first n steps from start.
IsWalk(f, graph, start, n) ==
  f = [i \in 0..n |-> IF i = 0 THEN start ELSE Further(graph, f[i - 1])]

(* There is such a walk of any length.                                      *)
LEMMA WalkExists ==
  ASSUME NEW graph, NEW start, NEW n \in Nat
  PROVE  \E f : IsWalk(f, graph, start, n)
<1> DEFINE S == {m \in Nat : \E f : IsWalk(f, graph, start, m)}
<1>1. 0 \in S
  <2>1. IsWalk([i \in 0..0 |-> start], graph, start, 0)
    BY DEF IsWalk
  <2> QED
    BY <2>1
<1>2. ASSUME NEW m \in Nat, m \in S
      PROVE  m + 1 \in S
  <2>1. PICK f : IsWalk(f, graph, start, m)
    BY <1>2
  <2> DEFINE g == [i \in 0..(m + 1) |-> IF i <= m THEN f[i] ELSE Further(graph, f[m])]
  <2>2. \A i \in 0..m : f[i] = IF i = 0 THEN start ELSE Further(graph, f[i - 1])
    BY <2>1 DEF IsWalk
  <2>3. \A i \in 0..(m + 1) :
          g[i] = IF i = 0 THEN start ELSE Further(graph, g[i - 1])
    <3>1. ASSUME NEW i \in 0..m
          PROVE  g[i] = IF i = 0 THEN start ELSE Further(graph, g[i - 1])
      <4>1. CASE i = 0
        BY <2>2, <4>1
      <4>2. CASE i # 0
        <5>1. i - 1 \in 0..m /\ i \in 0..(m + 1) /\ i - 1 \in 0..(m + 1)
          BY <4>2
        <5>2. g[i] = f[i] /\ g[i - 1] = f[i - 1]
          BY <5>1
        <5> HIDE DEF g
        <5> QED
          BY <2>2, <4>2, <5>2
      <4> QED
        BY <4>1, <4>2
    <3>2. g[m + 1] = Further(graph, f[m]) /\ g[(m + 1) - 1] = f[m]
      OBVIOUS
    <3> HIDE DEF g
    <3>3. \A i \in 0..(m + 1) : i \in 0..m \/ (i = m + 1 /\ i # 0)
      OBVIOUS
    <3> QED
      BY <3>1, <3>2, <3>3
  <2>4. g = [i \in 0..(m + 1) |-> g[i]]
    OBVIOUS
  <2> HIDE DEF g
  <2>5. g = [i \in 0..(m + 1) |-> IF i = 0 THEN start ELSE Further(graph, g[i - 1])]
    BY <2>3, <2>4
  <2> QED
    BY <2>5 DEF IsWalk
<1> HIDE DEF S
<1>3. Nat \subseteq S
  BY <1>1, <1>2, NatSetInduction
<1> QED
  BY <1>3 DEF S

(* Two walks from the same methods agree as far as both go.                 *)
LEMMA WalkIsUnique ==
  ASSUME NEW graph, NEW start, NEW m \in Nat, NEW n \in Nat, NEW f, NEW g,
         IsWalk(f, graph, start, m), IsWalk(g, graph, start, n)
  PROVE  \A i \in Nat : i <= m /\ i <= n => f[i] = g[i]
<1> DEFINE S == {i \in Nat : i <= m /\ i <= n => f[i] = g[i]}
<1>1. \A i \in 0..m : f[i] = IF i = 0 THEN start ELSE Further(graph, f[i - 1])
  BY DEF IsWalk
<1>2. \A i \in 0..n : g[i] = IF i = 0 THEN start ELSE Further(graph, g[i - 1])
  BY DEF IsWalk
<1>3. 0 \in S
  <2>1. 0 \in 0..m /\ 0 \in 0..n
    OBVIOUS
  <2>2. f[0] = start /\ g[0] = start
    BY <1>1, <1>2, <2>1
  <2> QED
    BY <2>2
<1>4. ASSUME NEW i \in Nat, i \in S PROVE i + 1 \in S
  <2>1. SUFFICES ASSUME i + 1 <= m, i + 1 <= n PROVE f[i + 1] = g[i + 1]
    OBVIOUS
  <2>2. f[i] = g[i]
    BY <1>4, <2>1
  <2>3. i + 1 \in 0..m /\ i + 1 \in 0..n /\ i + 1 # 0 /\ (i + 1) - 1 = i
    BY <2>1
  <2>4. f[i + 1] = Further(graph, f[i])
    BY <1>1, <2>3
  <2>5. g[i + 1] = Further(graph, g[i])
    BY <1>2, <2>3
  <2> QED
    BY <2>2, <2>4, <2>5
<1> HIDE DEF S
<1>5. Nat \subseteq S
  BY <1>3, <1>4, NatSetInduction
<1> QED
  BY <1>5 DEF S

(* Another step adds what the methods seen so far call.                     *)
LEMMA WithinSteps ==
  ASSUME NEW graph, NEW start
  PROVE  /\ Within(graph, 0, start) = start
         /\ \A n \in Nat : Within(graph, n + 1, start) =
              Within(graph, n, start) \cup Callees(graph, Within(graph, n, start))
<1>1. ASSUME NEW n \in Nat
      PROVE  \E f : IsWalk(f, graph, start, n) /\ Within(graph, n, start) = f[n]
  <2> DEFINE f == CHOOSE g : IsWalk(g, graph, start, n)
  <2>1. IsWalk(f, graph, start, n)
    BY WalkExists
  <2>2. Within(graph, n, start) = f[n]
    BY DEF Within, IsWalk, Further
  <2> QED
    BY <2>1, <2>2
<1>2. Within(graph, 0, start) = start
  <2>1. PICK f : IsWalk(f, graph, start, 0) /\ Within(graph, 0, start) = f[0]
    BY <1>1
  <2>2. f[0] = start
    BY <2>1 DEF IsWalk
  <2> QED
    BY <2>1, <2>2
<1>3. ASSUME NEW n \in Nat
      PROVE  Within(graph, n + 1, start) =
               Within(graph, n, start) \cup Callees(graph, Within(graph, n, start))
  <2>1. PICK f : IsWalk(f, graph, start, n) /\ Within(graph, n, start) = f[n]
    BY <1>1
  <2>2. PICK g : IsWalk(g, graph, start, n + 1) /\ Within(graph, n + 1, start) = g[n + 1]
    BY <1>1
  <2>3. f[n] = g[n]
    <3>1. n + 1 \in Nat /\ n <= n /\ n <= n + 1
      OBVIOUS
    <3> QED
      BY <2>1, <2>2, <3>1, WalkIsUnique
  <2>4. g[n + 1] = Further(graph, g[n])
    <3>1. n + 1 \in 0..(n + 1) /\ n + 1 # 0 /\ (n + 1) - 1 = n
      OBVIOUS
    <3>2. \A i \in 0..(n + 1) :
            g[i] = IF i = 0 THEN start ELSE Further(graph, g[i - 1])
      BY <2>2 DEF IsWalk
    <3> QED
      BY <3>1, <3>2
  <2> QED
    BY <2>1, <2>2, <2>3, <2>4 DEF Further
<1> QED
  BY <1>2, <1>3

(* One more step, for one method.                                           *)
LEMMA WithinStep ==
  ASSUME NEW graph, NEW start, NEW n \in Nat, NEW x
  PROVE  x \in Within(graph, n + 1, start)
           <=> \/ x \in Within(graph, n, start)
               \/ \E c \in graph : c[1] \in Within(graph, n, start) /\ c[2] = x
<1>1. Within(graph, n + 1, start) = Within(graph, n, start) \cup Callees(graph, Within(graph, n, start))
  BY WithinSteps
<1> QED
  BY <1>1, CalleeOf

(* More steps never lead to less.                                           *)
LEMMA WithinGrows ==
  ASSUME NEW graph, NEW start, NEW m \in Nat, NEW n \in Nat, m <= n
  PROVE  Within(graph, m, start) \subseteq Within(graph, n, start)
<1> DEFINE S == {k \in Nat : Within(graph, m, start) \subseteq Within(graph, m + k, start)}
<1>1. 0 \in S
  OBVIOUS
<1>2. ASSUME NEW k \in Nat, k \in S PROVE k + 1 \in S
  <2>1. m + (k + 1) = (m + k) + 1 /\ m + k \in Nat
    OBVIOUS
  <2>2. Within(graph, m + k, start) \subseteq Within(graph, (m + k) + 1, start)
    BY <2>1, WithinSteps
  <2> QED
    BY <1>2, <2>1, <2>2
<1> HIDE DEF S
<1>3. Nat \subseteq S
  BY <1>1, <1>2, NatSetInduction
<1>4. n - m \in Nat /\ m + (n - m) = n
  OBVIOUS
<1>5. n - m \in S
  BY <1>3, <1>4
<1> QED
  BY <1>4, <1>5 DEF S

(* Walks stay where the calls lead.                                         *)
LEMMA WithinInside ==
  ASSUME NEW graph, NEW start, NEW N, start \subseteq N, \A c \in graph : c[2] \in N,
         NEW n \in Nat
  PROVE  Within(graph, n, start) \subseteq N
<1> DEFINE S == {k \in Nat : Within(graph, k, start) \subseteq N}
<1>1. 0 \in S
  BY WithinSteps
<1>2. ASSUME NEW k \in Nat, k \in S PROVE k + 1 \in S
  <2>1. ASSUME NEW x \in Within(graph, k + 1, start) PROVE x \in N
    BY <1>2, WithinStep
  <2> QED
    BY <2>1
<1> HIDE DEF S
<1>3. Nat \subseteq S
  BY <1>1, <1>2, NatSetInduction
<1> QED
  BY <1>3 DEF S

(* A walk from several methods is one from each of them.                    *)
IsFromEach(graph, start, n) ==
  \A x : x \in Within(graph, n, start) <=> \E b \in start : x \in Within(graph, n, {b})

LEMMA WithinEach ==
  ASSUME NEW graph, NEW start, NEW n \in Nat
  PROVE  IsFromEach(graph, start, n)
<1> DEFINE S == {k \in Nat : IsFromEach(graph, start, k)}
<1>1. 0 \in S
  <2>1. Within(graph, 0, start) = start /\ \A b : Within(graph, 0, {b}) = {b}
    BY WithinSteps
  <2>2. ASSUME NEW x, x \in start PROVE x \in Within(graph, 0, {x})
    BY <2>1
  <2>3. ASSUME NEW x, NEW b \in start, x \in Within(graph, 0, {b}) PROVE x \in start
    BY <2>1, <2>3
  <2> QED
    BY <2>1, <2>2, <2>3 DEF IsFromEach
<1>2. ASSUME NEW k \in Nat, k \in S PROVE k + 1 \in S
  <2>1. \A x : x \in Within(graph, k, start) <=> \E b \in start : x \in Within(graph, k, {b})
    BY <1>2 DEF IsFromEach
  <2>2. ASSUME NEW x
        PROVE  x \in Within(graph, k + 1, start)
                 <=> \E b \in start : x \in Within(graph, k + 1, {b})
    <3>1. \A b : x \in Within(graph, k + 1, {b})
                   <=> \/ x \in Within(graph, k, {b})
                       \/ \E c \in graph : c[1] \in Within(graph, k, {b}) /\ c[2] = x
      BY WithinStep
    <3>2. x \in Within(graph, k + 1, start)
            <=> \/ x \in Within(graph, k, start)
                \/ \E c \in graph : c[1] \in Within(graph, k, start) /\ c[2] = x
      BY WithinStep
    <3> QED
      BY <2>1, <3>1, <3>2
  <2>3. IsFromEach(graph, start, k + 1)
    BY <2>2 DEF IsFromEach
  <2> QED
    BY <2>3
<1> HIDE DEF S
<1>3. Nat \subseteq S
  BY <1>1, <1>2, NatSetInduction
<1> QED
  BY <1>3 DEF S

(* The first step of a walk in place of the last.                           *)
HasFirstStep(graph, n) ==
  \A a, x : x \in Within(graph, n + 1, {a})
              <=> \/ x \in Within(graph, n, {a})
                  \/ \E c \in graph : c[1] = a /\ x \in Within(graph, n, {c[2]})

LEMMA WithinFront ==
  ASSUME NEW graph, NEW n \in Nat
  PROVE  HasFirstStep(graph, n)
<1> DEFINE S == {k \in Nat : HasFirstStep(graph, k)}
<1>1. 0 \in S
  <2>1. ASSUME NEW a, NEW x
        PROVE  x \in Within(graph, 0 + 1, {a})
                 <=> \/ x \in Within(graph, 0, {a})
                     \/ \E c \in graph : c[1] = a /\ x \in Within(graph, 0, {c[2]})
    <3>1. \A b : Within(graph, 0, {b}) = {b}
      BY WithinSteps
    <3>2. x \in Within(graph, 0 + 1, {a})
            <=> \/ x \in Within(graph, 0, {a})
                \/ \E c \in graph : c[1] \in Within(graph, 0, {a}) /\ c[2] = x
      BY WithinStep
    <3> QED
      BY <3>1, <3>2
  <2> QED
    BY <2>1 DEF HasFirstStep
<1>2. ASSUME NEW k \in Nat, k \in S PROVE k + 1 \in S
  <2>1. \A a, x : x \in Within(graph, k + 1, {a})
                    <=> \/ x \in Within(graph, k, {a})
                        \/ \E c \in graph : c[1] = a /\ x \in Within(graph, k, {c[2]})
    BY <1>2 DEF HasFirstStep
  <2>2. ASSUME NEW a, NEW x
        PROVE  x \in Within(graph, (k + 1) + 1, {a})
                 <=> \/ x \in Within(graph, k + 1, {a})
                     \/ \E c \in graph : c[1] = a /\ x \in Within(graph, k + 1, {c[2]})
    <3>1. \A b, y : y \in Within(graph, k + 1, {b})
                      <=> \/ y \in Within(graph, k, {b})
                          \/ \E c \in graph : c[1] \in Within(graph, k, {b}) /\ c[2] = y
      BY WithinStep
    <3>2. x \in Within(graph, (k + 1) + 1, {a})
            <=> \/ x \in Within(graph, k + 1, {a})
                \/ \E c \in graph : c[1] \in Within(graph, k + 1, {a}) /\ c[2] = x
      <4> DEFINE j == k + 1
      <4>1. j \in Nat
        OBVIOUS
      <4> HIDE DEF j
      <4>2. x \in Within(graph, j + 1, {a})
              <=> \/ x \in Within(graph, j, {a})
                  \/ \E c \in graph : c[1] \in Within(graph, j, {a}) /\ c[2] = x
        BY <4>1, WithinStep
      <4> QED
        BY <4>2 DEF j
    <3>3. ASSUME NEW c \in graph, c[1] \in Within(graph, k + 1, {a}), c[2] = x
          PROVE  \/ x \in Within(graph, k + 1, {a})
                 \/ \E d \in graph : d[1] = a /\ x \in Within(graph, k + 1, {d[2]})
      <4>1. CASE c[1] \in Within(graph, k, {a})
        BY <3>1, <3>3, <4>1
      <4>2. ASSUME NEW d \in graph, d[1] = a, c[1] \in Within(graph, k, {d[2]})
            PROVE  x \in Within(graph, k + 1, {d[2]})
        BY <3>1, <3>3, <4>2
      <4>3. c[1] \in Within(graph, k, {a})
              \/ \E d \in graph : d[1] = a /\ c[1] \in Within(graph, k, {d[2]})
        BY <2>1, <3>3
      <4> QED
        BY <4>1, <4>2, <4>3
    <3>4. ASSUME NEW d \in graph, d[1] = a, x \in Within(graph, k + 1, {d[2]})
          PROVE  \/ x \in Within(graph, k + 1, {a})
                 \/ \E c \in graph : c[1] \in Within(graph, k + 1, {a}) /\ c[2] = x
      <4>1. CASE x \in Within(graph, k, {d[2]})
        BY <2>1, <3>4, <4>1
      <4>2. ASSUME NEW c \in graph, c[1] \in Within(graph, k, {d[2]}), c[2] = x
            PROVE  c[1] \in Within(graph, k + 1, {a})
        BY <2>1, <3>4, <4>2
      <4>3. x \in Within(graph, k, {d[2]})
              \/ \E c \in graph : c[1] \in Within(graph, k, {d[2]}) /\ c[2] = x
        BY <3>1, <3>4
      <4> QED
        BY <4>1, <4>2, <4>3
    <3> QED
      BY <3>2, <3>3, <3>4
  <2>3. HasFirstStep(graph, k + 1)
    BY <2>2 DEF HasFirstStep
  <2> QED
    BY <2>3
<1> HIDE DEF S
<1>3. Nat \subseteq S
  BY <1>1, <1>2, NatSetInduction
<1> QED
  BY <1>3 DEF S

(* The callees against the calls are the callers.                           *)
LEMMA ReversedCall ==
  ASSUME NEW graph, NEW S, NEW a
  PROVE  (\E c \in Reversed(graph) : c[1] \in S /\ c[2] = a)
           <=> \E c \in graph : c[1] = a /\ c[2] \in S
<1>1. ASSUME NEW c \in Reversed(graph), c[1] \in S, c[2] = a
      PROVE  \E d \in graph : d[1] = a /\ d[2] \in S
  <2>1. PICK d \in graph : c = <<d[2], d[1]>>
    BY DEF Reversed
  <2>2. c[1] = d[2] /\ c[2] = d[1]
    BY <2>1
  <2> QED
    BY <1>1, <2>2
<1>2. ASSUME NEW d \in graph, d[1] = a, d[2] \in S
      PROVE  \E c \in Reversed(graph) : c[1] \in S /\ c[2] = a
  <2>1. <<d[2], d[1]>> \in Reversed(graph)
    BY Zenon DEF Reversed
  <2>2. <<d[2], d[1]>>[1] = d[2] /\ <<d[2], d[1]>>[2] = d[1]
    OBVIOUS
  <2> QED
    BY <1>2, <2>1, <2>2
<1> QED
  BY <1>1, <1>2

(* Along the calls from a to b or against them from b to a.                 *)
IsDual(graph, n) ==
  \A a, b : b \in Within(graph, n, {a}) <=> a \in Within(Reversed(graph), n, {b})

LEMMA WithinReversed ==
  ASSUME NEW graph, NEW n \in Nat
  PROVE  IsDual(graph, n)
<1> DEFINE S == {k \in Nat : IsDual(graph, k)}
<1>1. 0 \in S
  <2>1. \A a : Within(graph, 0, {a}) = {a} /\ Within(Reversed(graph), 0, {a}) = {a}
    BY WithinSteps
  <2>2. ASSUME NEW a, NEW b
        PROVE  b \in Within(graph, 0, {a}) <=> a \in Within(Reversed(graph), 0, {b})
    BY <2>1
  <2> QED
    BY <2>2 DEF IsDual
<1>2. ASSUME NEW k \in Nat, k \in S PROVE k + 1 \in S
  <2>1. ASSUME NEW a, NEW b
        PROVE  b \in Within(graph, k + 1, {a}) <=> a \in Within(Reversed(graph), k + 1, {b})
    <3>1. b \in Within(graph, k + 1, {a})
            <=> \/ b \in Within(graph, k, {a})
                \/ \E c \in graph : c[1] = a /\ b \in Within(graph, k, {c[2]})
      BY WithinFront DEF HasFirstStep
    <3>2. a \in Within(Reversed(graph), k + 1, {b})
            <=> \/ a \in Within(Reversed(graph), k, {b})
                \/ \E c \in Reversed(graph) : c[1] \in Within(Reversed(graph), k, {b}) /\ c[2] = a
      BY WithinStep
    <3>3. (\E c \in Reversed(graph) : c[1] \in Within(Reversed(graph), k, {b}) /\ c[2] = a)
            <=> \E c \in graph : c[1] = a /\ c[2] \in Within(Reversed(graph), k, {b})
      BY ReversedCall
    <3>4. \A c : b \in Within(graph, k, {c}) <=> c \in Within(Reversed(graph), k, {b})
      BY <1>2 DEF IsDual
    <3> QED
      BY <3>1, <3>2, <3>3, <3>4
  <2>2. IsDual(graph, k + 1)
    BY <2>1 DEF IsDual
  <2> QED
    BY <2>2
<1> HIDE DEF S
<1>3. Nat \subseteq S
  BY <1>1, <1>2, NatSetInduction
<1> QED
  BY <1>3 DEF S

-----------------------------------------------------------------------------
(* The least number of steps.                                              *)

\* The least number of steps from start to x is n.
Nearest(graph, start, x, n) ==
  n \in Nat /\ x \in Within(graph, n, start) /\ \A k \in Nat : k < n => x \notin Within(graph, k, start)

(* What lies within n steps has a least number of steps.                    *)
LEMMA NearestExists ==
  ASSUME NEW graph, NEW start, NEW n \in Nat, NEW x \in Within(graph, n, start)
  PROVE  \E k \in 0..n : Nearest(graph, start, x, k)
<1> DEFINE S == {k \in Nat : x \in Within(graph, k, start)}
<1>1. n \in S /\ S \in SUBSET Nat
  OBVIOUS
<1>2. PICK k \in S : \A j \in Nat : j < k => j \notin S
  BY <1>1, LeastNumber
<1>3. k <= n
  BY <1>1, <1>2
<1> QED
  BY <1>2, <1>3 DEF Nearest

(* A method that is new in a step is called by one that was new before it.  *)
LEMMA NearestBefore ==
  ASSUME NEW graph, NEW start, NEW n \in Nat, NEW x, Nearest(graph, start, x, n + 1)
  PROVE  \E c \in graph : c[2] = x /\ Nearest(graph, start, c[1], n)
<1>1. x \in Within(graph, n + 1, start) /\ x \notin Within(graph, n, start)
  BY DEF Nearest
<1>2. PICK c \in graph : c[1] \in Within(graph, n, start) /\ c[2] = x
  BY <1>1, WithinStep
<1>3. ASSUME NEW k \in Nat, k < n PROVE c[1] \notin Within(graph, k, start)
  <2>1. k + 1 \in Nat /\ k + 1 < n + 1
    BY <1>3
  <2>2. x \notin Within(graph, k + 1, start)
    BY <2>1 DEF Nearest
  <2> QED
    BY <1>2, <2>2, WithinStep
<1> QED
  BY <1>2, <1>3 DEF Nearest

(* Each step up to the least number adds a method.                          *)
LEMMA LevelsFill ==
  ASSUME NEW graph, NEW start, NEW N, IsFiniteSet(N),
         start \subseteq N, \A c \in graph : c[2] \in N,
         NEW n \in Nat, NEW x, Nearest(graph, start, x, n)
  PROVE  n < Cardinality(N)
<1> DEFINE W(k) == Within(graph, k, start)
           S == {k \in Nat : \A y : Nearest(graph, start, y, k) => k < Cardinality(W(k))}
<1>1. ASSUME NEW k \in Nat
      PROVE  IsFiniteSet(W(k)) /\ Cardinality(W(k)) \in Nat /\ Cardinality(W(k)) <= Cardinality(N)
  <2>1. W(k) \in SUBSET N
    BY WithinInside
  <2> HIDE DEF W
  <2> QED
    BY <2>1, FS_Subset, FS_CardinalityType
<1>2. 0 \in S
  <2>1. ASSUME NEW y, Nearest(graph, start, y, 0) PROVE 0 < Cardinality(W(0))
    <3>1. W(0) # {}
      BY <2>1 DEF Nearest
    <3> HIDE DEF W
    <3>2. Cardinality(W(0)) # 0
      BY <1>1, <3>1, FS_EmptySet
    <3> QED
      BY <1>1, <3>2
  <2> QED
    BY <2>1
<1>3. ASSUME NEW k \in Nat, k \in S PROVE k + 1 \in S
  <2>1. ASSUME NEW y, Nearest(graph, start, y, k + 1) PROVE k + 1 < Cardinality(W(k + 1))
    <3>1. PICK c \in graph : c[2] = y /\ Nearest(graph, start, c[1], k)
      BY <2>1, NearestBefore
    <3>2. k < Cardinality(W(k))
      BY <1>3, <3>1
    <3>3. k + 1 \in Nat /\ k <= k + 1 /\ k < k + 1
      OBVIOUS
    <3>4. W(k) \subseteq W(k + 1)
      BY <3>3, WithinGrows
    <3>5. y \in W(k + 1) /\ y \notin W(k)
      BY <2>1, <3>3 DEF Nearest
    <3> HIDE DEF W
    <3>6. Cardinality(W(k)) <= Cardinality(W(k + 1)) /\ Cardinality(W(k + 1)) # Cardinality(W(k))
      BY <1>1, <3>3, <3>4, <3>5, FS_Subset
    <3> QED
      BY <1>1, <3>2, <3>3, <3>6
  <2>2. k + 1 \in Nat
    OBVIOUS
  <2> QED
    BY <2>1, <2>2
<1>4. Nat \subseteq S
  <2> HIDE DEF S
  <2> QED
    BY <1>2, <1>3, NatSetInduction
<1>5. n < Cardinality(W(n))
  BY <1>4
<1>6. Cardinality(N) \in Nat
  BY FS_CardinalityType
<1> QED
  BY <1>1, <1>5, <1>6

-----------------------------------------------------------------------------
(* A worklist search over graph from start, the distances h of the methods *)
(* seen and the worklist q.                                                *)

\* The worklist is in the order of the distances, which differ by one at most.
InOrder(h, q) ==
  /\ \A i, j \in DOMAIN q : i <= j => h[q[i]] <= h[q[j]]
  /\ \A i \in DOMAIN q : h[q[i]] <= h[q[1]] + 1

\* Whom a method seen calls is seen, unless the method still waits.
Settled(graph, h, q) ==
  \A c \in graph : c[1] \in DOMAIN h =>
    c[2] \in DOMAIN h \/ \E i \in DOMAIN q : q[i] = c[1]

\* What holds throughout a search.
Searching(graph, start, h, q) ==
  /\ start \subseteq DOMAIN h
  /\ \A x \in DOMAIN h : Nearest(graph, start, x, h[x])
  /\ q \in Seq(DOMAIN h)
  /\ Settled(graph, h, q)
  /\ InOrder(h, q)

\* The result of a search: what can be reached, and how far it is.
Complete(graph, start, h) ==
  /\ \A x : x \in DOMAIN h <=> \E n \in Nat : x \in Within(graph, n, start)
  /\ \A x \in DOMAIN h : Nearest(graph, start, x, h[x])

(* The start of a search: everything waits at distance 0.                   *)
LEMMA SearchStarts ==
  ASSUME NEW graph, NEW start, IsFiniteSet(start)
  PROVE  Searching(graph, start, [m \in start |-> 0], SetToSeq(start))
<1> DEFINE h == [m \in start |-> 0]
           q == SetToSeq(start)
<1>1. q \in Seq(start) /\ \A x \in start : \E i \in DOMAIN q : q[i] = x
  BY SetAsSequence
<1>2. DOMAIN h = start /\ \A x \in start : h[x] = 0
  OBVIOUS
<1>3. ASSUME NEW x \in start PROVE Nearest(graph, start, x, 0)
  BY WithinSteps DEF Nearest
<1> HIDE DEF h, q
<1>4. \A i \in DOMAIN q : q[i] \in start
  BY <1>1
<1>5. Settled(graph, h, q)
  BY <1>1, <1>2 DEF Settled
<1>6. InOrder(h, q)
  <2>1. \A i \in DOMAIN q : i \in Nat /\ 1 \in DOMAIN q
    BY <1>1
  <2> QED
    BY <1>2, <1>4, <2>1 DEF InOrder
<1>7. Searching(graph, start, h, q)
  BY <1>1, <1>2, <1>3, <1>5, <1>6 DEF Searching
<1> QED
  BY <1>7 DEF h, q

(* What is no farther than all that waits has been seen.                    *)
LEMMA NearIsSeen ==
  ASSUME NEW graph, NEW start, NEW h, NEW q, Searching(graph, start, h, q),
         NEW d \in Nat, \A i \in DOMAIN q : h[q[i]] >= d
  PROVE  \A k \in Nat : k <= d => Within(graph, k, start) \subseteq DOMAIN h
<1> DEFINE S == {k \in Nat : k <= d => Within(graph, k, start) \subseteq DOMAIN h}
<1>1. 0 \in S
  BY WithinSteps DEF Searching
<1>2. ASSUME NEW k \in Nat, k \in S PROVE k + 1 \in S
  <2>1. ASSUME k + 1 <= d, NEW x \in Within(graph, k + 1, start) PROVE x \in DOMAIN h
    <3>1. Within(graph, k, start) \subseteq DOMAIN h
      BY <1>2, <2>1
    <3>2. CASE x \in Within(graph, k, start)
      BY <3>1, <3>2
    <3>3. ASSUME NEW c \in graph, c[1] \in Within(graph, k, start), c[2] = x
          PROVE  x \in DOMAIN h
      <4>1. c[1] \in DOMAIN h /\ Nearest(graph, start, c[1], h[c[1]])
        BY <3>1, <3>3 DEF Searching
      <4>2. h[c[1]] \in Nat /\ h[c[1]] <= k
        BY <3>3, <4>1 DEF Nearest
      <4>3. ASSUME NEW i \in DOMAIN q, q[i] = c[1] PROVE FALSE
        BY <2>1, <4>2, <4>3
      <4> QED
        BY <3>3, <4>1, <4>3 DEF Searching, Settled
    <3> QED
      BY <2>1, <3>2, <3>3, WithinStep
  <2>2. k + 1 \in Nat
    OBVIOUS
  <2> QED
    BY <2>1, <2>2
<1>3. Nat \subseteq S
  <2> HIDE DEF S
  <2> QED
    BY <1>1, <1>2, NatSetInduction
<1> QED
  BY <1>3

(* Taking the first of the worklist: what it calls is one farther.          *)
LEMMA SearchGoesOn ==
  ASSUME NEW graph, NEW start, NEW h, NEW q, Searching(graph, start, h, q), q # <<>>,
         NEW F, F = Callees(graph, {Head(q)}) \ DOMAIN h, IsFiniteSet(F)
  PROVE  Searching(graph, start,
                   [x \in DOMAIN h \cup F |-> IF x \in F THEN h[Head(q)] + 1 ELSE h[x]],
                   Tail(q) \o SetToSeq(F))
<1> DEFINE m == q[1]
           d == h[m]
           g == [x \in DOMAIN h \cup F |-> IF x \in F THEN h[Head(q)] + 1 ELSE h[x]]
           t == Tail(q)
           r == SetToSeq(F)
           p == t \o r
<1>1. /\ q \in Seq(DOMAIN h) /\ Len(q) \in Nat /\ Len(q) >= 1 /\ DOMAIN q = 1..Len(q)
      /\ Head(q) = m /\ 1 \in DOMAIN q /\ m \in DOMAIN h
  BY DEF Searching
<1>2. /\ r \in Seq(F) /\ Len(r) \in Nat /\ DOMAIN r = 1..Len(r)
      /\ \A x \in F : \E i \in DOMAIN r : r[i] = x
  BY SetAsSequence, Zenon
<1>3. /\ t \in Seq(DOMAIN h) /\ Len(t) = Len(q) - 1
      /\ \A i \in 1..Len(t) : i + 1 \in DOMAIN q /\ t[i] = q[i + 1]
  BY <1>1
<1>4. \A x \in DOMAIN h : h[x] \in Nat
  BY DEF Searching, Nearest
<1>5. d \in Nat
  BY <1>1, <1>4
<1>6. /\ DOMAIN g = DOMAIN h \cup F
      /\ \A x \in F : g[x] = d + 1
      /\ \A x \in DOMAIN h : g[x] = h[x]
  BY <1>1
<1>7. \A x \in F : \E c \in graph : c[1] = m /\ c[2] = x
  BY <1>1, CalleeOf
<1>8. \A c \in graph : c[1] = m => c[2] \in DOMAIN h \cup F
  BY <1>1, CalleeOf
<1>9. /\ p \in Seq(DOMAIN g) /\ Len(p) = Len(t) + Len(r) /\ DOMAIN p = 1..Len(p)
      /\ \A i \in 1..Len(t) : p[i] = t[i]
      /\ \A i \in DOMAIN p : i > Len(t) => i - Len(t) \in DOMAIN r /\ p[i] = r[i - Len(t)]
      /\ \A i \in DOMAIN r : i + Len(t) \in DOMAIN p /\ p[i + Len(t)] = r[i]
  <2> HIDE DEF t, r, g
  <2>1. t \in Seq(DOMAIN g) /\ r \in Seq(DOMAIN g)
    BY <1>2, <1>3, <1>6, WiderSeq
  <2>2. DOMAIN t = 1..Len(t)
    BY <1>3
  <2>3. /\ p \in Seq(DOMAIN g) /\ Len(p) = Len(t) + Len(r) /\ DOMAIN p = 1..Len(p)
        /\ \A i \in 1..Len(t) : p[i] = t[i]
    BY <2>1, Concatenation
  <2>4. \A i \in DOMAIN p : i > Len(t) => i - Len(t) \in DOMAIN r /\ p[i] = r[i - Len(t)]
    BY <2>1, Concatenation
  <2>5. \A i \in DOMAIN r : i + Len(t) \in DOMAIN p /\ p[i + Len(t)] = r[i]
    BY <2>1, Concatenation
  <2> QED
    BY <2>3, <2>4, <2>5
<1>10. \A i \in DOMAIN q : d <= h[q[i]] /\ h[q[i]] <= d + 1
  BY <1>1 DEF Searching, InOrder
<1> HIDE DEF m, d, g, t, r, p
<1>11. ASSUME NEW x \in F PROVE Nearest(graph, start, x, d + 1)
  <2>1. PICK c \in graph : c[1] = m /\ c[2] = x
    BY <1>7
  <2>2. m \in Within(graph, d, start)
    BY <1>1 DEF Searching, Nearest, d
  <2>3. x \in Within(graph, d + 1, start)
    BY <1>5, <2>1, <2>2, WithinStep
  <2>4. ASSUME NEW k \in Nat, k < d + 1 PROVE x \notin Within(graph, k, start)
    <3>1. k <= d
      BY <1>5, <2>4
    <3>2. \A i \in DOMAIN q : h[q[i]] >= d
      BY <1>4, <1>5, <1>10
    <3>3. Within(graph, k, start) \subseteq DOMAIN h
      BY <1>5, <3>1, <3>2, NearIsSeen
    <3> QED
      BY <3>3
  <2> QED
    BY <1>5, <2>3, <2>4 DEF Nearest
<1>12. \A x \in DOMAIN g : Nearest(graph, start, x, g[x])
  BY <1>6, <1>11 DEF Searching
<1>13. Settled(graph, g, p)
  <2>1. ASSUME NEW c \in graph, c[1] \in DOMAIN g, c[2] \notin DOMAIN g
        PROVE  \E i \in DOMAIN p : p[i] = c[1]
    <3>1. CASE c[1] \in F
      <4>1. PICK i \in DOMAIN r : r[i] = c[1]
        BY <1>2, <3>1
      <4>2. i + Len(t) \in DOMAIN p /\ p[i + Len(t)] = c[1]
        BY <1>9, <4>1
      <4> QED
        BY <4>2
    <3>2. CASE c[1] \in DOMAIN h
      <4>1. PICK i \in DOMAIN q : q[i] = c[1]
        BY <1>6, <2>1, <3>2 DEF Searching, Settled
      <4>2. c[1] # m
        BY <1>6, <1>8, <2>1
      <4>3. i # 1
        BY <4>1, <4>2 DEF m
      <4>4. i - 1 \in 1..Len(t) /\ (i - 1) + 1 = i /\ i - 1 \in DOMAIN p
        BY <1>1, <1>2, <1>3, <1>9, <4>3
      <4> QED
        BY <1>3, <1>9, <4>1, <4>4
    <3> QED
      BY <1>6, <2>1, <3>1, <3>2
  <2> QED
    BY <2>1 DEF Settled
<1>14. InOrder(g, p)
  <2>1. ASSUME NEW i \in DOMAIN p
        PROVE  /\ g[p[i]] \in Nat /\ d <= g[p[i]] /\ g[p[i]] <= d + 1
               /\ i > Len(t) => g[p[i]] = d + 1
               /\ i <= Len(t) => i + 1 \in DOMAIN q /\ g[p[i]] = h[q[i + 1]]
    <3>1. CASE i <= Len(t)
      <4>1. i \in 1..Len(t)
        BY <1>9, <3>1
      <4>2. i + 1 \in DOMAIN q /\ p[i] = q[i + 1]
        BY <1>3, <1>9, <4>1
      <4>3. q[i + 1] \in DOMAIN h
        BY <1>1, <4>2
      <4> QED
        BY <1>3, <1>4, <1>6, <1>9, <1>10, <3>1, <4>2, <4>3
    <3>2. CASE i > Len(t)
      <4>1. i - Len(t) \in DOMAIN r /\ p[i] = r[i - Len(t)]
        BY <1>9, <3>2
      <4>2. \A k \in DOMAIN r : r[k] \in F
        BY <1>2, SeqElement
      <4>3. p[i] \in F
        BY <4>1, <4>2
      <4>4. g[p[i]] = d + 1
        BY <1>6, <4>3
      <4>5. ~ (i <= Len(t))
        <5>1. i \in Nat /\ Len(t) \in Nat
          BY <1>1, <1>3, <1>9
        <5> QED
          BY <3>2, <5>1
      <4> QED
        BY <1>5, <4>4, <4>5
    <3>3. i \in Nat /\ Len(t) \in Nat
      BY <1>1, <1>3, <1>9
    <3> QED
      BY <3>1, <3>2, <3>3
  <2>2. ASSUME NEW i \in DOMAIN p, NEW j \in DOMAIN p, i <= j PROVE g[p[i]] <= g[p[j]]
    <3>1. CASE j > Len(t)
      BY <1>5, <2>1, <3>1
    <3>2. CASE j <= Len(t)
      <4>1. i \in Nat /\ j \in Nat /\ Len(t) \in Nat
        BY <1>1, <1>3, <1>9
      <4>2. i + 1 \in DOMAIN q /\ j + 1 \in DOMAIN q /\ i + 1 <= j + 1
        BY <2>1, <2>2, <3>2, <4>1
      <4>3. h[q[i + 1]] <= h[q[j + 1]]
        BY <4>2 DEF Searching, InOrder
      <4> QED
        BY <2>1, <2>2, <3>2, <4>1, <4>3
    <3>3. j \in Nat /\ Len(t) \in Nat
      BY <1>1, <1>3, <1>9
    <3> QED
      BY <3>1, <3>2, <3>3
  <2>3. ASSUME NEW i \in DOMAIN p PROVE g[p[i]] <= g[p[1]] + 1
    <3>1. 1 \in DOMAIN p
      BY <1>1, <1>2, <1>3, <1>9
    <3>2. d <= g[p[1]] /\ g[p[1]] \in Nat /\ g[p[i]] \in Nat /\ g[p[i]] <= d + 1
      BY <2>1, <3>1
    <3> QED
      BY <1>5, <3>2
  <2> QED
    BY <2>2, <2>3 DEF InOrder
<1>15. start \subseteq DOMAIN g
  BY <1>6 DEF Searching
<1>16. Searching(graph, start, g, p)
  BY <1>9, <1>12, <1>13, <1>14, <1>15 DEF Searching
<1> QED
  BY <1>16 DEF g, p, t, r

(* A search whose worklist is empty has found everything.                   *)
LEMMA SearchEnded ==
  ASSUME NEW graph, NEW start, NEW h, Searching(graph, start, h, <<>>)
  PROVE  Complete(graph, start, h)
<1>1. ASSUME NEW x, NEW n \in Nat, x \in Within(graph, n, start) PROVE x \in DOMAIN h
  <2>1. \A i \in DOMAIN <<>> : h[<<>>[i]] >= n
    OBVIOUS
  <2>2. n <= n
    OBVIOUS
  <2> QED
    BY <1>1, <2>1, <2>2, NearIsSeen
<1>2. \A x \in DOMAIN h : Nearest(graph, start, x, h[x])
  BY DEF Searching
<1> QED
  BY <1>1, <1>2 DEF Complete, Nearest

(* What is in the result lies within as many steps as there are nodes, and  *)
(* the number it has is the least.                                          *)
LEMMA SeenWithin ==
  ASSUME NEW graph, NEW start, NEW h, Complete(graph, start, h),
         NEW N, IsFiniteSet(N), start \subseteq N, \A c \in graph : c[2] \in N
  PROVE  /\ Cardinality(N) \in Nat
         /\ \A x : x \in DOMAIN h
                     <=> \E n \in 0..Cardinality(N) : x \in Within(graph, n, start)
         /\ \A x \in DOMAIN h : /\ x \in N
                                /\ h[x] \in 0..Cardinality(N)
                                /\ x \in Within(graph, h[x], start)
                                /\ \A n \in Nat : x \in Within(graph, n, start) => h[x] <= n
<1>1. Cardinality(N) \in Nat
  BY FS_CardinalityType
<1>2. ASSUME NEW x \in DOMAIN h
      PROVE  /\ x \in N
             /\ h[x] \in 0..Cardinality(N)
             /\ x \in Within(graph, h[x], start)
             /\ \A n \in Nat : x \in Within(graph, n, start) => h[x] <= n
  <2>1. Nearest(graph, start, x, h[x])
    BY DEF Complete
  <2>2. h[x] \in Nat /\ x \in Within(graph, h[x], start)
    BY <2>1 DEF Nearest
  <2>3. x \in N
    BY <2>2, WithinInside
  <2>4. h[x] < Cardinality(N)
    BY <2>1, <2>2, LevelsFill
  <2>5. ASSUME NEW n \in Nat, x \in Within(graph, n, start) PROVE h[x] <= n
    BY <2>1, <2>2, <2>5 DEF Nearest
  <2> QED
    BY <1>1, <2>2, <2>3, <2>4, <2>5
<1>3. ASSUME NEW x, NEW n \in 0..Cardinality(N), x \in Within(graph, n, start)
      PROVE  x \in DOMAIN h
  BY <1>1, <1>3 DEF Complete
<1> QED
  BY <1>1, <1>2, <1>3

(* A search against the calls finds who can reach where it started.         *)
LEMMA SeenReaches ==
  ASSUME NEW graph, NEW start, NEW h, Complete(Reversed(graph), start, h),
         NEW N, IsFiniteSet(N), \A c \in graph : c[2] \in N, NEW x \in N
  PROVE  x \in DOMAIN h <=> Within(graph, Cardinality(N), {x}) \cap start # {}
<1>1. Cardinality(N) \in Nat
  BY FS_CardinalityType
<1>2. \A n \in Nat : IsFromEach(Reversed(graph), start, n) /\ IsDual(graph, n)
  BY WithinEach, WithinReversed
<1>3. ASSUME x \in DOMAIN h
      PROVE  \E b \in start : b \in Within(graph, Cardinality(N), {x})
  <2>1. PICK n \in Nat : x \in Within(Reversed(graph), n, start)
    BY <1>3 DEF Complete
  <2>2. PICK b \in start : x \in Within(Reversed(graph), n, {b})
    BY <1>2, <2>1 DEF IsFromEach
  <2>3. b \in Within(graph, n, {x})
    BY <1>2, <2>2 DEF IsDual
  <2>4. PICK k \in 0..n : Nearest(graph, {x}, b, k)
    BY <2>3, NearestExists
  <2>5. k \in Nat /\ b \in Within(graph, k, {x})
    BY <2>4 DEF Nearest
  <2>6. {x} \subseteq N
    OBVIOUS
  <2>7. k < Cardinality(N)
    BY <2>4, <2>5, <2>6, LevelsFill
  <2>8. k <= Cardinality(N)
    BY <1>1, <2>5, <2>7
  <2>9. Within(graph, k, {x}) \subseteq Within(graph, Cardinality(N), {x})
    BY <1>1, <2>5, <2>8, WithinGrows
  <2> QED
    BY <2>5, <2>9
<1>4. ASSUME NEW b \in start, b \in Within(graph, Cardinality(N), {x})
      PROVE  x \in DOMAIN h
  <2>1. x \in Within(Reversed(graph), Cardinality(N), {b})
    BY <1>1, <1>2, <1>4 DEF IsDual
  <2>2. x \in Within(Reversed(graph), Cardinality(N), start)
    BY <1>1, <1>2, <2>1 DEF IsFromEach
  <2> QED
    BY <1>1, <2>2 DEF Complete
<1> QED
  BY <1>3, <1>4

-----------------------------------------------------------------------------
(* The order of the surfaces.                                              *)

\* Surfaces of different methods, with numbers for the order to compare.
Sortable(S) ==
  /\ IsFiniteSet(S)
  /\ \A s \in S : s.id \in Nat /\ s.depth \in Nat
  /\ \A s, t \in S : s.id = t.id => s = t

(* Surfaces that can be sorted are in a strict and total order.             *)
LEMMA BeforeIsAnOrder ==
  ASSUME NEW S, Sortable(S)
  PROVE  /\ \A s \in S : ~ Before(s, s)
         /\ \A s, t \in S : s # t => Before(s, t) \/ Before(t, s)
         /\ \A s, t, u \in S : Before(s, t) /\ Before(t, u) => Before(s, u)
<1>1. \A s : Priority(s.kind) \in Nat
  BY DEF Priority
<1>2. ASSUME NEW s \in S PROVE ~ Before(s, s)
  BY <1>1 DEF Before, Sortable
<1>3. ASSUME NEW s \in S, NEW t \in S, s # t PROVE Before(s, t) \/ Before(t, s)
  <2>1. s.id # t.id
    BY <1>3 DEF Sortable
  <2> QED
    BY <1>1, <2>1 DEF Before, Sortable
<1>4. ASSUME NEW s \in S, NEW t \in S, NEW u \in S, Before(s, t), Before(t, u) PROVE Before(s, u)
  <2>1. /\ s.id \in Nat /\ s.depth \in Nat /\ t.id \in Nat /\ t.depth \in Nat
        /\ u.id \in Nat /\ u.depth \in Nat
    BY DEF Sortable
  <2> QED
    BY <1>1, <1>4, <2>1 DEF Before
<1> QED
  BY <1>2, <1>3, <1>4

(* The sorted sequence has the surfaces of the set, each once.              *)
LEMMA SortedKeepsAll ==
  ASSUME NEW S, Sortable(S)
  PROVE  ToSet(Sorted(S)) = S
<1> DEFINE n == Cardinality(S)
           ahead(s) == {t \in S : Before(t, s)}
           rank == [s \in S |-> Cardinality(ahead(s))]
           f == Sorted(S)
<1>1. IsFiniteSet(S) /\ n \in Nat
  BY FS_CardinalityType DEF Sortable
<1>2. ASSUME NEW s \in S
      PROVE  /\ IsFiniteSet(ahead(s)) /\ rank[s] \in Nat
             /\ rank[s] < n
  <2>1. ahead(s) \in SUBSET S /\ s \notin ahead(s)
    BY BeforeIsAnOrder
  <2>2. rank[s] = Cardinality(ahead(s))
    OBVIOUS
  <2> HIDE DEF ahead, rank
  <2>3. IsFiniteSet(ahead(s)) /\ Cardinality(ahead(s)) \in Nat
        /\ Cardinality(ahead(s)) <= n /\ Cardinality(ahead(s)) # n
    BY <1>1, <2>1, FS_Subset, FS_CardinalityType
  <2> QED
    BY <1>1, <2>2, <2>3
<1>3. ASSUME NEW s \in S, NEW t \in S, Before(s, t) PROVE rank[s] < rank[t]
  <2>1. ahead(s) \in SUBSET ahead(t) /\ s \in ahead(t) /\ s \notin ahead(s)
    BY <1>3, BeforeIsAnOrder
  <2>2. rank[s] = Cardinality(ahead(s)) /\ rank[t] = Cardinality(ahead(t))
    OBVIOUS
  <2> HIDE DEF ahead, rank
  <2>3. Cardinality(ahead(s)) <= Cardinality(ahead(t)) /\ Cardinality(ahead(s)) # Cardinality(ahead(t))
    BY <1>2, <2>1, FS_Subset
  <2> QED
    BY <1>2, <2>2, <2>3
<1>4. DOMAIN rank = S
  OBVIOUS
<1>5. \A s \in S : rank[s] = Cardinality({t \in S : Before(t, s)})
  OBVIOUS
<1> HIDE DEF ahead, rank, n
<1>6. \A s \in S : rank[s] \in Nat /\ rank[s] < n
  BY <1>2
<1>7. ASSUME NEW s \in S, NEW t \in S, rank[s] = rank[t] PROVE s = t
  <2>1. ~ Before(s, t) /\ ~ Before(t, s)
    BY <1>3, <1>6, <1>7
  <2> QED
    BY <2>1, BeforeIsAnOrder
<1>8. rank \in Injection(S, 0..(n - 1))
  <2>1. rank \in [S -> 0..(n - 1)]
    <3>1. \A s \in S : rank[s] \in 0..(n - 1)
      BY <1>1, <1>6
    <3>2. rank = [s \in S |-> rank[s]]
      BY DEF rank
    <3> QED
      BY <3>1, <3>2
  <2> QED
    BY <1>4, <1>7, <2>1 DEF Injection, IsInjective
<1>9. IsFiniteSet(0..(n - 1)) /\ Cardinality(0..(n - 1)) = n
  <2>1. 0 \in Int /\ n - 1 \in Int
    BY <1>1
  <2>2. IsFiniteSet(0..(n - 1)) /\ Cardinality(0..(n - 1)) = IF 0 > n - 1 THEN 0 ELSE (n - 1) - 0 + 1
    BY <2>1, FS_Interval
  <2> QED
    BY <1>1, <2>2
<1>10. rank \in Surjection(S, 0..(n - 1))
  BY <1>1, <1>8, <1>9, FS_Injection DEF n
<1>11. f = [i \in 1..n |-> CHOOSE s \in S : rank[s] = i - 1]
  BY <1>5 DEF Sorted, n
<1> HIDE DEF f
<1>12. ASSUME NEW i \in 1..n PROVE f[i] \in S /\ rank[f[i]] = i - 1
  <2>1. i - 1 \in 0..(n - 1)
    BY <1>1
  <2>2. \E s \in S : rank[s] = i - 1
    BY <1>10, <2>1 DEF Surjection
  <2> QED
    BY <1>11, <2>2
<1>13. ASSUME NEW s \in S PROVE \E i \in 1..n : f[i] = s
  <2>1. rank[s] + 1 \in 1..n /\ (rank[s] + 1) - 1 = rank[s]
    BY <1>1, <1>6
  <2>2. f[rank[s] + 1] \in S /\ rank[f[rank[s] + 1]] = rank[s]
    BY <1>12, <2>1
  <2> QED
    BY <1>7, <2>1, <2>2
<1>14. DOMAIN f = 1..n
  BY <1>11
<1>15. ToSet(f) = S
  BY <1>12, <1>13, <1>14 DEF ToSet
<1> QED
  BY <1>15 DEF f

-----------------------------------------------------------------------------
(* Targeting.                                                              *)

\* The calls a search follows.
Direction(search) == IF search = "forward" THEN Edges ELSE Reversed(Edges)

SearchStages == {"forward", "backward", "auth", "readers"}

\* The searches that have come to an end when the path stands at a stage.
Past(at) ==
  CASE at = "backward" -> {"forward"}
    [] at = "auth" -> {"forward", "backward"}
    [] at = "readers" -> {"forward", "backward", "auth"}
    [] at \in {"select", "trivy"} -> SearchStages
    [] OTHER -> {}

\* The searches and what comes before and after them.
Stages ==
  {"imports", "graph", "methods", "seed", "select", "skipped",
   "trivy", "taint", "attribute", "enrich", "enriched"} \cup SearchStages

\* The graph as fetched is one of numbers, its methods are methods.
GraphTyped ==
  /\ stage \in Stages
  /\ trueCalls \in Seq(Nat \X Nat) /\ calls \in Seq(Nat \X Nat)
  /\ methods \in Seq(Nat) /\ ToSet(methods) \subseteq MethodSet

\* The search of this stage is under way,
SearchUnderWay ==
  stage \in SearchStages => Searching(Direction(stage), Seeds(stage), hops, queue)

\* those before it have found all there is,
SearchesDone ==
  \A s \in Past(stage) : s \in DOMAIN found /\ Complete(Direction(s), Seeds(s), found[s])

\* and what they lead to is chosen.
SurfacesChosen ==
  /\ IsFiniteSet(ToSet(surfaces))
  /\ stage = "trivy" => ToSet(surfaces) = Selected

\* The inductive invariant of Targeting.
TargetingIInv == GraphTyped /\ SearchUnderWay /\ SearchesDone /\ SurfacesChosen

(* No step changes what a search starts from or follows once it has begun.  *)
LEMMA Frozen ==
  ASSUME UNCHANGED <<calls, methods>>, NEW s
  PROVE  Direction(s)' = Direction(s) /\ Seeds(s)' = Seeds(s)
<1>1. ToSet(calls)' = ToSet(calls) /\ ToSet(methods)' = ToSet(methods)
  OBVIOUS
<1>2. AuthSeeds' = AuthSeeds
  BY <1>1 DEF AuthSeeds, Classified, Imports, LooksLikeAuth
<1>3. Seeds(s)' = Seeds(s)
  BY <1>1, <1>2 DEF Seeds, Classified, Imports
<1>4. Direction(s)' = Direction(s)
  BY <1>1 DEF Direction, Edges, Reversed
<1> QED
  BY <1>3, <1>4

(* The call graph is finite and made of numbers.                            *)
LEMMA GraphFacts ==
  ASSUME GraphTyped
  PROVE  /\ IsFiniteSet(Edges) /\ Edges \subseteq Nat \X Nat
         /\ IsFiniteSet(MethodSet) /\ MethodSet \subseteq Nat
         /\ IsFiniteSet(Nodes) /\ Nodes \subseteq Nat /\ MethodSet \subseteq Nodes
         /\ \A c \in Edges : c[1] \in Nodes /\ c[2] \in Nodes
         /\ \A s : \A c \in Direction(s) : c[1] \in Nodes /\ c[2] \in Nodes
         /\ \A s \in SearchStages : Seeds(s) \subseteq MethodSet /\ IsFiniteSet(Seeds(s))
<1>1. IsFiniteSet(Edges) /\ Edges \subseteq Nat \X Nat
  BY FiniteRange DEF GraphTyped, Edges
<1>2. IsFiniteSet(MethodSet) /\ MethodSet \subseteq Nat
  BY FiniteRange, TargetingAssumption DEF MethodSet
<1> DEFINE ends == {{c[1], c[2]} : c \in Edges}
<1>3. IsFiniteSet(ends)
  <2> DEFINE f == [c \in Edges |-> {c[1], c[2]}]
  <2>1. f \in Surjection(Edges, ends)
    BY DEF Surjection
  <2> QED
    BY <1>1, <2>1, FS_Surjection
<1>4. \A e \in ends : IsFiniteSet(e)
  <2>1. ASSUME NEW c \in Edges PROVE IsFiniteSet({c[1], c[2]})
    <3>1. IsFiniteSet({c[1]} \cup {c[2]})
      BY FS_Singleton, FS_Union
    <3>2. {c[1]} \cup {c[2]} = {c[1], c[2]}
      OBVIOUS
    <3> QED
      BY <3>1, <3>2
  <2> QED
    BY <2>1
<1>5. \A c \in Edges : {c[1], c[2]} \in ends
  OBVIOUS
<1>6. UNION ends \subseteq Nat
  BY <1>1
<1> HIDE DEF ends
<1>7. IsFiniteSet(UNION ends)
  BY <1>3, <1>4, FS_UNION
<1>8. Nodes = MethodSet \cup UNION ends
  BY DEF Nodes, ends
<1>9. IsFiniteSet(Nodes)
  BY <1>2, <1>7, <1>8, FS_Union
<1>10. \A c \in Edges : c[1] \in Nodes /\ c[2] \in Nodes
  BY <1>5, <1>8
<1>11. ASSUME NEW c \in Reversed(Edges) PROVE c[1] \in Nodes /\ c[2] \in Nodes
  <2>1. PICK d \in Edges : c = <<d[2], d[1]>>
    BY DEF Reversed
  <2> QED
    BY <1>10, <2>1
<1>12. \A s : \A c \in Direction(s) : c[1] \in Nodes /\ c[2] \in Nodes
  BY <1>10, <1>11 DEF Direction
<1>13. ASSUME NEW s \in SearchStages PROVE Seeds(s) \subseteq MethodSet /\ IsFiniteSet(Seeds(s))
  <2>1. Seeds(s) \subseteq ToSet(methods)
    BY DEF Seeds, AuthSeeds, SearchStages
  <2>2. Seeds(s) \in SUBSET MethodSet
    BY <2>1 DEF GraphTyped
  <2> QED
    BY <1>2, <2>2, FS_Subset
<1> QED
  BY <1>1, <1>2, <1>6, <1>8, <1>9, <1>10, <1>12, <1>13

(* A bulk query answers with rows that are there.                           *)
LEMMA FetchedRows ==
  ASSUME NEW S, NEW rows \in Seq(S), NEW got \in Fetched(rows)
  PROVE  got \in Seq(S) /\ ToSet(got) \subseteq ToSet(rows)
<1>1. CASE got = rows
  BY <1>1
<1>2. ASSUME NEW n \in (Len(rows) - MaxLostRows)..Len(rows), got = SubSeq(rows, 1, n)
      PROVE  got \in Seq(S) /\ ToSet(got) \subseteq ToSet(rows)
  <2>1. Len(rows) \in Nat /\ MaxLostRows \in Nat /\ n \in Int /\ n <= Len(rows) /\ DOMAIN rows = 1..Len(rows)
    BY TargetingAssumption
  <2>2. /\ DOMAIN got = 1..n
        /\ \A i \in 1..n : i \in DOMAIN rows /\ got[i] = rows[i]
    BY <1>2, <2>1
  <2>3. got \in Seq(S)
    <3>1. CASE n < 1
      <4>1. got = <<>>
        BY <1>2, <2>1, <3>1
      <4> QED
        BY <4>1
    <3>2. CASE n >= 1
      BY <1>2, <2>1, <3>2
    <3> QED
      BY <2>1, <3>1, <3>2
  <2> QED
    BY <2>2, <2>3 DEF ToSet
<1> QED
  BY <1>1, <1>2 DEF Fetched, FromDB, FromJoern

\* The order of the searches.
LEMMA NextSearchIs ==
  /\ NextSearch("forward") = "backward"
  /\ NextSearch("backward") = "auth"
  /\ NextSearch("auth") = "readers"
<1>1. /\ DOMAIN Searches = 1..4
      /\ Searches[1] = "forward" /\ Searches[2] = "backward"
      /\ Searches[3] = "auth" /\ Searches[4] = "readers"
  BY DEF Searches
<1>2. \A i \in DOMAIN Searches : i = 1 \/ i = 2 \/ i = 3 \/ i = 4
  BY <1>1
<1>3. ASSUME NEW n \in 1..3 PROVE NextSearch(Searches[n]) = Searches[1 + n]
  <2>1. \A i \in DOMAIN Searches : Searches[i] = Searches[n] => i = n
    BY <1>1, <1>2
  <2>2. n \in DOMAIN Searches
    BY <1>1
  <2>3. (CHOOSE i \in DOMAIN Searches : Searches[i] = Searches[n]) = n
    BY <2>1, <2>2
  <2> QED
    BY <2>3 DEF NextSearch
<1> QED
  BY <1>1, <1>3

(* The stages at which a search is under way.                               *)
LEMMA StagesOfSearches == ToSet(Searches) = SearchStages
<1>1. /\ DOMAIN Searches = 1..4
      /\ Searches[1] = "forward" /\ Searches[2] = "backward"
      /\ Searches[3] = "auth" /\ Searches[4] = "readers"
  BY DEF Searches
<1>2. \A i \in DOMAIN Searches : i = 1 \/ i = 2 \/ i = 3 \/ i = 4
  BY <1>1
<1> QED
  BY <1>1, <1>2 DEF ToSet, SearchStages

(* The invariant of Targeting holds at the start.                           *)
LEMMA TargetingStarts == TargetingInit => TargetingIInv
<1> SUFFICES ASSUME TargetingInit PROVE TargetingIInv
  OBVIOUS
<1>1. GraphTyped
  BY TargetingAssumption DEF TargetingInit, GraphTyped, Stages, ToSet
<1>2. SearchUnderWay /\ SearchesDone
  BY DEF TargetingInit, SearchUnderWay, SearchesDone, SearchStages, Past
<1>3. SurfacesChosen
  <2>1. ToSet(surfaces) = {}
    BY DEF TargetingInit, ToSet
  <2> QED
    BY <2>1, FS_EmptySet DEF TargetingInit, SurfacesChosen
<1> QED
  BY <1>1, <1>2, <1>3 DEF TargetingIInv

(* Steps before the first search and between the searches.                  *)
LEMMA FetchingKeeps ==
  ASSUME TargetingIInv, ImportBoundaries \/ GetCallGraph \/ QueryNodes
  PROVE  TargetingIInv'
<1>1. stage \in {"imports", "graph", "methods"} /\ stage' \in {"graph", "methods", "seed", "skipped"}
  BY DEF ImportBoundaries, GetCallGraph, QueryNodes
<1>2. trueCalls' \in Seq(Nat \X Nat) /\ calls' \in Seq(Nat \X Nat)
  <2>1. ASSUME calls' \in Fetched(trueCalls) PROVE calls' \in Seq(Nat \X Nat)
    BY <2>1, FetchedRows DEF TargetingIInv, GraphTyped
  <2> QED
    BY <2>1 DEF TargetingIInv, GraphTyped, ImportBoundaries, GetCallGraph, QueryNodes
<1>3. methods' \in Seq(Nat) /\ ToSet(methods') \subseteq MethodSet
  <2>1. ASSUME methods' \in Fetched(Methods)
        PROVE  methods' \in Seq(Nat) /\ ToSet(methods') \subseteq MethodSet
    BY <2>1, FetchedRows, TargetingAssumption DEF MethodSet
  <2>2. ASSUME UNCHANGED methods PROVE methods' \in Seq(Nat) /\ ToSet(methods') \subseteq MethodSet
    BY <2>2 DEF TargetingIInv, GraphTyped
  <2> QED
    BY <2>1, <2>2 DEF ImportBoundaries, GetCallGraph, QueryNodes
<1>4. GraphTyped'
  BY <1>1, <1>2, <1>3 DEF GraphTyped, Stages
<1>5. SearchUnderWay' /\ SearchesDone'
  BY <1>1 DEF SearchUnderWay, SearchesDone, SearchStages, Past
<1>6. SurfacesChosen'
  <2>1. UNCHANGED surfaces
    BY DEF ImportBoundaries, GetCallGraph, QueryNodes
  <2> QED
    BY <1>1, <2>1 DEF TargetingIInv, SurfacesChosen
<1> QED
  BY <1>4, <1>5, <1>6 DEF TargetingIInv

(* The first search starts.                                                 *)
LEMMA SeedKeeps ==
  ASSUME TargetingIInv, Seed
  PROVE  TargetingIInv'
<1>1. UNCHANGED <<trueCalls, calls, methods, surfaces>> /\ stage' \in {"skipped", "forward"}
  BY DEF Seed, StartSearch
<1>2. GraphTyped'
  BY <1>1 DEF TargetingIInv, GraphTyped, Stages, SearchStages
<1>3. SearchUnderWay'
  <2>1. SUFFICES ASSUME stage' = "forward"
                 PROVE  Searching(Direction("forward"), Seeds("forward"), hops, queue)'
    BY <1>1 DEF SearchUnderWay, SearchStages
  <2>2. hops' = [m \in Seeds("forward") |-> 0] /\ queue' = SetToSeq(Seeds("forward"))
    BY <2>1 DEF Seed, StartSearch
  <2>3. IsFiniteSet(Seeds("forward"))
    BY GraphFacts DEF TargetingIInv, SearchStages
  <2>4. Searching(Direction("forward"), Seeds("forward"), hops', queue')
    BY <2>2, <2>3, SearchStarts
  <2> QED
    BY <1>1, <2>4, Frozen
<1>4. SearchesDone' /\ SurfacesChosen'
  BY <1>1 DEF TargetingIInv, SearchesDone, SurfacesChosen, Past
<1> QED
  BY <1>2, <1>3, <1>4 DEF TargetingIInv

(* A search takes the next method of its worklist.                          *)
LEMMA VisitKeeps ==
  ASSUME TargetingIInv, Visit
  PROVE  TargetingIInv'
<1>1. /\ UNCHANGED <<stage, trueCalls, calls, methods, found, surfaces>>
      /\ stage \in SearchStages /\ queue # <<>>
  BY StagesOfSearches DEF Visit
<1>2. GraphTyped'
  BY <1>1 DEF TargetingIInv, GraphTyped
<1>3. SearchUnderWay'
  <2> DEFINE F == Fresh(Head(queue))
  <2>1. Searching(Direction(stage), Seeds(stage), hops, queue)
    BY <1>1 DEF TargetingIInv, SearchUnderWay
  <2>2. F = Callees(Direction(stage), {Head(queue)}) \ DOMAIN hops
    BY DEF Fresh, Successors, Seen, Direction
  <2>3. F \in SUBSET Nodes /\ IsFiniteSet(Nodes)
    BY <2>2, GraphFacts, CalleeOf DEF TargetingIInv
  <2>4. IsFiniteSet(F)
    <3> HIDE DEF F
    <3> QED
      BY <2>3, FS_Subset
  <2>5. hops' = [x \in DOMAIN hops \cup F |-> IF x \in F THEN hops[Head(queue)] + 1 ELSE hops[x]]
    BY DEF Visit, Seen
  <2>6. queue' = Tail(queue) \o SetToSeq(F)
    BY DEF Visit, Enqueued
  <2> HIDE DEF F
  <2>7. Searching(Direction(stage), Seeds(stage), hops', queue')
    BY <1>1, <2>1, <2>2, <2>4, <2>5, <2>6, SearchGoesOn
  <2> QED
    BY <1>1, <2>7, Frozen DEF SearchUnderWay
<1>4. SearchesDone'
  <2>1. \A s : Direction(s)' = Direction(s) /\ Seeds(s)' = Seeds(s)
    BY <1>1, Frozen
  <2> QED
    BY <1>1, <2>1 DEF TargetingIInv, SearchesDone
<1>5. SurfacesChosen'
  BY <1>1 DEF TargetingIInv, SurfacesChosen, SearchStages
<1> QED
  BY <1>2, <1>3, <1>4, <1>5 DEF TargetingIInv

(* A search ends and the next one starts.                                   *)
LEMMA SearchEndsKeeps ==
  ASSUME TargetingIInv, SearchEnds
  PROVE  TargetingIInv'
<1>1. /\ UNCHANGED <<trueCalls, calls, methods, surfaces>>
      /\ stage \in SearchStages /\ queue = <<>>
      /\ found' = [s \in DOMAIN found \cup {stage} |-> IF s = stage THEN hops ELSE found[s]]
  BY StagesOfSearches DEF SearchEnds
<1>2. \A s : Direction(s)' = Direction(s) /\ Seeds(s)' = Seeds(s)
  BY <1>1, Frozen
<1>3. Complete(Direction(stage), Seeds(stage), hops)
  BY <1>1, SearchEnded DEF TargetingIInv, SearchUnderWay
<1>4. \A s \in Past(stage) \cup {stage} :
        s \in DOMAIN found' /\ Complete(Direction(s), Seeds(s), found'[s])
  BY <1>1, <1>3 DEF TargetingIInv, SearchesDone
<1>5. /\ stage' \in {"backward", "auth", "readers", "select"}
      /\ Past(stage') = Past(stage) \cup {stage}
      /\ stage' \in SearchStages =>
           hops' = [m \in Seeds(stage') |-> 0] /\ queue' = SetToSeq(Seeds(stage'))
  <2>1. CASE stage = "readers"
    BY <2>1 DEF SearchEnds, Past, SearchStages
  <2>2. CASE stage # "readers"
    <3>1. StartSearch(NextSearch(stage))
      BY <2>2 DEF SearchEnds
    <3>2. /\ stage' = NextSearch(stage)
          /\ hops' = [m \in Seeds(NextSearch(stage)) |-> 0]
          /\ queue' = SetToSeq(Seeds(NextSearch(stage)))
      BY <3>1 DEF StartSearch
    <3>3. CASE stage = "forward"
      BY <3>2, <3>3, NextSearchIs DEF Past, SearchStages
    <3>4. CASE stage = "backward"
      BY <3>2, <3>4, NextSearchIs DEF Past, SearchStages
    <3>5. CASE stage = "auth"
      BY <3>2, <3>5, NextSearchIs DEF Past, SearchStages
    <3> QED
      BY <1>1, <2>2, <3>3, <3>4, <3>5 DEF SearchStages
  <2> QED
    BY <2>1, <2>2
<1>6. GraphTyped'
  BY <1>1, <1>5 DEF TargetingIInv, GraphTyped, Stages, SearchStages
<1>7. SearchUnderWay'
  <2>1. SUFFICES ASSUME stage' \in SearchStages
                 PROVE  Searching(Direction(stage'), Seeds(stage'), hops', queue')
    BY <1>2 DEF SearchUnderWay
  <2>2. IsFiniteSet(Seeds(stage'))
    BY <2>1, GraphFacts DEF TargetingIInv
  <2> QED
    BY <1>5, <2>1, <2>2, SearchStarts
<1>8. SearchesDone'
  BY <1>2, <1>4, <1>5 DEF SearchesDone
<1>9. SurfacesChosen'
  BY <1>1, <1>5 DEF TargetingIInv, SurfacesChosen
<1> QED
  BY <1>6, <1>7, <1>8, <1>9 DEF TargetingIInv

(* The searches stay among the nodes of the graph.                          *)
LEMMA SeedsInside ==
  ASSUME GraphTyped, NEW s \in SearchStages
  PROVE  Seeds(s) \subseteq Nodes /\ \A c \in Direction(s) : c[2] \in Nodes
BY GraphFacts

(* What the searches have found when the surfaces are chosen.               *)
LEMMA FoundFacts ==
  ASSUME GraphTyped, SearchesDone, stage \in {"select", "trivy"}, NEW s \in SearchStages
  PROVE  /\ Complete(Direction(s), Seeds(s), found[s])
         /\ Reached(s) = DOMAIN found[s]
         /\ Reached(s) \subseteq Nodes
         /\ \A m \in Reached(s) : found[s][m] \in Nat
<1>1. Complete(Direction(s), Seeds(s), found[s])
  BY DEF SearchesDone, Past
<1>2. IsFiniteSet(Nodes)
  BY GraphFacts
<1>3. \A m \in DOMAIN found[s] : m \in Nodes
  BY <1>1, <1>2, SeedsInside, SeenWithin
<1>4. \A m \in DOMAIN found[s] : found[s][m] \in Nat
  BY <1>1 DEF Complete, Nearest
<1> QED
  BY <1>1, <1>3, <1>4 DEF Reached

(* What is selected can be sorted: a method is selected once.               *)
LEMMA SelectedIsSortable ==
  ASSUME GraphTyped, SearchesDone, stage \in {"select", "trivy"}
  PROVE  Sortable(Selected)
<1>1. OnTheWay \in SUBSET Nodes /\ SecondOrder \in SUBSET Nodes
  BY FoundFacts DEF OnTheWay, SecondOrder, SearchStages
<1>2. OnTheWay \cap SecondOrder = {}
  BY DEF SecondOrder
<1>3. \A m \in OnTheWay : m \in Nat /\ found["forward"][m] \in Nat
  BY <1>1, FoundFacts, GraphFacts DEF OnTheWay, SearchStages
<1>4. \A m \in SecondOrder : m \in Nat
  BY <1>1, GraphFacts
<1> DEFINE onWay == {Surface(m, Kind(m), found["forward"][m], FALSE) : m \in OnTheWay}
           second == {Surface(m, "external_input", 0, TRUE) : m \in SecondOrder}
<1>5. IsFiniteSet(OnTheWay) /\ IsFiniteSet(SecondOrder)
  BY <1>1, GraphFacts, FS_Subset
<1>6. IsFiniteSet(onWay)
  <2> DEFINE f == [m \in OnTheWay |-> Surface(m, Kind(m), found["forward"][m], FALSE)]
  <2>1. f \in Surjection(OnTheWay, onWay)
    BY DEF Surjection
  <2> QED
    BY <1>5, <2>1, FS_Surjection
<1>7. IsFiniteSet(second)
  <2> DEFINE f == [m \in SecondOrder |-> Surface(m, "external_input", 0, TRUE)]
  <2>1. f \in Surjection(SecondOrder, second)
    BY DEF Surjection
  <2> QED
    BY <1>5, <2>1, FS_Surjection
<1>8. \A s \in onWay : s.id \in OnTheWay /\ s = Surface(s.id, Kind(s.id), found["forward"][s.id], FALSE)
  BY DEF Surface
<1>9. \A s \in second : s.id \in SecondOrder /\ s = Surface(s.id, "external_input", 0, TRUE)
  BY DEF Surface
<1>10. Selected = onWay \cup second
  BY DEF Selected
<1> HIDE DEF onWay, second
<1>11. IsFiniteSet(Selected)
  BY <1>6, <1>7, <1>10, FS_Union
<1>12. \A s \in onWay : s.id \in Nat /\ s.depth \in Nat
  <2>1. ASSUME NEW s \in onWay PROVE s.depth = found["forward"][s.id]
    BY <1>8 DEF Surface
  <2> QED
    BY <1>3, <1>8, <2>1
<1>13. \A s \in second : s.id \in Nat /\ s.depth \in Nat
  <2>1. ASSUME NEW s \in second PROVE s.depth = 0
    BY <1>9 DEF Surface
  <2>2. ASSUME NEW s \in second PROVE s.id \in SecondOrder
    BY <1>9
  <2> QED
    BY <1>4, <2>1, <2>2
<1>14. ASSUME NEW s \in Selected, NEW t \in Selected, s.id = t.id PROVE s = t
  <2>1. CASE s \in onWay /\ t \in onWay
    BY <1>8, <1>14, <2>1
  <2>2. CASE s \in second /\ t \in second
    BY <1>9, <1>14, <2>2
  <2>3. CASE s \in onWay /\ t \in second
    BY <1>2, <1>8, <1>9, <1>14, <2>3
  <2>4. CASE s \in second /\ t \in onWay
    BY <1>2, <1>8, <1>9, <1>14, <2>4
  <2> QED
    BY <1>10, <2>1, <2>2, <2>3, <2>4
<1> QED
  BY <1>10, <1>11, <1>12, <1>13, <1>14 DEF Sortable

(* The surfaces are sorted, and none is lost.                               *)
LEMMA SelectKeeps ==
  ASSUME TargetingIInv, Select
  PROVE  TargetingIInv'
<1>1. /\ UNCHANGED <<trueCalls, calls, methods, hops, queue, found>>
      /\ stage = "select" /\ stage' \in {"skipped", "trivy"}
      /\ surfaces' = Sorted(Selected)
  BY DEF Select
<1>2. Sortable(Selected)
  BY <1>1, SelectedIsSortable DEF TargetingIInv
<1>3. ToSet(surfaces') = Selected
  BY <1>1, <1>2, SortedKeepsAll
<1>4. UNCHANGED Selected
  <2>1. UNCHANGED <<OnTheWay, SecondOrder>>
    BY <1>1 DEF OnTheWay, SecondOrder, Reached
  <2>2. \A m : Kind(m)' = Kind(m)
    BY <1>1 DEF Kind, Reached, HasIDORSignal
  <2> QED
    BY <1>1, <2>1, <2>2 DEF Selected, Surface
<1>5. SurfacesChosen'
  BY <1>2, <1>3, <1>4 DEF SurfacesChosen, Sortable
<1>6. GraphTyped'
  BY <1>1 DEF TargetingIInv, GraphTyped, Stages
<1>7. SearchUnderWay'
  BY <1>1 DEF SearchUnderWay, SearchStages
<1>8. SearchesDone'
  <2>1. \A s : Direction(s)' = Direction(s) /\ Seeds(s)' = Seeds(s)
    BY <1>1, Frozen
  <2>2. Past(stage') \subseteq Past(stage)
    BY <1>1 DEF Past
  <2> QED
    BY <1>1, <2>1, <2>2 DEF TargetingIInv, SearchesDone
<1> QED
  BY <1>5, <1>6, <1>7, <1>8 DEF TargetingIInv

(* The result of the searches is what the definition of a surface asks for. *)
LEMMA ChosenOnPaths == TargetingIInv => SurfacesOnPaths
<1> SUFFICES ASSUME TargetingIInv, stage = "trivy" PROVE SurfacesOnPaths
  BY DEF SurfacesOnPaths
<1>1. GraphTyped /\ SearchesDone /\ stage \in {"select", "trivy"} /\ ToSet(surfaces) = Selected
  BY DEF TargetingIInv, SurfacesChosen
<1> DEFINE N == Cardinality(Nodes)
           depth(m) == {n \in 0..N : m \in Within(Edges, n, Seeds("forward"))}
<1>2. IsFiniteSet(Nodes) /\ MethodSet \subseteq Nodes /\ \A c \in Edges : c[2] \in Nodes
  BY <1>1, GraphFacts
<1>3. Complete(Edges, Seeds("forward"), found["forward"])
  BY <1>1, FoundFacts DEF Direction, SearchStages
<1>4. /\ Complete(Reversed(Edges), Seeds("backward"), found["backward"])
      /\ Complete(Reversed(Edges), AuthSeeds, found["auth"])
  <2>1. Seeds("auth") = AuthSeeds
    BY DEF Seeds
  <2> QED
    BY <1>1, <2>1, FoundFacts DEF Direction, SearchStages
<1>5. N \in Nat /\ Seeds("forward") \subseteq Nodes
  BY <1>1, <1>2, SeedsInside, FS_CardinalityType DEF SearchStages
<1>6. /\ \A x : x \in Reached("forward") <=> depth(x) # {}
      /\ \A x \in Reached("forward") :
           found["forward"][x] \in depth(x) /\ \A n \in depth(x) : found["forward"][x] <= n
  <2>1. /\ \A x : x \in Reached("forward")
                    <=> \E n \in 0..N : x \in Within(Edges, n, Seeds("forward"))
        /\ \A x \in Reached("forward") :
             /\ found["forward"][x] \in 0..N
             /\ x \in Within(Edges, found["forward"][x], Seeds("forward"))
             /\ \A n \in Nat : x \in Within(Edges, n, Seeds("forward")) => found["forward"][x] <= n
    BY <1>2, <1>3, <1>5, SeenWithin DEF Reached
  <2>2. 0..N \subseteq Nat
    BY <1>5
  <2> HIDE DEF N
  <2> QED
    BY <2>1, <2>2
<1>7. \A x \in Nodes : /\ x \in Reached("backward") <=> Reaches(x, Seeds("backward"))
                       /\ x \in Reached("auth") <=> Reaches(x, AuthSeeds)
  BY <1>2, <1>4, SeenReaches DEF Reached, Reaches
<1> HIDE DEF N, depth
<1>8. ToSet(methods) \subseteq Nodes
  BY <1>1, <1>2 DEF GraphTyped
<1>9. OnTheWay = {m \in ToSet(methods) : depth(m) # {} /\ Reaches(m, Seeds("backward"))}
  BY <1>6, <1>7, <1>8 DEF OnTheWay
<1>10. \A s \in Selected :
         \/ /\ s.id \in OnTheWay /\ s.kind = Kind(s.id) /\ s.second = FALSE
            /\ s.depth = found["forward"][s.id]
         \/ s.kind = "external_input" /\ s.second = TRUE
  BY DEF Selected, Surface
<1>11. {s.id : s \in {t \in ToSet(surfaces) : ~t.second}} = OnTheWay
  <2>1. ASSUME NEW m \in OnTheWay PROVE \E s \in Selected : ~s.second /\ s.id = m
    <3>1. Surface(m, Kind(m), found["forward"][m], FALSE) \in Selected
      BY DEF Selected
    <3> QED
      BY <3>1 DEF Surface
  <2>2. \A s \in Selected : ~s.second => s.id \in OnTheWay
    BY <1>10
  <2> QED
    BY <1>1, <2>1, <2>2
<1>12. ASSUME NEW s \in ToSet(surfaces)
       PROVE  /\ ~s.second => s.depth \in depth(s.id) /\ \A n \in depth(s.id) : s.depth <= n
              /\ s.kind = "idor_candidate" => ~Reaches(s.id, AuthSeeds)
  <2>1. ASSUME ~s.second
        PROVE  s.depth \in depth(s.id) /\ \A n \in depth(s.id) : s.depth <= n
    <3>1. s.id \in Reached("forward") /\ s.depth = found["forward"][s.id]
      BY <1>1, <1>10, <2>1 DEF OnTheWay
    <3> QED
      BY <1>6, <3>1
  <2>2. ASSUME s.kind = "idor_candidate" PROVE ~Reaches(s.id, AuthSeeds)
    <3>1. s.id \in OnTheWay /\ Kind(s.id) = "idor_candidate"
      BY <1>1, <1>10, <2>2
    <3>2. s.id \notin Reached("auth")
      BY <3>1 DEF Kind
    <3>3. s.id \in Nodes
      BY <1>8, <3>1 DEF OnTheWay
    <3> QED
      BY <1>7, <3>2, <3>3
  <2> QED
    BY <2>1, <2>2
<1> QED
  BY <1>9, <1>11, <1>12 DEF SurfacesOnPaths, depth, N

(* Steps that leave the state of Targeting alone.                           *)
LEMMA TargetingIdles ==
  ASSUME TargetingIInv, UNCHANGED targetingVars
  PROVE  TargetingIInv'
<1>1. UNCHANGED <<stage, trueCalls, calls, methods, hops, queue, found, surfaces>>
  BY DEF targetingVars
<1>2. \A s : Direction(s)' = Direction(s) /\ Seeds(s)' = Seeds(s)
  BY <1>1, Frozen
<1>3. UNCHANGED Selected
  <2>1. UNCHANGED <<OnTheWay, SecondOrder>>
    BY <1>1 DEF OnTheWay, SecondOrder, Reached
  <2>2. \A m : Kind(m)' = Kind(m)
    BY <1>1 DEF Kind, Reached, HasIDORSignal
  <2> QED
    BY <1>1, <2>1, <2>2 DEF Selected, Surface
<1>4. GraphTyped'
  BY <1>1 DEF TargetingIInv, GraphTyped
<1>5. SearchUnderWay'
  BY <1>1, <1>2 DEF TargetingIInv, SearchUnderWay
<1>6. SearchesDone'
  BY <1>1, <1>2 DEF TargetingIInv, SearchesDone
<1>7. SurfacesChosen'
  BY <1>1, <1>3 DEF TargetingIInv, SurfacesChosen
<1> QED
  BY <1>4, <1>5, <1>6, <1>7 DEF TargetingIInv

(* Steps of Enrichment that only move the stage on.                         *)
LEMMA TargetingMovesOn ==
  ASSUME TargetingIInv, UNCHANGED <<trueCalls, calls, methods, surfaces>>,
         stage' \in {"taint", "attribute", "enrich", "enriched"}
  PROVE  TargetingIInv'
BY DEF TargetingIInv, GraphTyped, SearchUnderWay, SearchesDone, SurfacesChosen, Past,
       SearchStages, Stages

(* Targeting does not run while surfaces are enriched.                      *)
LEMMA TargetingStages ==
  ASSUME TargetingIInv, TargetingNext
  PROVE  /\ stage \notin {"attribute", "enrich", "enriched"}
         /\ stage' \notin {"attribute", "enrich", "enriched"}
<1>1. CASE ImportBoundaries \/ GetCallGraph \/ QueryNodes
  BY <1>1 DEF ImportBoundaries, GetCallGraph, QueryNodes
<1>2. CASE Seed
  BY <1>2 DEF Seed, StartSearch
<1>3. CASE Visit
  BY <1>3, StagesOfSearches DEF Visit, SearchStages
<1>4. CASE SearchEnds
  <2>1. stage \in SearchStages
    BY <1>4, StagesOfSearches DEF SearchEnds
  <2>2. CASE stage = "readers"
    BY <1>4, <2>2 DEF SearchEnds
  <2>3. CASE stage # "readers"
    <3>1. stage' = NextSearch(stage)
      BY <1>4, <2>3 DEF SearchEnds, StartSearch
    <3> QED
      BY <2>1, <2>3, <3>1, NextSearchIs DEF SearchStages
  <2> QED
    BY <2>1, <2>2, <2>3 DEF SearchStages
<1>5. CASE Select
  BY <1>5 DEF Select
<1> QED
  BY <1>1, <1>2, <1>3, <1>4, <1>5 DEF TargetingNext

-----------------------------------------------------------------------------
(* Enrichment.                                                             *)

\* Nothing is claimed or enriched before its turn.
InTurn ==
  /\ stage \notin {"attribute", "enrich", "enriched"} => claims = {}
  /\ stage \notin {"enrich", "enriched"} => running = {} /\ enriched = {}

\* The surface of a claim is the one next to the method of its path.
ToTheNearest(c) ==
  /\ taints[c.path].method \notin SurfaceIDs
  /\ \E n \in 1..WalkUpRounds :
       {s \in SurfaceIDs : taints[c.path].method \in Within(Known(c.blind), n, {s})} = {c.to}

\* A path that was walked up has one claim at most.
ClaimsSettled ==
  /\ next \in Nat
  /\ \A c \in claims : c.path \in Nat /\ c.path < next /\ ToTheNearest(c)
  /\ \A c, d \in claims : c.path = d.path => c = d

\* The sink of a claim has no more claimants than the cap allows.
Shared(c) == Cardinality(Claimants(taints[c.path].sink)) <= MaxSinkFanIn

\* The cap holds of all claims once it has been applied.
FanInCapped == stage \in {"enrich", "enriched"} => \A c \in claims : Shared(c)

\* What Enrichment adds to it, and both together.
EnrichmentIInv == InTurn /\ ClaimsSettled /\ FanInCapped /\ ConfirmedSinksKept

AttributionIInv == TargetingIInv /\ EnrichmentIInv

(* There are finitely many surfaces.                                        *)
LEMMA SurfacesFinite ==
  ASSUME TargetingIInv
  PROVE  IsFiniteSet(SurfaceIDs)
<1>1. IsFiniteSet(ToSet(surfaces))
  BY DEF TargetingIInv, SurfacesChosen
<1> DEFINE f == [s \in ToSet(surfaces) |-> s.id]
<1>2. f \in Surjection(ToSet(surfaces), SurfaceIDs)
  BY DEF Surjection, SurfaceIDs
<1> QED
  BY <1>1, <1>2, FS_Surjection

(* The walk up the callers of m that ends with one surface alone.           *)
LEMMA WalkFindsNearest ==
  ASSUME IsFiniteSet(SurfaceIDs), NEW m, m \notin SurfaceIDs, NEW blind,
         NEW s \in Attributable(Matched(m, blind))
  PROVE  /\ Attributable(Matched(m, blind)) = {s}
         /\ \E n \in 1..WalkUpRounds : {t \in SurfaceIDs : m \in Within(Known(blind), n, {t})} = {s}
<1> DEFINE K == Known(blind)
           W(n) == Within(Reversed(K), n, {m})
           hits(n) == AtDistance(Reversed(K), n, {m}) \cap SurfaceIDs
           rounds == {k \in 1..WalkUpRounds : \A j \in 1..(k - 1) : hits(j) = {} /\ j - 1 < GiveUpRound}
           matched == Matched(m, blind)
<1>1. matched = UNION {hits(n) : n \in rounds}
  BY DEF Matched
<1>2. matched \in SUBSET SurfaceIDs
  <2>1. \A n : hits(n) \subseteq SurfaceIDs
    OBVIOUS
  <2> HIDE DEF hits, matched
  <2> QED
    BY <1>1, <2>1
<1>3. Cardinality(matched) = 1 /\ s \in matched
  BY DEF Attributable
<1>4. IsFiniteSet(matched)
  <2> HIDE DEF matched
  <2> QED
    BY <1>2, FS_Subset
<1>5. matched = {s}
  <2> HIDE DEF matched
  <2>1. PICK x : matched = {x}
    BY <1>3, <1>4, FS_Singleton
  <2> QED
    BY <1>3, <2>1
<1>6. Attributable(matched) = {s}
  BY <1>3, <1>5 DEF Attributable
<1>7. \A n \in Nat \ {0} : hits(n) = (W(n) \ W(n - 1)) \cap SurfaceIDs
  BY DEF AtDistance
<1>8. W(0) \cap SurfaceIDs = {}
  BY WithinSteps
<1> HIDE DEF W, hits, matched
<1>9. PICK n \in rounds : s \in hits(n)
  BY <1>1, <1>3
<1>10. n \in 1..WalkUpRounds /\ \A j \in 1..(n - 1) : hits(j) = {}
  BY <1>9
<1>11. hits(n) = {s}
  BY <1>1, <1>5, <1>9
<1> HIDE DEF rounds
<1>12. n \in Nat /\ n >= 1
  BY <1>10
<1>13. \A j \in Nat : j <= n - 1 => W(j) \cap SurfaceIDs = {}
  <2> DEFINE S == {j \in Nat : j <= n - 1 => W(j) \cap SurfaceIDs = {}}
  <2>1. 0 \in S
    BY <1>8
  <2>2. ASSUME NEW j \in Nat, j \in S PROVE j + 1 \in S
    <3>1. SUFFICES ASSUME j + 1 <= n - 1 PROVE W(j + 1) \cap SurfaceIDs = {}
      OBVIOUS
    <3>2. j <= n - 1 /\ j + 1 \in 1..(n - 1) /\ j + 1 \in Nat \ {0} /\ (j + 1) - 1 = j
      BY <1>12, <3>1
    <3>3. W(j) \cap SurfaceIDs = {} /\ hits(j + 1) = {}
      BY <1>10, <2>2, <3>2
    <3>4. hits(j + 1) = (W(j + 1) \ W(j)) \cap SurfaceIDs
      BY <1>7, <3>2
    <3> QED
      BY <3>3, <3>4
  <2> HIDE DEF S
  <2>3. Nat \subseteq S
    BY <2>1, <2>2, NatSetInduction
  <2> QED
    BY <2>3 DEF S
<1>14. W(n) \cap SurfaceIDs = {s}
  <2>1. n - 1 \in Nat /\ n - 1 <= n - 1 /\ n \in Nat \ {0}
    BY <1>12
  <2>2. W(n - 1) \cap SurfaceIDs = {}
    BY <1>13, <2>1
  <2>3. hits(n) = (W(n) \ W(n - 1)) \cap SurfaceIDs
    BY <1>7, <2>1
  <2> QED
    BY <1>11, <2>2, <2>3
<1>15. \A t : m \in Within(K, n, {t}) <=> t \in W(n)
  BY <1>12, WithinReversed DEF IsDual, W
<1>16. {t \in SurfaceIDs : m \in Within(K, n, {t})} = {s}
  BY <1>14, <1>15
<1> QED
  BY <1>6, <1>10, <1>16 DEF matched

(* Whether a claim is to the nearest surface does not change any more.      *)
LEMMA ClaimFixed ==
  ASSUME UNCHANGED <<trueCalls, surfaces, taints>>, NEW c
  PROVE  ToTheNearest(c)' <=> ToTheNearest(c)
<1>1. UNCHANGED SurfaceIDs
  BY DEF SurfaceIDs
<1>2. \A b : Known(b)' = Known(b)
  BY DEF Known
<1> QED
  BY <1>1, <1>2 DEF ToTheNearest

(* Steps that leave claims and paths alone.                                 *)
LEMMA ClaimsIdle ==
  ASSUME EnrichmentIInv, UNCHANGED <<trueCalls, surfaces, taints, next, claims>>
  PROVE  ClaimsSettled' /\ (\A c : Shared(c)' <=> Shared(c)) /\ (\A s : Direct(s)' = Direct(s))
<1>1. ClaimsSettled'
  BY ClaimFixed DEF EnrichmentIInv, ClaimsSettled
<1>2. \A c : Shared(c)' <=> Shared(c)
  BY DEF Shared, Claimants
<1>3. \A s : Direct(s)' = Direct(s)
  BY DEF Direct
<1> QED
  BY <1>1, <1>2, <1>3

(* The sink of an own path is on the call path, so the filter keeps it.     *)
LEMMA OwnSinksStay ==
  ASSUME NEW s, NEW callees, NEW i \in Direct(s)
  PROVE  taints[i].sink.label \in Enriched(s, callees).sinks
<1> DEFINE label == taints[i].sink.label
           sinks == {taints[j].sink.label : j \in PathsOf(s)}
           path == CallPath(s, callees)
<1>1. i \in PathsOf(s)
  BY DEF PathsOf
<1>2. label \in sinks
  BY <1>1
<1>3. label \in Trail(s, i)
  BY DEF Trail
<1>4. label \in UNION {Trail(s, j) : j \in PathsOf(s)}
  BY <1>1, <1>3
<1>5. UNION {Trail(s, j) : j \in PathsOf(s)} \subseteq path
  BY DEF CallPath
<1>6. Enriched(s, callees).sinks = FilterSinks(sinks, path)
  BY DEF Enriched
<1> HIDE DEF sinks, path, label
<1>7. label \in sinks \cap path
  BY <1>2, <1>4, <1>5
<1>8. label \in FilterSinks(sinks, path)
  BY <1>7 DEF FilterSinks
<1> QED
  BY <1>6, <1>8 DEF label

(* The invariant holds at the start.                                        *)
LEMMA AttributionStarts == AttributionInit => AttributionIInv
<1> SUFFICES ASSUME AttributionInit PROVE AttributionIInv
  OBVIOUS
<1>1. TargetingIInv
  BY TargetingStarts DEF AttributionInit
<1>2. EnrichmentIInv
  BY DEF AttributionInit, TargetingInit, EnrichmentInit, EnrichmentIInv, InTurn, ClaimsSettled,
         FanInCapped, ConfirmedSinksKept
<1> QED
  BY <1>1, <1>2 DEF AttributionIInv

(* A step of Targeting.                                                     *)
LEMMA TargetingStepKeeps ==
  ASSUME AttributionIInv, TargetingNext, UNCHANGED enrichmentVars
  PROVE  AttributionIInv'
<1>1. TargetingIInv'
  BY FetchingKeeps, SeedKeeps, VisitKeeps, SearchEndsKeeps, SelectKeeps
     DEF AttributionIInv, TargetingNext
<1>2. /\ stage \notin {"attribute", "enrich", "enriched"}
      /\ stage' \notin {"attribute", "enrich", "enriched"}
  BY TargetingStages DEF AttributionIInv
<1>3. /\ UNCHANGED <<cves, taints, next, claims, running, enriched>>
      /\ claims = {} /\ running = {} /\ enriched = {} /\ next \in Nat
  BY <1>2 DEF enrichmentVars, AttributionIInv, EnrichmentIInv, InTurn, ClaimsSettled
<1>4. InTurn' /\ ClaimsSettled' /\ FanInCapped' /\ ConfirmedSinksKept'
  BY <1>2, <1>3 DEF InTurn, ClaimsSettled, FanInCapped, ConfirmedSinksKept
<1> QED
  BY <1>1, <1>4 DEF AttributionIInv, EnrichmentIInv

(* The queries before the attribution.                                      *)
LEMMA QueriesKeep ==
  ASSUME AttributionIInv, RunTrivy \/ QueryTaint
  PROVE  AttributionIInv'
<1>1. /\ UNCHANGED <<trueCalls, calls, methods, surfaces, next, claims, running, enriched>>
      /\ stage \in {"trivy", "taint"} /\ stage' \in {"taint", "attribute"}
  BY DEF RunTrivy, QueryTaint
<1>2. TargetingIInv'
  BY <1>1, TargetingMovesOn DEF AttributionIInv
<1>3. claims = {} /\ running = {} /\ enriched = {} /\ next \in Nat
  BY <1>1 DEF AttributionIInv, EnrichmentIInv, InTurn, ClaimsSettled
<1>4. InTurn' /\ ClaimsSettled' /\ FanInCapped' /\ ConfirmedSinksKept'
  BY <1>1, <1>3 DEF InTurn, ClaimsSettled, FanInCapped, ConfirmedSinksKept
<1> QED
  BY <1>2, <1>4 DEF AttributionIInv, EnrichmentIInv

(* A path is walked up: one new claim at most, to the nearest surface.      *)
LEMMA WalkUpKeeps ==
  ASSUME AttributionIInv, WalkUp
  PROVE  AttributionIInv'
<1>1. /\ UNCHANGED <<stage, trueCalls, calls, methods, hops, queue, found, surfaces,
                     cves, taints, running, enriched>>
      /\ stage = "attribute" /\ next' = next + 1
  BY DEF WalkUp, Advance
<1>2. TargetingIInv'
  BY <1>1, TargetingIdles DEF AttributionIInv, targetingVars
<1>3. /\ running = {} /\ enriched = {} /\ next \in Nat
      /\ \A c \in claims : c.path \in Nat /\ c.path < next /\ ToTheNearest(c)
      /\ \A c, d \in claims : c.path = d.path => c = d
  BY <1>1 DEF AttributionIInv, EnrichmentIInv, InTurn, ClaimsSettled
<1>4. InTurn' /\ FanInCapped' /\ ConfirmedSinksKept'
  BY <1>1, <1>3 DEF InTurn, FanInCapped, ConfirmedSinksKept
<1>5. ClaimsSettled'
  <2>1. CASE UNCHANGED claims
    <3>1. \A c \in claims' : c.path \in Nat /\ c.path < next' /\ ToTheNearest(c)
      BY <1>1, <1>3, <2>1
    <3> QED
      BY <1>1, <1>3, <2>1, <3>1, ClaimFixed DEF ClaimsSettled
  <2>2. CASE ~ UNCHANGED claims
    <3> DEFINE m == taints[next].method
    <3>1. PICK blind : /\ m \notin SurfaceIDs
                       /\ claims' = claims \cup {[path |-> next, to |-> s, blind |-> blind] :
                                                   s \in Attributable(Matched(m, blind))}
      BY <2>2 DEF WalkUp
    <3> DEFINE new == {[path |-> next, to |-> s, blind |-> blind] :
                         s \in Attributable(Matched(m, blind))}
    <3>2. IsFiniteSet(SurfaceIDs)
      BY SurfacesFinite DEF AttributionIInv
    <3>3. ASSUME NEW c \in new
          PROVE  c.path = next /\ ToTheNearest(c) /\ new = {c}
      <4>1. PICK s \in Attributable(Matched(m, blind)) :
              c = [path |-> next, to |-> s, blind |-> blind]
        OBVIOUS
      <4>2. c.path = next /\ c.to = s /\ c.blind = blind
        BY <4>1
      <4> HIDE DEF m
      <4>3. /\ Attributable(Matched(m, blind)) = {s}
            /\ \E n \in 1..WalkUpRounds :
                 {t \in SurfaceIDs : m \in Within(Known(blind), n, {t})} = {s}
        BY <3>1, <3>2, WalkFindsNearest
      <4>4. ToTheNearest(c)
        BY <3>1, <4>2, <4>3 DEF ToTheNearest, m
      <4> QED
        BY <4>1, <4>2, <4>3, <4>4
    <3>4. claims' = claims \cup new
      BY <3>1
    <3> HIDE DEF new, m
    <3>5. \A c \in claims' : c.path \in Nat /\ c.path < next' /\ ToTheNearest(c)
      BY <1>1, <1>3, <3>3, <3>4
    <3>6. \A c, d \in claims' : c.path = d.path => c = d
      <4>1. \A c \in new, d \in claims : c.path # d.path
        BY <1>3, <3>3
      <4>2. \A c, d \in new : c = d
        BY <3>3
      <4> QED
        BY <1>3, <3>4, <4>1, <4>2
    <3>7. \A c \in claims' : ToTheNearest(c)'
      BY <1>1, <3>5, ClaimFixed
    <3>8. next' \in Nat
      BY <1>1, <1>3
    <3> QED
      BY <3>5, <3>6, <3>7, <3>8 DEF ClaimsSettled
  <2> QED
    BY <2>1, <2>2
<1> QED
  BY <1>2, <1>4, <1>5 DEF AttributionIInv, EnrichmentIInv

(* Claims to a sink with too many claimants go; the others keep theirs.     *)
LEMMA AttributeKeeps ==
  ASSUME AttributionIInv, Attribute
  PROVE  AttributionIInv'
<1>1. /\ UNCHANGED <<trueCalls, calls, methods, surfaces, taints, next, running, enriched>>
      /\ stage = "attribute" /\ stage' = "enrich"
      /\ claims' = {c \in claims : Shared(c)}
  BY DEF Attribute, Shared
<1>2. TargetingIInv'
  BY <1>1, TargetingMovesOn DEF AttributionIInv
<1>3. running = {} /\ enriched = {}
  BY <1>1 DEF AttributionIInv, EnrichmentIInv, InTurn
<1>4. InTurn' /\ ConfirmedSinksKept'
  BY <1>1, <1>3 DEF InTurn, ConfirmedSinksKept
<1>5. ClaimsSettled'
  <2>1. \A c \in claims' : c \in claims
    BY <1>1
  <2>2. \A c \in claims' : ToTheNearest(c)'
    BY <1>1, <2>1, ClaimFixed DEF AttributionIInv, EnrichmentIInv, ClaimsSettled
  <2> QED
    BY <1>1, <2>1, <2>2 DEF AttributionIInv, EnrichmentIInv, ClaimsSettled
<1>6. ASSUME NEW c \in claims' PROVE Shared(c)'
  <2> DEFINE sink == taints[c.path].sink
  <2>1. \A d \in claims : taints[d.path].sink = sink => (Shared(d) <=> Shared(c))
    BY DEF Shared
  <2>2. {d \in claims' : taints[d.path].sink = sink} = {d \in claims : taints[d.path].sink = sink}
    BY <1>1, <2>1
  <2>3. Claimants(sink)' = Claimants(sink)
    BY <1>1, <2>2 DEF Claimants
  <2>4. Shared(c)
    BY <1>1
  <2> QED
    BY <1>1, <2>3, <2>4 DEF Shared
<1>7. FanInCapped'
  BY <1>6 DEF FanInCapped
<1> QED
  BY <1>2, <1>4, <1>5, <1>7 DEF AttributionIInv, EnrichmentIInv

(* A goroutine takes a surface or is done with it.                          *)
LEMMA SurfaceStepKeeps ==
  ASSUME AttributionIInv, NEW s, StartSurface(s) \/ FinishSurface(s)
  PROVE  AttributionIInv'
<1>1. UNCHANGED <<stage, trueCalls, calls, methods, hops, queue, found, surfaces,
                  cves, taints, next, claims>>
  BY DEF StartSurface, FinishSurface
<1>2. TargetingIInv'
  BY <1>1, TargetingIdles DEF AttributionIInv, targetingVars
<1>3. ClaimsSettled' /\ (\A c : Shared(c)' <=> Shared(c)) /\ (\A t : Direct(t)' = Direct(t))
  BY <1>1, ClaimsIdle DEF AttributionIInv
<1>4. FanInCapped'
  BY <1>1, <1>3 DEF AttributionIInv, EnrichmentIInv, FanInCapped
<1>5. InTurn'
  <2>1. stage \in {"enrich", "enriched"}
    BY DEF StartSurface, FinishSurface, AttributionIInv, EnrichmentIInv, InTurn
  <2> QED
    BY <1>1, <2>1 DEF InTurn
<1>6. ConfirmedSinksKept'
  <2>1. CASE StartSurface(s)
    BY <1>1, <1>3, <2>1 DEF StartSurface, AttributionIInv, EnrichmentIInv, ConfirmedSinksKept
  <2>2. CASE FinishSurface(s)
    <3>1. PICK callees : enriched' = enriched \cup {Enriched(s, callees)}
      BY <2>2 DEF FinishSurface
    <3>2. Enriched(s, callees).id = s
      BY DEF Enriched
    <3>3. \A i \in Direct(s) : taints[i].sink.label \in Enriched(s, callees).sinks
      BY OwnSinksStay
    <3>4. \A e \in enriched' : \A i \in Direct(e.id) : taints[i].sink.label \in e.sinks
      BY <3>1, <3>2, <3>3 DEF AttributionIInv, EnrichmentIInv, ConfirmedSinksKept
    <3> QED
      BY <1>1, <1>3, <3>4 DEF ConfirmedSinksKept
  <2> QED
    BY <2>1, <2>2
<1> QED
  BY <1>2, <1>3, <1>4, <1>5, <1>6 DEF AttributionIInv, EnrichmentIInv

(* All surfaces are done.                                                   *)
LEMMA EndKeeps ==
  ASSUME AttributionIInv, EnrichmentEnds
  PROVE  AttributionIInv'
<1>1. /\ UNCHANGED <<trueCalls, calls, methods, surfaces, taints, next, claims, running, enriched>>
      /\ stage = "enrich" /\ stage' = "enriched"
  BY DEF EnrichmentEnds
<1>2. TargetingIInv'
  BY <1>1, TargetingMovesOn DEF AttributionIInv
<1>3. ClaimsSettled' /\ (\A c : Shared(c)' <=> Shared(c)) /\ (\A s : Direct(s)' = Direct(s))
  BY <1>1, ClaimsIdle DEF AttributionIInv
<1>4. InTurn' /\ FanInCapped' /\ ConfirmedSinksKept'
  BY <1>1, <1>3 DEF AttributionIInv, EnrichmentIInv, InTurn, FanInCapped, ConfirmedSinksKept
<1> QED
  BY <1>2, <1>3, <1>4 DEF AttributionIInv, EnrichmentIInv

(* Every step keeps it.                                                     *)
LEMMA AttributionSteps == AttributionIInv /\ [AttributionNext]_attributionVars => AttributionIInv'
<1> SUFFICES ASSUME AttributionIInv, [AttributionNext]_attributionVars PROVE AttributionIInv'
  OBVIOUS
<1>1. CASE UNCHANGED attributionVars
  <2>1. UNCHANGED targetingVars /\ UNCHANGED enrichmentVars
    BY <1>1 DEF attributionVars
  <2>2. TargetingIInv'
    BY <2>1, TargetingIdles DEF AttributionIInv
  <2>3. UNCHANGED <<stage, trueCalls, surfaces, taints, next, claims, running, enriched>>
    BY <2>1 DEF targetingVars, enrichmentVars
  <2>4. ClaimsSettled' /\ (\A c : Shared(c)' <=> Shared(c)) /\ (\A s : Direct(s)' = Direct(s))
    BY <2>3, ClaimsIdle DEF AttributionIInv
  <2>5. InTurn' /\ FanInCapped' /\ ConfirmedSinksKept'
    BY <2>3, <2>4 DEF AttributionIInv, EnrichmentIInv, InTurn, FanInCapped, ConfirmedSinksKept
  <2> QED
    BY <2>2, <2>4, <2>5 DEF AttributionIInv, EnrichmentIInv
<1>2. CASE TargetingNext /\ UNCHANGED enrichmentVars
  BY <1>2, TargetingStepKeeps
<1>3. CASE RunTrivy \/ QueryTaint
  BY <1>3, QueriesKeep
<1>4. CASE WalkUp
  BY <1>4, WalkUpKeeps
<1>5. CASE Attribute
  BY <1>5, AttributeKeeps
<1>6. CASE EnrichmentEnds
  BY <1>6, EndKeeps
<1>7. ASSUME NEW s \in SurfaceIDs, StartSurface(s) \/ FinishSurface(s) PROVE AttributionIInv'
  BY <1>7, SurfaceStepKeeps
<1>8. CASE AttributionTerminated
  BY <1>1, <1>8 DEF AttributionTerminated
<1> QED
  BY <1>1, <1>2, <1>3, <1>4, <1>5, <1>6, <1>7, <1>8 DEF AttributionNext, EnrichmentNext

(* The inductive invariant of the first two stages.                         *)
LEMMA AttributionInvariance == AttributionSpec => []AttributionIInv
<1> QED
  BY AttributionStarts, AttributionSteps, PTL DEF AttributionSpec

(* For any call graph, any imports and names and whatever rows a broken     *)
(* cursor leaves out, what Targeting hands on is exactly the methods on a   *)
(* way from a source to a sink in the graph as fetched, each with its least *)
(* distance from a source, and no IDOR candidate among them reaches an      *)
(* authentication check: the worklist searches of bfsForward and bfsDepths  *)
(* are complete and in the order of the distances, and the sort loses none  *)
(* (targeting.go:212-218, 295-343, 364-381).                                *)
THEOREM SurfacesLieOnPaths == AttributionSpec => []SurfacesOnPaths
<1>1. AttributionIInv => SurfacesOnPaths
  BY ChosenOnPaths DEF AttributionIInv
<1> QED
  BY <1>1, AttributionInvariance, PTL

(* For any taint paths, surfaces and failed caller queries, a path whose    *)
(* method is no surface is attributed to a caller that no other surface is  *)
(* as near as, to one at most, and no sink keeps more than three claimants: *)
(* what findAncestorSurfaces and the fan-in cap of the enrichment are for   *)
(* (enrichment.go:250-258, 327-346).                                        *)
THEOREM FlowsGoToOneSurface == AttributionSpec => []AttributionIsUnambiguous
<1>1. AttributionIInv => AttributionIsUnambiguous
  <2> SUFFICES ASSUME AttributionIInv, stage = "enriched" PROVE AttributionIsUnambiguous
    BY DEF AttributionIsUnambiguous
  <2>1. ASSUME NEW c \in claims
        PROVE  /\ taints[c.path].method \notin SurfaceIDs
               /\ \E n \in 1..WalkUpRounds :
                    {s \in SurfaceIDs : taints[c.path].method \in Within(Known(c.blind), n, {s})} = {c.to}
               /\ \A d \in claims : d.path = c.path => d.to = c.to
               /\ Cardinality(Claimants(taints[c.path].sink)) <= MaxSinkFanIn
    <3>1. ToTheNearest(c) /\ \A d \in claims : d.path = c.path => d = c
      BY DEF AttributionIInv, EnrichmentIInv, ClaimsSettled
    <3>2. Shared(c)
      BY DEF AttributionIInv, EnrichmentIInv, FanInCapped
    <3> QED
      BY <3>1, <3>2 DEF ToTheNearest, Shared
  <2> QED
    BY <2>1 DEF AttributionIsUnambiguous
<1> QED
  BY <1>1, AttributionInvariance, PTL

(* However many goroutines enrich surfaces and whatever else is known of a  *)
(* surface, the sink of a path that starts in it is among its sinks: it is  *)
(* on the call path that filterSinks keeps them by                          *)
(* (enrichment.go:488-492, 526-543).                                        *)
THEOREM DirectSinksSurvive == AttributionSpec => []ConfirmedSinksKept
<1>1. AttributionIInv => ConfirmedSinksKept
  BY DEF AttributionIInv, EnrichmentIInv
<1> QED
  BY <1>1, AttributionInvariance, PTL

-----------------------------------------------------------------------------
(* Dedup: severities.                                                      *)

LEMMA Ranks ==
  /\ Rank("SUPPRESSED") = 1 /\ Rank("LOW") = 2 /\ Rank("MEDIUM") = 3
  /\ Rank("HIGH") = 4 /\ Rank("BLOCK") = 5
  /\ Labels = {"SUPPRESSED", "LOW", "MEDIUM", "HIGH", "BLOCK"}
  /\ \A sev \in Labels : Rank(sev) \in 1..5
<1>1. /\ DOMAIN Severities = 1..5
      /\ Severities[1] = "SUPPRESSED" /\ Severities[2] = "LOW" /\ Severities[3] = "MEDIUM"
      /\ Severities[4] = "HIGH" /\ Severities[5] = "BLOCK"
  BY DEF Severities
<1>2. \A i \in 1..5 : i = 1 \/ i = 2 \/ i = 3 \/ i = 4 \/ i = 5
  OBVIOUS
<1>3. ASSUME NEW n \in 1..5 PROVE Rank(Severities[n]) = n
  <2>1. \A i \in DOMAIN Severities : Severities[i] = Severities[n] => i = n
    BY <1>1, <1>2
  <2> QED
    BY <1>1, <2>1 DEF Rank
<1>4. Labels = {"SUPPRESSED", "LOW", "MEDIUM", "HIGH", "BLOCK"}
  BY <1>1, <1>2 DEF Labels
<1>5. /\ Rank(Severities[1]) = 1 /\ Rank(Severities[2]) = 2 /\ Rank(Severities[3]) = 3
      /\ Rank(Severities[4]) = 4 /\ Rank(Severities[5]) = 5
  BY <1>3
<1> QED
  BY <1>1, <1>4, <1>5

(* More confidence is never a milder severity.                              *)
LEMMA SeverityIsMonotone ==
  ASSUME NEW c \in 0..100, NEW d \in 0..100, c <= d
  PROVE  /\ SeverityFromConfidence(c) \in Labels
         /\ Rank(SeverityFromConfidence(c)) <= Rank(SeverityFromConfidence(d))
BY Ranks DEF SeverityFromConfidence, ConfBlock, ConfHigh, ConfMedium, ConfLow

-----------------------------------------------------------------------------
(* Dedup: merging.                                                         *)

\* m is what merging makes of the reports of the set S, in whatever order:
\* the most confident report but for the path, the label and the pin.
Absorbs(m, S) ==
  /\ m \in MergedReports
  /\ \E r \in S : /\ m.conf = r.conf /\ m.reason = r.reason
                  /\ m.exploitable = r.exploitable /\ m.cvss = r.cvss
  /\ \A r \in S : r.conf <= m.conf
  /\ m.pinned <=> \E r \in S : r.pinned
  /\ m.pinned => \E r \in S : r.pinned /\ m.label = r.label
  /\ m.src = "BOTH" <=> \E r, q \in S : r.src # q.src
  /\ m.src # "BOTH" => \A r \in S : r.src = m.src

LEMMA ReportsAreTyped ==
  ASSUME NEW r \in Reports
  PROVE  r \in MergedReports /\ r.src \in {"PATTERN", "SEMANTIC"}
BY DedupAssumption DEF MergedReports

(* Merge has the fields it is said to have.                                 *)
LEMMA MergeFields ==
  ASSUME NEW a \in MergedReports, NEW b \in MergedReports
  PROVE  LET winner == IF b.conf > a.conf THEN b ELSE a
             loser  == IF b.conf > a.conf THEN a ELSE b
             m == Merge(a, b)
         IN  /\ m \in MergedReports
             /\ m.conf = winner.conf /\ m.reason = winner.reason
             /\ m.exploitable = winner.exploitable /\ m.cvss = winner.cvss
             /\ m.src = IF a.src # b.src \/ "BOTH" \in {a.src, b.src} THEN "BOTH" ELSE winner.src
             /\ m.label = IF loser.pinned THEN loser.label ELSE winner.label
             /\ m.pinned = (a.pinned \/ b.pinned)
<1> DEFINE winner == IF b.conf > a.conf THEN b ELSE a
           loser  == IF b.conf > a.conf THEN a ELSE b
           src == IF a.src # b.src \/ "BOTH" \in {a.src, b.src} THEN "BOTH" ELSE winner.src
           label == IF loser.pinned THEN loser.label ELSE winner.label
           pinned == winner.pinned \/ loser.pinned
           m == Merge(a, b)
<1>1. winner \in MergedReports /\ loser \in MergedReports /\ {winner, loser} = {a, b}
  OBVIOUS
<1>2. m = [winner EXCEPT !.src = src, !.label = label, !.pinned = pinned]
  BY DEF Merge
<1>3. src \in {"PATTERN", "SEMANTIC", "BOTH"} /\ label \in Labels
  BY <1>1 DEF MergedReports
<1>4. pinned \in BOOLEAN
  BY Zenon
<1>5. pinned = (a.pinned \/ b.pinned)
  BY <1>1
<1> HIDE DEF winner, loser, src, label, pinned, m
<1>6. /\ m.conf = winner.conf /\ m.reason = winner.reason
      /\ m.exploitable = winner.exploitable /\ m.cvss = winner.cvss
      /\ m.src = src /\ m.label = label
  BY <1>1, <1>2 DEF MergedReports
<1>7. m.pinned = pinned
  BY <1>1, <1>2, Zenon DEF MergedReports
<1>8. m \in MergedReports
  BY <1>1, <1>2, <1>3, <1>4 DEF MergedReports
<1> QED
  BY <1>5, <1>6, <1>7, <1>8 DEF winner, loser, src, label, m

LEMMA FirstAbsorbs ==
  ASSUME NEW r \in Reports
  PROVE  Absorbs(r, {r})
BY ReportsAreTyped DEF Absorbs, MergedReports

LEMMA MergeAbsorbs ==
  ASSUME NEW S \in SUBSET Reports, NEW a, Absorbs(a, S), NEW b \in Reports
  PROVE  Absorbs(Merge(a, b), S \cup {b})
<1> DEFINE m == Merge(a, b)
           T == S \cup {b}
           winner == IF b.conf > a.conf THEN b ELSE a
           loser  == IF b.conf > a.conf THEN a ELSE b
<1>1. a \in MergedReports /\ b \in MergedReports /\ b.src \in {"PATTERN", "SEMANTIC"}
  BY ReportsAreTyped DEF Absorbs
<1>2. /\ m \in MergedReports
      /\ m.conf = winner.conf /\ m.reason = winner.reason
      /\ m.exploitable = winner.exploitable /\ m.cvss = winner.cvss
      /\ m.src = IF a.src # b.src \/ "BOTH" \in {a.src, b.src} THEN "BOTH" ELSE winner.src
      /\ m.label = IF loser.pinned THEN loser.label ELSE winner.label
      /\ m.pinned = (a.pinned \/ b.pinned)
  BY <1>1, MergeFields
<1>3. /\ a.conf \in Nat /\ b.conf \in Nat
      /\ \A r \in S : r.conf \in Nat /\ r.conf <= a.conf
      /\ \E r \in S : /\ a.conf = r.conf /\ a.reason = r.reason
                      /\ a.exploitable = r.exploitable /\ a.cvss = r.cvss
  BY <1>1, ReportsAreTyped DEF Absorbs, MergedReports
<1>4. /\ a.pinned <=> \E r \in S : r.pinned
      /\ a.pinned => \E r \in S : r.pinned /\ a.label = r.label
  BY DEF Absorbs
<1>5. /\ a.src = "BOTH" <=> \E r, q \in S : r.src # q.src
      /\ a.src # "BOTH" => \A r \in S : r.src = a.src
  BY DEF Absorbs
<1> HIDE DEF m
<1>6. \E r \in T : /\ m.conf = r.conf /\ m.reason = r.reason
                   /\ m.exploitable = r.exploitable /\ m.cvss = r.cvss
  <2>1. CASE b.conf > a.conf
    BY <1>2, <2>1
  <2>2. CASE ~(b.conf > a.conf)
    BY <1>2, <1>3, <2>2
  <2> QED
    BY <2>1, <2>2
<1>7. \A r \in T : r.conf <= m.conf
  BY <1>2, <1>3
<1>8. m.pinned <=> \E r \in T : r.pinned
  <2>1. m.pinned <=> a.pinned \/ b.pinned
    BY <1>2
  <2> QED
    BY <1>4, <2>1
<1>9. m.pinned => \E r \in T : r.pinned /\ m.label = r.label
  <2>1. m.pinned <=> a.pinned \/ b.pinned
    BY <1>2
  <2>2. m.pinned => \/ a.pinned /\ m.label = a.label
                    \/ b.pinned /\ m.label = b.label
    BY <1>2, <2>1
  <2> QED
    BY <1>4, <2>2
<1>10. m.src = "BOTH" <=> \E r, q \in T : r.src # q.src
  <2>1. CASE a.src = "BOTH"
    BY <1>2, <1>5, <2>1
  <2>2. CASE a.src # "BOTH" /\ a.src # b.src
    BY <1>1, <1>2, <1>3, <1>5, <2>2
  <2>3. CASE a.src # "BOTH" /\ a.src = b.src
    <3>1. m.src = b.src /\ m.src # "BOTH"
      BY <1>1, <1>2, <2>3
    <3>2. \A r \in T : r.src = b.src
      BY <1>5, <2>3
    <3> QED
      BY <3>1, <3>2
  <2> QED
    BY <2>1, <2>2, <2>3
<1>11. m.src # "BOTH" => \A r \in T : r.src = m.src
  <2>1. m.src # "BOTH" => a.src = b.src /\ a.src # "BOTH" /\ m.src = b.src
    BY <1>2
  <2> QED
    BY <1>5, <2>1
<1> QED
  BY <1>2, <1>6, <1>7, <1>8, <1>9, <1>10, <1>11 DEF Absorbs, m

-----------------------------------------------------------------------------
(* Dedup: the two loops of process.                                        *)

\* f tells what the loop of MergeAll holds after each of the reports 1 to n.
IsMergeLoop(f, s, n) ==
  f = [i \in 1..n |-> IF i = 1 THEN s[1] ELSE Merge(f[i - 1], s[i])]

LEMMA MergeLoopExists ==
  ASSUME NEW s, NEW n \in Nat
  PROVE  \E f : IsMergeLoop(f, s, n)
<1> DEFINE S == {m \in Nat : \E f : IsMergeLoop(f, s, m)}
<1>1. 0 \in S
  <2>1. IsMergeLoop([i \in 1..0 |-> 0], s, 0)
    BY DEF IsMergeLoop
  <2> QED
    BY <2>1
<1>2. ASSUME NEW m \in Nat, m \in S
      PROVE  m + 1 \in S
  <2>1. PICK f : IsMergeLoop(f, s, m)
    BY <1>2
  <2> DEFINE g == [i \in 1..(m + 1) |->
                     IF i <= m THEN f[i] ELSE IF i = 1 THEN s[1] ELSE Merge(f[m], s[i])]
  <2>2. \A i \in 1..m : f[i] = IF i = 1 THEN s[1] ELSE Merge(f[i - 1], s[i])
    BY <2>1 DEF IsMergeLoop
  <2>3. \A i \in 1..(m + 1) : g[i] = IF i = 1 THEN s[1] ELSE Merge(g[i - 1], s[i])
    BY <2>2
  <2>4. g = [i \in 1..(m + 1) |-> g[i]]
    OBVIOUS
  <2> HIDE DEF g
  <2>5. g = [i \in 1..(m + 1) |-> IF i = 1 THEN s[1] ELSE Merge(g[i - 1], s[i])]
    BY <2>3, <2>4
  <2> QED
    BY <2>5 DEF IsMergeLoop
<1> HIDE DEF S
<1>3. n \in S
  BY <1>1, <1>2, NatSetInduction
<1> QED
  BY <1>3 DEF S

\* The reports at the places 1 to n.
FirstOf(s, n) == {s[i] : i \in 1..n}

(* What all merges of a scan's reports amount to.                           *)
LEMMA MergeAllAbsorbs ==
  ASSUME NEW s \in Seq(Reports), s # <<>>
  PROVE  Absorbs(MergeAll(s), FirstOf(s, Len(s)))
<1> DEFINE L == Len(s)
           f == CHOOSE g : IsMergeLoop(g, s, L)
           S == {m \in Nat : m >= 1 /\ m <= L => Absorbs(f[m], FirstOf(s, m))}
<1>1. L \in Nat \ {0} /\ \A i \in 1..L : s[i] \in Reports
  OBVIOUS
<1>2. IsMergeLoop(f, s, L)
  BY <1>1, MergeLoopExists
<1>3. MergeAll(s) = f[L]
  BY DEF MergeAll, IsMergeLoop
<1> HIDE DEF f, L
<1>4. /\ f[1] = s[1]
      /\ \A m \in Nat : m >= 1 /\ m + 1 <= L => f[m + 1] = Merge(f[m], s[m + 1])
  BY <1>1, <1>2 DEF IsMergeLoop
<1>5. 0 \in S
  OBVIOUS
<1>6. ASSUME NEW m \in Nat, m \in S
      PROVE  m + 1 \in S
  <2> SUFFICES ASSUME m + 1 <= L PROVE Absorbs(f[m + 1], FirstOf(s, m + 1))
    OBVIOUS
  <2>1. CASE m = 0
    <3>1. FirstOf(s, 1) = {s[1]}
      BY DEF FirstOf
    <3>2. s[1] \in Reports
      BY <1>1
    <3> QED
      BY <1>4, <2>1, <3>1, <3>2, FirstAbsorbs
  <2>2. CASE m >= 1
    <3>1. FirstOf(s, m + 1) = FirstOf(s, m) \cup {s[m + 1]}
      BY <2>2 DEF FirstOf
    <3>2. FirstOf(s, m) \in SUBSET Reports /\ s[m + 1] \in Reports
      BY <1>1 DEF FirstOf
    <3>3. Absorbs(f[m], FirstOf(s, m))
      BY <1>1, <1>6, <2>2
    <3>4. f[m + 1] = Merge(f[m], s[m + 1])
      BY <1>4, <2>2
    <3> QED
      BY <3>1, <3>2, <3>3, <3>4, MergeAbsorbs
  <2> QED
    BY <2>1, <2>2
<1> HIDE DEF S
<1>7. L \in S
  BY <1>1, <1>5, <1>6, NatSetInduction
<1> QED
  BY <1>1, <1>3, <1>7 DEF S, L

\* f tells which of the first n reports history lets pass.
IsSurvivorLoop(f, s, n) ==
  f = [i \in 0..n |-> IF i = 0 THEN <<>> ELSE Passed(f[i - 1], s[i])]

LEMMA SurvivorLoopExists ==
  ASSUME NEW s, NEW n \in Nat
  PROVE  \E f : IsSurvivorLoop(f, s, n)
<1> DEFINE S == {m \in Nat : \E f : IsSurvivorLoop(f, s, m)}
<1>1. 0 \in S
  <2>1. IsSurvivorLoop([i \in 0..0 |-> <<>>], s, 0)
    BY DEF IsSurvivorLoop
  <2> QED
    BY <2>1
<1>2. ASSUME NEW m \in Nat, m \in S
      PROVE  m + 1 \in S
  <2>1. PICK f : IsSurvivorLoop(f, s, m)
    BY <1>2
  <2> DEFINE g == [i \in 0..(m + 1) |-> IF i <= m THEN f[i] ELSE Passed(f[m], s[i])]
  <2>2. \A i \in 0..m : f[i] = IF i = 0 THEN <<>> ELSE Passed(f[i - 1], s[i])
    BY <2>1 DEF IsSurvivorLoop
  <2>3. \A i \in 0..(m + 1) : g[i] = IF i = 0 THEN <<>> ELSE Passed(g[i - 1], s[i])
    BY <2>2
  <2>4. g = [i \in 0..(m + 1) |-> g[i]]
    OBVIOUS
  <2> HIDE DEF g
  <2>5. g = [i \in 0..(m + 1) |-> IF i = 0 THEN <<>> ELSE Passed(g[i - 1], s[i])]
    BY <2>3, <2>4
  <2> QED
    BY <2>5 DEF IsSurvivorLoop
<1> HIDE DEF S
<1>3. n \in S
  BY <1>1, <1>2, NatSetInduction
<1> QED
  BY <1>3 DEF S

(* History only drops, and nothing when it knows none of the reports.       *)
LEMMA SurvivorsAreReports ==
  ASSUME NEW s \in Seq(Reports)
  PROVE  /\ Survivors(s) \in Seq(Reports)
         /\ (\A i \in 1..Len(s) : ~Unchanged(s[i])) => Survivors(s) = s
<1> DEFINE L == Len(s)
           f == CHOOSE g : IsSurvivorLoop(g, s, L)
           Kept(m) == /\ f[m] \in Seq(Reports)
                      /\ (\A i \in 1..L : ~Unchanged(s[i])) =>
                           /\ Len(f[m]) = m
                           /\ \A i \in 1..m : f[m][i] = s[i]
           S == {m \in Nat : m <= L => Kept(m)}
<1>1. L \in Nat /\ \A i \in 1..L : s[i] \in Reports
  OBVIOUS
<1>2. IsSurvivorLoop(f, s, L)
  BY <1>1, SurvivorLoopExists
<1>3. Survivors(s) = f[L]
  BY DEF Survivors, IsSurvivorLoop
<1> HIDE DEF f, L
<1>4. f[0] = <<>>
  BY <1>1, <1>2 DEF IsSurvivorLoop
<1>5. ASSUME NEW m \in Nat, m + 1 <= L
      PROVE  f[m + 1] = Passed(f[m], s[m + 1])
  BY <1>1, <1>2, <1>5 DEF IsSurvivorLoop
<1>6. 0 \in S
  <2>1. f[0] \in Seq(Reports) /\ Len(f[0]) = 0
    BY <1>4
  <2>2. Kept(0)
    BY <2>1
  <2> QED
    BY <2>2
<1>7. ASSUME NEW m \in Nat, m \in S
      PROVE  m + 1 \in S
  <2> SUFFICES ASSUME m + 1 <= L PROVE Kept(m + 1)
    OBVIOUS
  <2>1. Kept(m) /\ s[m + 1] \in Reports /\ m + 1 \in 1..L
    BY <1>1, <1>7
  <2>2. f[m + 1] = IF Unchanged(s[m + 1]) THEN f[m] ELSE Append(f[m], s[m + 1])
    BY <1>5 DEF Passed
  <2>3. f[m + 1] \in Seq(Reports)
    BY <2>1, <2>2
  <2>4. ASSUME \A i \in 1..L : ~Unchanged(s[i])
        PROVE  Len(f[m + 1]) = m + 1 /\ \A i \in 1..(m + 1) : f[m + 1][i] = s[i]
    <3>1. f[m + 1] = Append(f[m], s[m + 1]) /\ Len(f[m]) = m /\ f[m] \in Seq(Reports)
      BY <2>1, <2>2, <2>4
    <3>2. \A i \in 1..m : f[m][i] = s[i]
      BY <2>1, <2>4
    <3> QED
      BY <3>1, <3>2
  <2> QED
    BY <2>3, <2>4
<1> HIDE DEF S
<1>8. L \in S
  BY <1>1, <1>6, <1>7, NatSetInduction
<1>9. Kept(L)
  BY <1>1, <1>8 DEF S
<1>10. ASSUME \A i \in 1..L : ~Unchanged(s[i])
       PROVE  f[L] = s
  <2>1. /\ f[L] \in Seq(Reports) /\ Len(f[L]) = L /\ \A i \in 1..L : f[L][i] = s[i]
    BY <1>9, <1>10
  <2> QED
    BY <2>1 DEF L
<1> QED
  BY <1>3, <1>9, <1>10 DEF L

-----------------------------------------------------------------------------
(* Dedup: scoring and suppression.                                         *)

(* A score is a percentage no lower than the confidence it starts from.     *)
LEMMA Scoring ==
  ASSUME NEW m \in MergedReports, NEW act
  PROVE  \E conf \in 0..100, sev \in Labels :
           /\ m.conf <= conf
           /\ sev = (IF m.pinned THEN m.label ELSE SeverityFromConfidence(conf))
           /\ Score(m, act) = [sev |-> sev, conf |-> conf, reason |-> m.reason]
<1>1. /\ m.conf \in 0..100 /\ m.cvss \in 0..100 /\ m.label \in Labels
  BY DEF MergedReports
<1>2. ASSUME NEW c \in 0..100, NEW cond, NEW boost \in Nat
      PROVE  Boosted(c, cond, boost) \in 0..100 /\ c <= Boosted(c, cond, boost)
  BY DEF Boosted, Least
<1>3. ASSUME NEW c \in 0..100, NEW d \in 0..100
      PROVE  Most(c, d) \in 0..100 /\ c <= Most(c, d)
  BY DEF Most
<1> DEFINE eligible == m.exploitable \/ m.src = "BOTH"
           c1 == Boosted(m.conf, m.src = "BOTH" /\ m.conf < ConfBlock, BoostCrossPath)
           c2 == Most(c1, m.cvss)
           c3 == Boosted(c2, eligible /\ m.cvss > 0 /\ act, BoostSSVCActive)
           c4 == Boosted(c3, eligible /\ Automatable, BoostSSVCAutomatable)
           c5 == IF m.src = "PATTERN" THEN Most(c4, FloorPatternPath) ELSE c4
<1>4. /\ BoostCrossPath \in Nat /\ BoostSSVCActive \in Nat /\ BoostSSVCAutomatable \in Nat
      /\ FloorPatternPath \in 0..100
  BY DEF BoostCrossPath, BoostSSVCActive, BoostSSVCAutomatable, FloorPatternPath
<1>5. c1 \in 0..100 /\ m.conf <= c1
  BY <1>1, <1>2, <1>4
<1>6. c2 \in 0..100 /\ c1 <= c2
  BY <1>1, <1>3, <1>5
<1>7. c3 \in 0..100 /\ c2 <= c3
  BY <1>2, <1>4, <1>6
<1>8. c4 \in 0..100 /\ c3 <= c4
  BY <1>2, <1>4, <1>7
<1>11. Score(m, act) = [sev |-> IF m.pinned THEN m.label ELSE SeverityFromConfidence(c5),
                        conf |-> c5, reason |-> m.reason]
  BY DEF Score
<1> HIDE DEF c1, c2, c3, c4
<1>9. c5 \in 0..100 /\ c4 <= c5
  <2>1. Most(c4, FloorPatternPath) \in 0..100 /\ c4 <= Most(c4, FloorPatternPath)
    BY <1>3, <1>4, <1>8
  <2>2. c4 <= c4
    BY <1>8
  <2> QED
    BY <1>8, <2>1, <2>2
<1> HIDE DEF c5
<1>10. m.conf <= c5
  BY <1>1, <1>5, <1>6, <1>7, <1>8, <1>9
<1>12. SeverityFromConfidence(c5) \in Labels
  BY <1>9, SeverityIsMonotone
<1> QED
  BY <1>1, <1>9, <1>10, <1>11, <1>12

(* Only these fields count for the score, the label when it is pinned.      *)
LEMMA ScoredAlike ==
  ASSUME NEW m \in MergedReports, NEW w \in MergedReports, NEW act,
         m.conf = w.conf, m.src = w.src, m.reason = w.reason, m.exploitable = w.exploitable,
         m.cvss = w.cvss, m.pinned <=> w.pinned, m.pinned => m.label = w.label
  PROVE  Score(m, act) = Score(w, act)
BY DEF Score

(* A suppression rule takes the severity, nothing gives one.                *)
LEMMA Suppression ==
  ASSUME NEW v, NEW ack, NEW sev, NEW conf, NEW reason,
         v = [sev |-> sev, conf |-> conf, reason |-> reason]
  PROVE  \E why \in {reason, AckReason, AutoReason} :
           Suppress(v, ack) =
             [sev |-> IF AutoReason # "none" \/ ack THEN "SUPPRESSED" ELSE sev,
              conf |-> conf, reason |-> why]
BY DEF Suppress

(* A label that merging kept is backed by the merged confidence.            *)
LEMMA PinnedIsBacked ==
  ASSUME NEW S \in SUBSET Reports, NEW m, Absorbs(m, S), m.pinned,
         NEW c \in 0..100, m.conf <= c
  PROVE  m.label = "LOW" \/ Rank(m.label) <= Rank(SeverityFromConfidence(c))
<1>1. PICK r \in S : r.pinned /\ m.label = r.label
  BY DEF Absorbs
<1>2. r.conf <= m.conf
  BY DEF Absorbs
<1>3. r \in Reports /\ r.conf \in 0..100 /\ r.label \in Labels
  BY ReportsAreTyped DEF MergedReports
<1>4. m.conf \in 0..100
  BY DEF Absorbs, MergedReports
<1>5. r.label = "LOW" \/ Rank(r.label) <= Rank(SeverityFromConfidence(r.conf))
  BY <1>1, <1>3, DedupAssumption
<1>6. r.conf <= c
  BY <1>2, <1>3, <1>4
<1>7. /\ SeverityFromConfidence(r.conf) \in Labels
      /\ Rank(SeverityFromConfidence(r.conf)) <= Rank(SeverityFromConfidence(c))
  BY <1>3, <1>6, SeverityIsMonotone
<1>8. SeverityFromConfidence(c) \in Labels
  <2>1. c <= c
    OBVIOUS
  <2> QED
    BY <2>1, SeverityIsMonotone
<1>9. /\ Rank(r.label) \in Nat /\ Rank(SeverityFromConfidence(r.conf)) \in Nat
      /\ Rank(SeverityFromConfidence(c)) \in Nat
  BY <1>3, <1>7, <1>8, Ranks
<1> QED
  BY <1>1, <1>5, <1>7, <1>9

(* What the reports of a scan come to, by themselves.                       *)
LEMMA VerdictIsSound ==
  ASSUME NEW s \in Seq(Reports), s # <<>>, NEW act, NEW ack
  PROVE  LET v == Verdict(s, act, ack) IN
           /\ v \in Rows
           /\ v.sev = "LOW" \/ Rank(v.sev) <= Rank(SeverityFromConfidence(v.conf))
<1> DEFINE m == MergeAll(s)
           S == FirstOf(s, Len(s))
<1>1. Absorbs(m, S) /\ S \subseteq Reports
  BY MergeAllAbsorbs DEF FirstOf
<1>2. m \in MergedReports
  BY <1>1 DEF Absorbs
<1>3. PICK c \in 0..100, sev \in Labels :
        /\ m.conf <= c
        /\ sev = (IF m.pinned THEN m.label ELSE SeverityFromConfidence(c))
        /\ Score(m, act) = [sev |-> sev, conf |-> c, reason |-> m.reason]
  BY <1>2, Scoring
<1> DEFINE final == IF AutoReason # "none" \/ ack THEN "SUPPRESSED" ELSE sev
<1>4. PICK why \in {m.reason, AckReason, AutoReason} :
        Suppress(Score(m, act), ack) = [sev |-> final, conf |-> c, reason |-> why]
  BY <1>3, Suppression
<1>5. Verdict(s, act, ack) = [sev |-> final, conf |-> c, reason |-> why]
  BY <1>4 DEF Verdict
<1> HIDE DEF m, S
<1>6. m.reason \in {r.reason : r \in Reports}
  BY <1>1 DEF Absorbs
<1>7. final \in Labels
  BY <1>3, Ranks
<1>8. c \in 0..100 /\ SeverityFromConfidence(c) \in Labels
  <2>1. c \in 0..100 /\ c <= c
    OBVIOUS
  <2> QED
    BY <2>1, SeverityIsMonotone
<1>9. sev = "LOW" \/ Rank(sev) <= Rank(SeverityFromConfidence(c))
  <2>1. CASE ~m.pinned
    BY <1>3, <1>8, <2>1, Ranks
  <2>2. CASE m.pinned
    BY <1>1, <1>3, <2>2, PinnedIsBacked
  <2> QED
    BY <2>1, <2>2
<1>10. Rank("SUPPRESSED") <= Rank(SeverityFromConfidence(c))
  BY <1>8, Ranks
<1>11. final = "LOW" \/ Rank(final) <= Rank(SeverityFromConfidence(c))
  BY <1>9, <1>10
<1> HIDE DEF final
<1>12. Verdict(s, act, ack) \in Rows
  BY <1>4, <1>5, <1>6, <1>7, <1>8 DEF Rows
<1> QED
  BY <1>5, <1>11, <1>12

-----------------------------------------------------------------------------
(* Dedup: the order of the reports.                                        *)

(* What merging leaves open does not count, when ties are between like      *)
(* reports and pinned ones agree.                                           *)
LEMMA AbsorbedAlike ==
  ASSUME NEW S \in SUBSET Reports, NEW m, NEW w, Absorbs(m, S), Absorbs(w, S), NEW act,
         \A r, q \in S : r.conf = q.conf =>
           r.reason = q.reason /\ r.exploitable = q.exploitable /\ r.cvss = q.cvss,
         \A r, q \in S : r.pinned /\ q.pinned => r.label = q.label
  PROVE  Score(m, act) = Score(w, act)
<1>1. m \in MergedReports /\ w \in MergedReports
  BY DEF Absorbs
<1>2. PICK r \in S : /\ m.conf = r.conf /\ m.reason = r.reason
                     /\ m.exploitable = r.exploitable /\ m.cvss = r.cvss
  BY DEF Absorbs
<1>3. PICK q \in S : /\ w.conf = q.conf /\ w.reason = q.reason
                     /\ w.exploitable = q.exploitable /\ w.cvss = q.cvss
  BY DEF Absorbs
<1>4. r.conf = q.conf
  <2>1. r.conf \in Nat /\ q.conf \in Nat
    BY ReportsAreTyped DEF MergedReports
  <2>2. r.conf <= w.conf /\ q.conf <= m.conf
    BY DEF Absorbs
  <2> QED
    BY <1>2, <1>3, <2>1, <2>2
<1>5. /\ m.conf = w.conf /\ m.reason = w.reason
      /\ m.exploitable = w.exploitable /\ m.cvss = w.cvss
  BY <1>2, <1>3, <1>4
<1>6. m.src = w.src
  <2>1. m.src = "BOTH" <=> w.src = "BOTH"
    BY DEF Absorbs
  <2>2. m.src # "BOTH" => r.src = m.src
    BY DEF Absorbs
  <2>3. w.src # "BOTH" => r.src = w.src
    BY DEF Absorbs
  <2> QED
    BY <2>1, <2>2, <2>3
<1>7. m.pinned <=> w.pinned
  BY DEF Absorbs
<1>8. m.pinned => m.label = w.label
  <2>1. m.pinned => \E x \in S : x.pinned /\ m.label = x.label
    BY DEF Absorbs
  <2>2. w.pinned => \E x \in S : x.pinned /\ w.label = x.label
    BY DEF Absorbs
  <2> QED
    BY <1>7, <2>1, <2>2
<1> QED
  BY <1>1, <1>5, <1>6, <1>7, <1>8, ScoredAlike

LEMMA ReorderingKeepsReports ==
  ASSUME NEW s \in Seq(Reports), s # <<>>, NEW t \in Reordered(s)
  PROVE  t \in Seq(Reports) /\ t # <<>> /\ FirstOf(t, Len(t)) = FirstOf(s, Len(s))
<1>1. PICK p \in Surjection(DOMAIN s, DOMAIN s) : t = [i \in DOMAIN s |-> s[p[i]]]
  BY DEF Reordered
<1>2. Len(s) \in Nat \ {0} /\ DOMAIN s = 1..Len(s) /\ \A i \in 1..Len(s) : s[i] \in Reports
  OBVIOUS
<1>3. /\ p \in [1..Len(s) -> 1..Len(s)]
      /\ \A w \in 1..Len(s) : \E v \in 1..Len(s) : p[v] = w
  BY <1>1, <1>2 DEF Surjection
<1>4. t = [i \in 1..Len(s) |-> s[p[i]]] /\ \A i \in 1..Len(s) : t[i] = s[p[i]] /\ t[i] \in Reports
  BY <1>1, <1>2, <1>3
<1>5. t \in [1..Len(s) -> Reports]
  BY <1>4
<1>6. t \in Seq(Reports) /\ Len(t) = Len(s)
  BY <1>2, <1>5
<1>7. FirstOf(t, Len(s)) = FirstOf(s, Len(s))
  <2>1. FirstOf(t, Len(s)) \subseteq FirstOf(s, Len(s))
    BY <1>3, <1>4 DEF FirstOf
  <2>2. ASSUME NEW r \in FirstOf(s, Len(s)) PROVE r \in FirstOf(t, Len(s))
    <3>1. PICK j \in 1..Len(s) : r = s[j]
      BY DEF FirstOf
    <3>2. PICK i \in 1..Len(s) : p[i] = j
      BY <1>3
    <3>3. t[i] = r
      BY <1>4, <3>1, <3>2
    <3> QED
      BY <3>3 DEF FirstOf
  <2> QED
    BY <2>1, <2>2
<1> QED
  BY <1>2, <1>6, <1>7

(* Ties and pins, told of the reports instead of their places.              *)
LEMMA TiesAndPins ==
  ASSUME NEW s \in Seq(Reports), NEW r \in FirstOf(s, Len(s)), NEW q \in FirstOf(s, Len(s))
  PROVE  /\ TiesAgree(s) /\ r.conf = q.conf =>
              r.reason = q.reason /\ r.exploitable = q.exploitable /\ r.cvss = q.cvss
         /\ AtMostOnePinned(s) /\ r.pinned /\ q.pinned => r = q
<1>1. PICK i \in DOMAIN s : r = s[i]
  BY DEF FirstOf
<1>2. PICK j \in DOMAIN s : q = s[j]
  BY DEF FirstOf
<1>3. r \in MergedReports /\ q \in MergedReports
  BY <1>1, <1>2, ReportsAreTyped
<1>4. TiesAgree(s) /\ r.conf = q.conf =>
        [r EXCEPT !.src = q.src, !.label = q.label, !.pinned = q.pinned] = q
  BY <1>1, <1>2 DEF TiesAgree
<1>5. LET t == [r EXCEPT !.src = q.src, !.label = q.label, !.pinned = q.pinned]
      IN  t.reason = r.reason /\ t.exploitable = r.exploitable /\ t.cvss = r.cvss
  BY <1>3 DEF MergedReports
<1>6. AtMostOnePinned(s) /\ r.pinned /\ q.pinned => r = q
  BY <1>1, <1>2 DEF AtMostOnePinned
<1> QED
  BY <1>4, <1>5, <1>6

LEMMA OrderDoesNotMatter ==
  ASSUME NEW s \in Seq(Reports), s # <<>>, AtMostOnePinned(s), TiesAgree(s),
         NEW t \in Reordered(s), NEW act, NEW ack
  PROVE  Verdict(t, act, ack) = Verdict(s, act, ack)
<1>1. t \in Seq(Reports) /\ t # <<>> /\ FirstOf(t, Len(t)) = FirstOf(s, Len(s))
  BY ReorderingKeepsReports
<1> DEFINE S == FirstOf(s, Len(s))
<1>2. S \in SUBSET Reports
  BY DEF FirstOf
<1>3. Absorbs(MergeAll(s), S) /\ Absorbs(MergeAll(t), S)
  BY <1>1, MergeAllAbsorbs
<1>4. /\ \A r, q \in S : r.conf = q.conf =>
           r.reason = q.reason /\ r.exploitable = q.exploitable /\ r.cvss = q.cvss
      /\ \A r, q \in S : r.pinned /\ q.pinned => r.label = q.label
  BY TiesAndPins
<1> HIDE DEF S
<1>5. Score(MergeAll(t), act) = Score(MergeAll(s), act)
  BY <1>2, <1>3, <1>4, AbsorbedAlike
<1> QED
  BY <1>5 DEF Verdict

-----------------------------------------------------------------------------
(* Dedup: a further report.                                                *)

\* The score of a report that is not pinned and has no CVE.
PlainScore(m) ==
  LET c1 == Boosted(m.conf, m.src = "BOTH" /\ m.conf < ConfBlock, BoostCrossPath)
      c4 == Boosted(c1, (m.exploitable \/ m.src = "BOTH") /\ Automatable, BoostSSVCAutomatable)
  IN IF m.src = "PATTERN" THEN Most(c4, FloorPatternPath) ELSE c4

LEMMA PlainScoring ==
  ASSUME NEW m \in MergedReports, ~m.pinned, m.cvss = 0, NEW act
  PROVE  /\ Score(m, act) = [sev |-> SeverityFromConfidence(PlainScore(m)),
                             conf |-> PlainScore(m), reason |-> m.reason]
         /\ PlainScore(m) \in 0..100
<1>1. m.conf \in 0..100
  BY DEF MergedReports
<1> DEFINE c1 == Boosted(m.conf, m.src = "BOTH" /\ m.conf < ConfBlock, BoostCrossPath)
           c4 == Boosted(c1, (m.exploitable \/ m.src = "BOTH") /\ Automatable, BoostSSVCAutomatable)
<1>2. c1 \in 0..100
  BY <1>1 DEF Boosted, Least, BoostCrossPath
<1>3. Most(c1, m.cvss) = c1
  BY <1>2 DEF Most
<1>4. \A cond : Boosted(c1, cond /\ m.cvss > 0 /\ act, BoostSSVCActive) = c1
  BY <1>2 DEF Boosted
<1>5. PlainScore(m) = IF m.src = "PATTERN" THEN Most(c4, FloorPatternPath) ELSE c4
  BY DEF PlainScore
<1>6. Score(m, act) = [sev |-> SeverityFromConfidence(PlainScore(m)),
                       conf |-> PlainScore(m), reason |-> m.reason]
  BY <1>3, <1>4, <1>5 DEF Score
<1>7. c4 \in 0..100
  BY <1>2 DEF Boosted, Least, BoostSSVCAutomatable
<1>8. PlainScore(m) \in 0..100
  BY <1>5, <1>7 DEF Most, FloorPatternPath
<1> QED
  BY <1>6, <1>8

LEMMA MergingKeepsTier ==
  ASSUME NEW S \in SUBSET Reports, NEW m, Absorbs(m, S),
         \A q \in S : ~q.pinned,
         \E q \in S : q.conf + BoostCrossPath >= FloorPatternPath,
         NEW r \in S
  PROVE  Rank(SeverityFromConfidence(PlainScore(r))) <= Rank(SeverityFromConfidence(PlainScore(m)))
<1>1. m \in MergedReports /\ r \in MergedReports /\ r \in Reports /\ r.src \in {"PATTERN", "SEMANTIC"}
  BY ReportsAreTyped DEF Absorbs
<1>2. m.conf \in 0..100 /\ r.conf \in 0..100 /\ r.conf <= m.conf
  BY <1>1 DEF Absorbs, MergedReports
<1>3. m.conf + 15 >= 60
  <2>1. PICK q \in S : q.conf + 15 >= 60
    BY DEF BoostCrossPath, FloorPatternPath
  <2>2. q.conf <= m.conf /\ q.conf \in 0..100
    BY ReportsAreTyped DEF Absorbs, MergedReports
  <2> QED
    BY <1>2, <2>1, <2>2
<1>4. PICK w \in S : m.conf = w.conf /\ m.exploitable = w.exploitable
  BY DEF Absorbs
<1>5. m.src # "BOTH" => r.src = m.src /\ w.src = m.src
  BY DEF Absorbs
<1>6. /\ r.src = "PATTERN" => ~r.exploitable
      /\ w.src = "PATTERN" => ~w.exploitable
      /\ w.src = "SEMANTIC" /\ Automatable => w.exploitable \/ w.conf = 65
  BY <1>4, DedupAssumption
<1>7. PlainScore(r) \in 0..100 /\ PlainScore(m) \in 0..100
  BY <1>1, <1>2 DEF PlainScore, Boosted, Least, Most, BoostCrossPath, BoostSSVCAutomatable,
                    FloorPatternPath
<1>12. PICK p \in 0..100, q \in 0..100, a \in 0..100, b \in 0..100 :
         p = PlainScore(r) /\ q = PlainScore(m) /\ a = r.conf /\ b = m.conf
  BY <1>2, <1>7
<1>13. a <= b
  BY <1>2, <1>12
<1>8. CASE p <= q
  BY <1>8, <1>12, SeverityIsMonotone
<1>9. CASE m.src = "BOTH"
  <2>1. CASE r.src = "PATTERN"
    <3>1. p = Most(a, 60)
      BY <1>12, <1>6, <2>1 DEF PlainScore, Boosted, FloorPatternPath
    <3>2. q >= 60 /\ q >= b
      BY <1>3, <1>12, <1>9 DEF PlainScore, Boosted, Least, BoostCrossPath, BoostSSVCAutomatable, ConfBlock
    <3>3. p <= q
      BY <1>13, <3>1, <3>2 DEF Most
    <3> QED
      BY <1>8, <3>3
  <2>2. CASE r.src = "SEMANTIC"
    <3>1. CASE Automatable
      <4>1. p <= Least(a + 5, 100)
        BY <1>12, <2>2, <3>1 DEF PlainScore, Boosted, Least, BoostSSVCAutomatable
      <4>2. q >= Least(b + 5, 100)
        BY <1>12, <1>9, <3>1 DEF PlainScore, Boosted, Least, BoostCrossPath, BoostSSVCAutomatable, ConfBlock
      <4>3. p <= q
        BY <1>13, <4>1, <4>2 DEF Least
      <4> QED
        BY <1>8, <4>3
    <3>2. CASE ~Automatable
      <4>1. p = a
        BY <1>12, <2>2, <3>2 DEF PlainScore, Boosted
      <4>2. q >= b
        BY <1>12, <1>9, <3>2 DEF PlainScore, Boosted, Least, BoostCrossPath, ConfBlock
      <4>3. p <= q
        BY <1>13, <4>1, <4>2
      <4> QED
        BY <1>8, <4>3
    <3> QED
      BY <3>1, <3>2
  <2> QED
    BY <1>1, <2>1, <2>2
<1>10. CASE m.src = "PATTERN"
  <2>1. p = Most(a, 60) /\ q = Most(b, 60)
    BY <1>12, <1>4, <1>5, <1>6, <1>10 DEF PlainScore, Boosted, FloorPatternPath
  <2>2. p <= q
    BY <1>13, <2>1 DEF Most
  <2> QED
    BY <1>8, <2>2
<1>11. CASE m.src = "SEMANTIC"
  <2>1. CASE ~Automatable
    <3>1. p = a /\ q = b
      BY <1>12, <1>5, <1>11, <2>1 DEF PlainScore, Boosted
    <3> QED
      BY <1>8, <1>13, <3>1
  <2>2. CASE Automatable /\ m.exploitable
    <3>1. p <= Least(a + 5, 100) /\ q = Least(b + 5, 100)
      BY <1>12, <1>5, <1>11, <2>2 DEF PlainScore, Boosted, Least, BoostSSVCAutomatable
    <3>2. p <= q
      BY <1>13, <3>1 DEF Least
    <3> QED
      BY <1>8, <3>2
  <2>3. CASE Automatable /\ ~m.exploitable
    <3>1. b = 65
      BY <1>4, <1>12, <1>5, <1>6, <1>11, <2>3
    <3>2. q = 65
      BY <1>11, <1>12, <2>3, <3>1 DEF PlainScore, Boosted
    <3>3. p <= 70
      BY <1>12, <1>13, <1>5, <1>11, <3>1 DEF PlainScore, Boosted, Least, BoostSSVCAutomatable
    <3>4. SeverityFromConfidence(65) = "MEDIUM" /\ SeverityFromConfidence(70) = "MEDIUM"
      BY DEF SeverityFromConfidence, ConfBlock, ConfHigh, ConfMedium, ConfLow
    <3>5. Rank(SeverityFromConfidence(p)) <= Rank(SeverityFromConfidence(70))
      BY <3>3, SeverityIsMonotone
    <3> QED
      BY <1>12, <3>2, <3>4, <3>5
  <2> QED
    BY <2>1, <2>2, <2>3
<1> QED
  BY <1>1, <1>9, <1>10, <1>11 DEF MergedReports

LEMMA CorroborationHelps ==
  ASSUME NEW s \in Seq(Reports), TiesAgree(s),
         \A i \in DOMAIN s : ~s[i].pinned /\ s[i].cvss = 0,
         \E i \in DOMAIN s : s[i].conf + BoostCrossPath >= FloorPatternPath,
         NEW i \in DOMAIN s, NEW act, NEW ack
  PROVE  Rank(Verdict(<<s[i]>>, act, ack).sev) <= Rank(Verdict(s, act, ack).sev)
<1> DEFINE S == FirstOf(s, Len(s))
           r == s[i]
<1>1. s # <<>> /\ r \in S /\ r \in Reports /\ S \in SUBSET Reports
  BY DEF FirstOf
<1>2. /\ \A q \in S : ~q.pinned /\ q.cvss = 0
      /\ \E q \in S : q.conf + BoostCrossPath >= FloorPatternPath
  BY DEF FirstOf
<1>3. PICK m : m = MergeAll(s) /\ Absorbs(m, S)
  BY <1>1, MergeAllAbsorbs
<1>4. PICK one : one = MergeAll(<<r>>) /\ Absorbs(one, {r})
  <2>1. <<r>> \in Seq(Reports) /\ <<r>> # <<>> /\ FirstOf(<<r>>, Len(<<r>>)) = {r}
    BY <1>1 DEF FirstOf
  <2> HIDE DEF r
  <2> QED
    BY <2>1, MergeAllAbsorbs
<1> HIDE DEF S, r
<1>5. m \in MergedReports /\ ~m.pinned /\ m.cvss = 0
  BY <1>2, <1>3 DEF Absorbs
<1>6. r \in MergedReports /\ ~r.pinned /\ r.cvss = 0
  BY <1>1, <1>2, ReportsAreTyped
<1>7. Score(one, act) = Score(r, act)
  <2>1. Absorbs(r, {r}) /\ {r} \in SUBSET Reports
    BY <1>1, FirstAbsorbs
  <2> QED
    BY <1>4, <2>1, AbsorbedAlike
<1>8. /\ Score(r, act) = [sev |-> SeverityFromConfidence(PlainScore(r)),
                          conf |-> PlainScore(r), reason |-> r.reason]
      /\ PlainScore(r) \in 0..100
  BY <1>6, PlainScoring
<1>9. /\ Score(m, act) = [sev |-> SeverityFromConfidence(PlainScore(m)),
                          conf |-> PlainScore(m), reason |-> m.reason]
      /\ PlainScore(m) \in 0..100
  BY <1>5, PlainScoring
<1>10. Rank(SeverityFromConfidence(PlainScore(r))) <= Rank(SeverityFromConfidence(PlainScore(m)))
  BY <1>1, <1>2, <1>3, MergingKeepsTier
<1>11. Verdict(<<r>>, act, ack).sev =
         IF AutoReason # "none" \/ ack THEN "SUPPRESSED" ELSE SeverityFromConfidence(PlainScore(r))
  <2>1. Verdict(<<r>>, act, ack) = Suppress(Score(r, act), ack)
    BY <1>4, <1>7 DEF Verdict
  <2> QED
    BY <1>8, <2>1, Suppression
<1>12. Verdict(s, act, ack).sev =
         IF AutoReason # "none" \/ ack THEN "SUPPRESSED" ELSE SeverityFromConfidence(PlainScore(m))
  <2>1. Verdict(s, act, ack) = Suppress(Score(m, act), ack)
    BY <1>3 DEF Verdict
  <2> QED
    BY <1>9, <2>1, Suppression
<1>13. Rank("SUPPRESSED") <= Rank("SUPPRESSED")
  BY Ranks
<1>14. Rank(Verdict(<<r>>, act, ack).sev) <= Rank(Verdict(s, act, ack).sev)
  BY <1>10, <1>11, <1>12, <1>13
<1> QED
  BY <1>14 DEF r

-----------------------------------------------------------------------------
(* Dedup: the inductive invariant.                                         *)

IInv == TypeOK /\ NeverOverstated

LEMMA InitIInv == Init => IInv
<1> SUFFICES ASSUME Init PROVE IInv
  OBVIOUS
<1>1. arrived \in Seq(Reports) /\ Len(arrived) <= MaxReports
  BY DedupAssumption DEF Init
<1>2. active \in BOOLEAN /\ acked \in BOOLEAN
  BY Zenon DEF Init
<1>3. row = None /\ due = None
  BY DEF Init
<1> QED
  BY <1>1, <1>2, <1>3 DEF IInv, TypeOK, NeverOverstated

LEMMA NextIInv == IInv /\ [Next]_vars => IInv'
<1> SUFFICES ASSUME IInv, [Next]_vars PROVE IInv'
  OBVIOUS
<1>1. /\ arrived \in Seq(Reports) /\ Len(arrived) <= MaxReports
      /\ row \in Rows \cup {None} /\ due \in Rows \cup {None}
      /\ NeverOverstated
  BY DEF IInv, TypeOK
<1>2. active \in BOOLEAN /\ acked \in BOOLEAN
  BY Zenon DEF IInv, TypeOK
<1>3. ASSUME NEW r \in Reports, Report(r)
      PROVE  IInv'
  <2>1. arrived' = Append(arrived, r) /\ Len(arrived) < MaxReports
    BY <1>3 DEF Report
  <2>2. arrived' \in Seq(Reports) /\ Len(arrived') <= MaxReports
    BY <1>1, <2>1, DedupAssumption
  <2>3. UNCHANGED <<active, acked, row, due>>
    BY <1>3 DEF Report
  <2>4. NeverOverstated'
    BY <1>1, <2>3 DEF NeverOverstated
  <2>5. active' \in BOOLEAN /\ acked' \in BOOLEAN
    BY <1>2, <2>3, Zenon
  <2> QED
    BY <1>1, <2>2, <2>3, <2>4, <2>5 DEF IInv, TypeOK
<1>4. CASE EndScan
  <2>1. PICK survivors \in {Survivors(arrived), arrived} :
          row' = IF survivors = <<>> THEN row ELSE Verdict(survivors, active, acked)
    BY <1>4 DEF EndScan
  <2>2. survivors \in Seq(Reports)
    BY <1>1, SurvivorsAreReports
  <2>3. /\ row' \in Rows \cup {None}
        /\ row' # None => row'.sev = "LOW" \/ Rank(row'.sev) <= Rank(SeverityFromConfidence(row'.conf))
    <3>1. CASE survivors = <<>>
      BY <1>1, <2>1, <3>1 DEF NeverOverstated
    <3>2. CASE survivors # <<>>
      BY <2>1, <2>2, <3>2, VerdictIsSound
    <3> QED
      BY <3>1, <3>2
  <2>4. due' \in Rows \cup {None}
    <3>1. due' = IF arrived = <<>> THEN due ELSE Verdict(arrived, active, acked)
      BY <1>4 DEF EndScan
    <3> QED
      BY <1>1, <3>1, VerdictIsSound
  <2>5. arrived' = <<>>
    BY <1>4 DEF EndScan
  <2>6. arrived' \in Seq(Reports) /\ Len(arrived') <= MaxReports
    BY <2>5, DedupAssumption
  <2>7. active' \in BOOLEAN /\ acked' \in BOOLEAN
    BY <1>4, Zenon DEF EndScan
  <2>8. NeverOverstated'
    BY <2>3 DEF NeverOverstated
  <2> QED
    BY <2>3, <2>4, <2>6, <2>7, <2>8 DEF IInv, TypeOK
<1>5. CASE UNCHANGED vars
  <2>1. UNCHANGED <<arrived, active, acked, row, due>>
    BY <1>5 DEF vars
  <2>2. active' \in BOOLEAN /\ acked' \in BOOLEAN
    BY <1>2, <2>1, Zenon
  <2>3. NeverOverstated'
    BY <1>1, <2>1 DEF NeverOverstated
  <2> QED
    BY <1>1, <2>1, <2>2, <2>3 DEF IInv, TypeOK
<1> QED
  BY <1>3, <1>4, <1>5 DEF Next

LEMMA Invariance == Spec => []IInv
BY InitIInv, NextIInv, PTL DEF Spec

-----------------------------------------------------------------------------
(* Dedup: the theorems.                                                    *)

(***************************************************************************)
(* The variables keep their types: whatever is merged and boosted, a       *)
(* confidence stays a percentage (dedup.go:272-297).                       *)
(***************************************************************************)
THEOREM TypeCorrect == Spec => []TypeOK
BY Invariance, PTL DEF IInv

(***************************************************************************)
(* Any reports, merged and boosted over any scans: no row claims more than *)
(* its confidence backs, but for the LOW a verdict of not exploitable is   *)
(* pinned to (gates.go:49-80, dedup.go:272-297).                           *)
(***************************************************************************)
THEOREM LabelsAreBacked == Spec => []NeverOverstated
BY Invariance, PTL DEF IInv

(***************************************************************************)
(* Any number of reports, delivered in any order by the concurrent paths:  *)
(* the verdict is the same when at most one is pinned and ties are between *)
(* like reports (dedup.go:144-160, gates.go:49-80).                        *)
(***************************************************************************)
THEOREM VerdictIgnoresOrder == Spec => []OrderIrrelevant
<1>1. IInv => OrderIrrelevant
  <2> SUFFICES ASSUME IInv, arrived # <<>>, AtMostOnePinned(arrived), TiesAgree(arrived),
                      NEW s \in Reordered(arrived)
               PROVE  Verdict(s, active, acked) = Verdict(arrived, active, acked)
    BY DEF OrderIrrelevant
  <2>1. arrived \in Seq(Reports)
    BY DEF IInv, TypeOK
  <2> QED
    BY <2>1, OrderDoesNotMatter
<1> QED
  BY <1>1, Invariance, PTL

(***************************************************************************)
(* Any number of reports that no stage pinned: the verdict of all is at    *)
(* least the one of each alone, when one of them is confident enough for   *)
(* the cross-path boost to reach the floor of the pattern path and no CVE  *)
(* score is dropped in a merge (gates.go:49-80, dedup.go:272-297).         *)
(***************************************************************************)
THEOREM SecondOpinionsHelp == Spec => []CorroborationNeverLowers
<1>1. IInv => CorroborationNeverLowers
  <2> SUFFICES ASSUME IInv, TiesAgree(arrived),
                      \A i \in DOMAIN arrived : ~arrived[i].pinned /\ arrived[i].cvss = 0,
                      \E i \in DOMAIN arrived : arrived[i].conf + BoostCrossPath >= FloorPatternPath,
                      NEW i \in DOMAIN arrived
               PROVE  Rank(Verdict(<<arrived[i]>>, active, acked).sev)
                        <= Rank(Verdict(arrived, active, acked).sev)
    BY DEF CorroborationNeverLowers
  <2>1. arrived \in Seq(Reports)
    BY DEF IInv, TypeOK
  <2> QED
    BY <2>1, CorroborationHelps
<1> QED
  BY <1>1, Invariance, PTL

(***************************************************************************)
(* When no report of a scan says what the row says, the scan leaves its    *)
(* own verdict there, whether history could be read or not                 *)
(* (dedup.go:225-264).                                                     *)
(***************************************************************************)
THEOREM ChangesReachTheRow == Spec => ChangedVerdictLands
<1>1. IInv /\ [Next]_vars =>
        [arrived # <<>> /\ arrived' = <<>>
         /\ (\A i \in DOMAIN arrived :
              row # [sev |-> arrived[i].label, conf |-> arrived[i].conf, reason |-> arrived[i].reason])
         => row' = Verdict(arrived, active, acked)]_vars
  <2> SUFFICES ASSUME IInv, Next, arrived # <<>>, arrived' = <<>>,
                      \A i \in DOMAIN arrived :
                        row # [sev |-> arrived[i].label, conf |-> arrived[i].conf,
                               reason |-> arrived[i].reason]
               PROVE  row' = Verdict(arrived, active, acked)
    OBVIOUS
  <2>1. arrived \in Seq(Reports) /\ row \in Rows \cup {None}
    BY DEF IInv, TypeOK
  <2>2. EndScan
    BY <2>1 DEF Next, Report
  <2>3. ASSUME NEW i \in 1..Len(arrived), Unchanged(arrived[i])
        PROVE  FALSE
    <3>1. row \in [sev : Labels, conf : 0..100,
                   reason : {"none", AckReason, AutoReason} \cup {r.reason : r \in Reports}]
      BY <2>1, <2>3 DEF Unchanged, Rows
    <3>2. row = [sev |-> row.sev, conf |-> row.conf, reason |-> row.reason]
      BY <3>1
    <3>3. i \in DOMAIN arrived
      BY <2>1
    <3> QED
      BY <2>3, <3>2, <3>3 DEF Unchanged
  <2>4. Survivors(arrived) = arrived
    BY <2>1, <2>3, SurvivorsAreReports
  <2> QED
    BY <2>2, <2>4 DEF EndScan
<1> QED
  BY <1>1, Invariance, PTL DEF Spec, ChangedVerdictLands
=============================================================================
