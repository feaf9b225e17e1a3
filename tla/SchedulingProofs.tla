--------------------------- MODULE SchedulingProofs ---------------------------
(***************************************************************************)
(* Theorems about Scheduling for any number of widgets, bandwidths,        *)
(* buckets and rounds, from the wall without widgets on.  The monitor's    *)
(* total is a sum over the listed widgets; that it is a number rests on an *)
(* induction over finite sets, made by taking a least counterexample.      *)
(*                                                                         *)
(* A proportional round's widgets live because its lock keeps the GUI      *)
(* thread from ending any of them; and qualities are full once the thread  *)
(* has been waited for, because a thread that was told to quit is waited   *)
(* for by the handler that told it, in which nothing else happens.         *)
(* What a round has given and what is left of the total add up to it as    *)
(* long as needs stay, whatever the scoops are.                            *)
(***************************************************************************)
EXTENDS Scheduling, NaturalsInduction, FiniteSetTheorems, SequenceTheorems, WellFoundedInduction, TLAPS

-------------------------------------------------------------------------------
(* Sums                                                                      *)

\* A set of numbers that is not empty has a least one.
LEMMA LeastNat ==
    ASSUME NEW T \in SUBSET Nat, T # {}
    PROVE  \E m \in T : \A k \in T : m <= k
<1>1. PICK m \in T : \A k \in T : ~(<<k, m>> \in OpToRel(<, Nat))
  BY NatLessThanWellFounded, WFMin, Zenon
<1>2. \A k \in T : ~(k < m)
  BY <1>1 DEF OpToRel
<1> QED
  BY <1>2

\* What holds of a set if it holds of all smaller ones holds of all.
LEMMA SubsetInduction ==
    ASSUME NEW S, IsFiniteSet(S), NEW B,
           \A s \in SUBSET S : (\A t \in SUBSET S : Cardinality(t) < Cardinality(s) => t \in B) => s \in B
    PROVE  SUBSET S \subseteq B
<1> DEFINE T == {Cardinality(s) : s \in {t \in SUBSET S : t \notin B}}
<1>1. \A s \in SUBSET S : IsFiniteSet(s) /\ Cardinality(s) \in Nat
  BY FS_Subset, FS_CardinalityType
<1>2. T \in SUBSET Nat
  BY <1>1
<1>3. CASE T = {}
  BY <1>3
<1>4. CASE T # {}
  <2>1. PICK n \in T : \A k \in T : n <= k
    <3> HIDE DEF T
    <3> QED
      BY <1>2, <1>4, LeastNat
  <2>2. PICK s \in SUBSET S : s \notin B /\ Cardinality(s) = n
    BY <2>1
  <2>3. PICK t \in SUBSET S : Cardinality(t) < Cardinality(s) /\ t \notin B
    BY <2>2
  <2>4. Cardinality(t) \in T
    BY <2>3
  <2> HIDE DEF T
  <2> QED
    BY <1>1, <2>1, <2>2, <2>3, <2>4
<1> QED
  BY <1>3, <1>4

\* The element that is taken first from a set, and what is left.
First(s) == CHOOSE x \in s : TRUE
Others(s) == s \ {First(s)}

\* Subsets of a finite set, and what is left of one when its first element is taken.
LEMMA OthersAreFewer ==
    ASSUME NEW S, IsFiniteSet(S), NEW s \in SUBSET S
    PROVE  /\ IsFiniteSet(s) /\ Cardinality(s) \in Nat
           /\ s # {} => /\ First(s) \in s /\ Others(s) \in SUBSET S
                        /\ Cardinality(Others(s)) = Cardinality(s) - 1
<1>1. IsFiniteSet(s) /\ Cardinality(s) \in Nat
  BY FS_Subset, FS_CardinalityType
<1>2. s # {} => First(s) \in s
  BY DEF First
<1>3. s # {} => Cardinality(Others(s)) = Cardinality(s) - 1
  BY <1>1, <1>2, FS_RemoveElement DEF Others
<1> QED
  BY <1>1, <1>2, <1>3 DEF Others

\* g is the sum of f over each subset of S.
Sums(f, S, g) == g = [s \in SUBSET S |-> IF s = {} THEN 0 ELSE f[First(s)] + g[Others(s)]]

\* The definition of a sum by recursion has a function as its value.
LEMMA SumsExist ==
    ASSUME NEW f, NEW S, IsFiniteSet(S)
    PROVE  \E g : Sums(f, S, g) /\ SumFunctionOnSet(f, S) = g[S]
<1> DEFINE Step(g, s) == IF s = {} THEN 0 ELSE f[First(s)] + g[Others(s)]
           D(n) == {s \in SUBSET S : Cardinality(s) <= n}
           Has(n) == \E g : g = [s \in D(n) |-> Step(g, s)]
           sum == CHOOSE g : g = [s \in SUBSET S |-> Step(g, s)]
<1>1. SumFunctionOnSet(f, S) = sum[S]
  BY DEF SumFunctionOnSet, FoldFunctionOnSet, MapThenFoldSet, First, Others
<1>2. \A s \in SUBSET S : /\ Cardinality(s) \in Nat
                          /\ s = {} => Cardinality(s) = 0
                          /\ s # {} => Others(s) \in SUBSET S /\ Cardinality(Others(s)) = Cardinality(s) - 1
  BY OthersAreFewer, FS_EmptySet
<1>3. \A g, h : \A s : g[Others(s)] = h[Others(s)] => Step(g, s) = Step(h, s)
  OBVIOUS
<1>4. \A g : Step(g, {}) = 0
  OBVIOUS
<1> HIDE DEF Has, Step
<1>5. \A n \in Nat : Has(n)
  <2> DEFINE T == {n \in Nat : ~Has(n)}
  <2> SUFFICES ASSUME T # {} PROVE FALSE
    BY DEF T
  <2>1. PICK n \in T : \A k \in T : n <= k
    <3>1. T \in SUBSET Nat
      BY DEF T
    <3> HIDE DEF T
    <3> QED
      BY <3>1, LeastNat
  <2>2. n \in Nat /\ ~Has(n)
    BY <2>1 DEF T
  <2>3. CASE n = 0
    <3> DEFINE g == [s \in D(0) |-> 0]
    <3>1. \A s \in D(0) : s = {}
      <4> SUFFICES ASSUME NEW s \in SUBSET S, Cardinality(s) <= 0, s # {} PROVE FALSE
        OBVIOUS
      <4>1. Others(s) \in SUBSET S /\ Cardinality(Others(s)) = Cardinality(s) - 1
        BY <1>2
      <4>2. Cardinality(s) \in Nat /\ Cardinality(Others(s)) \in Nat
        BY <1>2, <4>1
      <4> QED
        BY <4>1, <4>2
    <3>2. \A s \in D(0) : Step(g, s) = 0
      <4> HIDE DEF g
      <4> QED
        BY <3>1, <1>4
    <3>3. g = [s \in D(0) |-> Step(g, s)]
      BY <3>2
    <3> QED
      BY <3>3, <2>2, <2>3 DEF Has
  <2>4. CASE n # 0
    <3>1. n - 1 \in Nat /\ ~(n <= n - 1)
      BY <2>2, <2>4
    <3>2. Has(n - 1)
      BY <2>1, <3>1 DEF T
    <3>3. PICK g : g = [s \in D(n - 1) |-> Step(g, s)]
      BY <3>2 DEF Has
    <3> DEFINE h == [s \in D(n) |-> Step(g, s)]
    <3>4. \A s \in D(n - 1) : s \in D(n)
      BY <1>2, <2>2, <3>1
    <3>5. \A s \in D(n) : s # {} => Others(s) \in D(n - 1)
      BY <1>2, <2>2, <3>1
    <3> HIDE DEF T, D
    <3>6. \A s \in D(n - 1) : g[s] = h[s]
      BY <3>3, <3>4
    <3>7. \A s \in D(n) : Step(g, s) = Step(h, s)
      <4> SUFFICES ASSUME NEW s \in D(n) PROVE Step(g, s) = Step(h, s)
        OBVIOUS
      <4>1. CASE s = {}
        BY <4>1, <1>4
      <4>2. CASE s # {}
        <5>1. g[Others(s)] = h[Others(s)]
          BY <4>2, <3>5, <3>6
        <5> HIDE DEF h
        <5> QED
          BY <5>1, <1>3
      <4> QED
        BY <4>1, <4>2
    <3>8. h = [s \in D(n) |-> Step(h, s)]
      BY <3>7
    <3> QED
      BY <3>8, <2>2 DEF Has
  <2> QED
    BY <2>3, <2>4
<1>6. Cardinality(S) \in Nat /\ SUBSET S = D(Cardinality(S))
  <2>1. Cardinality(S) \in Nat /\ \A s \in SUBSET S : Cardinality(s) <= Cardinality(S)
    BY FS_CardinalityType, FS_Subset
  <2> QED
    BY <2>1
<1>7. sum = [s \in SUBSET S |-> Step(sum, s)]
  <2>1. \E g : g = [s \in SUBSET S |-> Step(g, s)]
    <3> HIDE DEF D
    <3> QED
      BY <1>5, <1>6 DEF Has
  <2> QED
    BY <2>1 DEF sum
<1> HIDE DEF sum
<1> QED
  BY <1>1, <1>7 DEF Sums, Step

\* The sum of what is taken first and of the others.
LEMMA SumStep ==
    ASSUME NEW f, NEW S, IsFiniteSet(S)
    PROVE  SumFunctionOnSet(f, S) = IF S = {} THEN 0 ELSE f[First(S)] + SumFunctionOnSet(f, Others(S))
<1>1. PICK g : Sums(f, S, g) /\ SumFunctionOnSet(f, S) = g[S]
  BY SumsExist
<1>2. \A s \in SUBSET S : g[s] = IF s = {} THEN 0 ELSE f[First(s)] + g[Others(s)]
  BY <1>1 DEF Sums
<1>3. CASE S = {}
  BY <1>1, <1>2, <1>3
<1>4. CASE S # {}
  <2> DEFINE T == Others(S)
  <2>1. T \in SUBSET S /\ IsFiniteSet(T)
    BY <1>4, OthersAreFewer, FS_Subset
  <2> HIDE DEF T
  <2>2. PICK h : Sums(f, T, h) /\ SumFunctionOnSet(f, T) = h[T]
    BY <2>1, SumsExist
  <2>3. \A s \in SUBSET T : h[s] = IF s = {} THEN 0 ELSE f[First(s)] + h[Others(s)]
    BY <2>2 DEF Sums
  <2> DEFINE B == {s \in SUBSET T : g[s] = h[s]}
  <2>4. ASSUME NEW s \in SUBSET T, \A t \in SUBSET T : Cardinality(t) < Cardinality(s) => t \in B
        PROVE  s \in B
    <3>1. s \in SUBSET S
      BY <2>1
    <3>2. CASE s = {}
      BY <1>2, <2>3, <3>1, <3>2
    <3>3. CASE s # {}
      <4>1. Others(s) \in SUBSET T /\ Cardinality(Others(s)) < Cardinality(s)
        BY <2>1, <3>3, OthersAreFewer
      <4>2. g[Others(s)] = h[Others(s)]
        BY <2>4, <4>1
      <4> QED
        BY <1>2, <2>3, <3>1, <3>3, <4>2
    <3> QED
      BY <3>2, <3>3
  <2>5. SUBSET T \subseteq B
    <3> HIDE DEF B
    <3> QED
      BY <2>1, <2>4, SubsetInduction
  <2>6. g[T] = h[T]
    BY <2>5
  <2> QED
    BY <1>1, <1>2, <1>4, <2>2, <2>6 DEF T
<1> QED
  BY <1>3, <1>4

\* A sum is in any set that has 0 and all sums of two, like that of the numbers.
LEMMA SumTypes ==
    ASSUME NEW f, NEW S, IsFiniteSet(S), NEW N, 0 \in N, \A x, y \in N : x + y \in N,
           \A x \in S : f[x] \in N
    PROVE  SumFunctionOnSet(f, S) \in N
<1> DEFINE B == {s \in SUBSET S : SumFunctionOnSet(f, s) \in N}
<1>1. ASSUME NEW s \in SUBSET S, \A t \in SUBSET S : Cardinality(t) < Cardinality(s) => t \in B
      PROVE  s \in B
  <2>1. IsFiniteSet(s)
    BY OthersAreFewer
  <2>2. CASE s = {}
    <3>1. SumFunctionOnSet(f, s) = 0
      BY <2>1, <2>2, SumStep
    <3> QED
      BY <3>1
  <2>3. CASE s # {}
    <3>1. First(s) \in s /\ Others(s) \in SUBSET S /\ Cardinality(Others(s)) < Cardinality(s)
      BY <2>3, OthersAreFewer
    <3>2. SumFunctionOnSet(f, Others(s)) \in N /\ f[First(s)] \in N
      BY <1>1, <3>1
    <3>3. SumFunctionOnSet(f, s) = f[First(s)] + SumFunctionOnSet(f, Others(s))
      BY <2>1, <2>3, SumStep
    <3> QED
      BY <3>2, <3>3
  <2> QED
    BY <2>2, <2>3
<1>2. SUBSET S \subseteq B
  <2> HIDE DEF B
  <2> QED
    BY <1>1, SubsetInduction
<1> QED
  BY <1>2

\* A sum depends on what is summed only.
LEMMA SumSame ==
    ASSUME NEW f, NEW g, NEW S, IsFiniteSet(S), \A x \in S : f[x] = g[x]
    PROVE  SumFunctionOnSet(f, S) = SumFunctionOnSet(g, S)
<1> DEFINE B == {s \in SUBSET S : SumFunctionOnSet(f, s) = SumFunctionOnSet(g, s)}
<1>1. ASSUME NEW s \in SUBSET S, \A t \in SUBSET S : Cardinality(t) < Cardinality(s) => t \in B
      PROVE  s \in B
  <2>1. IsFiniteSet(s)
    BY OthersAreFewer
  <2>2. CASE s = {}
    BY <2>1, <2>2, SumStep
  <2>3. CASE s # {}
    <3>1. First(s) \in s /\ Others(s) \in SUBSET S /\ Cardinality(Others(s)) < Cardinality(s)
      BY <2>3, OthersAreFewer
    <3>2. SumFunctionOnSet(f, Others(s)) = SumFunctionOnSet(g, Others(s)) /\ f[First(s)] = g[First(s)]
      BY <1>1, <3>1
    <3> QED
      BY <2>1, <2>3, <3>2, SumStep
  <2> QED
    BY <2>2, <2>3
<1>2. SUBSET S \subseteq B
  <2> HIDE DEF B
  <2> QED
    BY <1>1, SubsetInduction
<1> QED
  BY <1>2

\* Whatever is taken first, the sum is the same.
LEMMA SumRemove ==
    ASSUME NEW f, NEW S, IsFiniteSet(S), \A x \in S : f[x] \in Int, NEW a \in S
    PROVE  SumFunctionOnSet(f, S) = f[a] + SumFunctionOnSet(f, S \ {a})
<1> DEFINE Splits(s, x) == SumFunctionOnSet(f, s) = f[x] + SumFunctionOnSet(f, s \ {x})
           B == {s \in SUBSET S : \A x \in s : Splits(s, x)}
<1>1. ASSUME NEW s \in SUBSET S, \A t \in SUBSET S : Cardinality(t) < Cardinality(s) => t \in B
      PROVE  s \in B
  <2> SUFFICES ASSUME NEW x \in s PROVE Splits(s, x)
    OBVIOUS
  <2> DEFINE c == First(s)
             t == s \ {c}
             u == s \ {x}
             v == s \ {c, x}
  <2>1. /\ IsFiniteSet(s) /\ c \in s /\ t \in SUBSET S /\ Cardinality(s) \in Nat
        /\ Cardinality(t) < Cardinality(s)
    BY OthersAreFewer DEF Others
  <2>2. SumFunctionOnSet(f, s) = f[c] + SumFunctionOnSet(f, t)
    BY <2>1, SumStep DEF Others
  <2>3. CASE c = x
    BY <2>2, <2>3
  <2>4. CASE c # x
    <3>1. u \in SUBSET S /\ Cardinality(u) < Cardinality(s) /\ c \in u /\ x \in t
      BY <2>1, <2>4, FS_RemoveElement
    <3>2. t \ {x} = v /\ u \ {c} = v
      OBVIOUS
    <3>3. SumFunctionOnSet(f, t) = f[x] + SumFunctionOnSet(f, v)
      BY <1>1, <2>1, <3>1, <3>2
    <3>4. SumFunctionOnSet(f, u) = f[c] + SumFunctionOnSet(f, v)
      BY <1>1, <3>1, <3>2
    <3>5. SumFunctionOnSet(f, v) \in Int /\ f[c] \in Int /\ f[x] \in Int
      <4>1. IsFiniteSet(v) /\ \A y \in v : f[y] \in Int
        BY <2>1, FS_Subset
      <4> HIDE DEF v
      <4>2. SumFunctionOnSet(f, v) \in Int
        BY <4>1, SumTypes
      <4> QED
        BY <2>1, <4>2
    <3> HIDE DEF c, t, u, v
    <3>6. SumFunctionOnSet(f, s) = f[x] + SumFunctionOnSet(f, u)
      BY <2>2, <3>3, <3>4, <3>5
    <3> QED
      BY <3>6 DEF u
  <2> QED
    BY <2>3, <2>4
<1>2. SUBSET S \subseteq B
  <2> HIDE DEF B
  <2> QED
    BY <1>1, SubsetInduction
<1> QED
  BY <1>2

\* What is summed is less.
LEMMA SumLess ==
    ASSUME NEW f, NEW g, NEW S, IsFiniteSet(S),
           \A x \in S : f[x] \in Int /\ g[x] \in Int /\ f[x] <= g[x]
    PROVE  SumFunctionOnSet(f, S) <= SumFunctionOnSet(g, S)
<1> DEFINE B == {s \in SUBSET S : SumFunctionOnSet(f, s) <= SumFunctionOnSet(g, s)}
<1>1. ASSUME NEW s \in SUBSET S, \A t \in SUBSET S : Cardinality(t) < Cardinality(s) => t \in B
      PROVE  s \in B
  <2>1. IsFiniteSet(s)
    BY OthersAreFewer
  <2>2. CASE s = {}
    BY <2>1, <2>2, SumStep
  <2>3. CASE s # {}
    <3> DEFINE o == Others(s)
               c == First(s)
    <3>1. c \in s /\ o \in SUBSET S /\ Cardinality(o) < Cardinality(s) /\ IsFiniteSet(o)
      BY <2>3, OthersAreFewer
    <3>2. SumFunctionOnSet(f, o) <= SumFunctionOnSet(g, o)
      BY <1>1, <3>1
    <3>3. SumFunctionOnSet(f, o) \in Int /\ SumFunctionOnSet(g, o) \in Int
      <4> HIDE DEF o
      <4> QED
        BY <3>1, SumTypes
    <3>4. /\ SumFunctionOnSet(f, s) = f[c] + SumFunctionOnSet(f, o)
          /\ SumFunctionOnSet(g, s) = g[c] + SumFunctionOnSet(g, o)
      BY <2>1, <2>3, SumStep
    <3>5. f[c] \in Int /\ g[c] \in Int /\ f[c] <= g[c]
      BY <3>1
    <3> HIDE DEF o, c
    <3> QED
      BY <3>2, <3>3, <3>4, <3>5
  <2> QED
    BY <2>2, <2>3
<1>2. SUBSET S \subseteq B
  <2> HIDE DEF B
  <2> QED
    BY <1>1, SubsetInduction
<1> QED
  BY <1>2

\* One of the numbers changes.
LEMMA SumChange ==
    ASSUME NEW f, NEW g, NEW S, IsFiniteSet(S), \A x \in S : f[x] \in Int /\ g[x] \in Int,
           NEW a \in S, \A x \in S \ {a} : f[x] = g[x]
    PROVE  SumFunctionOnSet(g, S) = SumFunctionOnSet(f, S) + g[a] - f[a]
<1> DEFINE o == S \ {a}
<1>1. IsFiniteSet(o) /\ \A x \in o : f[x] \in Int /\ f[x] = g[x]
  BY FS_Subset
<1>2. /\ SumFunctionOnSet(f, S) = f[a] + SumFunctionOnSet(f, o)
      /\ SumFunctionOnSet(g, S) = g[a] + SumFunctionOnSet(g, o)
  BY SumRemove
<1> HIDE DEF o
<1>3. SumFunctionOnSet(f, o) = SumFunctionOnSet(g, o) /\ SumFunctionOnSet(f, o) \in Int
  BY <1>1, SumSame, SumTypes
<1>4. f[a] \in Int /\ g[a] \in Int
  OBVIOUS
<1> QED
  BY <1>2, <1>3, <1>4

\* Numbers that are nowhere above others and have no smaller sum are the same.
LEMMA SumReached ==
    ASSUME NEW f, NEW g, NEW S, IsFiniteSet(S),
           \A x \in S : f[x] \in Int /\ g[x] \in Int /\ f[x] <= g[x],
           SumFunctionOnSet(g, S) <= SumFunctionOnSet(f, S), NEW a \in S
    PROVE  f[a] = g[a]
<1> DEFINE o == S \ {a}
<1>1. IsFiniteSet(o) /\ \A x \in o : f[x] \in Int /\ g[x] \in Int /\ f[x] <= g[x]
  BY FS_Subset
<1>2. /\ SumFunctionOnSet(f, S) = f[a] + SumFunctionOnSet(f, o)
      /\ SumFunctionOnSet(g, S) = g[a] + SumFunctionOnSet(g, o)
  BY SumRemove
<1> HIDE DEF o
<1>3. SumFunctionOnSet(f, o) \in Int /\ SumFunctionOnSet(g, o) \in Int
  BY <1>1, SumTypes
<1>4. SumFunctionOnSet(f, o) <= SumFunctionOnSet(g, o)
  BY <1>1, SumLess
<1> QED
  BY <1>2, <1>3, <1>4

\* A sum of numbers is a number.
LEMMA SumOnSetIsNat ==
    ASSUME NEW f, NEW S, IsFiniteSet(S), \A x \in S : f[x] \in Nat
    PROVE  SumFunctionOnSet(f, S) \in Nat
<1> DEFINE N == Nat
<1>1. 0 \in N /\ (\A x, y \in N : x + y \in N) /\ \A x \in S : f[x] \in N
  OBVIOUS
<1> HIDE DEF N
<1>2. SumFunctionOnSet(f, S) \in N
  BY <1>1, SumTypes
<1> QED
  BY <1>2 DEF N

\* The sum of a function whose values are numbers is a number.
LEMMA SumIsNat ==
    ASSUME NEW f, IsFiniteSet(DOMAIN f), \A x \in DOMAIN f : f[x] \in Nat
    PROVE  SumFunction(f) \in Nat
  BY SumOnSetIsNat DEF SumFunction

-------------------------------------------------------------------------------
(* The invariant                                                             *)

\* The list holds living widgets, each one once; a widget is created once.
RegistryInv == /\ fresh \subseteq Widgets
               /\ alive \subseteq Widgets \ fresh
               /\ widgetList \in Seq(alive)
               /\ \A i, j \in DOMAIN widgetList : widgetList[i] = widgetList[j] => i = j

FiguresInv == perf \in [Widgets -> Perf] /\ effectiveTR \in Nat

\* A widget that is about to be created has full quality.
QualityInv == /\ quality = [w \in Widgets |-> quality[w]]
              /\ \A w \in fresh : quality[w] = Full

\* A call is queued by a refresh.
CountInv == refreshes \in 0 .. MaxRounds /\ posted \in 0 .. refreshes + 1

\* A thread that was told to quit is waited for by
\* the handler that told it, and no data is written while a handler waits to stop it.
ControlInv == /\ thread \in {"off", "loop", "visit", "apply", "compare"}
              /\ gui \in {"idle", "wait", "wait, then print", "kill", "gone"} \cup Widgets
              /\ quitting /\ thread # "off" => gui \in {"wait", "wait, then print", "kill"}
              /\ gui = "gone" => thread = "off"
              /\ gui \in {"wait", "wait, then print", "gone"} => ~printing

\* A round of the proportional scheduler holds the lock and works on living widgets.
RoundInv == /\ "order" \in DOMAIN round
            /\ ReadLocked => type = "ProportionalShare" /\ Range(round.order) \subseteq alive
            /\ thread = "compare" => type = "SelfAdjusting"
            /\ ~ReadLocked /\ thread # "compare" => round = NoRound

\* Without a scheduling thread the qualities are full unless a handler that has
\* waited for the thread has still to reset them.
FullInv == thread = "off" /\ gui \in {"idle"} \cup Widgets => \A w \in Listed : quality[w] = Full

IInv == /\ RegistryInv /\ FiguresInv /\ QualityInv /\ CountInv /\ ControlInv /\ RoundInv
        /\ FullInv /\ FileNamesScheduler

-------------------------------------------------------------------------------
(* What the operators yield                                                  *)

LEMMA UpdateIsPerf ==
    ASSUME NEW p \in Perf, NEW bw \in Nat
    PROVE  UpdateBWdata(p, bw) \in Perf
<1> DEFINE cur == IF p.priori /\ bw > p.required THEN p.required ELSE bw
           required == IF p.priori THEN p.required ELSE IF bw = 0 THEN 0 ELSE Estimate(p, bw)
<1>1. cur \in Nat /\ Larger(p.highest, cur) \in Nat
  BY DEF Perf, Larger
<1>2. Estimate(p, bw) \in Nat
  BY WakeUpGuessAssumption DEF Perf, Larger, Estimate
<1>3. required \in Nat
  BY <1>2 DEF Perf
<1>4. UpdateBWdata(p, bw) = [p EXCEPT !.cur = cur, !.required = required,
                                      !.highest = Larger(p.highest, cur)]
  BY DEF UpdateBWdata
<1> HIDE DEF cur, required
<1> QED
  BY <1>1, <1>3, <1>4 DEF Perf

LEMMA PrioriIsPerf ==
    ASSUME NEW p \in Perf
    PROVE  PrioriPerf(p, Declared) \in Perf
<1>1. Declared \in Nat
  BY SchedulingAssumption
<1> QED
  BY <1>1 DEF PrioriPerf, Perf

\* Listed widgets live.
LEMMA ListedLive ==
    ASSUME RegistryInv
    PROVE  Listed \subseteq alive /\ Listed \subseteq Widgets
<1>1. Listed \subseteq alive
  BY DEF RegistryInv, Listed, Range
<1> QED
  BY <1>1 DEF RegistryInv

\* The total is a number, whatever the widgets measured and needed.
LEMMA TotalIsNat ==
    ASSUME RegistryInv, NEW p \in [Widgets -> Perf], effectiveTR \in Nat
    PROVE  NewTotal(p) \in Nat
<1> DEFINE observed == SumFunction([w \in Listed |-> p[w].cur])
           estimated == SumFunction([w \in Listed |-> p[w].required])
<1>1. Listed \subseteq Widgets
  BY ListedLive
<1>2. IsFiniteSet(Listed)
  BY <1>1, SchedulingAssumption, FS_Subset
<1>3. \A w \in Listed : p[w].cur \in Nat /\ p[w].required \in Nat
  BY <1>1 DEF Perf
<1>4. observed \in Nat
  <2> DEFINE f == [w \in Listed |-> p[w].cur]
  <2>1. IsFiniteSet(DOMAIN f) /\ \A x \in DOMAIN f : f[x] \in Nat
    BY <1>2, <1>3
  <2> HIDE DEF f
  <2>2. SumFunction(f) \in Nat
    BY <2>1, SumIsNat
  <2> QED
    BY <2>2 DEF f
<1>5. estimated \in Nat
  <2> DEFINE f == [w \in Listed |-> p[w].required]
  <2>1. IsFiniteSet(DOMAIN f) /\ \A x \in DOMAIN f : f[x] \in Nat
    BY <1>2, <1>3
  <2> HIDE DEF f
  <2>2. SumFunction(f) \in Nat
    BY <2>1, SumIsNat
  <2> QED
    BY <2>2 DEF f
<1>6. NewTotal(p) \in {ManualTR, Larger(effectiveTR, observed), estimated}
  <2> HIDE DEF observed, estimated
  <2> QED
    BY DEF NewTotal, observed, estimated
<1> HIDE DEF observed, estimated
<1> QED
  BY <1>4, <1>5, <1>6, SchedulingAssumption DEF Larger

\* The destroyed widget, and no other, leaves the list.
LEMMA WithoutKeeps ==
    ASSUME RegistryInv, NEW gone
    PROVE  /\ Without(gone) \in Seq(alive \ {gone})
           /\ \A i, j \in DOMAIN Without(gone) : Without(gone)[i] = Without(gone)[j] => i = j
           /\ Range(Without(gone)) \subseteq Listed
<1> DEFINE n == Len(widgetList)
           I == {i \in DOMAIN widgetList : widgetList[i] = gone}
           S == alive \ {gone}
           q == Without(gone)
<1>1. /\ n \in Nat /\ DOMAIN widgetList = 1..n /\ widgetList \in [1..n -> alive]
      /\ \A i, j \in 1..n : widgetList[i] = widgetList[j] => i = j
  BY LenProperties DEF RegistryInv
<1>2. CASE I = {}
  <2>1. Without(gone) = widgetList
    BY <1>2 DEF Without
  <2>2. \A i \in 1..n : widgetList[i] \in S
    BY <1>1, <1>2
  <2>3. widgetList \in Seq(S)
    BY <1>1, <2>2
  <2> QED
    BY <1>1, <2>1, <2>3 DEF Listed
<1>3. CASE I # {}
  <2> DEFINE k == CHOOSE i \in I : TRUE
             a == SubSeq(widgetList, 1, k - 1)
             b == SubSeq(widgetList, k + 1, n)
  <2>1. k \in 1..n /\ widgetList[k] = gone
    BY <1>1, <1>3
  <2>2. q = a \o b
    BY <1>3 DEF Without, RemoveAt
  <2> HIDE DEF k, n, I, q
  <2>3. \A i \in 1..n : i # k => widgetList[i] \in S
    BY <1>1, <2>1
  <2>4. /\ a \in Seq(S) /\ Len(a) = k - 1
        /\ \A i \in 1 .. k - 1 : a[i] = widgetList[i]
    <3>1. \A i \in 1 .. k - 1 : widgetList[i] \in S
      BY <1>1, <2>1, <2>3
    <3>2. /\ a \in Seq(S) /\ Len(a) = (IF 1 <= k - 1 THEN k - 1 - 1 + 1 ELSE 0)
          /\ \A i \in 1 .. k - 1 - 1 + 1 : a[i] = widgetList[1 + i - 1]
      BY <1>1, <2>1, <3>1, SubSeqProperties
    <3> QED
      BY <1>1, <2>1, <3>2
  <2>5. /\ b \in Seq(S) /\ Len(b) = n - k
        /\ \A i \in 1 .. n - k : b[i] = widgetList[k + i]
    <3>1. \A i \in k + 1 .. n : widgetList[i] \in S
      BY <1>1, <2>1, <2>3
    <3>2. /\ b \in Seq(S) /\ Len(b) = (IF k + 1 <= n THEN n - (k + 1) + 1 ELSE 0)
          /\ \A i \in 1 .. n - (k + 1) + 1 : b[i] = widgetList[k + 1 + i - 1]
      BY <1>1, <2>1, <3>1, SubSeqProperties
    <3> QED
      BY <1>1, <2>1, <3>2
  <2> HIDE DEF a, b, S
  <2>6. q \in Seq(S) /\ Len(q) = n - 1
    <3>1. a \o b \in Seq(S) /\ Len(a \o b) = Len(a) + Len(b)
      BY <2>4, <2>5, ConcatProperties
    <3>2. Len(a) + Len(b) = n - 1
      BY <1>1, <2>1, <2>4, <2>5
    <3> QED
      BY <2>2, <3>1, <3>2
  <2>7. \A i \in 1 .. n - 1 : q[i] = IF i < k THEN widgetList[i] ELSE widgetList[i + 1]
    <3> SUFFICES ASSUME NEW i \in 1 .. n - 1
                 PROVE  q[i] = IF i < k THEN widgetList[i] ELSE widgetList[i + 1]
      OBVIOUS
    <3>1. q[i] = IF i <= Len(a) THEN a[i] ELSE b[i - Len(a)]
      BY <1>1, <2>1, <2>2, <2>4, <2>5, ConcatProperties
    <3>2. CASE i < k
      BY <1>1, <2>1, <2>4, <3>1, <3>2
    <3>3. CASE ~(i < k)
      <4>1. i - (k - 1) \in 1 .. n - k /\ k + (i - (k - 1)) = i + 1 /\ ~(i <= k - 1)
        BY <1>1, <2>1, <3>3
      <4> QED
        BY <2>4, <2>5, <3>1, <3>3, <4>1
    <3> QED
      BY <3>2, <3>3
  <2>8. DOMAIN q = 1 .. n - 1
    BY <2>6, LenProperties
  <2>9. \A i, j \in DOMAIN q : q[i] = q[j] => i = j
    BY <1>1, <2>1, <2>7, <2>8
  <2>10. \A i \in DOMAIN q : \E j \in 1..n : q[i] = widgetList[j]
    <3> SUFFICES ASSUME NEW i \in 1 .. n - 1 PROVE \E j \in 1..n : q[i] = widgetList[j]
      BY <2>8
    <3>1. i \in 1..n /\ i + 1 \in 1..n
      BY <1>1
    <3> QED
      BY <2>7, <3>1
  <2> QED
    BY <1>1, <2>6, <2>9, <2>10 DEF S, q, Listed, Range
<1> QED
  BY <1>2, <1>3

\* A new widget is the first of the list.
LEMMA FrontKeeps ==
    ASSUME RegistryInv, NEW w \in fresh
    PROVE  LET q == <<w>> \o widgetList
           IN  /\ q \in Seq(alive \cup {w})
               /\ \A i, j \in DOMAIN q : q[i] = q[j] => i = j
               /\ Range(q) = Listed \cup {w}
<1> DEFINE q == <<w>> \o widgetList
           n == Len(widgetList)
<1>1. /\ n \in Nat /\ DOMAIN widgetList = 1..n /\ widgetList \in [1..n -> alive]
      /\ \A i, j \in 1..n : widgetList[i] = widgetList[j] => i = j
      /\ w \notin alive
  BY LenProperties DEF RegistryInv
<1>2. <<w>> \in Seq(alive \cup {w}) /\ Len(<<w>>) = 1 /\ <<w>>[1] = w
  OBVIOUS
<1>3. widgetList \in Seq(alive \cup {w})
  BY <1>1
<1>4. q \in Seq(alive \cup {w}) /\ Len(q) = 1 + n
  BY <1>2, <1>3, ConcatProperties
<1>5. \A i \in 1 .. 1 + n : q[i] = IF i <= 1 THEN w ELSE widgetList[i - 1]
  <2> SUFFICES ASSUME NEW i \in 1 .. 1 + n
               PROVE  q[i] = IF i <= 1 THEN w ELSE widgetList[i - 1]
    OBVIOUS
  <2>1. q[i] = IF i <= 1 THEN <<w>>[i] ELSE widgetList[i - 1]
    BY <1>1, <1>2, <1>3, ConcatProperties
  <2>2. i <= 1 => i = 1
    BY <1>1
  <2> QED
    BY <1>2, <2>1, <2>2
<1>6. DOMAIN q = 1 .. 1 + n
  BY <1>1, <1>4, LenProperties
<1> HIDE DEF q, n
<1>7. \A i, j \in DOMAIN q : q[i] = q[j] => i = j
  BY <1>1, <1>5, <1>6
<1>8. Range(q) = Listed \cup {w}
  <2>1. \A i \in 1..n : i + 1 \in 1 .. 1 + n /\ q[i + 1] = widgetList[i]
    BY <1>1, <1>5
  <2>2. 1 \in 1 .. 1 + n /\ q[1] = w
    BY <1>1, <1>5
  <2>3. \A i \in 1 .. 1 + n : q[i] = w \/ \E j \in 1..n : q[i] = widgetList[j]
    <3> SUFFICES ASSUME NEW i \in 1 .. 1 + n, ~(i <= 1) PROVE \E j \in 1..n : q[i] = widgetList[j]
      BY <1>1, <1>5
    <3>1. i - 1 \in 1..n
      BY <1>1
    <3> QED
      BY <1>5, <3>1
  <2>4. Listed \cup {w} \subseteq Range(q)
    <3>1. w \in Range(q)
      BY <1>6, <2>2 DEF Range
    <3>2. \A i \in 1..n : widgetList[i] \in Range(q)
      BY <1>6, <2>1 DEF Range
    <3> QED
      BY <1>1, <3>1, <3>2 DEF Listed, Range
  <2>5. Range(q) \subseteq Listed \cup {w}
    BY <1>1, <1>6, <2>3 DEF Listed, Range
  <2> QED
    BY <2>4, <2>5
<1> QED
  BY <1>4, <1>7, <1>8 DEF q

\* A visit keeps the order of the round.
LEMMA VisitKeepsOrder ==
    ASSUME "order" \in DOMAIN round, Visit
    PROVE  "order" \in DOMAIN round' /\ round'.order = round.order
<1> DEFINE Keeps(r) == "order" \in DOMAIN r /\ r.order = round.order
<1>1. PICK need, scoop, w :
        round' = NextVisit(Visited([round EXCEPT !.steady = @ /\ need = round.asked[w]], w, need, scoop))
  BY Zenon DEF Visit
<1>2. Keeps([round EXCEPT !.steady = @ /\ need = round.asked[w]])
  OBVIOUS
<1>3. ASSUME NEW q, Keeps(q) PROVE Keeps(Visited(q, w, need, scoop))
  BY <1>3 DEF Visited
<1>4. ASSUME NEW q, Keeps(q) PROVE Keeps(NextVisit(q))
  BY <1>4 DEF NextVisit
<1> HIDE DEF Keeps
<1>5. Keeps(round')
  BY <1>1, <1>2, <1>3, <1>4
<1> QED
  BY <1>5 DEF Keeps

-------------------------------------------------------------------------------
(* The invariant holds                                                       *)

LEMMA SchedulingInit == Init => IInv
<1> SUFFICES ASSUME Init PROVE IInv
  OBVIOUS
<1> USE DEF Init, MonitorStarts, LaunchScheduler
<1>1. Listed = {}
  BY DEF Listed, Range
<1>2. RegistryInv
  BY DEF RegistryInv
<1>3. FiguresInv
  BY SchedulingAssumption DEF FiguresInv, NewPerf, Perf
<1>4. QualityInv
  BY DEF QualityInv
<1>5. CountInv /\ ControlInv
  <2>1. MaxRounds \in Nat
    BY SchedulingAssumption
  <2> QED
    BY <2>1 DEF CountInv, ControlInv
<1>6. RoundInv
  BY DEF RoundInv, ReadLocked, NoRound
<1>7. FullInv /\ FileNamesScheduler
  BY <1>1 DEF FullInv, FileNamesScheduler
<1> QED
  BY <1>2, <1>3, <1>4, <1>5, <1>6, <1>7 DEF IInv

\* Widgets that come and go.
LEMMA RegistryStep ==
    ASSUME IInv, [Next]_vars
    PROVE  RegistryInv'
<1>1. CASE UNCHANGED registry
  BY <1>1 DEF registry, IInv, RegistryInv
<1>2. ASSUME NEW w \in Widgets, AddSchedulableWidget(w) PROVE RegistryInv'
  <2>1. /\ w \in fresh
        /\ fresh' = fresh \ {w} /\ alive' = alive \cup {w} /\ widgetList' = <<w>> \o widgetList
    BY <1>2 DEF AddSchedulableWidget
  <2> QED
    BY <2>1, FrontKeeps DEF IInv, RegistryInv
<1>3. CASE RemoveSchedulableWidget
  <2>1. fresh' = fresh /\ alive' = alive \ {gui} /\ widgetList' = Without(gui)
    BY <1>3 DEF RemoveSchedulableWidget, Destroyed
  <2> QED
    BY <2>1, WithoutKeeps DEF IInv, RegistryInv
<1> QED
  BY <1>1, <1>2, <1>3
     DEF Next, vars, StreamerConnects, CloseWidget, Refresh, ToggleOn, ToggleOff, SetPrintFile,
         StopPrintData, KillScheduler, GuiContinues, StopScheduler, SchedulerDeleted,
         SchedulingThread, SkipRound, Rank, Visit, Apply, Copy, Compare, ThreadEnds

\* What is measured and what is shared out are numbers.
LEMMA FiguresStep ==
    ASSUME IInv, [Next]_vars
    PROVE  FiguresInv'
<1> USE DEF IInv, FiguresInv
<1>1. CASE UNCHANGED figures
  BY <1>1 DEF figures
<1>2. ASSUME NEW w \in Widgets, StreamerConnects(w) PROVE FiguresInv'
  <2>1. perf' = [perf EXCEPT ![w] = PrioriPerf(@, Declared)] /\ UNCHANGED effectiveTR
    BY <1>2 DEF StreamerConnects
  <2> QED
    BY <2>1, PrioriIsPerf
<1>3. CASE Refresh
  <2>1. PICK bw \in [Listed -> Observations] :
           /\ perf' = [w \in Widgets |-> IF w \in Listed THEN UpdateBWdata(perf[w], bw[w]) ELSE perf[w]]
           /\ effectiveTR' = NewTotal(perf')
    BY <1>3 DEF Refresh
  <2>2. \A w \in Widgets : w \in Listed => UpdateBWdata(perf[w], bw[w]) \in Perf
    BY SchedulingAssumption, UpdateIsPerf
  <2>3. perf' \in [Widgets -> Perf]
    BY <2>1, <2>2
  <2>4. NewTotal(perf') \in Nat
    BY <2>3, TotalIsNat
  <2> QED
    BY <2>1, <2>3, <2>4
<1>4. CASE RemoveSchedulableWidget
  <2>1. perf' = [perf EXCEPT ![gui] = NewPerf] /\ UNCHANGED effectiveTR
    BY <1>4 DEF RemoveSchedulableWidget, Destroyed
  <2>2. NewPerf \in Perf
    BY DEF NewPerf, Perf
  <2> QED
    BY <2>1, <2>2
<1> QED
  BY <1>1, <1>2, <1>3, <1>4
     DEF Next, vars, figures, AddSchedulableWidget, CloseWidget, ToggleOn, ToggleOff, SetPrintFile,
         StopPrintData, KillScheduler, GuiContinues, StopScheduler, SchedulerDeleted,
         SchedulingThread, SkipRound, Rank, Visit, Apply, Copy, Compare, ThreadEnds

\* Refreshes and the calls they queue.
LEMMA CountStep ==
    ASSUME IInv, [Next]_vars
    PROVE  CountInv'
<1>1. MaxRounds \in Nat
  BY SchedulingAssumption
<1>2. refreshes \in 0 .. MaxRounds /\ posted \in 0 .. refreshes + 1
  BY DEF IInv, CountInv
<1>3. CASE UNCHANGED <<posted, refreshes>>
  BY <1>2, <1>3 DEF CountInv
<1>4. CASE Refresh
  <2>1. refreshes < MaxRounds /\ refreshes' = refreshes + 1 /\ posted' \in {posted, posted + 1}
    BY <1>4 DEF Refresh
  <2> QED
    BY <1>1, <1>2, <2>1 DEF CountInv
<1>5. CASE SchedulerDeleted
  <2>1. posted' = 0 /\ refreshes' = refreshes
    BY <1>5 DEF SchedulerDeleted
  <2> QED
    BY <1>1, <1>2, <2>1 DEF CountInv
<1>6. CASE SkipRound \/ Rank \/ Copy
  <2>1. posted > 0 /\ posted' = posted - 1 /\ refreshes' = refreshes
    BY <1>6 DEF SkipRound, Rank, Copy
  <2> QED
    BY <1>1, <1>2, <2>1 DEF CountInv
<1> QED
  BY <1>3, <1>4, <1>5, <1>6
     DEF Next, vars, control, AddSchedulableWidget, StreamerConnects, CloseWidget, ToggleOn, ToggleOff,
         SetPrintFile, StopPrintData, KillScheduler, GuiContinues, StopScheduler,
         RemoveSchedulableWidget, SchedulingThread, Visit, Apply, Compare, ThreadEnds

\* The scheduler control, its thread and the handlers that wait for it.
LEMMA ControlStep ==
    ASSUME IInv, [Next]_vars
    PROVE  ControlInv'
<1> USE DEF IInv, ControlInv
<1>0. {"idle", "wait", "wait, then print", "kill", "gone"} \cap Widgets = {}
  BY SchedulingAssumption
<1>1. ASSUME NEW w \in Widgets, AddSchedulableWidget(w) \/ StreamerConnects(w) PROVE ControlInv'
  <2>1. UNCHANGED <<control, printer, gui>>
    BY <1>1 DEF AddSchedulableWidget, StreamerConnects
  <2> QED
    BY <2>1 DEF control, printer
<1>2. ASSUME NEW w \in Widgets, CloseWidget(w) PROVE ControlInv'
  BY <1>0, <1>2 DEF CloseWidget, control, printer
<1>3. CASE Refresh
  BY <1>3 DEF Refresh, printer
<1>4. CASE ToggleOn \/ ToggleOff \/ KillScheduler
  <2>2. CASE ToggleOn
    BY <2>2 DEF ToggleOn, StartScheduler
  <2>3. CASE ToggleOff
    <3>1. /\ gui' \in {"wait", "wait, then print"} /\ printing' = FALSE /\ UNCHANGED thread
      BY <2>3 DEF ToggleOff
    <3> QED
      BY <3>1
  <2>4. CASE KillScheduler
    BY <2>4 DEF KillScheduler
  <2> QED
    BY <1>4, <2>2, <2>3, <2>4
<1>5. CASE SetPrintFile \/ StopPrintData
  <2>1. gui = "idle" /\ UNCHANGED <<control, gui>>
    BY <1>5 DEF SetPrintFile, StopPrintData
  <2> QED
    BY <2>1 DEF control
<1>6. CASE RemoveSchedulableWidget
  BY <1>0, <1>6 DEF RemoveSchedulableWidget, Destroyed, control, printer
<1>7. CASE StopScheduler
  BY <1>7 DEF StopScheduler, IsRunning, control
<1>8. CASE SchedulerDeleted
  BY <1>8 DEF SchedulerDeleted, IsRunning
<1>9. CASE SkipRound
  BY <1>9 DEF SkipRound, printer
<1>10. CASE Rank
  <2>1. thread = "loop" /\ UNCHANGED <<quitting, printing, gui>>
    BY <1>10 DEF Rank, printer
  <2>2. thread' \in {"apply", "visit"}
    BY <1>10, Zenon DEF Rank, RankWith
  <2> QED
    BY <2>1, <2>2
<1>11. CASE Visit
  <2>1. /\ thread = "visit" /\ thread' \in {"visit", "apply"}
        /\ UNCHANGED <<quitting, printing, gui>>
    BY <1>11, Zenon DEF Visit, printer
  <2> QED
    BY <2>1
<1>12. CASE Apply
  BY <1>12 DEF Apply, printer
<1>13. CASE Copy
  <2>1. thread = "loop" /\ UNCHANGED <<quitting, printing, gui>>
    BY <1>13 DEF Copy, printer
  <2>2. thread' \in {"loop", "compare"}
    BY <1>13 DEF Copy
  <2> QED
    BY <2>1, <2>2
<1>14. CASE Compare
  <2>1. /\ thread = "compare" /\ thread' \in {"loop", "compare"}
        /\ UNCHANGED <<quitting, printing, gui>>
    BY <1>14 DEF Compare, printer
  <2> QED
    BY <2>1
<1>15. CASE ThreadEnds
  BY <1>15 DEF ThreadEnds, printer
<1>16. CASE UNCHANGED vars
  BY <1>16 DEF vars, control, printer
<1> QED
  BY <1>1, <1>2, <1>3, <1>4, <1>5, <1>6, <1>7, <1>8, <1>9, <1>10, <1>11, <1>12, <1>13, <1>14, <1>15, <1>16
     DEF Next, GuiContinues, SchedulingThread

\* A round: the lock it holds keeps its widgets alive.
LEMMA RoundStep ==
    ASSUME IInv, [Next]_vars
    PROVE  RoundInv'
<1> USE DEF IInv, RoundInv, ReadLocked
<1>1. CASE UNCHANGED <<alive, type, thread, round>>
  BY <1>1
<1>2. ASSUME NEW w \in Widgets, AddSchedulableWidget(w) PROVE RoundInv'
  BY <1>2 DEF AddSchedulableWidget, control
<1>3. CASE RemoveSchedulableWidget
  BY <1>3 DEF RemoveSchedulableWidget, Destroyed, control
<1>4. CASE ToggleOn
  BY <1>4 DEF ToggleOn, StartScheduler, IsRunning
<1>5. CASE ThreadEnds
  BY <1>5 DEF ThreadEnds
<1>6. CASE Rank
  <2>1. type = "ProportionalShare" /\ UNCHANGED <<type, alive>>
    BY <1>6 DEF Rank, registry
  <2>2. PICK prio, sorted : /\ sorted \in Ascending(prio, {w \in Listed : prio[w] > 0})
                            /\ RankWith(prio, sorted)
    BY <1>6 DEF Rank
  <2>3. thread' \in {"visit", "apply"}
    BY <2>2 DEF RankWith
  <2>4. "order" \in DOMAIN round' /\ round'.order = sorted
    BY <2>2 DEF RankWith
  <2>5. Range(sorted) \subseteq {w \in Listed : prio[w] > 0}
    BY <2>2 DEF Ascending, SetToSeqs, Range
  <2>6. Listed \subseteq alive
    BY DEF RegistryInv, Listed, Range
  <2> QED
    BY <2>1, <2>3, <2>4, <2>5, <2>6
<1>7. CASE Visit
  <2>1. thread = "visit" /\ thread' \in {"visit", "apply"} /\ UNCHANGED <<type, alive>>
    BY <1>7, Zenon DEF Visit, registry
  <2>2. "order" \in DOMAIN round' /\ round'.order = round.order
    BY <1>7, VisitKeepsOrder
  <2> QED
    BY <2>1, <2>2
<1>8. CASE Apply
  BY <1>8 DEF Apply, NoRound
<1>9. CASE Copy
  <2>1. thread = "loop" /\ type = "SelfAdjusting" /\ UNCHANGED type
    BY <1>9 DEF Copy
  <2>2. CASE UNCHANGED <<round, thread>>
    BY <2>1, <2>2
  <2>3. CASE thread' = "compare" /\ \E order : round' = [order |-> order, at |-> 1]
    <3>1. "order" \in DOMAIN round'
      BY <2>3
    <3> QED
      BY <2>1, <2>3, <3>1
  <2> QED
    BY <1>9, <2>2, <2>3 DEF Copy
<1>10. CASE Compare
  <2>1. thread = "compare" /\ type = "SelfAdjusting" /\ UNCHANGED type
    BY <1>10 DEF Compare
  <2>2. CASE round' = [round EXCEPT !.at = @ + 1] /\ UNCHANGED thread
    <3>1. "order" \in DOMAIN round'
      BY <2>2
    <3> QED
      BY <2>1, <2>2, <3>1
  <2>3. CASE round' = NoRound /\ thread' = "loop"
    BY <2>1, <2>3 DEF NoRound
  <2> QED
    BY <1>10, <2>2, <2>3 DEF Compare
<1> QED
  BY <1>1, <1>2, <1>3, <1>4, <1>5, <1>6, <1>7, <1>8, <1>9, <1>10
     DEF Next, vars, registry, control, StreamerConnects, CloseWidget, Refresh, ToggleOff,
         SetPrintFile, StopPrintData, KillScheduler, GuiContinues, StopScheduler, SchedulerDeleted,
         SchedulingThread, SkipRound

\* Qualities of widgets not created yet.
LEMMA QualityStep ==
    ASSUME IInv, [Next]_vars
    PROVE  QualityInv'
<1> USE DEF IInv, QualityInv, RegistryInv
<1>0. Listed \subseteq alive
  BY DEF Listed, Range
<1>1. CASE UNCHANGED <<quality, fresh>>
  BY <1>1
<1>2. ASSUME NEW w \in Widgets, AddSchedulableWidget(w) PROVE QualityInv'
  BY <1>2 DEF AddSchedulableWidget
<1>3. CASE RemoveSchedulableWidget
  <2>1. quality' = [quality EXCEPT ![gui] = Full] /\ UNCHANGED fresh
    BY <1>3 DEF RemoveSchedulableWidget, Destroyed
  <2> QED
    BY <2>1
<1>4. CASE StopScheduler
  BY <1>0, <1>4 DEF StopScheduler, Reset, registry
<1>5. CASE Rank
  <2>1. PICK prio : quality' = [w \in Widgets |-> IF w \notin Listed     THEN quality[w]
                                                      ELSE IF prio[w] = 0 THEN 0
                                                      ELSE IF prio[w] < 0 THEN Full
                                                      ELSE quality[w]]
    BY <1>5 DEF Rank, RankWith
  <2>2. UNCHANGED fresh
    BY <1>5 DEF Rank, registry
  <2>3. quality' = [w \in Widgets |-> quality'[w]]
    BY <2>1
  <2>4. \A w \in fresh : w \in Widgets /\ w \notin Listed
    BY <1>0
  <2>5. \A w \in fresh : quality'[w] = quality[w]
    <3> SUFFICES ASSUME NEW w \in fresh PROVE quality'[w] = quality[w]
      OBVIOUS
    <3>1. w \in Widgets /\ w \notin Listed
      BY <2>4
    <3> QED
      BY <2>1, <3>1
  <2> QED
    BY <2>2, <2>3, <2>5
<1>6. CASE Apply
  <2>1. Range(round.order) \subseteq alive /\ UNCHANGED fresh
    BY <1>6 DEF Apply, RoundInv, ReadLocked, registry
  <2> DEFINE share(w) == IF perf[w].required = 0 THEN 0 ELSE (round.got[w] * Full) \div perf[w].required
  <2>2. quality' = [w \in Widgets |-> IF w \notin Range(round.order) THEN quality[w] ELSE share(w)]
    BY <1>6 DEF Apply
  <2> HIDE DEF share
  <2> QED
    BY <2>1, <2>2
<1>7. CASE Compare
  <2>1. UNCHANGED fresh /\ \E q : quality' = [w \in Widgets |-> IF w \in alive THEN q[w] ELSE quality[w]]
    BY <1>7 DEF Compare, registry
  <2> QED
    BY <2>1
<1> QED
  BY <1>1, <1>2, <1>3, <1>4, <1>5, <1>6, <1>7
     DEF Next, vars, registry, StreamerConnects, CloseWidget, Refresh, ToggleOn, ToggleOff,
         SetPrintFile, StopPrintData, KillScheduler, GuiContinues, SchedulerDeleted,
         SchedulingThread, SkipRound, Visit, Copy, ThreadEnds

\* Full quality without a scheduling thread.
LEMMA FullStep ==
    ASSUME IInv, [Next]_vars
    PROVE  FullInv'
<1> USE DEF IInv, FullInv, ControlInv
<1>0. {"idle", "wait", "wait, then print", "kill", "gone"} \cap Widgets = {}
  BY SchedulingAssumption
<1>1. CASE UNCHANGED <<widgetList, quality, thread>> /\ (gui' \in {"idle"} \cup Widgets => gui = "idle" \/ gui' = gui)
  BY <1>1 DEF Listed
<1>2. ASSUME NEW w \in Widgets, AddSchedulableWidget(w) PROVE FullInv'
  <2>1. gui = "idle" /\ w \in fresh /\ widgetList' = <<w>> \o widgetList /\ UNCHANGED <<thread, quality>>
    BY <1>2 DEF AddSchedulableWidget, control
  <2>2. Listed' = Listed \cup {w}
    BY <2>1, FrontKeeps DEF Listed
  <2> QED
    BY <2>1, <2>2 DEF QualityInv
<1>3. CASE RemoveSchedulableWidget
  <2>1. /\ gui \in Widgets /\ widgetList' = Without(gui) /\ UNCHANGED thread
        /\ quality' = [quality EXCEPT ![gui] = Full]
    BY <1>3 DEF RemoveSchedulableWidget, Destroyed, control
  <2>2. Listed' \subseteq Listed
    BY <2>1, WithoutKeeps DEF Listed
  <2>3. Listed \subseteq Widgets
    BY ListedLive
  <2> QED
    BY <2>1, <2>2, <2>3 DEF QualityInv
<1>4. CASE StopScheduler
  <2>1. quality' = Reset /\ UNCHANGED widgetList
    BY <1>4 DEF StopScheduler, registry
  <2>2. Listed \subseteq Widgets
    BY ListedLive
  <2> QED
    BY <2>1, <2>2 DEF Reset, Listed
<1>5. CASE ToggleOn \/ Rank \/ Visit \/ Apply \/ Copy \/ Compare
  <2>1. thread' # "off"
    BY <1>5 DEF ToggleOn, StartScheduler, Rank, RankWith, Visit, Apply, Copy, Compare
  <2> QED
    BY <2>1
<1>6. CASE SchedulerDeleted \/ ToggleOff \/ KillScheduler
  <2>1. gui' \in {"wait", "wait, then print", "kill", "gone"}
    BY <1>6 DEF SchedulerDeleted, ToggleOff, KillScheduler
  <2> QED
    BY <1>0, <2>1
<1>7. CASE ThreadEnds
  <2>1. gui' \in {"wait", "wait, then print", "kill"}
    BY <1>7 DEF ThreadEnds
  <2> QED
    BY <1>0, <2>1
<1> QED
  BY <1>1, <1>2, <1>3, <1>4, <1>5, <1>6, <1>7
     DEF Next, vars, registry, control, StreamerConnects, CloseWidget, Refresh,
         SetPrintFile, StopPrintData, GuiContinues, SchedulingThread, SkipRound

\* The data file's name.
LEMMA FileStep ==
    ASSUME IInv, [Next]_vars
    PROVE  FileNamesScheduler'
<1> USE DEF IInv, FileNamesScheduler, ControlInv, IsRunning, printer
<1>0. {"idle", "wait", "wait, then print", "kill", "gone"} \cap Widgets = {}
  BY SchedulingAssumption
<1>1. CASE UNCHANGED <<printing, dataFile>> /\ (thread' = "off" <=> thread = "off") /\ (gui = "kill" => gui' = "kill")
  BY <1>1
<1>2. CASE ToggleOn
  BY <1>2 DEF ToggleOn, StartScheduler
<1>3. CASE ToggleOff \/ KillScheduler \/ SchedulerDeleted \/ StopPrintData
  BY <1>3 DEF ToggleOff, KillScheduler, SchedulerDeleted, StopPrintData
<1>4. CASE StopScheduler
  BY <1>4 DEF StopScheduler, control
<1>5. CASE SetPrintFile
  BY <1>5 DEF SetPrintFile, control
<1>6. CASE ThreadEnds
  BY <1>6 DEF ThreadEnds
<1>7. CASE RemoveSchedulableWidget
  BY <1>0, <1>7 DEF RemoveSchedulableWidget, Destroyed, control
<1>8. CASE SchedulingThread /\ ~ThreadEnds
  <2>1. UNCHANGED <<printing, dataFile, gui>>
    BY <1>8 DEF SchedulingThread, SkipRound, Rank, Visit, Apply, Copy, Compare
  <2>2. thread # "off" /\ thread' # "off"
    BY <1>8 DEF SchedulingThread, SkipRound, Rank, RankWith, Visit, Apply, Copy, Compare
  <2> QED
    BY <1>1, <2>1, <2>2
<1> QED
  BY <1>1, <1>2, <1>3, <1>4, <1>5, <1>6, <1>7, <1>8
     DEF Next, vars, control, AddSchedulableWidget, StreamerConnects, CloseWidget, Refresh, GuiContinues

\* The list holds living widgets, each one once; a round of the proportional
\* scheduler holds the lock; qualities are full when no thread runs and none is
\* waited for; the data file's name says whether the scheduler runs.
THEOREM SchedulingInv == Spec => []IInv
<1>1. IInv /\ [Next]_vars => IInv'
  BY RegistryStep, FiguresStep, CountStep, ControlStep, RoundStep, QualityStep, FullStep, FileStep DEF IInv
<1> QED
  BY <1>1, SchedulingInit, PTL DEF Spec

\* Every state is well typed, and a widget a proportional round works on lives until
\* the round has given the lock back: its destructor waits in removeSchedulableWidget().
THEOREM LockThm == Spec => []LockInv
<1>1. IInv => LockInv
  <2> SUFFICES ASSUME IInv PROVE LockInv
    OBVIOUS
  <2>1. TypeOK
    <3>1. MaxRounds \in Nat
      BY SchedulingAssumption
    <3>2. alive \subseteq Widgets \ fresh /\ widgetList \in Seq(alive)
      BY DEF IInv, RegistryInv
    <3>3. perf \in [Widgets -> Perf] /\ effectiveTR \in Nat
      BY DEF IInv, FiguresInv
    <3>4. posted \in 0 .. MaxRounds + 1
      <4>1. refreshes \in 0 .. MaxRounds /\ posted \in 0 .. refreshes + 1
        BY DEF IInv, CountInv
      <4> QED
        BY <3>1, <4>1
    <3> QED
      BY <3>2, <3>3, <3>4 DEF IInv, TypeOK, ControlInv
  <2>2. LockProtects
    <3>1. Range(NoRound.order) = {}
      BY DEF NoRound, Range
    <3> QED
      BY <3>1 DEF IInv, LockProtects, InUse, RoundInv
  <2> QED
    BY <2>1, <2>2 DEF LockInv
<1> QED
  BY <1>1, SchedulingInv, PTL

\* When stopScheduler() has returned every listed widget runs at full quality, whatever
\* rounds were queued or under way, and the data file is named after the scheduler's state.
THEOREM StopThm == Spec => []StopInv
<1>1. IInv => StopInv
  BY DEF IInv, StopInv, StoppedAtFull, FullInv, IsRunning
<1> QED
  BY <1>1, SchedulingInv, PTL

-------------------------------------------------------------------------------
(* The shares of a round                                                     *)

\* What a round keeps of its widgets.
Fields == {"order", "prio", "asked", "total", "left", "got", "done", "at", "steady", "adjusted"}

\* The widgets that are not visited yet in this pass.
Remaining(r) == {r.order[i] : i \in r.at .. Len(r.order)}

RoundTypes(r) ==
    /\ DOMAIN r = Fields
    /\ r.order \in Seq(Widgets)
    /\ \A i, j \in 1 .. Len(r.order) : r.order[i] = r.order[j] => i = j
    /\ \A w \in Range(r.order) : r.prio[w] \in Nat \ {0} /\ r.asked[w] \in Nat
    /\ r.got \in [Range(r.order) -> Int]
    /\ r.done \subseteq Range(r.order)
    /\ r.total \in Nat /\ r.left \in Int /\ r.adjusted \in Int /\ r.at \in Nat \ {0}
    /\ r.steady \in BOOLEAN

\* Nobody has more than was asked, and what was given is missing from the total.
Balanced(r) ==
    /\ \A w \in Range(r.order) : r.got[w] <= r.asked[w] /\ (w \in r.done => r.got[w] = r.asked[w])
    /\ r.left = r.total - SumFunctionOnSet(r.got, Range(r.order))

\* The priorities that are left to divide by are at least those of the widgets to come.
Divisible(r) == /\ r.at \in 1 .. Len(r.order)
                /\ SumFunctionOnSet(r.prio, Remaining(r)) <= r.adjusted

RoundGoes(r) == RoundTypes(r) /\ (r.steady => Balanced(r))

ShareInv == /\ ReadLocked => RoundGoes(round)
            /\ thread = "visit" => Divisible(round)
            /\ thread = "apply" => round.left <= 0 \/ round.done = InUse

\* Quotients: that of a product, and that of numbers.
LEMMA QuotientOfProduct ==
    ASSUME NEW m \in Nat, NEW n \in Nat \ {0}
    PROVE  (n * m) \div n = m
  OBVIOUS

\* A product of numbers divided by one that is not 0.
LEMMA QuotientIsInt ==
    ASSUME NEW a \in Nat, NEW b \in Nat, NEW m \in Nat \ {0}, NEW n \in Int, n > 0
    PROVE  (a * b) \div (m * n) \in Int
<1>1. a * b \in Int /\ m * n \in Int /\ m * n > 0
  OBVIOUS
<1> QED
  BY <1>1

\* The order of a round is a sequence of different widgets, finitely many.
LEMMA OrderTypes ==
    ASSUME NEW r, RoundTypes(r)
    PROVE  /\ IsFiniteSet(Range(r.order)) /\ Range(r.order) \subseteq Widgets
           /\ Range(r.order) = {r.order[i] : i \in 1 .. Len(r.order)}
           /\ Len(r.order) \in Nat
<1>1. Len(r.order) \in Nat /\ DOMAIN r.order = 1 .. Len(r.order) /\ \A i \in 1 .. Len(r.order) : r.order[i] \in Widgets
  BY DEF RoundTypes
<1>2. Range(r.order) \subseteq Widgets /\ Range(r.order) = {r.order[i] : i \in 1 .. Len(r.order)}
  BY <1>1 DEF Range
<1>3. IsFiniteSet(Range(r.order))
  BY <1>2, SchedulingAssumption, FS_Subset
<1> QED
  BY <1>1, <1>2, <1>3

\* The widget that is visited, and the priorities there are to divide by.
LEMMA VisitedNow ==
    ASSUME NEW r, RoundTypes(r), Divisible(r), NEW w, w = r.order[r.at]
    PROVE  /\ w \in Range(r.order) /\ w \in Widgets
           /\ r.adjusted >= r.prio[w]
           /\ r.adjusted > 0
           /\ SumFunctionOnSet(r.prio, {r.order[i] : i \in r.at + 1 .. Len(r.order)}) <= r.adjusted - r.prio[w]
<1> DEFINE n == Len(r.order)
           Q == Range(r.order)
           R == Remaining(r)
           L == {r.order[i] : i \in r.at + 1 .. n}
<1>1. n \in Nat /\ r.at \in 1..n /\ Q \subseteq Widgets /\ IsFiniteSet(Q) /\ Q = {r.order[i] : i \in 1..n}
  BY OrderTypes DEF Divisible
<1>2. w \in R /\ R \subseteq Q
  BY <1>1 DEF Remaining
<1>3. L = R \ {w}
  <2>1. \A i \in r.at .. n : i \in 1..n /\ (i = r.at \/ i \in r.at + 1 .. n)
    BY <1>1
  <2>2. \A i \in r.at + 1 .. n : i \in 1..n /\ i \in r.at .. n /\ i # r.at
    BY <1>1
  <2>3. \A i \in r.at + 1 .. n : r.order[i] # w
    BY <1>1, <2>2 DEF RoundTypes
  <2> QED
    BY <2>1, <2>2, <2>3 DEF Remaining
<1>4. IsFiniteSet(R) /\ \A v \in R : r.prio[v] \in Nat \ {0} /\ r.prio[v] \in Int
  <2> HIDE DEF R
  <2>1. IsFiniteSet(R)
    BY <1>1, <1>2, FS_Subset
  <2> QED
    BY <1>2, <2>1 DEF RoundTypes
<1>5. IsFiniteSet(L) /\ \A v \in L : r.prio[v] \in Nat
  BY <1>3, <1>4, FS_Subset
<1> HIDE DEF L, R, n
<1>6. SumFunctionOnSet(r.prio, R) = r.prio[w] + SumFunctionOnSet(r.prio, L)
  BY <1>2, <1>3, <1>4, SumRemove
<1>7. SumFunctionOnSet(r.prio, L) \in Nat
  BY <1>5, SumOnSetIsNat
<1>8. r.prio[w] \in Nat \ {0} /\ r.adjusted \in Int /\ SumFunctionOnSet(r.prio, R) <= r.adjusted
  BY <1>2, <1>4 DEF Divisible, RoundTypes, R
<1>9. r.adjusted >= r.prio[w] /\ r.adjusted > 0 /\ SumFunctionOnSet(r.prio, L) <= r.adjusted - r.prio[w]
  <2> DEFINE s == SumFunctionOnSet(r.prio, L)
             t == SumFunctionOnSet(r.prio, R)
             p == r.prio[w]
             a == r.adjusted
  <2>1. t = p + s /\ s \in Nat /\ p \in Nat \ {0} /\ a \in Int /\ t <= a
    BY <1>6, <1>7, <1>8
  <2> HIDE DEF s, t, p, a
  <2>2. a >= p /\ a > 0 /\ s <= a - p
    BY <2>1
  <2> QED
    BY <2>2 DEF s, p, a
<1> QED
  BY <1>1, <1>2, <1>9 DEF L, n

\* What a visit changes.
LEMMA VisitedKeeps ==
    ASSUME NEW r, RoundGoes(r), NEW w \in Range(r.order), NEW need \in Nat, NEW scoop \in Int,
           r.steady => need = r.asked[w]
    PROVE  LET q == Visited(r, w, need, scoop)
           IN  /\ RoundGoes(q)
               /\ q.order = r.order /\ q.prio = r.prio /\ q.at = r.at
               /\ q.adjusted \in {r.adjusted, r.adjusted - r.prio[w]}
<1> DEFINE Q == Range(r.order)
           q == Visited(r, w, need, scoop)
           settles == r.got[w] >= need \/ scoop >= need - r.got[w]
<1>1. /\ DOMAIN r = Fields /\ r.got \in [Q -> Int] /\ r.done \subseteq Q /\ r.left \in Int
      /\ r.adjusted \in Int /\ r.prio[w] \in Nat \ {0} /\ r.got[w] \in Int
  BY DEF RoundGoes, RoundTypes
<1>2. /\ DOMAIN q = Fields
      /\ q.order = r.order /\ q.prio = r.prio /\ q.at = r.at /\ q.asked = r.asked /\ q.total = r.total
      /\ q.steady = r.steady
  BY <1>1 DEF Visited, Fields
<1>3. settles => /\ q.got = [r.got EXCEPT ![w] = need] /\ q.left = r.left + r.got[w] - need
                 /\ q.done = r.done \cup {w} /\ q.adjusted = r.adjusted - r.prio[w]
  BY <1>1 DEF Visited, Fields
<1>4. ~settles => /\ q.got = [r.got EXCEPT ![w] = r.got[w] + scoop] /\ q.left = r.left - scoop
                  /\ q.done = r.done \ {w} /\ q.adjusted = r.adjusted
  BY <1>1 DEF Visited, Fields
<1>5. PICK x \in Int : /\ q.got = [r.got EXCEPT ![w] = x] /\ q.left = r.left + r.got[w] - x
                       /\ x <= need /\ (settles => x = need)
  <2> HIDE DEF q
  <2>1. CASE settles
    BY <1>3, <2>1
  <2>2. CASE ~settles
    <3>1. r.got[w] + scoop \in Int /\ r.left - scoop = r.left + r.got[w] - (r.got[w] + scoop)
      BY <1>1
    <3>2. r.got[w] + scoop <= need
      BY <1>1, <2>2
    <3> QED
      BY <1>4, <2>2, <3>1, <3>2
  <2> QED
    BY <2>1, <2>2
<1> HIDE DEF q, settles
<1>6. RoundTypes(q)
  <2>1. q.got \in [Q -> Int] /\ q.left \in Int
    BY <1>1, <1>5
  <2>2. q.done \subseteq Q /\ q.adjusted \in Int
    BY <1>1, <1>3, <1>4
  <2> QED
    BY <1>2, <2>1, <2>2 DEF RoundGoes, RoundTypes
<1>7. ASSUME q.steady PROVE Balanced(q)
  <2>1. Balanced(r) /\ need = r.asked[w]
    BY <1>2, <1>7 DEF RoundGoes
  <2>2. q.got[w] = x /\ \A v \in Q \ {w} : q.got[v] = r.got[v]
    BY <1>1, <1>5
  <2>3. \A v \in Q : q.got[v] <= q.asked[v] /\ (v \in q.done => q.got[v] = q.asked[v])
    <3>1. x <= need /\ (w \in q.done => x = need)
      BY <1>3, <1>4, <1>5
    <3>2. \A v \in Q \ {w} : v \in q.done => v \in r.done
      BY <1>3, <1>4
    <3> QED
      BY <1>2, <2>1, <2>2, <3>1, <3>2 DEF Balanced
  <2>4. q.left = q.total - SumFunctionOnSet(q.got, Q)
    <3>1. w \in Q /\ IsFiniteSet(Q) /\ \A v \in Q : r.got[v] \in Int /\ q.got[v] \in Int
      BY <1>1, <1>5, OrderTypes DEF RoundGoes
    <3>2. SumFunctionOnSet(q.got, Q) = SumFunctionOnSet(r.got, Q) + q.got[w] - r.got[w]
      <4> HIDE DEF Q
      <4> QED
        BY <2>2, <3>1, SumChange
    <3>3. SumFunctionOnSet(r.got, Q) \in Int
      <4> HIDE DEF Q
      <4> QED
        BY <3>1, SumTypes
    <3>4. r.left = r.total - SumFunctionOnSet(r.got, Q) /\ r.total \in Int
      BY <2>1 DEF Balanced, RoundGoes, RoundTypes
    <3> QED
      BY <1>1, <1>2, <1>5, <2>2, <3>2, <3>3, <3>4
  <2> QED
    BY <1>2, <2>3, <2>4 DEF Balanced
<1>8. RoundGoes(q) /\ q.adjusted \in {r.adjusted, r.adjusted - r.prio[w]}
  BY <1>3, <1>4, <1>6, <1>7 DEF RoundGoes
<1> QED
  BY <1>2, <1>8 DEF q

\* A visit finds a number of scoops, and the round goes on.
LEMMA VisitStep ==
    ASSUME IInv, ShareInv, Visit
    PROVE  ShareInv'
<1> DEFINE w == round.order[round.at]
           need == perf[w].required
           scoop == (round.prio[w] * need) \div (BucketParts * round.adjusted)
           b == [round EXCEPT !.steady = @ /\ need = round.asked[w]]
           q == Visited(b, w, need, scoop)
           Q == Range(round.order)
           n == Len(round.order)
<1>1. thread = "visit" /\ RoundGoes(round) /\ Divisible(round)
  BY DEF Visit, ShareInv, ReadLocked
<1>2. round' = NextVisit(q) /\ thread' = IF AnotherPass(round') THEN "visit" ELSE "apply"
  BY Zenon DEF Visit
<1>3. DOMAIN round = Fields /\ round.steady \in BOOLEAN
  BY <1>1 DEF RoundGoes, RoundTypes
<1>4. /\ w \in Q /\ w \in Widgets /\ round.adjusted > 0
      /\ SumFunctionOnSet(round.prio, {round.order[i] : i \in round.at + 1 .. n}) <= round.adjusted - round.prio[w]
  BY <1>1, VisitedNow DEF RoundGoes
<1>5. round.prio[w] \in Nat \ {0} /\ round.adjusted \in Int
  BY <1>1, <1>4 DEF RoundGoes, RoundTypes
<1>6. need \in Nat
  BY <1>4 DEF IInv, FiguresInv, Perf
<1>7. scoop \in Int
  <2>1. BucketParts \in Nat \ {0}
    BY SchedulingAssumption
  <2> HIDE DEF w, need
  <2> QED
    BY <1>4, <1>5, <1>6, <2>1, QuotientIsInt
<1>8. /\ DOMAIN b = Fields
      /\ b.order = round.order /\ b.prio = round.prio /\ b.asked = round.asked /\ b.total = round.total
      /\ b.left = round.left /\ b.got = round.got /\ b.done = round.done /\ b.at = round.at
      /\ b.adjusted = round.adjusted
      /\ b.steady = (round.steady /\ need = round.asked[w])
  <2> HIDE DEF w, need
  <2> QED
    BY <1>3 DEF Fields
<1> HIDE DEF scoop, b, need, w
<1>9. RoundGoes(b) /\ (b.steady => need = b.asked[w])
  BY <1>1, <1>3, <1>8 DEF RoundGoes, RoundTypes, Balanced
<1>10. /\ RoundGoes(q)
       /\ q.order = round.order /\ q.prio = round.prio /\ q.at = round.at
       /\ q.adjusted \in {round.adjusted, round.adjusted - round.prio[w]}
  <2>1. w \in Range(b.order)
    BY <1>4, <1>8
  <2> QED
    BY <1>6, <1>7, <1>8, <1>9, <2>1, VisitedKeeps
<1> HIDE DEF q
<1>11. round.at \in 1..n /\ n \in Nat /\ IsFiniteSet(Q) /\ Q = {round.order[i] : i \in 1..n}
  BY <1>1, OrderTypes DEF Divisible, RoundGoes
<1>12. DOMAIN q = Fields /\ RoundTypes(q)
  BY <1>10 DEF RoundGoes, RoundTypes
<1>13. CASE round.at < n
  <2>1. round' = [q EXCEPT !.at = round.at + 1]
    BY <1>2, <1>10, <1>13 DEF NextVisit
  <2>2. /\ DOMAIN round' = Fields
        /\ round'.order = q.order /\ round'.prio = q.prio /\ round'.asked = q.asked /\ round'.total = q.total
        /\ round'.left = q.left /\ round'.got = q.got /\ round'.done = q.done /\ round'.at = round.at + 1
        /\ round'.adjusted = q.adjusted /\ round'.steady = q.steady
    BY <1>12, <2>1 DEF Fields
  <2>3. RoundGoes(round')
    <3>1. round.at + 1 \in Nat \ {0}
      BY <1>11
    <3> QED
      BY <1>10, <2>2, <3>1 DEF RoundGoes, RoundTypes, Balanced
  <2>4. Divisible(round')
    <3>1. round.at + 1 \in 1..n
      BY <1>11, <1>13
    <3>2. Remaining(round') = {round.order[i] : i \in round.at + 1 .. n}
      BY <1>10, <2>2 DEF Remaining
    <3>3. SumFunctionOnSet(round.prio, Remaining(round')) <= q.adjusted
      <4> DEFINE s == SumFunctionOnSet(round.prio, Remaining(round'))
                 a == round.adjusted
                 p == round.prio[w]
      <4>1. s <= a - p /\ q.adjusted \in {a, a - p} /\ a \in Int /\ p \in Nat
        BY <1>4, <1>5, <1>10, <3>2
      <4>2. s \in Int
        <5>1. \A i \in round.at + 1 .. n : i \in 1..n
          BY <1>11
        <5>2. Remaining(round') \subseteq Q
          BY <1>11, <3>2, <5>1
        <5>3. \A v \in Remaining(round') : round.prio[v] \in Int
          BY <1>1, <5>2 DEF RoundGoes, RoundTypes
        <5>4. IsFiniteSet(Remaining(round'))
          BY <1>11, <5>2, FS_Subset
        <5> QED
          BY <5>3, <5>4, SumTypes
      <4> HIDE DEF s, a, p
      <4>3. s <= q.adjusted
        BY <4>1, <4>2
      <4> QED
        BY <4>3 DEF s
    <3> QED
      BY <1>10, <2>2, <3>1, <3>3 DEF Divisible
  <2>5. thread' = "visit"
    BY <1>2, <1>11, <2>2 DEF AnotherPass
  <2> QED
    BY <2>3, <2>4, <2>5 DEF ShareInv, ReadLocked
<1>14. CASE ~(round.at < n)
  <2> DEFINE s == SumFunctionOnSet(round.prio, Q)
  <2>1. round' = [q EXCEPT !.at = 1, !.adjusted = s]
    BY <1>2, <1>10, <1>14 DEF NextVisit
  <2>2. s \in Int
    <3>1. \A v \in Q : round.prio[v] \in Int
      BY <1>1 DEF RoundGoes, RoundTypes
    <3> HIDE DEF Q
    <3> QED
      BY <1>11, <3>1, SumTypes
  <2> HIDE DEF s
  <2>3. /\ DOMAIN round' = Fields
        /\ round'.order = q.order /\ round'.prio = q.prio /\ round'.asked = q.asked /\ round'.total = q.total
        /\ round'.left = q.left /\ round'.got = q.got /\ round'.done = q.done /\ round'.at = 1
        /\ round'.adjusted = s /\ round'.steady = q.steady
    BY <1>12, <2>1 DEF Fields
  <2>4. RoundGoes(round')
    BY <1>10, <2>2, <2>3 DEF RoundGoes, RoundTypes, Balanced
  <2>5. Divisible(round')
    <3>1. 1 \in 1..n
      BY <1>11
    <3>2. Remaining(round') = Q
      BY <1>10, <1>11, <2>3 DEF Remaining
    <3> QED
      BY <1>10, <2>2, <2>3, <3>1, <3>2 DEF Divisible, s
  <2>6. thread' = "visit" \/ (thread' = "apply" /\ (~(round'.left > 0) \/ round'.done = Range(round'.order)))
    BY <1>2 DEF AnotherPass
  <2>7. round'.left \in Int
    BY <2>4 DEF RoundGoes, RoundTypes
  <2> QED
    BY <2>4, <2>5, <2>6, <2>7 DEF ShareInv, ReadLocked, InUse
<1> QED
  BY <1>13, <1>14

\* A priority is an integer.
LEMMA PriorityIsInt ==
    ASSUME NEW seen \in [Listed -> VisualShares], NEW clicked \in SUBSET Listed, NEW w \in Listed,
           IsFiniteSet(Listed)
    PROVE  ComputePriority(seen, clicked, w) \in Int
<1>1. InteractWeight \in Nat /\ seen[w] \in Int /\ NaN \in Int
  <2>1. InteractWeight \in Nat /\ VisualShares \subseteq Nat
    BY SchedulingAssumption
  <2>2. seen[w] \in VisualShares
    OBVIOUS
  <2>3. seen[w] \in Nat
    BY <2>1, <2>2
  <2>4. NaN \in Int
    BY DEF NaN
  <2> QED
    BY <2>1, <2>3, <2>4
<1>2. Pinteract(clicked, w) \in Int
  <2>1. CASE w \in clicked
    <3>1. IsFiniteSet(clicked) /\ clicked # {}
      BY <2>1, FS_Subset
    <3>2. Cardinality(clicked) \in Nat /\ Cardinality(clicked) # 0
      BY <3>1, FS_CardinalityType, FS_EmptySet
    <3> DEFINE k == Cardinality(clicked)
    <3> HIDE DEF k
    <3>3. InteractWeight \div k \in Int
      BY <1>1, <3>2 DEF k
    <3> QED
      BY <2>1, <3>3 DEF Pinteract, k
  <2>2. CASE w \notin clicked
    BY <2>2 DEF Pinteract
  <2> QED
    BY <2>1, <2>2
<1>3. Pvisual(seen, w) \in Int
  BY <1>1 DEF Pvisual
<1> QED
  BY <1>1, <1>2, <1>3 DEF ComputePriority

\* The round that begins has given nothing to anybody.
LEMMA RankStep ==
    ASSUME IInv, Rank
    PROVE  ShareInv'
<1> USE DEF IInv
<1>1. PICK seen \in [Listed -> VisualShares], clicked \in SUBSET Listed :
        \E own \in {[w \in Listed |-> ComputePriority(seen, clicked, w)]} :
          \E before \in {GridBefore(own)} :
            \E prio \in {Prioritize(own, before)} :
              \E sorted \in Ascending(prio, {w \in Listed : prio[w] > 0}) : RankWith(prio, sorted)
  BY Zenon DEF Rank
<1> DEFINE own == [w \in Listed |-> ComputePriority(seen, clicked, w)]
           before == GridBefore(own)
           prio == Prioritize(own, before)
           S == {w \in Listed : prio[w] > 0}
<1>2. PICK sorted \in Ascending(prio, S) : RankWith(prio, sorted)
  <2> HIDE DEF own
  <2> QED
    BY <1>1, Zenon DEF own
<1>3. Listed \subseteq Widgets /\ IsFiniteSet(Listed)
  <2>1. Listed \subseteq Widgets
    BY DEF RegistryInv, Listed, Range
  <2> QED
    BY <2>1, SchedulingAssumption, FS_Subset
<1>4. \A w \in Listed : prio[w] \in Int
  <2> SUFFICES ASSUME NEW w \in Listed PROVE prio[w] \in Int
    OBVIOUS
  <2>1. own[w] \in Int
    BY <1>3, PriorityIsInt
  <2> HIDE DEF own, before
  <2> QED
    BY <2>1 DEF Prioritize, WithOffset, NaN
<1> HIDE DEF prio
<1>5. S \subseteq Widgets /\ IsFiniteSet(S) /\ \A w \in S : prio[w] \in Nat \ {0}
  <2>1. S \subseteq Listed
    OBVIOUS
  <2>2. \A w \in S : prio[w] \in Nat \ {0}
    BY <1>4
  <2> HIDE DEF S
  <2> QED
    BY <1>3, <2>1, <2>2, FS_Subset
<1> HIDE DEF S
<1> DEFINE n == Len(sorted)
           Q == Range(sorted)
           asked == [w \in Q |-> perf[w].required]
           got == [w \in Q |-> 0]
           a == SumFunctionOnSet(prio, Q)
<1>6. /\ n \in Nat /\ sorted \in [1..n -> S] /\ sorted \in Seq(Widgets)
      /\ \A i, j \in 1..n : sorted[i] = sorted[j] => i = j
      /\ Q = {sorted[i] : i \in 1..n}
  <2>1. sorted \in SetToSeqs(S)
    BY <1>2 DEF Ascending
  <2>2. PICK m \in Nat : sorted \in [1..m -> S] /\ \A i, j \in 1..m : i # j => sorted[i] # sorted[j]
    BY <1>5, <2>1, FS_CardinalityType DEF SetToSeqs
  <2>3. sorted \in Seq(S) /\ Len(sorted) = m
    BY <2>2
  <2>4. sorted \in Seq(Widgets)
    BY <1>5, <2>2
  <2> QED
    BY <2>2, <2>3, <2>4 DEF Range
<1>7. Q \subseteq S /\ IsFiniteSet(Q)
  <2>1. Q \subseteq S
    BY <1>6
  <2> QED
    BY <1>5, <2>1, FS_Subset
<1>8. round' = [order |-> sorted, prio |-> prio, asked |-> asked, total |-> effectiveTR,
                left |-> effectiveTR, got |-> got, done |-> {}, at |-> 1, steady |-> TRUE, adjusted |-> a]
      /\ thread' = IF sorted = <<>> THEN "apply" ELSE "visit"
  BY <1>2 DEF RankWith
<1>9. \A w \in Q : asked[w] \in Nat /\ prio[w] \in Nat \ {0}
  BY <1>5, <1>7 DEF FiguresInv, Perf
<1>10. a \in Int /\ SumFunctionOnSet(got, Q) = 0
  <2>1. \A w \in Q : got[w] \in {0} /\ prio[w] \in Int
    BY <1>9
  <2>2. 0 \in {0} /\ \A x, y \in {0} : x + y \in {0}
    OBVIOUS
  <2> HIDE DEF Q, got
  <2>3. SumFunctionOnSet(got, Q) \in {0}
    BY <1>7, <2>1, <2>2, SumTypes
  <2>4. SumFunctionOnSet(prio, Q) \in Int
    BY <1>7, <2>1, SumTypes
  <2> QED
    BY <2>3, <2>4
<1>11. effectiveTR \in Nat /\ \A w \in Q : got[w] = 0
  BY DEF FiguresInv
<1>12. got \in [Q -> Int] /\ asked \in [Q -> Nat]
  BY <1>9
<1> HIDE DEF Q, asked, got, a, n
<1>13. Range(round'.order) = Q /\ round'.order = sorted
  BY <1>8 DEF Q
<1>14. RoundTypes(round')
  BY <1>6, <1>8, <1>9, <1>10, <1>11, <1>12, <1>13 DEF RoundTypes, Fields, n
<1>15. Balanced(round')
  BY <1>8, <1>9, <1>10, <1>11, <1>13 DEF Balanced
<1>16. thread' = "visit" => Divisible(round')
  <2> SUFFICES ASSUME thread' = "visit" PROVE Divisible(round')
    OBVIOUS
  <2>1. n # 0
    BY <1>6, <1>8 DEF n
  <2>2. 1 \in 1..n
    BY <1>6, <2>1
  <2>3. Remaining(round') = Q
    BY <1>6, <1>8 DEF Remaining, n
  <2> QED
    BY <1>8, <1>10, <2>2, <2>3 DEF Divisible, n, a
<1>17. thread' = "apply" => round'.done = Range(round'.order)
  <2>1. sorted = <<>> => Q = {}
    BY DEF Q, Range
  <2> QED
    BY <1>8, <1>13, <2>1
<1> QED
  BY <1>8, <1>14, <1>15, <1>16, <1>17 DEF ShareInv, RoundGoes, ReadLocked, InUse

\* The shares of a round.
LEMMA ShareStep ==
    ASSUME IInv, ShareInv, [Next]_vars
    PROVE  ShareInv'
<1>1. CASE UNCHANGED <<thread, round>>
  BY <1>1 DEF ShareInv, ReadLocked, InUse, RoundGoes, RoundTypes, Balanced, Divisible, Remaining
<1>2. CASE thread' \notin {"visit", "apply"}
  BY <1>2 DEF ShareInv, ReadLocked
<1>3. CASE Rank
  BY <1>3, RankStep
<1>4. CASE Visit
  BY <1>4, VisitStep
<1>5. CASE Copy
  BY <1>2, <1>5 DEF Copy
<1>6. CASE Compare
  BY <1>2, <1>6 DEF Compare
<1> QED
  BY <1>1, <1>2, <1>3, <1>4, <1>5, <1>6
     DEF Next, vars, control, AddSchedulableWidget, StreamerConnects, CloseWidget, Refresh, ToggleOn, StartScheduler,
         ToggleOff, SetPrintFile, StopPrintData, KillScheduler, GuiContinues, RemoveSchedulableWidget, StopScheduler,
         SchedulerDeleted, SchedulingThread, SkipRound, Apply, ThreadEnds

\* At the end of a round that had enough nobody was given less than was asked.
LEMMA EnoughIsGiven ==
    ASSUME IInv, ShareInv, thread = "apply", Steady,
           SumFunction([w \in InUse |-> perf[w].required]) <= round.total, NEW w \in InUse
    PROVE  round.got[w] = perf[w].required
<1> DEFINE r == round
           Q == Range(r.order)
           need == [v \in Q |-> perf[v].required]
<1>1. /\ RoundTypes(r) /\ Balanced(r) /\ (r.left <= 0 \/ r.done = Q)
      /\ \A v \in Q : perf[v].required = r.asked[v]
  BY DEF ShareInv, ReadLocked, RoundGoes, Steady, InUse
<1>2. IsFiniteSet(Q) /\ w \in Q
  BY <1>1, OrderTypes DEF InUse
<1>3. CASE r.done = Q
  BY <1>1, <1>2, <1>3 DEF Balanced
<1>4. CASE r.left <= 0
  <2>1. \A v \in Q : r.got[v] \in Int /\ need[v] \in Int /\ r.got[v] <= need[v]
    BY <1>1 DEF RoundTypes, Balanced
  <2>2. SumFunctionOnSet(need, Q) <= r.total
    BY DEF SumFunction, InUse
  <2> HIDE DEF need, Q
  <2>3. SumFunctionOnSet(need, Q) \in Int /\ SumFunctionOnSet(r.got, Q) \in Int
    BY <1>2, <2>1, SumTypes
  <2>4. r.left = r.total - SumFunctionOnSet(r.got, Q) /\ r.left \in Int /\ r.total \in Int
    BY <1>1 DEF Balanced, RoundTypes, Q
  <2>5. SumFunctionOnSet(need, Q) <= SumFunctionOnSet(r.got, Q)
    BY <1>4, <2>2, <2>3, <2>4
  <2>6. r.got[w] = need[w]
    BY <1>2, <2>1, <2>5, SumReached
  <2> QED
    BY <1>2, <2>6 DEF need
<1> QED
  BY <1>1, <1>3, <1>4

\* When the total suffices for the needs a round began with, everybody in it who needs
\* something gets full quality, whatever the priorities, the scoops and their rounding.
THEOREM EnoughThm == Spec => EnoughServesAll
<1> DEFINE Serves == thread = "apply" /\ thread' = "loop" /\ Steady /\
                     SumFunction([w \in InUse |-> perf[w].required]) <= round.total =>
                       \A w \in InUse : perf[w].required > 0 => quality'[w] = Full
<1>1. Init => ShareInv
  BY DEF Init, LaunchScheduler, ShareInv, ReadLocked
<1>2. IInv /\ ShareInv /\ [Next]_vars => ShareInv'
  BY ShareStep
<1>3. IInv /\ ShareInv /\ [Next]_vars => [Serves]_vars
  <2> SUFFICES ASSUME IInv, ShareInv, Next, thread = "apply", thread' = "loop", Steady,
                      SumFunction([w \in InUse |-> perf[w].required]) <= round.total,
                      NEW w \in InUse, perf[w].required > 0
               PROVE  quality'[w] = Full
    OBVIOUS
  <2>1. Apply
    BY DEF Next, control, AddSchedulableWidget, StreamerConnects, CloseWidget, Refresh, ToggleOn, IsRunning,
           ToggleOff, SetPrintFile, StopPrintData, KillScheduler, GuiContinues, RemoveSchedulableWidget,
           StopScheduler, SchedulerDeleted, SchedulingThread, SkipRound, Rank, Visit, Copy, Compare, ThreadEnds
  <2>2. w \in Widgets /\ w \in Range(round.order) /\ perf[w].required \in Nat
    <3>1. w \in alive /\ w \in Range(round.order)
      BY DEF IInv, RoundInv, ReadLocked, InUse
    <3> QED
      BY <3>1 DEF IInv, RegistryInv, FiguresInv, Perf
  <2>3. quality'[w] = (round.got[w] * Full) \div perf[w].required
    BY <2>1, <2>2 DEF Apply
  <2>4. round.got[w] = perf[w].required
    BY EnoughIsGiven
  <2>5. Full \in Nat
    BY DEF Full
  <2> HIDE DEF Serves
  <2> QED
    BY <2>2, <2>3, <2>4, <2>5, QuotientOfProduct
<1>4. Spec => []ShareInv
  BY <1>1, <1>2, SchedulingInv, PTL DEF Spec
<1> QED
  <2>1. EnoughServesAll <=> [][Serves]_vars
    BY DEF EnoughServesAll
  <2> QED
    BY <1>3, <1>4, <2>1, SchedulingInv, PTL DEF Spec
===============================================================================
