---------------------------- MODULE FittsLawProofs ----------------------------
(***************************************************************************)
(* Theorems about FittsLaw for any number of targets, widgets, pointers,   *)
(* presses and suspended clicks.  A widget that runs a round is alive and  *)
(* not being deleted, so a trap outlives neither.  A receiver increments   *)
(* the counter of frames only when it is 0, and then nothing is announced  *)
(* that the GUI thread could decrement it for.  And as long as only the    *)
(* Finish button closes widgets, no open one is unknown to the data object *)
(* but those that missed names.                                            *)
(***************************************************************************)
EXTENDS FittsLaw, SequenceTheorems, TLAPS

Tests == [running : BOOLEAN, dry : BOOLEAN, ready : BOOLEAN, hits : 0 .. NumTargets - 1,
          rounds : 0 .. NumRounds - 1, pointer : Pointers \cup {NobodyElse}]

Positions == 0 .. NumRounds * NumTargets - 1

\* Where a thread that runs may be.
Places == {"top", "test", "toSleep", "sleep", "swap", "emit", "acquire", "recv", "ending"}

TypeInv == /\ launched \in 0..NumWidgets
           /\ members \in Seq(Widgets) /\ Len(members) <= 3
           /\ doomed \in Seq(1..launched)
           /\ calls \in Seq(Widgets)
           /\ test \in [Widgets -> Tests]
           /\ targetPos \in [Widgets -> SUBSET Positions]
           /\ trap \in [Pointers -> 0..NumWidgets]
           /\ gui \in [at : {"loop", "locks", "join", "count", "signal"}, for : 0..launched]
           /\ gui.at # "loop" => gui.for # 0
           /\ rpc \in [Widgets -> {"none", "off", "destroyed"} \cup Places]
           /\ queueLength \in [Widgets -> Int]
           /\ frameReceived \in [Widgets -> Nat]

\* Only living widgets run rounds, and none whose destructor has begun.
RunningInv == \A w \in Widgets : test[w].running => w \in alive /\ ~Closing(w)

\* A receiver that is about to increment the counter has found it 0.
FrameInv == \A w \in Widgets :
                /\ w \in alive /\ ~Closing(w) => /\ queueLength[w] = Announced(w)
                                                 /\ rpc[w] = "swap" => queueLength[w] = 0
                /\ w \notin 1..launched => /\ rpc[w] = "none"
                                           /\ queueLength[w] = 0 /\ frameReceived[w] = 0

\* Without a data object, or while it is being deleted, only missed widgets are open; and
\* all other open widgets are those of the object's users.
ObjectInv == ~closedOne =>
                /\ doomed # <<>> \/ ~dataObject => \A w \in open \ missed : Closing(w)
                /\ dataObject => \A w \in open \ missed : Closing(w) \/ w \in ToSet(members)

IInv == TypeInv /\ TrapHasRound /\ TargetKept /\ RunningInv /\ FrameInv /\ ObjectInv

-------------------------------------------------------------------------------
(* Sequences and rounds                                                      *)

LEMMA AppendTo ==
    ASSUME NEW S, NEW s \in Seq(S), NEW e \in S
    PROVE  /\ Append(s, e) \in Seq(S) /\ Append(s, e) # <<>>
           /\ ToSet(Append(s, e)) = ToSet(s) \cup {e}
<1>1. /\ Append(s, e) \in Seq(S) /\ Len(Append(s, e)) = Len(s) + 1 /\ Len(s) \in Nat
      /\ \A i \in 1..Len(s) : Append(s, e)[i] = s[i]
      /\ Append(s, e)[Len(s) + 1] = e
  BY AppendProperties, LenProperties
<1>2. DOMAIN s = 1..Len(s) /\ DOMAIN Append(s, e) = 1 .. Len(s) + 1
  BY <1>1, LenProperties
<1>3. Append(s, e) # <<>>
  BY <1>1, EmptySeq
<1>4. ToSet(Append(s, e)) = ToSet(s) \cup {e}
  <2>1. \A x \in ToSet(Append(s, e)) : x \in ToSet(s) \cup {e}
    BY <1>1, <1>2 DEF ToSet
  <2>2. \A x \in ToSet(s) \cup {e} : x \in ToSet(Append(s, e))
    BY <1>1, <1>2 DEF ToSet
  <2> QED
    BY <2>1, <2>2
<1> QED
  BY <1>1, <1>3, <1>4

LEMMA TakeFirst ==
    ASSUME NEW S, NEW s \in Seq(S), s # <<>>
    PROVE  /\ Tail(s) \in Seq(S) /\ Head(s) \in S
           /\ ToSet(s) = ToSet(Tail(s)) \cup {Head(s)}
<1>1. /\ Tail(s) \in Seq(S) /\ Head(s) \in S /\ Len(Tail(s)) = Len(s) - 1
      /\ \A i \in 1..Len(Tail(s)) : Tail(s)[i] = s[i + 1]
  BY HeadTailProperties
<1>2. Len(s) \in Nat \ {0} /\ Head(s) = s[1]
  BY EmptySeq
<1>3. DOMAIN s = 1..Len(s) /\ DOMAIN Tail(s) = 1 .. Len(s) - 1
  BY <1>1, LenProperties
<1>4. \A x \in ToSet(s) : x \in ToSet(Tail(s)) \cup {Head(s)}
  <2>1. \A i \in 1..Len(s) : i = 1 \/ (i - 1 \in 1 .. Len(s) - 1 /\ s[i] = Tail(s)[i - 1])
    BY <1>1, <1>2
  <2>2. \A i \in 1..Len(s) : s[i] = Head(s) \/ \E j \in DOMAIN Tail(s) : s[i] = Tail(s)[j]
    BY <2>1, <1>2, <1>3
  <2> QED
    BY <2>2, <1>3, Zenon DEF ToSet
<1>5. \A x \in ToSet(Tail(s)) \cup {Head(s)} : x \in ToSet(s)
  BY <1>1, <1>2, <1>3 DEF ToSet
<1> QED
  BY <1>1, <1>4, <1>5

LEMMA TakeLast ==
    ASSUME NEW S, NEW s \in Seq(S), s # <<>>
    PROVE  /\ Front(s) \in Seq(S) /\ Last(s) \in S
           /\ ToSet(s) = ToSet(Front(s)) \cup {Last(s)}
<1>1. Len(s) \in Nat \ {0} /\ Last(s) = s[Len(s)] /\ Front(s) = SubSeq(s, 1, Len(s) - 1)
  BY EmptySeq DEF Last, Front
<1>2. \A i \in 1..Len(s) : s[i] \in S
  BY ElementOfSeq
<1>3. /\ Front(s) \in Seq(S) /\ Len(Front(s)) = Len(s) - 1
      /\ \A i \in 1 .. Len(s) - 1 : Front(s)[i] = s[i]
  <2> DEFINE n == Len(s) - 1
             f == SubSeq(s, 1, n)
  <2>1. n \in Nat /\ \A i \in 1..n : s[i] \in S
    BY <1>1, <1>2
  <2> HIDE DEF n
  <2>2. /\ f \in Seq(S)
        /\ Len(f) = IF 1 <= n THEN n - 1 + 1 ELSE 0
        /\ \A i \in 1 .. n - 1 + 1 : f[i] = s[1 + i - 1]
    BY <2>1, SubSeqProperties
  <2> HIDE DEF f
  <2>3. Len(f) = n
    BY <2>1, <2>2
  <2>4. n - 1 + 1 = n /\ \A i \in 1..n : 1 + i - 1 = i
    BY <2>1
  <2>5. \A i \in 1..n : f[i] = s[i]
    BY <2>2, <2>4
  <2> QED
    BY <1>1, <2>2, <2>3, <2>5 DEF n, f
<1>4. DOMAIN s = 1..Len(s) /\ DOMAIN Front(s) = 1 .. Len(s) - 1
  <2>1. DOMAIN s = 1..Len(s)
    BY LenProperties, Zenon
  <2>2. DOMAIN Front(s) = 1..Len(Front(s))
    BY <1>3, LenProperties, Zenon
  <2> QED
    BY <2>1, <2>2, <1>3, Zenon
<1>5. \A x \in ToSet(s) : x \in ToSet(Front(s)) \cup {Last(s)}
  <2>1. \A i \in 1..Len(s) : i = Len(s) \/ i \in 1 .. Len(s) - 1
    BY <1>1
  <2> QED
    BY <2>1, <1>1, <1>3, <1>4, Zenon DEF ToSet
<1>6. \A x \in ToSet(Front(s)) \cup {Last(s)} : x \in ToSet(s)
  BY <1>1, <1>3, <1>4 DEF ToSet
<1> QED
  BY <1>1, <1>2, <1>3, <1>5, <1>6

\* One entry of a counter is set.
LEMMA SetEntry ==
    ASSUME NEW D, NEW S, NEW f \in [D -> S], NEW x, NEW e, x \in D => e \in S
    PROVE  [f EXCEPT ![x] = e] \in [D -> S]
OBVIOUS

LEMMA Numbers == NumRounds \in Nat \ {0} /\ NumTargets \in Nat \ {0}
<1>1. 2 ^ 0 = 1 /\ 2 ^ 1 = 2 /\ 2 ^ 2 = 4
  OBVIOUS
<1>2. NumSubjects - 1 = 0 \/ NumSubjects - 1 = 1 \/ NumSubjects - 1 = 2
  BY SubjectsAssumption
<1>3. NumRounds = 1 \/ NumRounds = 2 \/ NumRounds = 4
  BY <1>1, <1>2 DEF NumRounds
<1> QED
  BY <1>3, TargetsAssumption

\* The position of a target is one of the list's.
LEMMA IndexInList == \A t \in Tests : Index(t) \in Positions
<1> SUFFICES ASSUME NEW t \in Tests PROVE Index(t) \in Positions
  OBVIOUS
<1> DEFINE r == t.rounds  R == NumRounds  N == NumTargets
<1>1. r \in 0 .. R - 1 /\ t.hits \in 0 .. N - 1 /\ R \in Nat /\ N \in Nat
  BY Numbers DEF Tests
<1>2. r * N \in Nat /\ R * N \in Nat /\ (r + 1) * N = r * N + N
  BY <1>1
<1>3. (r + 1) * N <= R * N
  BY <1>1
<1> HIDE DEF r, R, N
<1> QED
  BY <1>1, <1>2, <1>3 DEF Index, Positions, r, R, N

\* A round that is over does not run, and its counters are those of a test.
LEMMA EndedTests ==
    ASSUME NEW t, NEW u \in Tests, t \in {u, [u EXCEPT !.hits = NumTargets]}
    PROVE  RoundEnded(t) \in Tests /\ ~RoundEnded(t).running
<1>1. NumRounds \in Nat \ {0} /\ 0 \in 0 .. NumTargets - 1 /\ 0 \in 0 .. NumRounds - 1
  BY Numbers
<1> DEFINE k == IF u.dry THEN u.rounds ELSE IF u.rounds + 1 >= NumRounds THEN 0 ELSE u.rounds + 1
<1>2. k \in 0 .. NumRounds - 1
  BY <1>1 DEF Tests
<1>3. RoundEnded(t) = [u EXCEPT !.running = FALSE, !.ready = FALSE, !.hits = 0,
                                !.pointer = NobodyElse, !.rounds = k]
  BY DEF RoundEnded, Tests
<1> HIDE DEF k
<1> QED
  BY <1>1, <1>2, <1>3 DEF Tests

LEMMA ReadiedTests ==
    ASSUME NEW t \in Tests, NEW d \in BOOLEAN
    PROVE  Readied(t, d) \in Tests /\ ~Readied(t, d).running
<1> DEFINE asked == [t EXCEPT !.dry = d]
           ended == IF t.running THEN RoundEnded(asked) ELSE asked
<1>1. asked \in Tests /\ asked.running = t.running
  BY DEF Tests
<1>2. ended \in Tests /\ ~ended.running
  <2> HIDE DEF asked
  <2> QED
    BY <1>1, EndedTests
<1>3. Readied(t, d) = [ended EXCEPT !.ready = TRUE, !.hits = 0,
                                        !.rounds = IF @ >= NumRounds THEN 0 ELSE @]
  BY DEF Readied
<1>4. 0 \in 0 .. NumTargets - 1 /\ 0 \in 0 .. NumRounds - 1
  BY Numbers
<1> HIDE DEF ended
<1> QED
  BY <1>2, <1>3, <1>4 DEF Tests

-------------------------------------------------------------------------------
(* What the operations do to the rounds                                      *)

LEMMA NextTarget ==
    ASSUME TypeInv, NEW w \in Widgets, NEW t \in Tests, DetermineNextTarget(w, t)
    PROVE  /\ targetPos' \in [Widgets -> SUBSET Positions]
           /\ \A x \in Widgets : targetPos[x] \subseteq targetPos'[x]
           /\ ~t.dry => Index(t) \in targetPos'[w]
<1>1. Index(t) \in Positions
  BY IndexInList
<1>2. targetPos \in [Widgets -> SUBSET Positions]
  BY DEF TypeInv
<1> QED
  BY <1>1, <1>2 DEF DetermineNextTarget

LEMMA Finishing ==
    ASSUME TypeInv, NEW W, FinishRound(W)
    PROVE  /\ trap' \in [Pointers -> 0..NumWidgets]
           /\ \A p \in Pointers : trap'[p] # 0 => /\ trap'[p] = trap[p]
                                                  /\ \A w \in W : test[w].pointer # p
<1>1. trap \in [Pointers -> 0..NumWidgets] /\ 0 \in 0..NumWidgets
  BY WidgetsAssumption DEF TypeInv
<1> QED
  BY <1>1 DEF FinishRound

\* The buttons of the controller end rounds and begin none.
LEMMA Readying ==
    ASSUME TypeInv, TrapHasRound, NEW W, NEW d \in BOOLEAN, SetReady(W, d)
    PROVE  /\ test' \in [Widgets -> Tests]
           /\ \A w \in Widgets : test'[w] = test[w] \/ ~test'[w].running
           /\ trap' \in [Pointers -> 0..NumWidgets]
           /\ \A p \in Pointers : trap'[p] # 0 => /\ trap'[p] = trap[p]
                                                  /\ test'[trap[p]] = test[trap[p]]
<1>1. /\ FinishRound({w \in W : test[w].running})
      /\ test' = [w \in Widgets |-> IF w \in W THEN Readied(test[w], d) ELSE test[w]]
  BY DEF SetReady
<1>2. \A w \in Widgets : Readied(test[w], d) \in Tests /\ ~Readied(test[w], d).running
  BY ReadiedTests DEF TypeInv
<1>3. test' \in [Widgets -> Tests] /\ \A w \in Widgets : test'[w] = test[w] \/ ~test'[w].running
  BY <1>1, <1>2 DEF TypeInv
<1>4. /\ trap' \in [Pointers -> 0..NumWidgets]
      /\ \A p \in Pointers : trap'[p] # 0 =>
             /\ trap'[p] = trap[p]
             /\ \A w \in {v \in W : test[v].running} : test[w].pointer # p
  BY <1>1, Finishing
<1>5. ASSUME NEW p \in Pointers, trap'[p] # 0
      PROVE  test'[trap[p]] = test[trap[p]]
  <2>1. /\ trap[p] \in Widgets /\ test[trap[p]].running /\ test[trap[p]].pointer = p
    BY <1>4, <1>5 DEF TrapHasRound, TypeInv, Widgets
  <2>2. trap[p] \notin W
    BY <2>1, <1>4, <1>5
  <2> QED
    BY <2>1, <2>2, <1>1
<1> QED
  BY <1>3, <1>4, <1>5

\* Next Round and Practice Round.
LEMMA Pressing ==
    ASSUME TypeInv, TrapHasRound, AdvanceRound \/ PracticeRound
    PROVE  /\ Idle /\ dataObject
           /\ UNCHANGED <<members, dataObject, targetPos, launched, calls, doomed, closedOne, missed,
                          gui, rpc, queueLength, frameReceived>>
           /\ test' \in [Widgets -> Tests]
           /\ \A w \in Widgets : test'[w] = test[w] \/ ~test'[w].running
           /\ trap' \in [Pointers -> 0..NumWidgets]
           /\ \A p \in Pointers : trap'[p] # 0 => /\ trap'[p] = trap[p]
                                                  /\ test'[trap[p]] = test[trap[p]]
<1>1. PICK id, dry : NextRound(id, dry)
  BY DEF AdvanceRound, PracticeRound
<1>2. /\ Idle /\ dataObject
      /\ UNCHANGED <<members, dataObject, targetPos, launched, calls, doomed, closedOne, missed,
                     gui, rpc, queueLength, frameReceived>>
      /\ (\E W : SetReady(W, FALSE) \/ SetReady(W, TRUE)) \/ UNCHANGED <<test, trap>>
  BY <1>1, Zenon DEF NextRound, ControllerShown
<1>3. CASE UNCHANGED <<test, trap>>
  BY <1>2, <1>3 DEF TypeInv
<1>4. CASE \E W : SetReady(W, FALSE) \/ SetReady(W, TRUE)
  <2>1. PICK W : SetReady(W, FALSE) \/ SetReady(W, TRUE)
    BY <1>4
  <2> QED
    BY <2>1, <1>2, Readying
<1> QED
  BY <1>2, <1>3, <1>4

LEMMA Receiving ==
    ASSUME TypeInv, NEW w \in Streams, ReceiverNext(w)
    PROVE  /\ w \in Widgets
           /\ UNCHANGED <<launched, members, dataObject, test, targetPos, trap, calls, doomed,
                          closedOne, missed, gui>>
           /\ rpc[w] \in Places
           /\ rpc'[w] \in Places \cup {"off"}
           /\ rpc' = [rpc EXCEPT ![w] = rpc'[w]]
           /\ queueLength' \in [Widgets -> Int] /\ frameReceived' \in [Widgets -> Nat]
           /\ \A x \in Widgets \ {w} : /\ queueLength'[x] = queueLength[x]
                                       /\ frameReceived'[x] = frameReceived[x]
<1>1. w \in Widgets /\ rpc \in [Widgets -> {"none", "off", "destroyed"} \cup Places]
  BY WidgetsAssumption DEF Widgets, TypeInv
<1>2. queueLength \in [Widgets -> Int] /\ frameReceived \in [Widgets -> Nat]
  BY DEF TypeInv
<1>3. PICK from \in Places, to \in Places \cup {"off"} : Receiver(w, from, to)
  BY DEF ReceiverNext, LoopTop, TestQueue, SleepNotFull, SpuriousWake, Swap, EmitFrame, Acquire,
         RecvFrame, RecvFails, ThreadEnds, Places
<1>4. /\ UNCHANGED <<launched, members, dataObject, test, targetPos, trap, calls, doomed,
                     closedOne, missed, gui>>
      /\ rpc[w] = from /\ rpc' = [rpc EXCEPT ![w] = to]
  BY <1>3 DEF Receiver, roundVars, guiVars
<1>5. \/ queueLength' = queueLength
      \/ queueLength' = [queueLength EXCEPT ![w] = @ + 1]
  BY DEF ReceiverNext, LoopTop, TestQueue, SleepNotFull, SpuriousWake, Swap, EmitFrame, Acquire,
         RecvFrame, RecvFails, ThreadEnds
<1>6. \/ frameReceived' = frameReceived
      \/ frameReceived' = [frameReceived EXCEPT ![w] = @ + 1]
  BY DEF ReceiverNext, LoopTop, TestQueue, SleepNotFull, SpuriousWake, Swap, EmitFrame, Acquire,
         RecvFrame, RecvFails, ThreadEnds
<1>7. queueLength' \in [Widgets -> Int] /\ \A x \in Widgets \ {w} : queueLength'[x] = queueLength[x]
  BY <1>1, <1>2, <1>5
<1>8. /\ frameReceived' \in [Widgets -> Nat]
      /\ \A x \in Widgets \ {w} : frameReceived'[x] = frameReceived[x]
  BY <1>1, <1>2, <1>6
<1> QED
  BY <1>1, <1>3, <1>4, <1>7, <1>8

LEMMA UserCloses ==
    ASSUME TypeInv, NEW u, NEW q \in Seq(1..launched)
    PROVE  /\ CloseUser(u, q) \in Seq(1..launched)
           /\ ToSet(q) \subseteq ToSet(CloseUser(u, q))
           /\ u \in DOMAIN members /\ members[u] \in open => members[u] \in ToSet(CloseUser(u, q))
<1>1. CASE u \in DOMAIN members /\ members[u] \in open
  <2>1. PICK e \in 1..launched : e = members[u]
    BY <1>1 DEF open, alive
  <2>2. CloseUser(u, q) = Append(q, e)
    BY <1>1, <2>1 DEF CloseUser
  <2> DEFINE S == 1..launched
  <2>3. q \in Seq(S) /\ e \in S
    OBVIOUS
  <2> HIDE DEF S
  <2>4. Append(q, e) \in Seq(S) /\ ToSet(Append(q, e)) = ToSet(q) \cup {e}
    BY <2>3, AppendTo
  <2> QED
    BY <2>1, <2>2, <2>4 DEF S
<1>2. CASE ~(u \in DOMAIN members /\ members[u] \in open)
  BY <1>2 DEF CloseUser
<1> QED
  BY <1>1, <1>2

\* A user is added, or user C is replaced.
LEMMA Adding ==
    ASSUME members \in Seq(Widgets), Len(members) <= 3, NEW v \in Widgets, AddWidget(v)
    PROVE  /\ members' \in Seq(Widgets) /\ Len(members') <= 3
           /\ v \in ToSet(members')
           /\ dataObject => ToSet(members) \ Overlooked(v) \subseteq ToSet(members')
<1>1. CASE ~dataObject
  <2>1. members' = <<v>>
    BY <1>1 DEF AddWidget
  <2> QED
    BY <2>1, <1>1 DEF ToSet
<1>2. CASE dataObject /\ Len(members) < 3
  <2>1. members' = Append(members, v)
    BY <1>2 DEF AddWidget
  <2>2. Len(members') = Len(members) + 1 /\ members' \in Seq(Widgets)
    BY <2>1, AppendProperties
  <2>3. ToSet(members') = ToSet(members) \cup {v}
    BY <2>1, AppendTo
  <2> QED
    BY <2>2, <2>3, <1>2, LenProperties
<1>3. CASE dataObject /\ Len(members) = 3
  <2>1. members' = [members EXCEPT ![3] = v]
    BY <1>3 DEF AddWidget
  <2>2. members' \in Seq(Widgets) /\ Len(members') = 3
    BY <2>1, <1>3
  <2>3. members'[3] = v /\ members'[1] = members[1] /\ members'[2] = members[2]
    BY <2>1, <1>3
  <2>4. ToSet(members) = {members[1], members[2], members[3]}
    BY <1>3 DEF ToSet
  <2>5. ToSet(members') = {members[1], members[2], v}
    BY <2>2, <2>3 DEF ToSet
  <2>6. members[3] \in Overlooked(v)
    BY <1>3 DEF Overlooked
  <2> QED
    BY <2>2, <2>4, <2>5, <2>6
<1>4. Len(members) < 3 \/ Len(members) = 3
  <2>1. Len(members) \in Nat
    BY LenProperties
  <2>2. \A n \in Nat : n <= 3 => n < 3 \/ n = 3
    OBVIOUS
  <2> QED
    BY <2>1, <2>2
<1> QED
  BY <1>1, <1>2, <1>3, <1>4, Zenon

\* The Finish button closes every open widget of a user.
LEMMA ClosingAll ==
    ASSUME TypeInv, CloseAll
    PROVE  /\ doomed' \in Seq(1..launched)
           /\ ToSet(doomed) \subseteq ToSet(doomed')
           /\ open \cap ToSet(members) \subseteq ToSet(doomed')
<1> DEFINE q1 == CloseUser(1, doomed)
           q2 == CloseUser(2, q1)
           q3 == CloseUser(3, q2)
<1>1. doomed \in Seq(1..launched) /\ members \in Seq(Widgets) /\ Len(members) <= 3
  BY DEF TypeInv
<1>2. q1 \in Seq(1..launched) /\ ToSet(doomed) \subseteq ToSet(q1)
  BY <1>1, UserCloses
<1>3. 1 \in DOMAIN members /\ members[1] \in open => members[1] \in ToSet(q1)
  BY <1>1, UserCloses
<1> HIDE DEF q1
<1>4. q2 \in Seq(1..launched) /\ ToSet(q1) \subseteq ToSet(q2)
  BY <1>2, UserCloses
<1>5. 2 \in DOMAIN members /\ members[2] \in open => members[2] \in ToSet(q2)
  BY <1>2, UserCloses
<1> HIDE DEF q2
<1>6. q3 \in Seq(1..launched) /\ ToSet(q2) \subseteq ToSet(q3)
  BY <1>4, UserCloses
<1>7. 3 \in DOMAIN members /\ members[3] \in open => members[3] \in ToSet(q3)
  BY <1>4, UserCloses
<1> HIDE DEF q3
<1>8. doomed' = q3
  BY DEF CloseAll, q1, q2, q3
<1>9. \A u \in DOMAIN members : u = 1 \/ u = 2 \/ u = 3
  BY <1>1, LenProperties
<1>10. ASSUME NEW x \in open \cap ToSet(members)
       PROVE  x \in ToSet(q3)
  <2>1. PICK u \in DOMAIN members : x = members[u]
    BY DEF ToSet
  <2> QED
    BY <2>1, <1>3, <1>4, <1>5, <1>6, <1>7, <1>9
<1> QED
  BY <1>2, <1>4, <1>6, <1>8, <1>10

-------------------------------------------------------------------------------
(* The invariant holds at first, and the types are kept                      *)

LEMMA InitInv == Init => IInv
<1> SUFFICES ASSUME Init PROVE IInv
  OBVIOUS
<1>1. NumTargets \in Nat \ {0} /\ NumRounds \in Nat \ {0} /\ NumSubjects \in 1..3 /\ NumWidgets \in Nat
  BY Numbers, SubjectsAssumption, WidgetsAssumption
<1>2. /\ launched = 0 /\ members = <<>> /\ dataObject = FALSE /\ calls = <<>> /\ doomed = <<>>
      /\ closedOne = FALSE /\ gui = [at |-> "loop", for |-> 0]
      /\ test = [w \in Widgets |-> Fresh] /\ targetPos = [w \in Widgets |-> {}]
      /\ trap = [p \in Pointers |-> 0] /\ rpc = [w \in Widgets |-> "none"]
      /\ queueLength = [w \in Widgets |-> 0] /\ frameReceived = [w \in Widgets |-> 0]
  BY DEF Init, ClearTargetPosList
<1>3. alive = {} /\ open = {}
  BY <1>2 DEF alive, open
<1>4. Fresh \in Tests /\ ~Fresh.running
  BY <1>1 DEF Fresh, Tests
<1>5. TypeInv
  <2>1. members \in Seq(Widgets) /\ Len(members) = 0 /\ doomed \in Seq(1..launched) /\ calls \in Seq(Widgets)
    BY <1>2, EmptySeq
  <2> QED
    BY <2>1, <1>1, <1>2, <1>4 DEF TypeInv
<1>6. TrapHasRound /\ TargetKept
  BY <1>2, <1>3 DEF TrapHasRound, TargetKept
<1>7. RunningInv
  BY <1>2, <1>4 DEF RunningInv
<1>8. FrameInv
  BY <1>2, <1>3 DEF FrameInv
<1>9. ObjectInv
  BY <1>2, <1>3 DEF ObjectInv
<1> QED
  BY <1>5, <1>6, <1>7, <1>8, <1>9 DEF IInv

LEMMA TypesKept ==
    ASSUME IInv, Next
    PROVE  TypeInv'
<1> USE DEF IInv
<1>a. TypeInv /\ TrapHasRound
  OBVIOUS
<1>b. /\ launched \in 0..NumWidgets /\ members \in Seq(Widgets) /\ Len(members) <= 3
      /\ doomed \in Seq(1..launched) /\ calls \in Seq(Widgets)
      /\ test \in [Widgets -> Tests] /\ targetPos \in [Widgets -> SUBSET Positions]
      /\ trap \in [Pointers -> 0..NumWidgets]
      /\ gui \in [at : {"loop", "locks", "join", "count", "signal"}, for : 0..launched]
      /\ gui.at # "loop" => gui.for # 0
      /\ rpc \in [Widgets -> {"none", "off", "destroyed"} \cup Places]
      /\ queueLength \in [Widgets -> Int] /\ frameReceived \in [Widgets -> Nat]
  BY <1>a DEF TypeInv
<1>c. NumTargets \in Nat \ {0} /\ NumSubjects \in 1..3 /\ NumWidgets \in Nat
  BY Numbers, SubjectsAssumption, WidgetsAssumption
<1>d. \A w \in Widgets : w \in alive => w \in 1..launched
  BY DEF alive
<1>1. CASE Launch
  <2>1. /\ launched' = launched + 1 /\ launched + 1 \in Widgets
        /\ AddWidget(launched + 1)
        /\ UNCHANGED <<test, targetPos, trap, calls, doomed, gui, rpc, queueLength, frameReceived>>
    BY <1>1 DEF Launch, rcvVars
  <2>2. members' \in Seq(Widgets) /\ Len(members') <= 3
    BY <2>1, <1>b, Adding
  <2>3. launched' \in 0..NumWidgets /\ 1..launched \subseteq 1..launched' /\ 0..launched \subseteq 0..launched'
    BY <2>1, <1>b DEF Widgets
  <2>4. doomed' \in Seq(1..launched')
    BY <2>1, <2>3, <1>b, SeqMonotonic
  <2>5. gui' \in [at : {"loop", "locks", "join", "count", "signal"}, for : 0..launched']
    BY <2>1, <2>3, <1>b
  <2> QED
    BY <2>1, <2>2, <2>3, <2>4, <2>5, <1>b DEF TypeInv
<1>2. CASE AdvanceRound \/ PracticeRound
  BY <1>2, <1>a, <1>b, Pressing DEF TypeInv
<1>3. CASE ClickGoesOn
  <2>1. /\ DetermineNextTarget(Last(calls), test[Last(calls)])
        /\ calls # <<>> /\ calls' = Front(calls)
        /\ UNCHANGED <<members, test, trap, launched, doomed, gui, rpc, queueLength, frameReceived>>
    BY <1>3 DEF ClickGoesOn, rcvVars
  <2>2. Last(calls) \in Widgets /\ calls' \in Seq(Widgets)
    BY <2>1, <1>b, TakeLast
  <2>3. targetPos' \in [Widgets -> SUBSET Positions]
    BY <2>1, <2>2, <1>a, <1>b, NextTarget
  <2> QED
    BY <2>1, <2>2, <2>3, <1>b DEF TypeInv
<1>4. CASE CloseAll
  <2>1. doomed' \in Seq(1..launched)
    BY <1>4, <1>a, ClosingAll
  <2> QED
    BY <1>4, <2>1, <1>b DEF CloseAll, TypeInv, rcvVars
<1>5. CASE Destroy
  <2> DEFINE w == Head(doomed)
  <2>1. /\ doomed # <<>> /\ doomed' = Tail(doomed) /\ FinishRound({w})
        /\ test' = [test EXCEPT ![w] = Fresh] /\ members' = <<>>
        /\ gui' = [at |-> "locks", for |-> w]
        /\ UNCHANGED <<launched, calls, targetPos, rpc, queueLength, frameReceived>>
    BY <1>5 DEF Destroy, DeleteDataObject
  <2>2. w \in 1..launched /\ doomed' \in Seq(1..launched)
    BY <2>1, <1>b, TakeFirst
  <2>3. trap' \in [Pointers -> 0..NumWidgets]
    BY <2>1, <1>a, Finishing
  <2>4. Fresh \in Tests
    <3>1. 0 \in 0 .. NumTargets - 1 /\ 0 \in 0 .. NumRounds - 1
      BY Numbers
    <3> QED
      BY <3>1 DEF Fresh, Tests
  <2>5. test' \in [Widgets -> Tests]
    BY <2>1, <2>4, <1>b
  <2>6. members' \in Seq(Widgets) /\ Len(members') <= 3
    BY <2>1, <1>c, EmptySeq
  <2>7. gui' \in [at : {"loop", "locks", "join", "count", "signal"}, for : 0..launched] /\ gui'.for # 0
    BY <2>1, <2>2
  <2> QED
    BY <2>1, <2>2, <2>3, <2>5, <2>6, <2>7, <1>b DEF TypeInv
<1>6. CASE ReleaseLocks
  <2>1. /\ gui' = [gui EXCEPT !.at = "join"] /\ gui.at = "locks"
        /\ rpc' = [rpc EXCEPT ![gui.for] = IF @ = "sleep" THEN "test" ELSE @]
        /\ queueLength' = [queueLength EXCEPT ![gui.for] = -1]
        /\ UNCHANGED <<launched, members, test, targetPos, trap, calls, doomed, frameReceived>>
    BY <1>6 DEF ReleaseLocks, roundVars
  <2>2. rpc' \in [Widgets -> {"none", "off", "destroyed"} \cup Places]
    BY <2>1, <1>b DEF Places
  <2>3. queueLength' \in [Widgets -> Int]
    <3> DEFINE n == -1
    <3>1. n \in Int /\ queueLength' = [queueLength EXCEPT ![gui.for] = n]
      BY <2>1
    <3> HIDE DEF n
    <3> QED
      BY <3>1, <1>b
  <2>4. gui' \in [at : {"loop", "locks", "join", "count", "signal"}, for : 0..launched] /\ gui'.for # 0
    BY <2>1, <1>b
  <2> QED
    BY <2>1, <2>2, <2>3, <2>4, <1>b DEF TypeInv
<1>7. CASE Destroyed
  <2>1. /\ gui' = [at |-> "loop", for |-> 0]
        /\ rpc' = [rpc EXCEPT ![gui.for] = "destroyed"]
        /\ queueLength' = [queueLength EXCEPT ![gui.for] = 0]
        /\ frameReceived' = [frameReceived EXCEPT ![gui.for] = 0]
        /\ targetPos' = [targetPos EXCEPT ![gui.for] = {}]
        /\ UNCHANGED <<launched, members, test, trap, calls, doomed>>
    BY <1>7 DEF Destroyed
  <2>2. gui' \in [at : {"loop", "locks", "join", "count", "signal"}, for : 0..launched] /\ gui'.at = "loop"
    BY <2>1, <1>b
  <2>3. rpc' \in [Widgets -> {"none", "off", "destroyed"} \cup Places]
    BY <2>1, <1>b, SetEntry
  <2>4. queueLength' \in [Widgets -> Int] /\ frameReceived' \in [Widgets -> Nat]
    BY <2>1, <1>b, SetEntry
  <2>5. targetPos' \in [Widgets -> SUBSET Positions]
    BY <2>1, <1>b, SetEntry
  <2> QED
    BY <2>1, <2>2, <2>3, <2>4, <2>5, <1>b DEF TypeInv
<1>8. CASE ReleaseBackBuffer
  <2>1. /\ gui' = [gui EXCEPT !.at = "signal"] /\ gui.at = "count"
        /\ queueLength' = [queueLength EXCEPT ![gui.for] = @ - 1]
        /\ UNCHANGED <<launched, members, test, targetPos, trap, calls, doomed, rpc, frameReceived>>
    BY <1>8 DEF ReleaseBackBuffer, roundVars
  <2>2. gui' \in [at : {"loop", "locks", "join", "count", "signal"}, for : 0..launched] /\ gui'.for # 0
    BY <2>1, <1>b
  <2>3. queueLength' \in [Widgets -> Int]
    <3>1. gui.for \in Widgets
      BY <2>1, <1>b, <1>c DEF Widgets
    <3>2. PICK n \in Int : n = queueLength[gui.for] - 1
      BY <3>1, <1>b
    <3> QED
      BY <2>1, <3>2, <1>b
  <2> QED
    BY <2>1, <2>2, <2>3, <1>b DEF TypeInv
<1>9. CASE SignalNotFull
  <2>1. /\ gui' = [at |-> "loop", for |-> 0]
        /\ rpc' = [rpc EXCEPT ![gui.for] = IF queueLength[gui.for] = 0 /\ @ = "sleep" THEN "test"
                                           ELSE @]
        /\ UNCHANGED <<launched, members, test, targetPos, trap, calls, doomed, queueLength,
                       frameReceived>>
    BY <1>9 DEF SignalNotFull, roundVars
  <2>2. rpc' \in [Widgets -> {"none", "off", "destroyed"} \cup Places]
    BY <2>1, <1>b DEF Places
  <2>3. gui' \in [at : {"loop", "locks", "join", "count", "signal"}, for : 0..launched] /\ gui'.at = "loop"
    BY <2>1, <1>b
  <2> QED
    BY <2>1, <2>2, <2>3, <1>b DEF TypeInv
<1>10. ASSUME NEW w \in Widgets, StreamerConnects(w) \/ Miss(w) \/ Drag(w) \/ CloseOne(w) \/ HandleFrame(w)
       PROVE  TypeInv'
  <2>1. CASE StreamerConnects(w)
    BY <2>1, <1>b DEF StreamerConnects, roundVars, guiVars, TypeInv
  <2>2. CASE Miss(w)
    <3>1. targetPos' \in [Widgets -> SUBSET Positions]
      BY <2>2, <1>a, <1>b, NextTarget DEF Miss
    <3> QED
      BY <2>2, <3>1, <1>b DEF Miss, guiVars, rcvVars, TypeInv
  <2>3. CASE Drag(w)
    BY <2>3, <1>b DEF Drag, roundVars, guiVars, TypeInv
  <2>4. CASE CloseOne(w)
    <3>1. w \in 1..launched /\ doomed' = Append(doomed, w)
      BY <2>4, <1>d DEF CloseOne, open
    <3>2. doomed' \in Seq(1..launched)
      BY <3>1, <1>b, AppendTo
    <3> QED
      BY <2>4, <3>2, <1>b DEF CloseOne, roundVars, rcvVars, TypeInv
  <2>5. CASE HandleFrame(w)
    <3>1. /\ gui' = [at |-> "count", for |-> w] /\ w \in 1..launched /\ w # 0
          /\ frameReceived[w] > 0 /\ frameReceived' = [frameReceived EXCEPT ![w] = @ - 1]
          /\ UNCHANGED <<launched, members, test, targetPos, trap, calls, doomed, rpc, queueLength>>
      BY <2>5, <1>d DEF HandleFrame, roundVars
    <3>2. gui' \in [at : {"loop", "locks", "join", "count", "signal"}, for : 0..launched] /\ gui'.for # 0
      BY <3>1
    <3>3. frameReceived' \in [Widgets -> Nat]
      BY <3>1, <1>b
    <3> QED
      BY <3>1, <3>2, <3>3, <1>b DEF TypeInv
  <2> QED
    BY <1>10, <2>1, <2>2, <2>3, <2>4, <2>5
<1>11. ASSUME NEW w \in Widgets, NEW p \in Pointers, StartRound(p, w)
       PROVE  TypeInv'
  <2>1. /\ trap' = [trap EXCEPT ![p] = w]
        /\ UNCHANGED <<launched, members, doomed, gui, queueLength, frameReceived>>
    BY <1>11 DEF StartRound
  <2>2. trap' \in [Pointers -> 0..NumWidgets]
    BY <2>1, <1>b, <1>c DEF Widgets
  <2> DEFINE t == [test[w] EXCEPT !.running = TRUE, !.hits = 0, !.pointer = p]
  <2>3. t \in Tests
    <3>1. test[w] \in Tests /\ 0 \in 0 .. NumTargets - 1
      BY <1>b, <1>c
    <3> QED
      BY <3>1 DEF Tests
  <2>4. CASE StartPractice(p, w)
    <3>1. test' = [test EXCEPT ![w] = t] /\ DetermineNextTarget(w, t) /\ UNCHANGED <<calls, rpc>>
      BY <2>4 DEF StartPractice
    <3> HIDE DEF t
    <3>2. targetPos' \in [Widgets -> SUBSET Positions]
      BY <3>1, <2>3, <1>a, NextTarget
    <3> QED
      BY <3>1, <3>2, <2>1, <2>2, <2>3, <1>b DEF TypeInv
  <2>5. CASE StartReal(p, w)
    <3>1. /\ test' = [test EXCEPT ![w] = t] /\ calls' = Append(calls, w) /\ ResumeThreadLoop(w)
          /\ UNCHANGED targetPos
      BY <2>5, <1>b DEF StartReal, Tests
    <3> HIDE DEF t
    <3>2. calls' \in Seq(Widgets)
      BY <3>1, <1>b, AppendTo
    <3>3. rpc' \in [Widgets -> {"none", "off", "destroyed"} \cup Places]
      BY <3>1, <1>b DEF ResumeThreadLoop, Places
    <3> QED
      BY <3>1, <3>2, <3>3, <2>1, <2>2, <2>3, <1>b DEF TypeInv
  <2> QED
    BY <1>11, <2>4, <2>5 DEF StartRound
<1>12. ASSUME NEW w \in Widgets, NEW p \in Pointers, Hit(p, w)
       PROVE  TypeInv'
  <2> DEFINE t == [test[w] EXCEPT !.hits = @ + 1]
  <2>1. /\ UNCHANGED <<launched, members, doomed, calls, gui, rpc, queueLength, frameReceived>>
        /\ \/ /\ t.hits = NumTargets /\ FinishRound({w})
              /\ test' = [test EXCEPT ![w] = RoundEnded(t)] /\ UNCHANGED targetPos
           \/ /\ t.hits # NumTargets /\ DetermineNextTarget(w, t)
              /\ test' = [test EXCEPT ![w] = t] /\ UNCHANGED trap
    BY <1>12 DEF Hit, guiVars
  <2>2. test[w] \in Tests /\ test[w].hits \in 0 .. NumTargets - 1 /\ t.hits = test[w].hits + 1
    BY <1>b DEF Tests
  <2>3. CASE t.hits = NumTargets
    <3>1. t = [test[w] EXCEPT !.hits = NumTargets]
      BY <2>2, <2>3 DEF Tests
    <3> HIDE DEF t
    <3>2. RoundEnded(t) \in Tests
      BY <3>1, <2>2, EndedTests
    <3>3. trap' \in [Pointers -> 0..NumWidgets]
      BY <2>1, <2>3, <1>a, Finishing
    <3> QED
      BY <2>1, <2>3, <3>2, <3>3, <1>b DEF TypeInv
  <2>4. CASE t.hits # NumTargets
    <3>1. t.hits \in 0 .. NumTargets - 1
      BY <2>2, <2>4, <1>c
    <3>2. t \in Tests
      BY <3>1, <2>2 DEF Tests
    <3> HIDE DEF t
    <3>3. targetPos' \in [Widgets -> SUBSET Positions]
      BY <2>1, <2>4, <3>2, <1>a, NextTarget
    <3> QED
      BY <2>1, <2>4, <3>2, <3>3, <1>b DEF TypeInv
  <2> QED
    BY <2>3, <2>4
<1>13. ASSUME NEW w \in Streams, ReceiverNext(w)
       PROVE  TypeInv'
  <2>1. rpc' \in [Widgets -> {"none", "off", "destroyed"} \cup Places]
    <3>1. rpc' = [rpc EXCEPT ![w] = rpc'[w]] /\ rpc'[w] \in Places \cup {"off"}
      BY <1>13, <1>a, Receiving
    <3> QED
      BY <3>1, <1>b
  <2> QED
    BY <2>1, <1>13, <1>a, <1>b, Receiving DEF TypeInv
<1> QED
  BY <1>1, <1>2, <1>3, <1>4, <1>5, <1>6, <1>7, <1>8, <1>9, <1>10, <1>11, <1>12, <1>13
     DEF Next, GuiNext

-------------------------------------------------------------------------------
(* Rounds                                                                    *)

Rounds == TrapHasRound /\ TargetKept /\ RunningInv

\* Steps that begin and end no round.
LEMMA SameRounds ==
    ASSUME TypeInv, TypeInv', Rounds, UNCHANGED <<test, trap, calls>>,
           \A w \in Widgets : targetPos[w] \subseteq targetPos'[w],
           \A w \in alive : w \in alive',
           \A w \in Widgets : Closing(w)' => Closing(w)
    PROVE  Rounds'
<1>1. RunningInv'
  BY DEF Rounds, RunningInv
<1>2. TrapHasRound'
  BY DEF Rounds, TrapHasRound
<1>3. \A w \in alive' : w \in Widgets
  BY WidgetsAssumption DEF alive, TypeInv, Widgets
<1>4. TargetKept'
  BY <1>3 DEF Rounds, RunningInv, TargetKept, Index
<1> QED
  BY <1>1, <1>2, <1>4 DEF Rounds

LEMMA RoundsKept ==
    ASSUME IInv, Next, TypeInv'
    PROVE  Rounds'
<1>a. TypeInv /\ Rounds /\ TrapHasRound /\ TargetKept /\ RunningInv /\ FrameInv
  BY DEF IInv, Rounds
<1>b. /\ launched \in 0..NumWidgets /\ calls \in Seq(Widgets) /\ doomed \in Seq(1..launched)
      /\ test \in [Widgets -> Tests] /\ targetPos \in [Widgets -> SUBSET Positions]
      /\ trap \in [Pointers -> 0..NumWidgets] /\ NumWidgets \in Nat
      /\ rpc \in [Widgets -> {"none", "off", "destroyed"} \cup Places]
  BY <1>a, WidgetsAssumption DEF TypeInv
<1>c. \A w : w \in alive <=> w \in 1..launched /\ rpc[w] # "destroyed"
  BY DEF alive
<1>d. \A w : w \in alive' <=> w \in 1..launched' /\ rpc'[w] # "destroyed"
  BY DEF alive
<1>e. 1..launched \subseteq Widgets
  BY <1>b DEF Widgets
<1>f. \A p \in Pointers : trap[p] # 0 => /\ trap[p] \in Widgets /\ trap[p] \in alive
                                         /\ test[trap[p]].running /\ test[trap[p]].pointer = p
  BY <1>a, <1>c, <1>e DEF TrapHasRound
<1>1. CASE Launch
  <2>1. /\ launched' = launched + 1 /\ Idle
        /\ UNCHANGED <<test, targetPos, trap, calls, gui, rpc>>
    BY <1>1 DEF Launch, rcvVars
  <2>2. \A w \in alive : w \in alive'
    BY <2>1, <1>b, <1>c, <1>d
  <2>3. \A w \in Widgets : Closing(w)' => Closing(w)
    BY <2>1 DEF Closing
  <2> QED
    BY <2>1, <2>2, <2>3, <1>a, SameRounds
<1>2. CASE AdvanceRound \/ PracticeRound
  <2>1. /\ UNCHANGED <<targetPos, launched, calls, gui, rpc>>
        /\ \A w \in Widgets : test'[w] = test[w] \/ ~test'[w].running
        /\ \A p \in Pointers : trap'[p] # 0 => /\ trap'[p] = trap[p]
                                               /\ test'[trap[p]] = test[trap[p]]
    BY <1>2, <1>a, Pressing
  <2>2. \A w : w \in alive <=> w \in alive'
    BY <2>1, <1>c, <1>d
  <2>3. TrapHasRound'
    BY <2>1, <2>2, <1>f DEF TrapHasRound
  <2>4. RunningInv'
    BY <2>1, <2>2, <1>a DEF RunningInv, Closing
  <2>5. TargetKept'
    BY <2>1, <2>2, <1>a, <1>c, <1>e DEF TargetKept, Index
  <2> QED
    BY <2>3, <2>4, <2>5 DEF Rounds
<1>3. CASE ClickGoesOn
  <2> DEFINE v == Last(calls)
  <2>1. /\ DetermineNextTarget(v, test[v]) /\ calls # <<>> /\ calls' = Front(calls)
        /\ UNCHANGED <<test, trap, launched, gui, rpc>>
    BY <1>3 DEF ClickGoesOn, rcvVars
  <2>2. v \in Widgets /\ ToSet(calls) = ToSet(calls') \cup {v}
    BY <2>1, <1>b, TakeLast
  <2> HIDE DEF v
  <2>3. /\ \A x \in Widgets : targetPos[x] \subseteq targetPos'[x]
        /\ ~test[v].dry => Index(test[v]) \in targetPos'[v]
    BY <2>1, <2>2, <1>a, <1>b, NextTarget
  <2>4. \A w : w \in alive <=> w \in alive'
    BY <2>1, <1>c, <1>d
  <2>5. TrapHasRound'
    BY <2>1, <2>4, <1>f DEF TrapHasRound
  <2>6. RunningInv'
    BY <2>1, <2>4, <1>a DEF RunningInv, Closing
  <2>7. TargetKept'
    BY <2>1, <2>2, <2>3, <2>4, <1>a, <1>c, <1>e DEF TargetKept, Index
  <2> QED
    BY <2>5, <2>6, <2>7 DEF Rounds
<1>4. CASE CloseAll
  <2>1. UNCHANGED <<test, targetPos, trap, calls, gui, launched, rpc>>
    BY <1>4 DEF CloseAll, rcvVars
  <2>2. \A w \in alive : w \in alive'
    BY <2>1, <1>c, <1>d
  <2>3. \A w \in Widgets : Closing(w)' => Closing(w)
    BY <2>1 DEF Closing
  <2> QED
    BY <2>1, <2>2, <2>3, <1>a, SameRounds
<1>5. CASE Destroy
  <2> DEFINE v == Head(doomed)
  <2>1. /\ doomed # <<>> /\ FinishRound({v}) /\ test' = [test EXCEPT ![v] = Fresh]
        /\ gui' = [at |-> "locks", for |-> v]
        /\ UNCHANGED <<launched, calls, targetPos, rpc>>
    BY <1>5 DEF Destroy
  <2>2. v \in Widgets
    BY <2>1, <1>b, <1>e, TakeFirst
  <2> HIDE DEF v
  <2>3. \A p \in Pointers : trap'[p] # 0 => trap'[p] = trap[p] /\ test[v].pointer # p
    BY <2>1, <1>a, Finishing
  <2>4. /\ \A w : w \in alive <=> w \in alive'
        /\ \A w \in Widgets : test'[w] = IF w = v THEN Fresh ELSE test[w]
    BY <2>1, <2>2, <1>b, <1>c, <1>d
  <2>5. TrapHasRound'
    BY <2>3, <2>4, <1>f DEF TrapHasRound
  <2>6. RunningInv'
    BY <2>1, <2>4, <1>a DEF RunningInv, Closing, Fresh
  <2>7. TargetKept'
    BY <2>1, <2>4, <1>a, <1>c, <1>e DEF TargetKept, Index, Fresh
  <2> QED
    BY <2>5, <2>6, <2>7 DEF Rounds
<1>6. CASE ReleaseLocks
  <2>1. /\ gui.at = "locks" /\ gui' = [gui EXCEPT !.at = "join"]
        /\ rpc' = [rpc EXCEPT ![gui.for] = IF @ = "sleep" THEN "test" ELSE @]
        /\ UNCHANGED <<launched, test, targetPos, trap, calls>>
    BY <1>6 DEF ReleaseLocks, roundVars
  <2>2. \A w \in alive : w \in alive'
    BY <2>1, <1>b, <1>c, <1>d, <1>e
  <2>3. \A w \in Widgets : Closing(w)' => Closing(w)
    BY <2>1, <1>a DEF Closing, TypeInv
  <2> QED
    BY <2>1, <2>2, <2>3, <1>a, SameRounds
<1>7. CASE Destroyed
  <2> DEFINE v == gui.for
  <2>1. /\ gui.at = "join" /\ gui' = [at |-> "loop", for |-> 0]
        /\ rpc' = [rpc EXCEPT ![v] = "destroyed"]
        /\ targetPos' = [targetPos EXCEPT ![v] = {}]
        /\ UNCHANGED <<launched, test, trap, calls>>
    BY <1>7 DEF Destroyed
  <2>2. v \in Widgets /\ ~test[v].running
    <3>1. v \in 1..launched
      BY <2>1, <1>a, <1>b DEF TypeInv
    <3> QED
      BY <3>1, <2>1, <1>a, <1>e DEF RunningInv, Closing
  <2> HIDE DEF v
  <2>3. \A w : w \in alive' <=> w \in alive /\ w # v
    BY <2>1, <2>2, <1>b, <1>c, <1>d, <1>e
  <2>4. \A w \in Widgets : w # v => targetPos'[w] = targetPos[w]
    BY <2>1, <1>b
  <2>5. TrapHasRound'
    BY <2>1, <2>2, <2>3, <1>f DEF TrapHasRound
  <2>6. RunningInv'
    BY <2>1, <2>2, <2>3, <1>a DEF RunningInv, Closing
  <2>7. TargetKept'
    BY <2>1, <2>3, <2>4, <1>a, <1>c, <1>e DEF TargetKept, Index
  <2> QED
    BY <2>5, <2>6, <2>7 DEF Rounds
<1>8. CASE ReleaseBackBuffer
  <2>1. gui.at = "count" /\ gui' = [gui EXCEPT !.at = "signal"]
        /\ UNCHANGED <<launched, test, targetPos, trap, calls, rpc>>
    BY <1>8 DEF ReleaseBackBuffer, roundVars
  <2>2. \A w \in alive : w \in alive'
    BY <2>1, <1>c, <1>d
  <2>3. \A w \in Widgets : Closing(w)' => Closing(w)
    BY <2>1, <1>a DEF Closing, TypeInv
  <2> QED
    BY <2>1, <2>2, <2>3, <1>a, SameRounds
<1>9. CASE SignalNotFull
  <2>1. /\ gui' = [at |-> "loop", for |-> 0]
        /\ rpc' = [rpc EXCEPT ![gui.for] = IF queueLength[gui.for] = 0 /\ @ = "sleep" THEN "test"
                                           ELSE @]
        /\ UNCHANGED <<launched, test, targetPos, trap, calls>>
    BY <1>9 DEF SignalNotFull, roundVars
  <2>2. \A w \in alive : w \in alive'
    BY <2>1, <1>b, <1>c, <1>d, <1>e
  <2>3. \A w \in Widgets : Closing(w)' => Closing(w)
    BY <2>1 DEF Closing
  <2> QED
    BY <2>1, <2>2, <2>3, <1>a, SameRounds
<1>10. ASSUME NEW v \in Widgets, StreamerConnects(v) \/ Miss(v) \/ Drag(v) \/ CloseOne(v) \/ HandleFrame(v)
       PROVE  Rounds'
  <2>1. UNCHANGED <<launched, test, trap, calls>>
    BY <1>10 DEF StreamerConnects, Miss, Drag, CloseOne, HandleFrame, roundVars, guiVars
  <2>2. rpc' = rpc \/ rpc' = [rpc EXCEPT ![v] = "off"]
    BY <1>10 DEF StreamerConnects, Miss, Drag, CloseOne, HandleFrame, rcvVars
  <2>3. gui' = gui \/ gui' = [at |-> "count", for |-> v]
    BY <1>10 DEF StreamerConnects, Miss, Drag, CloseOne, HandleFrame, guiVars
  <2>4. targetPos' = targetPos \/ DetermineNextTarget(v, test[v])
    BY <1>10 DEF StreamerConnects, Miss, Drag, CloseOne, HandleFrame, roundVars
  <2>5. \A w \in Widgets : targetPos[w] \subseteq targetPos'[w]
    BY <2>4, <1>a, <1>b, NextTarget
  <2>6. \A w \in alive : w \in alive'
    BY <2>1, <2>2, <1>b, <1>c, <1>d, <1>e
  <2>7. \A w \in Widgets : Closing(w)' => Closing(w)
    BY <2>3 DEF Closing
  <2> QED
    BY <2>1, <2>5, <2>6, <2>7, <1>a, SameRounds
<1>11. ASSUME NEW v \in Widgets, NEW q \in Pointers, StartRound(q, v)
       PROVE  Rounds'
  <2> DEFINE t == [test[v] EXCEPT !.running = TRUE, !.hits = 0, !.pointer = q]
  <2>1. /\ Idle /\ v \in alive /\ ~test[v].running /\ trap' = [trap EXCEPT ![q] = v]
        /\ UNCHANGED <<launched, gui>>
    BY <1>11 DEF StartRound, open
  <2>2. t.running /\ t.pointer = q /\ t.dry = test[v].dry /\ t \in Tests
    <3>1. test[v] \in Tests /\ 0 \in 0 .. NumTargets - 1
      BY <1>b, Numbers
    <3> QED
      BY <3>1 DEF Tests
  <2>3. test' = [test EXCEPT ![v] = t]
    <3>1. CASE StartPractice(q, v)
      BY <3>1 DEF StartPractice
    <3>2. CASE StartReal(q, v)
      BY <3>2, <1>b DEF StartReal, Tests
    <3> QED
      BY <3>1, <3>2, <1>11 DEF StartRound
  <2> HIDE DEF t
  <2>4. \A w : w \in alive <=> w \in alive'
    <3>1. rpc' = rpc \/ rpc' = [rpc EXCEPT ![v] = IF @ = "off" THEN "top" ELSE @]
      BY <1>11 DEF StartRound, StartPractice, StartReal, ResumeThreadLoop
    <3> QED
      BY <3>1, <2>1, <1>b, <1>c, <1>d, <1>e
  <2>5. /\ \A w \in Widgets : targetPos[w] \subseteq targetPos'[w]
        /\ ToSet(calls) \subseteq ToSet(calls')
        /\ ~t.dry => v \in ToSet(calls')
    <3>1. CASE StartPractice(q, v)
      <4>1. DetermineNextTarget(v, t) /\ calls' = calls /\ t.dry
        BY <3>1, <2>2 DEF StartPractice, t
      <4> QED
        BY <4>1, <2>2, <1>a, NextTarget
    <3>2. CASE StartReal(q, v)
      <4>1. targetPos' = targetPos /\ calls' = Append(calls, v)
        BY <3>2 DEF StartReal
      <4> QED
        BY <4>1, <1>b, AppendTo
    <3> QED
      BY <3>1, <3>2, <1>11 DEF StartRound
  <2>6. \A w \in Widgets : test'[w] = IF w = v THEN t ELSE test[w]
    BY <2>3, <1>b
  <2>7. TrapHasRound'
    <3>1. \A p \in Pointers : trap'[p] = IF p = q THEN v ELSE trap[p]
      BY <2>1, <1>b
    <3> QED
      BY <3>1, <2>1, <2>2, <2>4, <2>6, <1>f DEF TrapHasRound
  <2>8. RunningInv'
    BY <2>1, <2>4, <2>6, <1>a DEF RunningInv, Closing, Idle
  <2>9. TargetKept'
    BY <2>4, <2>5, <2>6, <1>a, <1>c, <1>e DEF TargetKept, Index
  <2> QED
    BY <2>7, <2>8, <2>9 DEF Rounds
<1>12. ASSUME NEW v \in Widgets, NEW q \in Pointers, Hit(q, v)
       PROVE  Rounds'
  <2> DEFINE t == [test[v] EXCEPT !.hits = @ + 1]
  <2>1. /\ v \in alive /\ test[v].running /\ test[v].pointer = q
        /\ UNCHANGED <<launched, gui, calls, rpc>>
        /\ \/ /\ t.hits = NumTargets /\ FinishRound({v})
              /\ test' = [test EXCEPT ![v] = RoundEnded(t)] /\ UNCHANGED targetPos
           \/ /\ t.hits # NumTargets /\ DetermineNextTarget(v, t)
              /\ test' = [test EXCEPT ![v] = t] /\ UNCHANGED trap
    BY <1>12 DEF Hit, guiVars, open
  <2>2. test[v] \in Tests /\ test[v].hits \in 0 .. NumTargets - 1 /\ t.hits = test[v].hits + 1
    BY <1>b DEF Tests
  <2>3. \A w : w \in alive <=> w \in alive'
    BY <2>1, <1>c, <1>d
  <2>4. CASE t.hits = NumTargets
    <3>1. t = [test[v] EXCEPT !.hits = NumTargets]
      BY <2>2, <2>4 DEF Tests
    <3> HIDE DEF t
    <3>2. ~RoundEnded(t).running
      BY <3>1, <2>2, EndedTests
    <3>3. \A p \in Pointers : trap'[p] # 0 => trap'[p] = trap[p] /\ test[v].pointer # p
      BY <2>1, <2>4, <1>a, Finishing
    <3>4. \A w \in Widgets : test'[w] = IF w = v THEN RoundEnded(t) ELSE test[w]
      BY <2>1, <2>4, <1>b
    <3>5. TrapHasRound'
      BY <2>3, <3>3, <3>4, <1>f DEF TrapHasRound
    <3>6. RunningInv'
      BY <2>1, <2>3, <3>2, <3>4, <1>a DEF RunningInv, Closing
    <3>7. TargetKept'
      BY <2>1, <2>3, <2>4, <3>2, <3>4, <1>a, <1>c, <1>e DEF TargetKept, Index
    <3> QED
      BY <3>5, <3>6, <3>7 DEF Rounds
  <2>5. CASE t.hits # NumTargets
    <3>1. t.hits \in 0 .. NumTargets - 1
      BY <2>2, <2>5, Numbers
    <3>2. t \in Tests /\ t.running = test[v].running /\ t.pointer = test[v].pointer
      BY <3>1, <2>2 DEF Tests
    <3> HIDE DEF t
    <3>3. /\ \A x \in Widgets : targetPos[x] \subseteq targetPos'[x]
          /\ ~t.dry => Index(t) \in targetPos'[v]
      BY <2>1, <2>5, <3>2, <1>a, NextTarget
    <3>4. /\ \A w \in Widgets : test'[w] = IF w = v THEN t ELSE test[w]
          /\ trap' = trap
      BY <2>1, <2>5, <1>b
    <3>5. TrapHasRound'
      BY <2>3, <3>2, <3>4, <1>f DEF TrapHasRound
    <3>6. RunningInv'
      BY <2>1, <2>3, <3>2, <3>4, <1>a DEF RunningInv, Closing
    <3>7. TargetKept'
      BY <2>1, <2>3, <3>3, <3>4, <1>a, <1>c, <1>e DEF TargetKept, Index
    <3> QED
      BY <3>5, <3>6, <3>7 DEF Rounds
  <2> QED
    BY <2>4, <2>5
<1>13. ASSUME NEW v \in Streams, ReceiverNext(v)
       PROVE  Rounds'
  <2>1. /\ UNCHANGED <<launched, test, targetPos, trap, calls, gui>>
        /\ rpc' = [rpc EXCEPT ![v] = rpc'[v]] /\ rpc'[v] \in Places \cup {"off"}
    BY <1>13, <1>a, Receiving
  <2>2. \A w \in alive : w \in alive'
    BY <2>1, <1>b, <1>c, <1>d, <1>e DEF Places
  <2>3. \A w \in Widgets : Closing(w)' => Closing(w)
    BY <2>1 DEF Closing
  <2> QED
    BY <2>1, <2>2, <2>3, <1>a, SameRounds
<1> QED
  BY <1>1, <1>2, <1>3, <1>4, <1>5, <1>6, <1>7, <1>8, <1>9, <1>10, <1>11, <1>12, <1>13
     DEF Next, GuiNext

-------------------------------------------------------------------------------
(* Frames                                                                    *)

\* Steps that announce nothing and give nothing back.
LEMMA SameFrames ==
    ASSUME FrameInv, UNCHANGED <<launched, queueLength, frameReceived>>,
           \A w \in Widgets : w \in alive' => w \in alive,
           \A w \in Widgets : Closing(w) => Closing(w)',
           \A w \in Widgets : rpc'[w] = "emit" <=> rpc[w] = "emit",
           \A w \in Widgets : rpc'[w] = "swap" => rpc[w] = "swap",
           \A w \in Widgets \ 1..launched : rpc'[w] = rpc[w],
           \A w : gui'.at = "count" /\ gui'.for = w <=> gui.at = "count" /\ gui.for = w
    PROVE  FrameInv'
<1>1. \A w \in Widgets : Announced(w)' = Announced(w)
  BY DEF Announced
<1> QED
  BY <1>1 DEF FrameInv

LEMMA FramesKept ==
    ASSUME IInv, Next, TypeInv'
    PROVE  FrameInv'
<1>a. TypeInv /\ TrapHasRound /\ FrameInv
  BY DEF IInv
<1>b. /\ launched \in 0..NumWidgets /\ NumWidgets \in Nat
      /\ gui \in [at : {"loop", "locks", "join", "count", "signal"}, for : 0..launched]
      /\ gui.at # "loop" => gui.for # 0
      /\ rpc \in [Widgets -> {"none", "off", "destroyed"} \cup Places]
      /\ queueLength \in [Widgets -> Int] /\ frameReceived \in [Widgets -> Nat]
  BY <1>a, WidgetsAssumption DEF TypeInv
<1>c. \A w : w \in alive <=> w \in 1..launched /\ rpc[w] # "destroyed"
  BY DEF alive
<1>d. \A w : w \in alive' <=> w \in 1..launched' /\ rpc'[w] # "destroyed"
  BY DEF alive
<1>e. 1..launched \subseteq Widgets
  BY <1>b DEF Widgets
<1>f. \A w \in Widgets : w \notin 1..launched => rpc[w] = "none"
  BY <1>a DEF FrameInv
<1>1. CASE Launch
  <2>1. /\ launched' = launched + 1 /\ launched + 1 \in Widgets /\ gui.at = "loop"
        /\ UNCHANGED <<gui, rpc, queueLength, frameReceived>>
    BY <1>1 DEF Launch, rcvVars, Idle
  <2>2. \A w : w \in 1..launched' <=> w \in 1..launched \/ w = launched + 1
    BY <2>1, <1>b
  <2>3. launched + 1 \notin 1..launched
    BY <1>b
  <2>4. /\ rpc[launched + 1] = "none"
        /\ queueLength[launched + 1] = 0 /\ frameReceived[launched + 1] = 0
    BY <2>1, <2>3, <1>a DEF FrameInv
  <2>5. \A w \in Widgets : Announced(w)' = Announced(w) /\ Closing(w)' = Closing(w)
    BY <2>1 DEF Announced, Closing
  <2>6. Announced(launched + 1) = 0
    BY <2>1, <2>4 DEF Announced
  <2>7. ASSUME NEW w \in Widgets, w \in alive', ~Closing(w)'
        PROVE  queueLength'[w] = Announced(w)' /\ (rpc'[w] = "swap" => queueLength'[w] = 0)
    BY <2>1, <2>2, <2>4, <2>5, <2>6, <2>7, <1>a, <1>c, <1>d DEF FrameInv
  <2>8. ASSUME NEW w \in Widgets, w \notin 1..launched'
        PROVE  rpc'[w] = "none" /\ queueLength'[w] = 0 /\ frameReceived'[w] = 0
    BY <2>1, <2>2, <2>8, <1>a DEF FrameInv
  <2> QED
    BY <2>7, <2>8 DEF FrameInv
<1>2. CASE AdvanceRound \/ PracticeRound
  <2>1. UNCHANGED <<launched, gui, rpc, queueLength, frameReceived>>
    BY <1>2, <1>a, Pressing
  <2>2. \A w : w \in alive' <=> w \in alive
    BY <2>1, <1>c, <1>d
  <2> QED
    BY <2>1, <2>2, <1>a, SameFrames DEF Closing
<1>3. CASE ClickGoesOn \/ CloseAll
  <2>1. UNCHANGED <<launched, gui, rpc, queueLength, frameReceived>>
    BY <1>3 DEF ClickGoesOn, CloseAll, rcvVars
  <2>2. \A w : w \in alive' <=> w \in alive
    BY <2>1, <1>c, <1>d
  <2> QED
    BY <2>1, <2>2, <1>a, SameFrames DEF Closing
<1>4. CASE Destroy
  <2>1. /\ gui.at = "loop" /\ gui' = [at |-> "locks", for |-> Head(doomed)]
        /\ UNCHANGED <<launched, rpc, queueLength, frameReceived>>
    BY <1>4 DEF Destroy, Idle
  <2>2. \A w : w \in alive' <=> w \in alive
    BY <2>1, <1>c, <1>d
  <2>3. \A w \in Widgets : Closing(w) => Closing(w)'
    BY <2>1 DEF Closing
  <2>4. \A w : gui'.at = "count" /\ gui'.for = w <=> gui.at = "count" /\ gui.for = w
    BY <2>1
  <2> QED
    BY <2>1, <2>2, <2>3, <2>4, <1>a, SameFrames
<1>5. CASE ReleaseLocks
  <2> DEFINE v == gui.for
  <2>1. /\ gui.at = "locks" /\ gui' = [gui EXCEPT !.at = "join"]
        /\ rpc' = [rpc EXCEPT ![v] = IF @ = "sleep" THEN "test" ELSE @]
        /\ queueLength' = [queueLength EXCEPT ![v] = -1]
        /\ UNCHANGED <<launched, frameReceived>>
    BY <1>5 DEF ReleaseLocks
  <2>2. gui'.at = "join" /\ gui'.for = v /\ v \in 1..launched
    BY <2>1, <1>b
  <2> HIDE DEF v
  <2>3. \A w \in Widgets \ {v} : rpc'[w] = rpc[w] /\ queueLength'[w] = queueLength[w]
    BY <2>1, <1>b
  <2>4. \A w \in Widgets : w # v => Announced(w)' = Announced(w)
    BY <2>1, <2>2, <2>3 DEF Announced
  <2>5. \A w \in Widgets : ~Closing(w)' => w # v
    BY <2>2 DEF Closing
  <2>6. \A w \in Widgets : w # v => ~Closing(w)
    BY DEF Closing, v
  <2>7. \A w \in Widgets : w # v /\ w \in alive' => w \in alive
    BY <2>1, <2>3, <1>c, <1>d
  <2> QED
    BY <2>1, <2>2, <2>3, <2>4, <2>5, <2>6, <2>7, <1>a DEF FrameInv
<1>6. CASE Destroyed
  <2> DEFINE v == gui.for
  <2>1. /\ gui.at = "join" /\ gui' = [at |-> "loop", for |-> 0]
        /\ rpc' = [rpc EXCEPT ![v] = "destroyed"]
        /\ queueLength' = [queueLength EXCEPT ![v] = 0]
        /\ frameReceived' = [frameReceived EXCEPT ![v] = 0]
        /\ UNCHANGED launched
    BY <1>6 DEF Destroyed
  <2>2. gui'.at = "loop" /\ v \in 1..launched
    BY <2>1, <1>b
  <2>3. \A w \in Widgets : w # v => ~Closing(w) /\ ~(gui.at = "count" /\ gui.for = w)
    BY <2>1 DEF Closing
  <2> HIDE DEF v
  <2>4. \A w \in Widgets \ {v} : /\ rpc'[w] = rpc[w] /\ queueLength'[w] = queueLength[w]
                                 /\ frameReceived'[w] = frameReceived[w]
    BY <2>1, <1>b
  <2>5. \A w \in Widgets : w # v => Announced(w)' = Announced(w)
    BY <2>2, <2>3, <2>4 DEF Announced
  <2>6. \A w \in Widgets : w \in alive' => w \in alive /\ w # v
    BY <2>1, <2>2, <2>4, <1>b, <1>c, <1>d, <1>e
  <2> QED
    BY <2>1, <2>2, <2>3, <2>4, <2>5, <2>6, <1>a DEF FrameInv
<1>7. CASE ReleaseBackBuffer
  <2> DEFINE v == gui.for
  <2>1. /\ gui.at = "count" /\ gui' = [gui EXCEPT !.at = "signal"]
        /\ queueLength' = [queueLength EXCEPT ![v] = @ - 1]
        /\ UNCHANGED <<launched, rpc, frameReceived>>
    BY <1>7 DEF ReleaseBackBuffer, roundVars
  <2>2. gui'.at = "signal" /\ v \in 1..launched
    BY <2>1, <1>b
  <2>3. \A w : (gui.at = "count" /\ gui.for = w <=> w = v) /\ ~Closing(w)
    BY <2>1 DEF Closing
  <2> HIDE DEF v
  <2>4. \A w \in Widgets : queueLength'[w] = IF w = v THEN queueLength[w] - 1 ELSE queueLength[w]
    BY <2>1, <1>b
  <2>5. \A w \in Widgets : Announced(w)' = IF w = v THEN Announced(w) - 1 ELSE Announced(w)
    BY <2>1, <2>2, <2>3, <1>b DEF Announced
  <2>6. \A w : w \in alive' <=> w \in alive
    BY <2>1, <1>c, <1>d
  <2>7. Announced(v) > 0
    BY <2>2, <2>3, <1>b, <1>e DEF Announced
  <2> QED
    BY <2>1, <2>2, <2>3, <2>4, <2>5, <2>6, <2>7, <1>a DEF FrameInv
<1>8. CASE SignalNotFull
  <2> DEFINE v == gui.for
  <2>1. /\ gui.at = "signal" /\ gui' = [at |-> "loop", for |-> 0]
        /\ rpc' = [rpc EXCEPT ![v] = IF queueLength[v] = 0 /\ @ = "sleep" THEN "test" ELSE @]
        /\ UNCHANGED <<launched, queueLength, frameReceived>>
    BY <1>8 DEF SignalNotFull
  <2>2. v \in 1..launched
    BY <2>1, <1>b
  <2>3. /\ \A w \in Widgets : Closing(w) => Closing(w)'
        /\ \A w : gui'.at = "count" /\ gui'.for = w <=> gui.at = "count" /\ gui.for = w
    BY <2>1 DEF Closing
  <2> HIDE DEF v
  <2>4. \A w \in Widgets : rpc'[w] = rpc[w] \/ (rpc[w] = "sleep" /\ rpc'[w] = "test" /\ w = v)
    BY <2>1, <1>b
  <2>5. \A w \in Widgets : w \in alive' => w \in alive
    BY <2>1, <2>4, <1>c, <1>d
  <2> QED
    BY <2>1, <2>2, <2>3, <2>4, <2>5, <1>a, SameFrames
<1>9. ASSUME NEW v \in Widgets, Miss(v) \/ Drag(v) \/ CloseOne(v)
      PROVE  FrameInv'
  <2>1. UNCHANGED <<launched, gui, rpc, queueLength, frameReceived>>
    BY <1>9 DEF Miss, Drag, CloseOne, guiVars, rcvVars
  <2>2. \A w : w \in alive' <=> w \in alive
    BY <2>1, <1>c, <1>d
  <2> QED
    BY <2>1, <2>2, <1>a, SameFrames DEF Closing
<1>10. ASSUME NEW v \in Widgets, StreamerConnects(v)
       PROVE  FrameInv'
  <2>1. /\ UNCHANGED <<launched, gui, queueLength, frameReceived>>
        /\ v \in alive /\ rpc[v] = "none" /\ rpc' = [rpc EXCEPT ![v] = "off"]
    BY <1>10 DEF StreamerConnects, guiVars, open
  <2>2. \A w \in Widgets : rpc'[w] = rpc[w] \/ (rpc[w] = "none" /\ rpc'[w] = "off" /\ w = v)
    BY <2>1, <1>b
  <2>3. \A w \in Widgets : w \in alive' => w \in alive
    BY <2>1, <2>2, <1>c, <1>d
  <2> QED
    BY <2>1, <2>2, <2>3, <1>a, <1>c, SameFrames DEF Closing
<1>11. ASSUME NEW v \in Widgets, NEW q \in Pointers, StartRound(q, v)
       PROVE  FrameInv'
  <2>1. /\ UNCHANGED <<launched, gui, queueLength, frameReceived>>
        /\ v \in alive
    BY <1>11 DEF StartRound, open
  <2>2. rpc' = rpc \/ rpc' = [rpc EXCEPT ![v] = IF @ = "off" THEN "top" ELSE @]
    BY <1>11 DEF StartRound, StartPractice, StartReal, ResumeThreadLoop
  <2>3. \A w \in Widgets : rpc'[w] = rpc[w] \/ (rpc[w] = "off" /\ rpc'[w] = "top" /\ w = v)
    BY <2>2, <1>b
  <2>4. \A w \in Widgets : w \in alive' => w \in alive
    BY <2>1, <2>3, <1>c, <1>d
  <2> QED
    BY <2>1, <2>3, <2>4, <1>a, <1>c, SameFrames DEF Closing
<1>12. ASSUME NEW v \in Widgets, NEW q \in Pointers, Hit(q, v)
       PROVE  FrameInv'
  <2>1. UNCHANGED <<launched, gui, rpc, queueLength, frameReceived>>
    BY <1>12 DEF Hit, guiVars
  <2>2. \A w : w \in alive' <=> w \in alive
    BY <2>1, <1>c, <1>d
  <2> QED
    BY <2>1, <2>2, <1>a, SameFrames DEF Closing
<1>13. ASSUME NEW v \in Widgets, HandleFrame(v)
       PROVE  FrameInv'
  <2>1. /\ gui.at = "loop" /\ gui' = [at |-> "count", for |-> v]
        /\ v \in alive /\ frameReceived[v] > 0
        /\ frameReceived' = [frameReceived EXCEPT ![v] = @ - 1]
        /\ UNCHANGED <<launched, rpc, queueLength>>
    BY <1>13 DEF HandleFrame, Idle
  <2>2. \A w : gui'.at = "count" /\ gui'.for = w <=> w = v
    BY <2>1
  <2>3. \A w \in Widgets : frameReceived'[w] = IF w = v THEN frameReceived[w] - 1 ELSE frameReceived[w]
    BY <2>1, <1>b
  <2>4. \A w \in Widgets : Announced(w)' = Announced(w)
    BY <2>1, <2>2, <2>3, <1>b DEF Announced
  <2>5. \A w : (w \in alive' <=> w \in alive) /\ ~Closing(w)
    BY <2>1, <1>c, <1>d DEF Closing
  <2> QED
    BY <2>1, <2>3, <2>4, <2>5, <1>a, <1>c DEF FrameInv
<1>14. ASSUME NEW v \in Streams, ReceiverNext(v)
       PROVE  FrameInv'
  <2>1. /\ v \in Widgets /\ UNCHANGED <<launched, gui>> /\ rpc[v] \in Places
        /\ rpc'[v] \in Places \cup {"off"} /\ rpc' = [rpc EXCEPT ![v] = rpc'[v]]
        /\ \A w \in Widgets \ {v} : /\ queueLength'[w] = queueLength[w]
                                    /\ frameReceived'[w] = frameReceived[w]
    BY <1>14, <1>a, Receiving
  <2>2. \A w \in Widgets \ {v} : rpc'[w] = rpc[w]
    BY <2>1, <1>b
  <2>3. v \in 1..launched /\ v \in alive
    BY <2>1, <1>c, <1>f DEF Places
  <2>4. \A w : Closing(w)' <=> Closing(w)
    BY <2>1 DEF Closing
  <2>5. \A w \in Widgets \ {v} : Announced(w)' = Announced(w) /\ (w \in alive' <=> w \in alive)
    BY <2>1, <2>2, <1>c, <1>d DEF Announced
  <2>6. Announced(v) >= 0
    BY <2>1, <1>b DEF Announced
  <2>7. ~Closing(v) => queueLength'[v] = Announced(v)' /\ (rpc'[v] = "swap" => queueLength'[v] = 0)
    <3> SUFFICES ASSUME ~Closing(v)
                 PROVE  queueLength'[v] = Announced(v)' /\ (rpc'[v] = "swap" => queueLength'[v] = 0)
      OBVIOUS
    <3>1. queueLength[v] = Announced(v) /\ (rpc[v] = "swap" => queueLength[v] = 0)
      BY <2>1, <2>3, <1>a DEF FrameInv
    <3>2. CASE TestQueue(v)
      <4>1. /\ UNCHANGED <<queueLength, frameReceived>> /\ rpc[v] = "test"
            /\ rpc'[v] = IF queueLength[v] > 0 THEN "toSleep"
                         ELSE IF queueLength[v] = 0 THEN "swap" ELSE "emit"
        BY <3>2, <2>1, <1>b DEF TestQueue, Receiver
      <4>2. queueLength[v] \in Nat
        BY <3>1, <2>1, <2>6, <1>b
      <4> QED
        BY <4>1, <4>2, <3>1, <2>1 DEF Announced
    <3>3. CASE Swap(v)
      <4>1. /\ queueLength' = [queueLength EXCEPT ![v] = @ + 1] /\ UNCHANGED frameReceived
            /\ rpc[v] = "swap" /\ rpc'[v] = "emit"
        BY <3>3, <2>1, <1>b DEF Swap, Receiver
      <4>2. queueLength'[v] = queueLength[v] + 1
        BY <4>1, <2>1, <1>b
      <4> QED
        BY <4>1, <4>2, <3>1, <2>1, <1>b DEF Announced
    <3>4. CASE EmitFrame(v)
      <4>1. /\ frameReceived' = [frameReceived EXCEPT ![v] = @ + 1] /\ UNCHANGED queueLength
            /\ rpc[v] = "emit" /\ rpc'[v] = "acquire"
        BY <3>4, <2>1, <1>b DEF EmitFrame, Receiver
      <4>2. frameReceived'[v] = frameReceived[v] + 1
        BY <4>1, <2>1, <1>b
      <4> QED
        BY <4>1, <4>2, <3>1, <2>1, <1>b DEF Announced
    <3>5. CASE \/ LoopTop(v) \/ SleepNotFull(v) \/ SpuriousWake(v) \/ Acquire(v) \/ RecvFrame(v)
               \/ RecvFails(v) \/ ThreadEnds(v)
      <4>1. /\ UNCHANGED <<queueLength, frameReceived>>
            /\ \E from \in Places \ {"emit"}, to \in (Places \cup {"off"}) \ {"emit", "swap"} :
                   Receiver(v, from, to)
        BY <3>5 DEF LoopTop, SleepNotFull, SpuriousWake, Acquire, RecvFrame, RecvFails, ThreadEnds,
                    Places
      <4>2. rpc[v] # "emit" /\ rpc'[v] \notin {"emit", "swap"}
        BY <4>1, <2>1, <1>b DEF Receiver
      <4> QED
        BY <4>1, <4>2, <3>1, <2>1 DEF Announced
    <3> QED
      BY <3>2, <3>3, <3>4, <3>5, <1>14 DEF ReceiverNext
  <2> QED
    BY <2>1, <2>2, <2>3, <2>4, <2>5, <2>7, <1>a DEF FrameInv
<1> QED
  BY <1>1, <1>2, <1>3, <1>4, <1>5, <1>6, <1>7, <1>8, <1>9, <1>10, <1>11, <1>12, <1>13, <1>14
     DEF Next, GuiNext

-------------------------------------------------------------------------------
(* The data object                                                           *)

\* Steps that open, close and destroy no widget but one whose destructor has begun.
LEMMA SameObject ==
    ASSUME ObjectInv, UNCHANGED <<members, dataObject, doomed, closedOne, missed>>,
           \A w \in alive' : w \in alive,
           \A w \in alive' : Closing(w) => Closing(w)'
    PROVE  ObjectInv'
<1>1. \A w \in open' : w \in open /\ (Closing(w) => Closing(w)')
  BY DEF open
<1> QED
  BY <1>1 DEF ObjectInv

LEMMA ObjectKept ==
    ASSUME IInv, Next, TypeInv'
    PROVE  ObjectInv'
<1>a. TypeInv /\ TrapHasRound /\ FrameInv /\ ObjectInv
  BY DEF IInv
<1>b. /\ launched \in 0..NumWidgets /\ NumWidgets \in Nat
      /\ members \in Seq(Widgets) /\ Len(members) <= 3 /\ doomed \in Seq(1..launched)
      /\ gui \in [at : {"loop", "locks", "join", "count", "signal"}, for : 0..launched]
      /\ gui.at # "loop" => gui.for # 0
      /\ rpc \in [Widgets -> {"none", "off", "destroyed"} \cup Places]
  BY <1>a, WidgetsAssumption DEF TypeInv
<1>c. \A w : w \in alive <=> w \in 1..launched /\ rpc[w] # "destroyed"
  BY DEF alive
<1>d. \A w : w \in alive' <=> w \in 1..launched' /\ rpc'[w] # "destroyed"
  BY DEF alive
<1>e. 1..launched \subseteq Widgets
  BY <1>b DEF Widgets
<1>f. \A w : w \in open <=> w \in alive /\ w \notin ToSet(doomed)
  BY DEF open
<1>g. \A w : w \in open' <=> w \in alive' /\ w \notin ToSet(doomed')
  BY DEF open
<1>h. gui.at = "loop" => \A w : ~Closing(w)
  BY DEF Closing
<1>1. CASE Launch
  <2> DEFINE v == launched + 1
  <2>1. /\ launched' = v /\ v \in Widgets /\ gui.at = "loop"
        /\ dataObject \/ doomed = <<>>
        /\ dataObject' /\ AddWidget(v) /\ missed' = missed \cup Overlooked(v)
        /\ UNCHANGED <<gui, rpc, doomed, closedOne>>
    BY <1>1 DEF Launch, rcvVars, Idle, NewDataObject
  <2>2. \A w : w \in alive' => w \in alive \/ w = v
    BY <2>1, <1>b, <1>c, <1>d
  <2> HIDE DEF v
  <2>3. SUFFICES ASSUME ~closedOne
                 PROVE  /\ doomed # <<>> => \A w \in open' \ missed' : FALSE
                        /\ \A w \in open' \ missed' : w \in ToSet(members')
    BY <2>1, <2>3 DEF ObjectInv
  <2>4. \A w \in open' \ missed' : w \in open \ missed \/ w = v
    BY <2>1, <2>2, <1>f, <1>g
  <2>5. ASSUME doomed # <<>>, NEW w \in open' \ missed'
        PROVE  FALSE
    <3>1. w \notin open \ missed
      BY <2>5, <2>3, <1>a, <1>h, <2>1 DEF ObjectInv
    <3>2. v \in missed'
      BY <2>5, <2>1 DEF Overlooked
    <3> QED
      BY <3>1, <3>2, <2>4, <2>5
  <2>6. ASSUME NEW w \in open' \ missed'
        PROVE  w \in ToSet(members')
    <3>1. v \in ToSet(members') /\ (dataObject => ToSet(members) \ Overlooked(v) \subseteq ToSet(members'))
      BY <2>1, <1>b, Adding
    <3>2. w \in open \ missed => dataObject /\ w \in ToSet(members)
      BY <2>1, <2>3, <1>a, <1>h DEF ObjectInv
    <3>3. w \notin Overlooked(v)
      BY <2>1, <2>6
    <3> QED
      BY <3>1, <3>2, <3>3, <2>4, <2>6
  <2> QED
    BY <2>5, <2>6
<1>2. CASE AdvanceRound \/ PracticeRound
  <2>1. UNCHANGED <<members, dataObject, doomed, closedOne, missed, launched, gui, rpc>>
    BY <1>2, <1>a, Pressing
  <2> QED
    BY <2>1, <1>a, <1>c, <1>d, SameObject DEF Closing
<1>3. CASE ClickGoesOn
  <2>1. UNCHANGED <<members, dataObject, doomed, closedOne, missed, launched, gui, rpc>>
    BY <1>3 DEF ClickGoesOn, rcvVars
  <2> QED
    BY <2>1, <1>a, <1>c, <1>d, SameObject DEF Closing
<1>4. CASE CloseAll
  <2>1. /\ gui.at = "loop" /\ dataObject
        /\ UNCHANGED <<launched, gui, rpc, members, dataObject, closedOne, missed>>
    BY <1>4 DEF CloseAll, ControllerShown, rcvVars, Idle
  <2>2. ToSet(doomed) \subseteq ToSet(doomed') /\ open \cap ToSet(members) \subseteq ToSet(doomed')
    BY <1>4, <1>a, ClosingAll
  <2>3. ~closedOne => \A w \in open \ missed : w \in ToSet(members)
    BY <2>1, <1>a, <1>h DEF ObjectInv
  <2>4. \A w : w \in alive' <=> w \in alive
    BY <2>1, <1>c, <1>d
  <2>5. ~closedOne => \A w \in open' \ missed' : FALSE
    BY <2>1, <2>2, <2>3, <2>4, <1>f, <1>g
  <2> QED
    BY <2>1, <2>5 DEF ObjectInv
<1>5. CASE Destroy
  <2> DEFINE v == Head(doomed)
  <2>1. /\ gui.at = "loop" /\ doomed # <<>> /\ doomed' = Tail(doomed)
        /\ ~dataObject' /\ gui' = [at |-> "locks", for |-> v]
        /\ UNCHANGED <<launched, rpc, closedOne, missed>>
    BY <1>5 DEF Destroy, Idle, DeleteDataObject
  <2>2. ToSet(doomed) = ToSet(doomed') \cup {v}
    BY <2>1, <1>b, TakeFirst
  <2> HIDE DEF v
  <2>3. ~closedOne => \A w \in open \ missed : FALSE
    BY <2>1, <1>a, <1>h DEF ObjectInv
  <2>4. \A w : w \in alive' <=> w \in alive
    BY <2>1, <1>c, <1>d
  <2>5. ~closedOne => \A w \in open' \ missed' : w = v
    BY <2>1, <2>2, <2>3, <2>4, <1>f, <1>g
  <2>6. \A w : w = v => Closing(w)'
    BY <2>1 DEF Closing
  <2> QED
    BY <2>1, <2>5, <2>6 DEF ObjectInv
<1>6. CASE ReleaseLocks
  <2>1. /\ gui.at = "locks" /\ gui' = [gui EXCEPT !.at = "join"]
        /\ rpc' = [rpc EXCEPT ![gui.for] = IF @ = "sleep" THEN "test" ELSE @]
        /\ UNCHANGED <<launched, members, dataObject, doomed, closedOne, missed>>
    BY <1>6 DEF ReleaseLocks, roundVars
  <2>2. \A w \in alive' : w \in alive
    BY <2>1, <1>b, <1>c, <1>d, <1>e
  <2>3. \A w \in alive' : Closing(w) => Closing(w)'
    BY <2>1, <1>b DEF Closing
  <2> QED
    BY <2>1, <2>2, <2>3, <1>a, SameObject
<1>7. CASE Destroyed
  <2>1. /\ rpc' = [rpc EXCEPT ![gui.for] = "destroyed"] /\ gui.at = "join"
        /\ UNCHANGED <<launched, members, dataObject, doomed, closedOne, missed>>
    BY <1>7 DEF Destroyed
  <2>2. \A w \in alive' : w \in alive /\ w # gui.for
    BY <2>1, <1>b, <1>c, <1>d, <1>e
  <2>3. \A w \in alive' : Closing(w) => Closing(w)'
    BY <2>2 DEF Closing
  <2> QED
    BY <2>1, <2>2, <2>3, <1>a, SameObject
<1>8. CASE ReleaseBackBuffer \/ SignalNotFull
  <2>1. /\ gui.at \in {"count", "signal"}
        /\ \/ rpc' = rpc
           \/ rpc' = [rpc EXCEPT ![gui.for] = IF queueLength[gui.for] = 0 /\ @ = "sleep" THEN "test"
                                              ELSE @]
        /\ UNCHANGED <<launched, members, dataObject, doomed, closedOne, missed>>
    BY <1>8 DEF ReleaseBackBuffer, SignalNotFull, roundVars
  <2>2. \A w \in alive' : w \in alive
    BY <2>1, <1>b, <1>c, <1>d, <1>e
  <2>3. \A w \in alive' : Closing(w) => Closing(w)'
    BY <2>1 DEF Closing
  <2> QED
    BY <2>1, <2>2, <2>3, <1>a, SameObject
<1>9. ASSUME NEW v \in Widgets, StreamerConnects(v) \/ Miss(v) \/ Drag(v) \/ HandleFrame(v)
      PROVE  ObjectInv'
  <2>1. /\ gui.at = "loop" /\ UNCHANGED <<launched, members, dataObject, doomed, closedOne, missed>>
        /\ rpc' = rpc \/ (rpc[v] = "none" /\ rpc' = [rpc EXCEPT ![v] = "off"])
    BY <1>9 DEF StreamerConnects, Miss, Drag, HandleFrame, roundVars, guiVars, rcvVars, Idle
  <2>2. \A w \in alive' : w \in alive
    BY <2>1, <1>b, <1>c, <1>d, <1>e
  <2>3. \A w \in alive' : Closing(w) => Closing(w)'
    BY <2>1, <1>h
  <2> QED
    BY <2>1, <2>2, <2>3, <1>a, SameObject
<1>10. ASSUME NEW v \in Widgets, CloseOne(v)
       PROVE  ObjectInv'
  BY <1>10 DEF CloseOne, ObjectInv
<1>11. ASSUME NEW v \in Widgets, NEW q \in Pointers, StartRound(q, v) \/ Hit(q, v)
       PROVE  ObjectInv'
  <2>1. /\ UNCHANGED <<launched, gui, members, dataObject, doomed, closedOne, missed>>
        /\ rpc' = rpc \/ rpc' = [rpc EXCEPT ![v] = IF @ = "off" THEN "top" ELSE @]
    BY <1>11 DEF StartRound, StartPractice, StartReal, ResumeThreadLoop, Hit, guiVars
  <2>2. \A w \in alive' : w \in alive
    BY <2>1, <1>b, <1>c, <1>d, <1>e
  <2>3. \A w \in alive' : Closing(w) => Closing(w)'
    BY <2>1 DEF Closing
  <2> QED
    BY <2>1, <2>2, <2>3, <1>a, SameObject
<1>12. ASSUME NEW v \in Streams, ReceiverNext(v)
       PROVE  ObjectInv'
  <2>1. /\ UNCHANGED <<launched, gui, members, dataObject, doomed, closedOne, missed>>
        /\ rpc[v] \in Places /\ rpc' = [rpc EXCEPT ![v] = rpc'[v]]
    BY <1>12, <1>a, Receiving
  <2>2. \A w \in alive' : w \in alive
    BY <2>1, <1>b, <1>c, <1>d, <1>e DEF Places
  <2>3. \A w \in alive' : Closing(w) => Closing(w)'
    BY <2>1 DEF Closing
  <2> QED
    BY <2>1, <2>2, <2>3, <1>a, SameObject
<1> QED
  BY <1>1, <1>2, <1>3, <1>4, <1>5, <1>6, <1>7, <1>8, <1>9, <1>10, <1>11, <1>12
     DEF Next, GuiNext

-------------------------------------------------------------------------------

LEMMA StutterInv == IInv /\ UNCHANGED vars => IInv'
<1> SUFFICES ASSUME IInv, UNCHANGED vars PROVE IInv'
  OBVIOUS
<1>1. /\ UNCHANGED <<launched, members, dataObject, test, targetPos, trap, calls, doomed, closedOne>>
      /\ UNCHANGED <<missed, gui, rpc, queueLength, frameReceived>>
  BY DEF vars, roundVars, guiVars, rcvVars
<1>2. alive' = alive /\ open' = open
  BY <1>1 DEF alive, open
<1>3. TypeInv'
  BY <1>1 DEF IInv, TypeInv
<1>4. Rounds'
  BY <1>1, <1>2 DEF IInv, Rounds, TrapHasRound, TargetKept, RunningInv, Closing, Index
<1>5. FrameInv'
  BY <1>1, <1>2 DEF IInv, FrameInv, Closing, Announced
<1>6. ObjectInv'
  BY <1>1, <1>2 DEF IInv, ObjectInv, Closing
<1> QED
  BY <1>3, <1>4, <1>5, <1>6 DEF IInv, Rounds

LEMMA StepInv == IInv /\ [Next]_vars => IInv'
<1>1. ASSUME IInv, Next PROVE IInv'
  <2>1. TypeInv'
    BY <1>1, TypesKept
  <2>2. Rounds'
    BY <1>1, <2>1, RoundsKept
  <2>3. FrameInv'
    BY <1>1, <2>1, FramesKept
  <2>4. ObjectInv'
    BY <1>1, <2>1, ObjectKept
  <2> QED
    BY <2>1, <2>2, <2>3, <2>4 DEF IInv, Rounds
<1> QED
  BY <1>1, StutterInv

\* A trapped pointer has a round that goes on in a living widget, however rounds begin and end
\* inside one another's clicks (startRound, finishRound); the target of a real round is kept for
\* the second test, and _targetPosList is indexed within its bounds (determineNextTargetPosition).
THEOREM RoundThm == Spec => []RoundInv
<1>1. IInv => RoundInv
  BY DEF IInv, TypeInv, RoundInv, TargetInList, Positions
<1> QED
  BY <1>1, InitInv, StepInv, PTL DEF Spec

\* The counter that scheduleDummyUpdate() decrements without the mutex is the number of frames
\* announced and not given back, and is never decremented while swapBuffer() increments it.
THEOREM FramesAccountedThm == Spec => []FramesAccounted
<1>1. ASSUME IInv PROVE FramesAccounted
  <2> SUFFICES ASSUME NEW w \in alive, ~Closing(w)
               PROVE  /\ queueLength[w] = Announced(w)
                      /\ ~(rpc[w] = "swap" /\ gui.at = "count" /\ gui.for = w)
    BY DEF FramesAccounted
  <2>1. w \in Widgets /\ frameReceived[w] \in Nat
    BY <1>1, WidgetsAssumption DEF IInv, TypeInv, alive, Widgets
  <2>2. queueLength[w] = Announced(w) /\ (rpc[w] = "swap" => queueLength[w] = 0)
    BY <1>1, <2>1 DEF IInv, FrameInv
  <2>3. gui.at = "count" /\ gui.for = w => Announced(w) > 0
    BY <2>1 DEF Announced
  <2> QED
    BY <2>2, <2>3
<1> QED
  BY <1>1, InitInv, StepInv, PTL DEF Spec

\* After the Finish button no widget is left that can be clicked and uses the data object the
\* first destructor deletes (closeAll), however often a test is launched again, but a user C
\* whose place a later test took (addWidget) and a test that came after the button.
THEOREM FinishIsSafeThm == Spec => []FinishIsSafe
<1>1. IInv => FinishIsSafe
  BY DEF IInv, ObjectInv, FinishIsSafe, Closing, Idle
<1> QED
  BY <1>1, InitInv, StepInv, PTL DEF Spec
===============================================================================
