------------------------- MODULE StreamHandshakeProofs -------------------------
(***************************************************************************)
(* Theorems about StreamHandshake for any number of applications.  What    *)
(* keeps widgets and message threads paired one to one is the event queue  *)
(* of the GUI thread: one "launch" is on its way for an application that   *)
(* has no widget, and none for one that has.  What keeps the pairing in    *)
(* order is that the widgets which wait are always the last ones created.  *)
(***************************************************************************)
EXTENDS StreamHandshake, SequenceTheorems, FiniteSetTheorems, TLAPS

\* The events that are posted, and what each is about.
EventRec == [kind : {"launch", "wake"}, of : App] \cup [kind : {"init", "started"}, of : Widget]

Has(q, k, id) == \E i \in 1..Len(q) : q[i].kind = k /\ q[i].of = id

\* Events of these kinds are posted once for their application or widget.
Unique(q) == \A i, j \in 1..Len(q) : /\ q[i].kind = q[j].kind /\ q[i].of = q[j].of
                                     /\ q[i].kind \in {"launch", "init"}
                                     => i = j

TypeInv == /\ events \in Seq(EventRec)
           /\ gui \in {0} \cup Widget
           /\ sageWidgetQueue \in Seq(Widget)
           /\ created \in {0} \cup Widget
           /\ owner \in [Widget -> App \cup {NoApp}]
           /\ fsm \in [Widget -> App \cup {NoApp}]
           /\ waiter \in [Widget -> {"none", "bind", "nosocket", "accept", "ok", "failed"}]
           /\ receiving \in [Widget -> {"no", "yes", "bad"}]
           /\ gone \subseteq 1..created
           /\ launchedApps \subseteq Launched
           /\ tpc \in [App -> {"absent", "recv", "test", "sleep", "asleep", "init", "poll",
                               "connect", "run", "done"}]
           /\ tend \in [App -> BOOLEAN]
           /\ sageWidget \in [App -> {0} \cup Widget]
           /\ told \in [App -> BOOLEAN]

\* The applications whose message threads have been given a widget.
Introduced == {t \in App : sageWidget[t] # 0}

\* Every widget was made for a launched application or for the thread it was given to.
CountInv == created <= Cardinality(launchedApps) + Cardinality(Introduced)

\* What an event on its way says about its message thread or widget.
EventInv == /\ Unique(events)
            /\ \A t \in App : Has(events, "launch", t) =>
                  sageWidget[t] = 0 /\ tpc[t] \in {"test", "sleep", "asleep"}
            /\ \A w \in Widget : Has(events, "init", w) =>
                  /\ fsm[w] # NoApp /\ waiter[w] = "none"
                  /\ tpc[fsm[w]] \in {"poll", "connect", "run", "done"}

\* What a message thread has been through when it gets where it is.
ThreadInv == /\ \A t \in App : tpc[t] \in {"absent", "recv"} => sageWidget[t] = 0
             /\ \A t \in App : tpc[t] \in {"init", "poll", "connect", "run"} => sageWidget[t] # 0
             /\ \A t \in App : tpc[t] \in {"connect", "run"} \/ told[t] =>
                   sageWidget[t] # 0 /\ Ready(sageWidget[t])
             /\ \A w \in Widget : waiter[w] # "none" =>
                   fsm[w] # NoApp /\ tpc[fsm[w]] \in {"poll", "connect", "run", "done"}
             /\ gui # 0 => fsm[gui] # NoApp /\ tend[fsm[gui]]

\* The widgets that wait in the queue are the last ones created, in that order.
QueueInv == LET n == Len(sageWidgetQueue) IN
            /\ n <= created
            /\ \A i \in 1..n : sageWidgetQueue[i] = created - n + i
            /\ \A w \in Widget : fsm[w] # NoApp <=> w <= created - n

IInv == TypeInv /\ CountInv /\ EventInv /\ ThreadInv /\ QueueInv /\ PairedOneToOne
-------------------------------------------------------------------------------
\* The event queue.

LEMMA EventType ==
    ASSUME NEW e \in EventRec
    PROVE  /\ e.kind \in {"launch", "wake", "init", "started"}
           /\ e.kind \in {"launch", "wake"} => e.of \in App
           /\ e.kind \in {"init", "started"} => e.of \in Widget
BY DEF EventRec

\* Post() adds one event at the end.
LEMMA AppendEvent ==
    ASSUME NEW q \in Seq(EventRec), NEW k, NEW id, [kind |-> k, of |-> id] \in EventRec
    PROVE  LET r == Append(q, [kind |-> k, of |-> id])
           IN  /\ r \in Seq(EventRec)
               /\ \A k2, id2 : Has(r, k2, id2) <=> Has(q, k2, id2) \/ (k2 = k /\ id2 = id)
               /\ Unique(q) /\ (k \in {"launch", "init"} => ~Has(q, k, id)) => Unique(r)
<1> DEFINE e == [kind |-> k, of |-> id]
           r == Append(q, e)
<1>1. r \in Seq(EventRec) /\ Len(r) = Len(q) + 1 /\ Len(q) \in Nat
  BY AppendProperties, LenProperties
<1>2. \A i \in 1..Len(q) : r[i] = q[i]
  BY AppendProperties
<1>3. r[Len(q) + 1] = e /\ e.kind = k /\ e.of = id
  BY AppendProperties
<1> HIDE DEF r, e
<1>4. ASSUME NEW k2, NEW id2 PROVE Has(r, k2, id2) <=> Has(q, k2, id2) \/ (k2 = k /\ id2 = id)
  BY <1>1, <1>2, <1>3 DEF Has
<1>5. ASSUME Unique(q), k \in {"launch", "init"} => ~Has(q, k, id) PROVE Unique(r)
  BY <1>1, <1>2, <1>3, <1>5 DEF Has, Unique
<1> QED
  BY <1>1, <1>4, <1>5 DEF r, e

\* The event loop takes the first event.
LEMMA TailEvent ==
    ASSUME NEW q \in Seq(EventRec), q # <<>>
    PROVE  /\ Tail(q) \in Seq(EventRec)
           /\ Head(q) \in EventRec
           /\ \A k, id : Has(Tail(q), k, id) => Has(q, k, id)
           /\ Has(q, Head(q).kind, Head(q).of)
           /\ Unique(q) => /\ Unique(Tail(q))
                           /\ Head(q).kind \in {"launch", "init"} =>
                                 ~Has(Tail(q), Head(q).kind, Head(q).of)
<1>1. Tail(q) \in Seq(EventRec) /\ Head(q) \in EventRec /\ Len(Tail(q)) = Len(q) - 1
  BY HeadTailProperties
<1>2. \A i \in 1..Len(Tail(q)) : Tail(q)[i] = q[i + 1]
  BY HeadTailProperties
<1>3. Len(q) \in Nat \ {0} /\ Head(q) = q[1]
  BY EmptySeq
<1> DEFINE r == Tail(q)
           h == Head(q)
<1> HIDE DEF r, h
<1>4. ASSUME NEW k, NEW id PROVE Has(r, k, id) => Has(q, k, id)
  BY <1>1, <1>2, <1>3 DEF Has, r
<1>5. Has(q, h.kind, h.of)
  BY <1>3 DEF Has, h
<1>6. Unique(q) => Unique(r) /\ (h.kind \in {"launch", "init"} => ~Has(r, h.kind, h.of))
  BY <1>1, <1>2, <1>3 DEF Has, Unique, r, h
<1> QED
  BY <1>1, <1>4, <1>5, <1>6 DEF r, h
-------------------------------------------------------------------------------
\* Counting the widgets.

LEMMA AppFinite == IsFiniteSet(App) /\ Cardinality(App) \in Nat
BY AppsAssumption, FS_Union, FS_CardinalityType DEF App

\* The sets of applications that the widgets are counted with.
LEMMA CountedSets ==
    ASSUME TypeInv
    PROVE  /\ IsFiniteSet(launchedApps) /\ Cardinality(launchedApps) \in Nat
           /\ Cardinality(launchedApps) <= Cardinality(App)
           /\ IsFiniteSet(Introduced) /\ Cardinality(Introduced) \in Nat
           /\ Cardinality(Introduced) <= Cardinality(App)
<1>1. launchedApps \subseteq App /\ Introduced \subseteq App
  BY DEF TypeInv, Introduced, App
<1> QED
  BY <1>1, AppFinite, FS_Subset, FS_CardinalityType

\* There is a number left for the widget of an application that is launched now,
\* or whose message thread has none.
LEMMA RoomForWidget ==
    ASSUME TypeInv, CountInv, NEW t \in App, t \notin launchedApps \/ sageWidget[t] = 0
    PROVE  created + 1 \in Widget
<1>1. created \in Nat
  BY AppFinite DEF TypeInv, Widget
<1>2. CASE t \notin launchedApps
  <2>1. launchedApps \cup {t} \subseteq App
    BY DEF TypeInv, App
  <2>2. Cardinality(launchedApps \cup {t}) = Cardinality(launchedApps) + 1
    BY <1>2, CountedSets, FS_AddElement
  <2>3. Cardinality(launchedApps \cup {t}) <= Cardinality(App)
    BY <2>1, AppFinite, FS_Subset
  <2> QED
    BY <1>1, <2>2, <2>3, CountedSets, AppFinite DEF CountInv, Widget
<1>3. CASE sageWidget[t] = 0
  <2>1. Introduced \cup {t} \subseteq App /\ t \notin Introduced
    BY <1>3 DEF Introduced
  <2>2. Cardinality(Introduced \cup {t}) = Cardinality(Introduced) + 1
    BY <2>1, CountedSets, FS_AddElement
  <2>3. Cardinality(Introduced \cup {t}) <= Cardinality(App)
    BY <2>1, AppFinite, FS_Subset
  <2> QED
    BY <1>1, <2>2, <2>3, CountedSets, AppFinite DEF CountInv, Widget
<1> QED
  BY <1>2, <1>3
-------------------------------------------------------------------------------
\* Nothing has happened.
LEMMA InitInv == Init => IInv
<1> SUFFICES ASSUME Init PROVE IInv
  OBVIOUS
<1> USE DEF Init, NewWidgets, NewMsgThreads
<1>1. TypeInv
  BY EmptySeq DEF TypeInv
<1>2. CountInv
  BY <1>1, CountedSets DEF CountInv
<1>3. EventInv
  BY DEF EventInv, Has, Unique
<1>4. ThreadInv
  BY DEF ThreadInv
<1>5. QueueInv
  BY AppFinite DEF QueueInv, Widget
<1>6. PairedOneToOne
  BY DEF PairedOneToOne
<1> QED
  BY <1>1, <1>2, <1>3, <1>4, <1>5, <1>6 DEF IInv

\* The event of the first widget in the queue, and what is left of the queue.
LEMMA QueueHead ==
    ASSUME TypeInv, QueueInv, sageWidgetQueue # <<>>
    PROVE  LET q == sageWidgetQueue
           IN  /\ Head(q) \in Widget /\ Head(q) = created - Len(q) + 1
               /\ Tail(q) \in Seq(Widget) /\ Len(Tail(q)) = Len(q) - 1
               /\ \A i \in 1..Len(Tail(q)) : Tail(q)[i] = created - Len(Tail(q)) + i
<1>1. Len(sageWidgetQueue) \in Nat \ {0} /\ created \in Nat
  BY EmptySeq, AppFinite DEF TypeInv, Widget
<1>2. /\ Head(sageWidgetQueue) \in Widget /\ Head(sageWidgetQueue) = sageWidgetQueue[1]
      /\ Tail(sageWidgetQueue) \in Seq(Widget)
      /\ Len(Tail(sageWidgetQueue)) = Len(sageWidgetQueue) - 1
      /\ \A i \in 1..Len(Tail(sageWidgetQueue)) :
            Tail(sageWidgetQueue)[i] = sageWidgetQueue[i + 1]
  BY HeadTailProperties DEF TypeInv
<1>3. \A i \in 1..Len(sageWidgetQueue) : sageWidgetQueue[i] = created - Len(sageWidgetQueue) + i
  BY DEF QueueInv
<1> QED
  BY <1>1, <1>2, <1>3

\* launch() introduces a message thread without a widget and a widget without a
\* message thread to each other.
LEMMA PairStep ==
    ASSUME IInv, NEW w \in Widget, Event("launch"), Pair(w, Head(events).of), fsm[w] = NoApp,
           UNCHANGED <<gui, waiter, tpc, tend, told>>
    PROVE  LET t == Head(events).of
           IN  /\ t \in App /\ sageWidget[t] = 0
               /\ events' \in Seq(EventRec)
               /\ Introduced' = Introduced \cup {t} /\ t \notin Introduced
               /\ EventInv' /\ ThreadInv' /\ PairedOneToOne'
<1> DEFINE t == Head(events).of
<1> USE DEF IInv
<1>1. /\ events \in Seq(EventRec) /\ events # <<>> /\ Head(events).kind = "launch"
      /\ gui = 0 /\ sageWidget' = [sageWidget EXCEPT ![t] = w] /\ fsm' = [fsm EXCEPT ![w] = t]
      /\ events' = Append(Tail(events), [kind |-> "wake", of |-> t])
  BY DEF Event, Pair, TypeInv
<1>2. t \in App /\ t # NoApp
  BY <1>1, TailEvent, EventType, NoAppAssumption
<1>3. Tail(events) \in Seq(EventRec) /\ [kind |-> "wake", of |-> t] \in EventRec
  BY <1>1, <1>2, TailEvent DEF EventRec
<1>4. Has(events, "launch", t) /\ ~Has(Tail(events), "launch", t) /\ Unique(Tail(events))
  BY <1>1, TailEvent DEF EventInv
<1>5. \A k, id : Has(Tail(events), k, id) => Has(events, k, id)
  BY <1>1, TailEvent
<1>6. /\ events' \in Seq(EventRec) /\ Unique(events')
      /\ \A k, id : Has(events', k, id) => Has(Tail(events), k, id) \/ k = "wake"
  BY <1>1, <1>3, <1>4, AppendEvent
<1>7. sageWidget[t] = 0 /\ tpc[t] \in {"test", "sleep", "asleep"} /\ w # 0
  BY <1>2, <1>4, AppFinite DEF EventInv, Widget
<1> HIDE DEF t
<1>8. Introduced' = Introduced \cup {t} /\ t \notin Introduced
  BY <1>1, <1>2, <1>7 DEF Introduced, TypeInv
<1>9. EventInv'
  <2>1. ASSUME NEW a \in App, Has(events', "launch", a)
        PROVE  sageWidget'[a] = 0 /\ tpc'[a] \in {"test", "sleep", "asleep"}
    <3>1. Has(events, "launch", a) /\ a # t
      BY <1>4, <1>5, <1>6, <2>1
    <3> QED
      BY <1>1, <3>1 DEF EventInv, TypeInv
  <2>2. ASSUME NEW v \in Widget, Has(events', "init", v)
        PROVE  /\ fsm'[v] # NoApp /\ waiter'[v] = "none"
               /\ tpc'[fsm'[v]] \in {"poll", "connect", "run", "done"}
    <3>1. Has(events, "init", v)
      BY <1>5, <1>6, <2>2
    <3> QED
      BY <1>1, <3>1 DEF EventInv, TypeInv
  <2> QED
    BY <1>6, <2>1, <2>2 DEF EventInv
<1>10. ThreadInv'
  <2>1. \A a \in App : tpc[a] \in {"absent", "recv"} => sageWidget'[a] = 0
    BY <1>1, <1>2, <1>7 DEF ThreadInv, TypeInv
  <2>2. \A a \in App : tpc[a] \in {"init", "poll", "connect", "run"} => sageWidget'[a] # 0
    BY <1>1, <1>2, <1>7 DEF ThreadInv, TypeInv
  <2>3. \A a \in App : tpc[a] \in {"connect", "run"} \/ told[a] =>
           a # t /\ sageWidget'[a] # 0 /\ Ready(sageWidget[a])'
    <3> SUFFICES ASSUME NEW a \in App, tpc[a] \in {"connect", "run"} \/ told[a]
                 PROVE  a # t /\ sageWidget'[a] # 0 /\ Ready(sageWidget[a])'
      OBVIOUS
    <3>1. sageWidget[a] # 0 /\ Ready(sageWidget[a])
      BY DEF ThreadInv
    <3>2. a # t /\ sageWidget'[a] = sageWidget[a]
      BY <1>1, <1>7, <3>1 DEF TypeInv
    <3> QED
      BY <3>1, <3>2 DEF Ready
  <2>4. \A v \in Widget : waiter[v] # "none" =>
           fsm'[v] # NoApp /\ tpc[fsm'[v]] \in {"poll", "connect", "run", "done"}
    BY <1>1, <1>2, <1>7 DEF ThreadInv, TypeInv
  <2>5. waiter' = waiter /\ tpc' = tpc /\ told' = told /\ gui' = 0
    BY <1>1
  <2> QED
    BY <2>1, <2>2, <2>3, <2>4, <2>5 DEF ThreadInv
<1>11. PairedOneToOne'
  <2>1. ASSUME NEW a \in App, sageWidget'[a] # 0 PROVE fsm'[sageWidget'[a]] = a
    <3>1. CASE a = t
      BY <1>1, <3>1 DEF TypeInv
    <3>2. CASE a # t
      <4>1. sageWidget'[a] = sageWidget[a] /\ fsm[sageWidget[a]] = a /\ a # NoApp
        BY <1>1, <2>1, <3>2, NoAppAssumption DEF PairedOneToOne, TypeInv
      <4> QED
        BY <1>1, <2>1, <4>1 DEF TypeInv
    <3> QED
      BY <3>1, <3>2
  <2>2. ASSUME NEW v \in Widget, fsm'[v] # NoApp PROVE sageWidget'[fsm'[v]] = v
    <3>1. CASE v = w
      BY <1>1, <1>2, <3>1 DEF TypeInv
    <3>2. CASE v # w
      <4>1. fsm'[v] = fsm[v] /\ sageWidget[fsm[v]] = v /\ fsm[v] \in App /\ v # 0
        BY <1>1, <2>2, <3>2, AppFinite DEF PairedOneToOne, TypeInv, Widget
      <4> QED
        BY <1>1, <1>7, <4>1 DEF TypeInv
    <3> QED
      BY <3>1, <3>2
  <2> QED
    BY <2>1, <2>2 DEF PairedOneToOne
<1> QED
  BY <1>2, <1>6, <1>7, <1>8, <1>9, <1>10, <1>11 DEF t

\* Posting an event that EventInv says nothing of, or one that is new and true.
LEMMA PostKeeps ==
    ASSUME TypeInv, EventInv, NEW k, NEW id, [kind |-> k, of |-> id] \in EventRec, Post(k, id),
           k \in {"launch", "init"} => ~Has(events, k, id)
    PROVE  /\ events' \in Seq(EventRec) /\ Unique(events')
           /\ \A k2, id2 : Has(events', k2, id2) => Has(events, k2, id2) \/ (k2 = k /\ id2 = id)
BY AppendEvent DEF TypeInv, EventInv, Post

\* Handling an event whose handler posts none.
LEMMA HandleKeeps ==
    ASSUME TypeInv, EventInv, NEW k, Event(k), events' = Tail(events)
    PROVE  /\ events' \in Seq(EventRec) /\ Unique(events')
           /\ Head(events) \in EventRec /\ Head(events).kind = k
           /\ Has(events, k, Head(events).of)
           /\ k \in {"launch", "init"} => ~Has(events', k, Head(events).of)
           /\ \A k2, id2 : Has(events', k2, id2) => Has(events, k2, id2)
BY TailEvent DEF TypeInv, EventInv, Event
-------------------------------------------------------------------------------
\* The steps of the GUI thread.

\* A widget enters the queue behind those that were created before it.
LEMMA LaunchSageAppInv == ASSUME IInv, NEW a \in App, LaunchSageApp(a) PROVE IInv'
<1> USE DEF IInv, LaunchSageApp, widgetVars, threadVars
<1>1. created + 1 \in Widget /\ created \in Nat
  BY RoomForWidget, AppFinite DEF TypeInv, Widget
<1> DEFINE q == sageWidgetQueue
<1>2. /\ q' \in Seq(Widget) /\ Len(q') = Len(q) + 1 /\ Len(q) \in Nat
      /\ \A i \in 1..Len(q) : q'[i] = q[i]
      /\ q'[Len(q) + 1] = created + 1
  BY <1>1, AppendProperties, LenProperties DEF TypeInv
<1> HIDE DEF q
<1>3. TypeInv'
  <2>1. owner' \in [Widget -> App \cup {NoApp}] /\ launchedApps' \subseteq Launched
    BY <1>1 DEF TypeInv, App
  <2>2. q' \in Seq(Widget) /\ created' \in Widget /\ gone \subseteq 1..created'
    BY <1>1, <1>2 DEF TypeInv
  <2> QED
    BY <2>1, <2>2 DEF TypeInv, q
<1>4. CountInv'
  <2>1. Cardinality(launchedApps') = Cardinality(launchedApps) + 1
    BY CountedSets, FS_AddElement
  <2>2. Introduced' = Introduced
    BY DEF Introduced
  <2> QED
    BY <1>1, <2>1, <2>2, CountedSets DEF CountInv
<1>5. EventInv'
  BY DEF EventInv
<1>6. ThreadInv'
  BY DEF ThreadInv, Ready
<1>7. QueueInv'
  <2>1. created' = created + 1 /\ fsm' = fsm
    OBVIOUS
  <2>2. /\ Len(q) <= created
        /\ \A i \in 1..Len(q) : q[i] = created - Len(q) + i
        /\ \A w \in Widget : fsm[w] # NoApp <=> w <= created - Len(q)
    BY DEF QueueInv, q
  <2>3. \A i \in 1..Len(q') : q'[i] = created' - Len(q') + i
    BY <1>1, <1>2, <2>1, <2>2
  <2> QED
    BY <1>1, <1>2, <2>1, <2>2, <2>3 DEF QueueInv, q
<1>8. PairedOneToOne'
  BY DEF PairedOneToOne
<1> QED
  BY <1>3, <1>4, <1>5, <1>6, <1>7, <1>8

\* The widget at the head of the queue is the first one without a message thread.
LEMMA LaunchQueuedInv == ASSUME IInv, LaunchQueued PROVE IInv'
<1> USE DEF IInv, LaunchQueued
<1> DEFINE q == sageWidgetQueue
           w == Head(sageWidgetQueue)
           t == Head(events).of
<1>1. /\ w \in Widget /\ w = created - Len(q) + 1
      /\ q' \in Seq(Widget) /\ Len(q') = Len(q) - 1
      /\ \A i \in 1..Len(q') : q'[i] = created - Len(q') + i
  BY QueueHead
<1>2. Len(q) \in Nat /\ created \in Nat /\ fsm[w] = NoApp
  BY <1>1, LenProperties, AppFinite DEF TypeInv, QueueInv, Widget
<1>3. /\ t \in App /\ sageWidget[t] = 0 /\ events' \in Seq(EventRec)
      /\ Introduced' = Introduced \cup {t} /\ t \notin Introduced
      /\ EventInv' /\ ThreadInv' /\ PairedOneToOne'
  BY <1>1, <1>2, PairStep
<1>4. fsm' = [fsm EXCEPT ![w] = t] /\ sageWidget' = [sageWidget EXCEPT ![t] = w]
  BY DEF Pair
<1>5. TypeInv'
  BY <1>1, <1>3, <1>4 DEF TypeInv
<1>6. CountInv'
  <2>1. Cardinality(Introduced') = Cardinality(Introduced) + 1
    BY <1>3, CountedSets, FS_AddElement
  <2> QED
    BY <1>2, <2>1, CountedSets DEF CountInv
<1>7. QueueInv'
  <2>1. \A v \in Widget : fsm'[v] # NoApp <=> fsm[v] # NoApp \/ v = w
    BY <1>1, <1>3, <1>4, NoAppAssumption DEF TypeInv
  <2>2. \A v \in Widget : fsm'[v] # NoApp <=> v <= created - Len(q')
    BY <1>1, <1>2, <2>1 DEF QueueInv, Widget
  <2> QED
    BY <1>1, <1>2, <2>2 DEF QueueInv
<1> QED
  BY <1>3, <1>5, <1>6, <1>7

\* The queue is empty: all widgets have been given away, and so is the new one.
LEMMA LaunchManualInv == ASSUME IInv, LaunchManual PROVE IInv'
<1> USE DEF IInv, LaunchManual
<1> DEFINE w == created + 1
           t == Head(events).of
<1>1. Len(sageWidgetQueue) = 0 /\ created \in Nat
  BY EmptySeq, AppFinite DEF TypeInv, Widget
<1>2. t \in App /\ sageWidget[t] = 0
  BY TailEvent, EventType DEF TypeInv, EventInv, Event
<1>3. w \in Widget /\ fsm[w] = NoApp
  BY <1>1, <1>2, RoomForWidget DEF QueueInv
<1>4. /\ events' \in Seq(EventRec)
      /\ Introduced' = Introduced \cup {t} /\ t \notin Introduced
      /\ EventInv' /\ ThreadInv' /\ PairedOneToOne'
  BY <1>3, PairStep
<1>5. fsm' = [fsm EXCEPT ![w] = t] /\ sageWidget' = [sageWidget EXCEPT ![t] = w]
  BY DEF Pair
<1>6. TypeInv'
  BY <1>1, <1>2, <1>3, <1>4, <1>5 DEF TypeInv
<1>7. CountInv'
  <2>1. Cardinality(Introduced') = Cardinality(Introduced) + 1
    BY <1>4, CountedSets, FS_AddElement
  <2> QED
    BY <1>1, <2>1, CountedSets DEF CountInv
<1>8. QueueInv'
  <2>1. \A v \in Widget : fsm'[v] # NoApp <=> fsm[v] # NoApp \/ v = w
    BY <1>2, <1>3, <1>5, NoAppAssumption DEF TypeInv
  <2> QED
    BY <1>1, <2>1 DEF QueueInv, Widget
<1> QED
  BY <1>4, <1>6, <1>7, <1>8

\* A step that neither creates nor pairs keeps the counts, the queue and the pairs.
LEMMA NoPairing ==
    ASSUME CountInv, QueueInv, PairedOneToOne,
           UNCHANGED <<created, launchedApps, sageWidget, sageWidgetQueue, fsm>>
    PROVE  CountInv' /\ QueueInv' /\ PairedOneToOne'
BY DEF CountInv, Introduced, QueueInv, PairedOneToOne

\* The other events, connections and the two halves of a destructor.
LEMMA GuiInv ==
    ASSUME IInv,
           \/ SignalSageWidgetCreated \/ DoInitReceiver \/ StartReceivingThread \/ CloseEnd
           \/ \E a \in App : IncomingConnection(a)
           \/ \E w \in Widget : CloseBegin(w)
    PROVE  IInv'
<1> USE DEF IInv, guiVars, widgetVars, threadVars
<1>1. CASE SignalSageWidgetCreated
  <2> USE <1>1 DEF SignalSageWidgetCreated
  <2> DEFINE t == Head(events).of
  <2>1. /\ events' \in Seq(EventRec) /\ Unique(events')
        /\ \A k, id : Has(events', k, id) => Has(events, k, id)
    BY HandleKeeps
  <2>2. TypeInv'
    BY <2>1 DEF TypeInv
  <2>3. \A a \in App : tpc'[a] = tpc[a] \/ (tpc[a] = "asleep" /\ tpc'[a] = "test")
    BY DEF TypeInv
  <2>4. EventInv'
    BY <2>1, <2>3 DEF EventInv, TypeInv
  <2>5. ThreadInv'
    BY <2>3 DEF ThreadInv, Ready, TypeInv
  <2> QED
    BY <2>2, <2>4, <2>5, NoPairing
<1>2. CASE DoInitReceiver
  <2> USE <1>2 DEF DoInitReceiver
  <2> DEFINE v == Head(events).of
  <2>1. /\ events' \in Seq(EventRec) /\ Unique(events')
        /\ \A k, id : Has(events', k, id) => Has(events, k, id)
        /\ Has(events, "init", v) /\ ~Has(events', "init", v) /\ v \in Widget
    BY HandleKeeps, EventType
  <2>2. /\ fsm[v] # NoApp /\ waiter[v] = "none"
        /\ tpc[fsm[v]] \in {"poll", "connect", "run", "done"}
    BY <2>1 DEF EventInv
  <2>3. waiter' = waiter \/ waiter' = [waiter EXCEPT ![v] = "bind"]
    OBVIOUS
  <2> HIDE DEF v
  <2>4. TypeInv'
    BY <2>1, <2>3 DEF TypeInv
  <2>5. EventInv'
    BY <2>1, <2>3 DEF EventInv, TypeInv
  <2>6. \A w \in Widget : Ready(w) => Ready(w)'
    BY <2>2, <2>3 DEF Ready, TypeInv
  <2>7. \A w \in Widget : waiter'[w] # "none" => waiter[w] # "none" \/ w = v
    BY <2>3 DEF TypeInv
  <2>8. ThreadInv'
    BY <2>2, <2>6, <2>7 DEF ThreadInv, TypeInv
  <2> QED
    BY <2>4, <2>5, <2>8, NoPairing
<1>3. CASE StartReceivingThread
  <2> USE <1>3 DEF StartReceivingThread
  <2>1. /\ events' \in Seq(EventRec) /\ Unique(events')
        /\ \A k, id : Has(events', k, id) => Has(events, k, id)
    BY HandleKeeps
  <2>2. TypeInv'
    BY <2>1 DEF TypeInv
  <2>3. EventInv'
    BY <2>1 DEF EventInv
  <2>4. ThreadInv'
    BY DEF ThreadInv, Ready
  <2> QED
    BY <2>2, <2>3, <2>4, NoPairing
<1>4. CASE CloseEnd
  <2> USE <1>4 DEF CloseEnd
  <2>1. gui \in 1..created
    BY AppFinite, LenProperties DEF ThreadInv, QueueInv, TypeInv, Widget
  <2>2. TypeInv'
    BY <2>1 DEF TypeInv
  <2>3. EventInv'
    BY DEF EventInv
  <2>4. ThreadInv'
    BY DEF ThreadInv, Ready
  <2> QED
    BY <2>2, <2>3, <2>4, NoPairing
<1>5. ASSUME NEW a \in App, IncomingConnection(a) PROVE IInv'
  <2> USE <1>5 DEF IncomingConnection
  <2>1. TypeInv'
    BY DEF TypeInv
  <2>2. EventInv'
    BY DEF EventInv, TypeInv
  <2>3. ThreadInv'
    BY DEF ThreadInv, Ready, TypeInv
  <2> QED
    BY <2>1, <2>2, <2>3, NoPairing
<1>6. ASSUME NEW w \in Widget, CloseBegin(w) PROVE IInv'
  <2> USE <1>6 DEF CloseBegin
  <2>1. TypeInv'
    BY DEF TypeInv
  <2>2. EventInv'
    BY DEF EventInv
  <2>3. ThreadInv'
    BY DEF ThreadInv, Ready, TypeInv
  <2> QED
    BY <2>1, <2>2, <2>3, NoPairing
<1> QED
  BY <1>1, <1>2, <1>3, <1>4, <1>5, <1>6

\* The steps of a message thread: it asks for a widget once, and asks its widget
\* to listen once.
LEMMA MsgThreadInv == ASSUME IInv, NEW t \in App, MsgThread(t) \/ SailQuits(t) PROVE IInv'
<1> USE DEF IInv, guiVars, widgetVars
<1>1. CASE RegApp(t)
  <2> USE <1>1 DEF RegApp
  <2>1. ~Has(events, "launch", t) /\ sageWidget[t] = 0
    BY DEF EventInv, ThreadInv
  <2>2. [kind |-> "launch", of |-> t] \in EventRec
    BY DEF EventRec
  <2>3. /\ events' \in Seq(EventRec) /\ Unique(events')
        /\ \A k, id : Has(events', k, id) => Has(events, k, id) \/ (k = "launch" /\ id = t)
    BY <2>1, <2>2, PostKeeps
  <2>4. TypeInv'
    BY <2>3 DEF TypeInv
  <2>5. EventInv'
    BY <2>1, <2>3 DEF EventInv, TypeInv
  <2>6. ThreadInv'
    BY DEF ThreadInv, Ready, TypeInv
  <2> QED
    BY <2>4, <2>5, <2>6, NoPairing
<1>2. CASE TestWidget(t)
  <2> USE <1>2 DEF TestWidget
  <2>1. TypeInv'
    BY DEF TypeInv
  <2>2. EventInv'
    BY DEF EventInv, TypeInv
  <2>3. ThreadInv'
    BY DEF ThreadInv, Ready, TypeInv
  <2> QED
    BY <2>1, <2>2, <2>3, NoPairing
<1>3. CASE SleepForWidget(t)
  <2> USE <1>3 DEF SleepForWidget
  <2>1. TypeInv'
    BY DEF TypeInv
  <2>2. EventInv'
    BY DEF EventInv, TypeInv
  <2>3. ThreadInv'
    BY DEF ThreadInv, Ready, TypeInv
  <2> QED
    BY <2>1, <2>2, <2>3, NoPairing
<1>4. CASE SendInit(t)
  <2> USE <1>4 DEF SendInit
  <2> DEFINE w == sageWidget[t]
  <2>1. w \in Widget /\ fsm[w] = t /\ t # NoApp
    BY NoAppAssumption DEF ThreadInv, PairedOneToOne, TypeInv
  <2>2. ~Has(events, "init", w) /\ waiter[w] = "none"
    BY <2>1 DEF EventInv, ThreadInv, TypeInv
  <2>3. [kind |-> "init", of |-> w] \in EventRec
    BY <2>1 DEF EventRec
  <2>4. /\ events' \in Seq(EventRec) /\ Unique(events')
        /\ \A k, id : Has(events', k, id) => Has(events, k, id) \/ (k = "init" /\ id = w)
    BY <2>2, <2>3, PostKeeps
  <2>5. \E p \in {"poll", "done"} : tpc' = [tpc EXCEPT ![t] = p]
    OBVIOUS
  <2>6. tend' \in [App -> BOOLEAN] /\ \A a \in App : tend[a] => tend'[a]
    BY DEF TypeInv
  <2> HIDE DEF w
  <2>7. TypeInv'
    BY <2>4, <2>5, <2>6 DEF TypeInv
  <2>8. EventInv'
    BY <2>1, <2>2, <2>4, <2>5 DEF EventInv, TypeInv
  <2>9. ThreadInv'
    BY <2>1, <2>5, <2>6 DEF ThreadInv, Ready, TypeInv, w
  <2> QED
    BY <2>7, <2>8, <2>9, NoPairing
<1>5. CASE PollReady(t)
  <2> USE <1>5 DEF PollReady
  <2>1. TypeInv'
    BY DEF TypeInv
  <2>2. EventInv'
    BY DEF EventInv, TypeInv
  <2>3. ThreadInv'
    BY DEF ThreadInv, Ready, TypeInv
  <2> QED
    BY <2>1, <2>2, <2>3, NoPairing
<1>6. CASE SendConnect(t)
  <2> USE <1>6 DEF SendConnect
  <2>1. \E p \in {"run", "done"} : tpc' = [tpc EXCEPT ![t] = p]
    OBVIOUS
  <2>2. tend' \in [App -> BOOLEAN] /\ \A a \in App : tend[a] => tend'[a]
    BY DEF TypeInv
  <2>3. told' \in [App -> BOOLEAN] /\ \A a \in App : told'[a] => told[a] \/ a = t
    BY DEF TypeInv
  <2>4. sageWidget[t] # 0 /\ Ready(sageWidget[t])
    BY DEF ThreadInv
  <2>5. TypeInv'
    BY <2>1, <2>2, <2>3 DEF TypeInv
  <2>6. EventInv'
    BY <2>1 DEF EventInv, TypeInv
  <2>7. ThreadInv'
    BY <2>1, <2>2, <2>3, <2>4 DEF ThreadInv, Ready, TypeInv
  <2> QED
    BY <2>5, <2>6, <2>7, NoPairing
<1>7. CASE SailQuits(t)
  <2> USE <1>7 DEF SailQuits
  <2>1. TypeInv'
    BY DEF TypeInv
  <2>2. EventInv'
    BY DEF EventInv, TypeInv
  <2>3. ThreadInv'
    BY DEF ThreadInv, Ready, TypeInv
  <2> QED
    BY <2>1, <2>2, <2>3, NoPairing
<1> QED
  BY <1>1, <1>2, <1>3, <1>4, <1>5, <1>6, <1>7 DEF MsgThread

\* waitForPixelStreamerConnection() never makes a widget less ready than it was.
LEMMA WaiterInv == ASSUME IInv, NEW w \in Widget, Waiter(w) PROVE IInv'
<1> USE DEF IInv
<1>1. [kind |-> "started", of |-> w] \in EventRec
  BY DEF EventRec
<1>2. \E r \in {"accept", "nosocket", "ok", "failed"} :
         /\ waiter' = [waiter EXCEPT ![w] = r]
         /\ waiter[w] = "accept" => r \in {"ok", "failed"}
  BY DEF Waiter, Listen, Accept, WaiterEnds
<1>3. waiter[w] \in {"bind", "accept"}
  BY DEF Waiter, Listen, Accept
<1>4. UNCHANGED <<gui, sageWidgetQueue, created, owner, launchedApps, fsm, receiving, gone,
                  threadVars>>
  BY DEF Waiter, Listen, Accept, WaiterEnds, guiVars
<1>5. events' = events \/ Post("started", w)
  BY DEF Waiter, Listen, Accept, WaiterEnds, guiVars
<1>6. /\ events' \in Seq(EventRec) /\ Unique(events')
      /\ \A k, id : Has(events', k, id) => Has(events, k, id) \/ k = "started"
  BY <1>1, <1>5, PostKeeps DEF TypeInv, EventInv
<1>7. TypeInv'
  BY <1>2, <1>4, <1>6 DEF TypeInv, threadVars
<1>8. \A v \in Widget : waiter'[v] = "none" <=> waiter[v] = "none"
  BY <1>2, <1>3 DEF TypeInv
<1>9. EventInv'
  BY <1>4, <1>6, <1>8 DEF EventInv, threadVars
<1>10. \A v \in Widget : Ready(v) => Ready(v)'
  BY <1>2, <1>3 DEF Ready, TypeInv
<1>11. ThreadInv'
  BY <1>4, <1>8, <1>10 DEF ThreadInv, TypeInv, threadVars
<1> QED
  BY <1>4, <1>7, <1>9, <1>11, NoPairing DEF threadVars
-------------------------------------------------------------------------------
\* Every step keeps the events, the queue and the pairs in step.
LEMMA StepInv == IInv /\ [Next]_vars => IInv'
<1> SUFFICES ASSUME IInv, [Next]_vars PROVE IInv'
  OBVIOUS
<1>1. CASE UNCHANGED vars
  BY <1>1 DEF IInv, TypeInv, CountInv, Introduced, EventInv, ThreadInv, Ready, QueueInv,
     PairedOneToOne, vars, guiVars, widgetVars, threadVars
<1>2. CASE Next
  BY <1>2, LaunchSageAppInv, LaunchQueuedInv, LaunchManualInv, GuiInv, MsgThreadInv, WaiterInv
     DEF Next, GuiStep
<1> QED
  BY <1>1, <1>2

\* However many applications connect, in whatever order and whoever started them,
\* launch() pairs widgets and message threads one to one, and no widget in the
\* queue is overtaken by one created after it.
THEOREM PairingThm == Spec => []PairingInv
<1>1. IInv => PairingInv
  <2> SUFFICES ASSUME IInv PROVE PairingInv
    OBVIOUS
  <2>1. TypeOK
    BY ElementOfSeq, LenProperties DEF IInv, TypeInv, TypeOK, EventRec
  <2>2. FirstComeFirstServed
    BY AppFinite, LenProperties
       DEF IInv, QueueInv, TypeInv, FirstComeFirstServed, Widget
  <2> QED
    BY <2>1, <2>2 DEF IInv, PairingInv
<1> QED
  BY InitInv, StepInv, <1>1, PTL DEF Spec

\* SAIL is told to connect only when its widget listens; and the destructor of a
\* widget that listens waits for a message thread that is awake and knows of it.
THEOREM ListeningThm == Spec => []ListeningInv
<1>1. IInv => ListeningInv
  BY DEF IInv, TypeInv, ThreadInv, Ready, ListeningInv, ToldWhenListening, WaitsForAwake
<1> QED
  BY InitInv, StepInv, <1>1, PTL DEF Spec
===============================================================================
