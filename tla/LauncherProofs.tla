---------------------------- MODULE LauncherProofs ----------------------------
(***************************************************************************)
(* Theorems about Launcher, about FileTransfer, which hands it the files   *)
(* it launches, and about MediaBrowser, in which they are chosen.          *)
(*                                                                         *)
(* Launcher, for any set of widgets and any bound on the numbers: a widget *)
(* is awaited until it is closed exactly if it is in the queue; whatever   *)
(* is deleted later is deleted once; and a widget that nobody has closed,  *)
(* and that did not wait while the numbers were set anew, has a number     *)
(* below the counter.                                                      *)
(*                                                                         *)
(* FileTransfer, for any senders, files, chunks and connections: as long   *)
(* as the user does not drop files while others are being sent, one file   *)
(* at a time is on its way or being reported, so what follows a header is  *)
(* its file; and the files of a drop keep their order on every stretch of  *)
(* their way: launched, posted, being received, on the wire, to be sent.   *)
(*                                                                         *)
(* MediaBrowser, for any directories and page size: the page number is 0   *)
(* whenever a root icon can be clicked, and a directory that was opened is *)
(* an item of its parent.                                                  *)
(***************************************************************************)
EXTENDS Launcher, FileTransfer, SequenceTheorems, FiniteSetTheorems, TLAPS

\* Nothing is in the sequence twice.
Unique(s) == \A i, j \in 1..Len(s) : s[i] = s[j] => i = j

Entries == [gid : 1..MaxId, stream : BOOLEAN]

TypeInv == /\ _globalAppId \in 1 .. MaxId + 1
           /\ life \in [Widget -> {"none", "awaited", "scene"}]
           /\ gid \in [Widget -> 0..MaxId]
           /\ streams \subseteq Widget
           /\ _sageWidgetQueue \in Seq(Widget)
           /\ deferred \in Seq(Widget \cup {Monitor})
           /\ session \in Seq(Entries) /\ entries \in Seq(Entries)
           /\ {theLastLaunched, appMap} \subseteq Widget \cup {NoWidget}
           /\ removals \subseteq Widget

\* The queue holds the awaited widgets, but none that is going to be deleted.
QueueInv == /\ Unique(_sageWidgetQueue)
            /\ \A w \in Widget : Contains(_sageWidgetQueue, w) <=> life[w] = "awaited" /\ ~IsClosed(w)

\* What is deleted exists, and is deleted once.
ClosedInv == /\ Unique(deferred)
             /\ \A w \in Widget : IsClosed(w) => life[w] # "none"

LiveInv == /\ \A w \in Widget : life[w] # "none" => gid[w] # 0
           /\ \A w \in streams : life[w] # "none"
           /\ widgetList \subseteq streams

\* Without a monitor there is no registry.
MonitorInv == monitor = "none" => widgetList = {} /\ DOMAIN _widgetMap = {}

\* The numbers the counter has passed.
NumberInv == \A w \in Widget :
    life[w] # "none" /\ ~IsClosed(w) /\ w \notin strays => gid[w] < _globalAppId

\* While a session is loaded every awaited widget counts as a stray.
EntriesInv == entries # <<>> =>
    \A w \in Widget : life[w] = "awaited" /\ ~IsClosed(w) => w \in strays

\* A widget that the study's thread was told of is in the scene as long as it exists.
StudyInv == /\ \A w \in Widget \cap {theLastLaunched, appMap} : life[w] # "awaited"
            /\ ~misused => \A w \in removals : life[w] = "scene"

Clash == NumbersClashOnlyWithAwaited

\* As long as the monitor stays the counter is not set back: every number in use is below
\* it, what awaits during a load is known, and two widgets share a known number only.
KnownInv == monitor = "alive" /\ ~IsClosed(Monitor) =>
    /\ \A w \in Widget : life[w] # "none" => gid[w] < _globalAppId
    /\ entries # <<>> => \A w \in Widget : life[w] = "awaited" => gid[w] \in strayIds
    /\ \A v, w \in Widget : v # w /\ life[v] # "none" /\ life[w] # "none" /\ gid[v] = gid[w]
                            => gid[w] \in strayIds

FoundInv == KnownInv /\ StreamsAreFound

IInv == /\ TypeInv /\ QueueInv /\ ClosedInv /\ LiveInv
        /\ MonitorInv /\ MappedIsListed /\ NumberInv /\ Clash /\ EntriesInv /\ StudyInv /\ FoundInv

-------------------------------------------------------------------------------
(* Sequences                                                                 *)

\* A sequence with one element more.
LEMMA AppendOne ==
    ASSUME NEW S, NEW s \in Seq(S), NEW e \in S
    PROVE  /\ Append(s, e) \in Seq(S)
           /\ \A x : Contains(Append(s, e), x) <=> Contains(s, x) \/ x = e
           /\ Unique(s) /\ ~Contains(s, e) => Unique(Append(s, e))
<1> DEFINE r == Append(s, e)
           n == Len(s)
<1>1. /\ r \in Seq(S) /\ Len(r) = n + 1 /\ n \in Nat
      /\ \A i \in 1..n : r[i] = s[i]
      /\ r[n + 1] = e
  BY AppendProperties, LenProperties
<1> HIDE DEF r
<1>2. \A i : i \in 1..Len(r) <=> i \in 1..n \/ i = n + 1
  BY <1>1
<1>3. \A x : Contains(r, x) <=> Contains(s, x) \/ x = e
  BY <1>1, <1>2 DEF Contains
<1>4. Unique(s) /\ ~Contains(s, e) => Unique(r)
  BY <1>1, <1>2 DEF Unique, Contains
<1> QED
  BY <1>1, <1>3, <1>4 DEF r

\* A sequence without its first element.
LEMMA TakeHead ==
    ASSUME NEW S, NEW s \in Seq(S), s # <<>>
    PROVE  /\ Tail(s) \in Seq(S) /\ Head(s) \in S
           /\ \A x : Contains(s, x) <=> Contains(Tail(s), x) \/ x = Head(s)
           /\ Unique(s) => Unique(Tail(s)) /\ ~Contains(Tail(s), Head(s))
<1> DEFINE r == Tail(s)
           n == Len(s)
<1>1. /\ r \in Seq(S) /\ Head(s) \in S /\ Len(r) = n - 1
      /\ \A i \in 1..Len(r) : r[i] = s[i + 1]
  BY HeadTailProperties
<1>2. n \in Nat \ {0} /\ Head(s) = s[1]
  BY EmptySeq
<1> HIDE DEF r, n
<1>3. \A i \in 1 .. n - 1 : r[i] = s[i + 1] /\ i + 1 \in 1..n /\ i + 1 # 1
  BY <1>1, <1>2
<1>4. \A i \in 1..n : i = 1 \/ (i - 1 \in 1 .. n - 1 /\ s[i] = r[i - 1])
  BY <1>1, <1>2
<1>5. \A x : Contains(r, x) \/ x = Head(s) => Contains(s, x)
  BY <1>1, <1>2, <1>3 DEF Contains, n
<1>6. \A x : Contains(s, x) => Contains(r, x) \/ x = Head(s)
  <2> SUFFICES ASSUME NEW x, NEW j \in 1..n, s[j] = x, j # 1
               PROVE  \E i \in 1..Len(r) : r[i] = x
    BY <1>2 DEF Contains, n
  <2> QED
    BY <1>1, <1>4
<1>7. Unique(s) => ~Contains(r, Head(s))
  BY <1>1, <1>2, <1>3 DEF Unique, Contains, n
<1>8. Unique(s) => Unique(r)
  <2> SUFFICES ASSUME Unique(s), NEW i \in 1..Len(r), NEW j \in 1..Len(r), r[i] = r[j]
               PROVE  i = j
    BY DEF Unique
  <2>1. s[i + 1] = s[j + 1] /\ i + 1 \in 1..n /\ j + 1 \in 1..n
    BY <1>1, <1>3
  <2>2. i + 1 = j + 1
    BY <2>1 DEF Unique, n
  <2> QED
    BY <2>2, <1>1, <1>2
<1> QED
  BY <1>1, <1>5, <1>6, <1>7, <1>8 DEF r

\* A sequence behind another.
LEMMA JoinTwo ==
    ASSUME NEW S, NEW s \in Seq(S), NEW t \in Seq(S)
    PROVE  /\ s \o t \in Seq(S)
           /\ \A x : Contains(s \o t, x) <=> Contains(s, x) \/ Contains(t, x)
           /\ Unique(s) /\ Unique(t) /\ (\A x : ~(Contains(s, x) /\ Contains(t, x)))
                  => Unique(s \o t)
<1> DEFINE r == s \o t
           m == Len(s)
           n == Len(t)
<1>1. m \in Nat /\ n \in Nat
  BY LenProperties
<1>2. /\ r \in Seq(S) /\ Len(r) = m + n
      /\ \A i \in 1 .. m + n : r[i] = IF i <= m THEN s[i] ELSE t[i - m]
  BY ConcatProperties
<1> HIDE DEF r, m, n
<1>3. \A i \in 1 .. m + n : \/ i \in 1..m /\ r[i] = s[i]
                            \/ i - m \in 1..n /\ r[i] = t[i - m] /\ i > m
  BY <1>1, <1>2
<1>4. \A i \in 1..m : i \in 1 .. m + n /\ r[i] = s[i]
  BY <1>1, <1>2
<1>5. \A i \in 1..n : i + m \in 1 .. m + n /\ r[i + m] = t[i]
  BY <1>1, <1>2
<1>6. \A x : Contains(s, x) \/ Contains(t, x) => Contains(r, x)
  <2>1. \A x : Contains(s, x) => Contains(r, x)
    BY <1>2, <1>4 DEF Contains, m
  <2>2. \A x : Contains(t, x) => Contains(r, x)
    <3> SUFFICES ASSUME NEW i \in 1..n PROVE Contains(r, t[i])
      BY DEF Contains, n
    <3> QED
      BY <1>2, <1>5 DEF Contains
  <2> QED
    BY <2>1, <2>2
<1>7. \A i \in 1 .. m + n : \/ i \in 1..m /\ r[i] = s[i] /\ Contains(s, r[i])
                            \/ i - m \in 1..n /\ r[i] = t[i - m] /\ i > m /\ Contains(t, r[i])
  BY <1>3 DEF Contains, m, n
<1>8. \A x : Contains(r, x) => Contains(s, x) \/ Contains(t, x)
  BY <1>2, <1>7 DEF Contains
<1>9. ASSUME Unique(s), Unique(t), \A x : ~(Contains(s, x) /\ Contains(t, x))
      PROVE  Unique(r)
  <2> SUFFICES ASSUME NEW i \in 1 .. m + n, NEW j \in 1 .. m + n, r[i] = r[j]
               PROVE  i = j
    BY <1>2 DEF Unique
  <2>1. CASE i \in 1..m /\ r[i] = s[i] /\ Contains(s, r[i])
    <3>1. j \in 1..m /\ r[j] = s[j]
      BY <2>1, <1>7, <1>9
    <3> QED
      BY <3>1, <2>1, <1>9 DEF Unique, m
  <2>2. CASE i - m \in 1..n /\ r[i] = t[i - m] /\ i > m /\ Contains(t, r[i])
    <3>1. j - m \in 1..n /\ r[j] = t[j - m] /\ j > m
      BY <2>2, <1>7, <1>9
    <3>2. i - m = j - m
      BY <3>1, <2>2, <1>9 DEF Unique, n
    <3> QED
      BY <3>2, <1>1
  <2> QED
    BY <2>1, <2>2, <1>7
<1> QED
  BY <1>2, <1>6, <1>8, <1>9 DEF r

\* SetToSeq() lists a finite set, each element once.
LEMMA SeqOfSet ==
    ASSUME NEW S, IsFiniteSet(S)
    PROVE  /\ SetToSeq(S) \in Seq(S)
           /\ \A x : Contains(SetToSeq(S), x) <=> x \in S
           /\ Unique(SetToSeq(S))
<1> DEFINE n == Cardinality(S)
           f == SetToSeq(S)
<1>1. n \in Nat /\ ExistsBijection(1..n, S)
  BY FS_CardinalityType
<1>2. PICK g : g \in Bijection(1..n, S)
  BY <1>1 DEF ExistsBijection
<1>3. g \in [1..n -> S] /\ IsInjective(g)
  BY <1>2 DEF Bijection, Injection
<1>4. f \in [1..n -> S] /\ IsInjective(f)
  BY <1>3 DEF SetToSeq
<1> HIDE DEF n, f
<1>5. f \in Seq(S) /\ Len(f) = n
  <2>1. f \in Seq(S)
    BY <1>1, <1>4, SeqDef
  <2>2. DOMAIN f = 1..n /\ DOMAIN f = 1..Len(f) /\ Len(f) \in Nat
    BY <2>1, <1>4, LenProperties
  <2> QED
    BY <2>1, <2>2, <1>1
<1>6. f \in Surjection(1..n, S)
  <2>1. f \in Injection(1..n, S)
    BY <1>4 DEF Injection
  <2>2. IsFiniteSet(1..n) /\ Cardinality(1..n) = n
    BY <1>1, FS_Interval
  <2> QED
    BY <2>1, <2>2, <1>1, FS_Injection DEF n
<1>7. \A x \in S : \E i \in 1..n : f[i] = x
  BY <1>6 DEF Surjection
<1>8. \A x : Contains(f, x) <=> x \in S
  BY <1>4, <1>5, <1>7 DEF Contains
<1>9. Unique(f)
  BY <1>4, <1>5 DEF IsInjective, Unique
<1> QED
  BY <1>5, <1>8, <1>9 DEF f

\* What Contains() finds is what the indices lead to.
LEMMA RangeIsContents ==
    ASSUME NEW S, NEW s \in Seq(S)
    PROVE  \A x : x \in Range(s) <=> Contains(s, x)
BY DEF Range, Contains

-------------------------------------------------------------------------------
(* Numbers                                                                   *)

\* A widget made for the number n, which is not in the scene, gets one that only awaited
\* widgets of a session can have, and the counter is beyond it.
LEMMA NewNumber ==
    ASSUME TypeInv, NEW n \in 0..MaxId, NextId(n) <= MaxId + 1,
           n # 0 => GetUserWidget(n) = {}
    PROVE  /\ UpdatedId(n) \in 1..MaxId
           /\ UpdatedId(n) < NextId(n)
           /\ NextId(n) \in 1 .. MaxId + 1 /\ _globalAppId <= NextId(n)
           /\ UpdatedId(n) >= _globalAppId \/ (n # 0 /\ UpdatedId(n) = n)
<1>1. _globalAppId \in 1 .. MaxId + 1 /\ MaxId \in Nat
  BY LauncherAssumption DEF TypeInv
<1>2. CASE n = 0
  BY <1>1, <1>2 DEF UpdatedId, NextId
<1>3. CASE n # 0
  BY <1>1, <1>3 DEF UpdatedId, NextId
<1> QED
  BY <1>2, <1>3

-------------------------------------------------------------------------------
(* The steps                                                                 *)

\* Nothing is launched, queued or numbered at first.
LEMMA InitInv == Init => IInv
<1> SUFFICES ASSUME Init PROVE IInv
  OBVIOUS
<1>1. \A x : ~Contains(<<>>, x)
  BY DEF Contains
<1>2. TypeInv
  BY LauncherAssumption DEF Init, TypeInv
<1>3. QueueInv /\ ClosedInv
  BY <1>1 DEF Init, QueueInv, ClosedInv, Unique, IsClosed
<1>4. LiveInv /\ MonitorInv /\ MappedIsListed
  BY DEF Init, LiveInv, MonitorInv, MappedIsListed
<1>5. NumberInv /\ Clash /\ EntriesInv
  BY DEF Init, NumberInv, Clash, NumbersClashOnlyWithAwaited, EntriesInv
<1>6. StudyInv /\ FoundInv
  BY DEF Init, StudyInv, FoundInv, KnownInv, StreamsAreFound
<1> QED
  BY <1>2, <1>3, <1>4, <1>5, <1>6 DEF IInv

\* Steps that make, close and delete no widget.
LEMMA SameWidgets ==
    ASSUME IInv, UNCHANGED <<sceneVars, _sageWidgetQueue, widgetList, _widgetMap, monitor>>,
           _globalAppId' \in 1 .. MaxId + 1, _globalAppId <= _globalAppId',
           strays \subseteq strays', strayIds \subseteq strayIds',
           session' \in Seq(Entries), entries' \in Seq(Entries),
           {theLastLaunched', appMap'} \subseteq Widget \cup {NoWidget},
           removals' \subseteq Widget,
           entries' # <<>> => \/ entries # <<>>
                              \/ \A w \in Widget : life[w] = "awaited" => w \in strays' /\ gid[w] \in strayIds',
           StudyInv'
    PROVE  IInv'
<1> USE DEF IInv, sceneVars
<1>1. TypeInv'
  BY DEF TypeInv
<1>2. QueueInv' /\ ClosedInv'
  BY DEF QueueInv, ClosedInv, IsClosed
<1>3. LiveInv' /\ MonitorInv' /\ MappedIsListed'
  BY DEF LiveInv, MonitorInv, MappedIsListed
<1>4. NumberInv'
  BY LauncherAssumption DEF NumberInv, IsClosed, TypeInv
<1>5. Clash'
  BY DEF Clash, NumbersClashOnlyWithAwaited, IsClosed
<1>6. EntriesInv'
  BY DEF EntriesInv, IsClosed
<1>7. FoundInv'
  <2>1. KnownInv'
    BY LauncherAssumption DEF FoundInv, KnownInv, IsClosed, TypeInv
  <2>2. StreamsAreFound'
    BY DEF FoundInv, StreamsAreFound, IsClosed
  <2> QED
    BY <2>1, <2>2 DEF FoundInv
<1> QED
  BY <1>1, <1>2, <1>3, <1>4, <1>5, <1>6, <1>7

\* A widget that waits for its application, one whose application could not be started,
\* and one that is put in the scene at once.
Created(w, s) ==
    \/ s = "awaited" /\ _sageWidgetQueue' = Append(_sageWidgetQueue, w) /\ UNCHANGED deferred
    \/ s = "awaited" /\ deferred' = Append(deferred, w) /\ UNCHANGED _sageWidgetQueue
    \/ s = "scene" /\ UNCHANGED <<deferred, _sageWidgetQueue>>

\* What every launch does: a new widget gets a number.
LEMMA NewWidget ==
    ASSUME IInv, ~misused, NEW w \in Widget, NEW n \in 0..MaxId, NEW s \in {"awaited", "scene"},
           Free(w), NextId(n) <= MaxId + 1,
           n # 0 => entries # <<>> /\ GetUserWidget(n) = {},
           life' = [life EXCEPT ![w] = s],
           gid' = [gid EXCEPT ![w] = UpdatedId(n)],
           _globalAppId' = NextId(n),
           \/ streams' = streams \cup {w} /\ AddSchedulableWidget(w, UpdatedId(n))
           \/ UNCHANGED <<streams, widgetList, _widgetMap, misused>>,
           monitor' = monitor, Created(w, s),
           strays \subseteq strays', strayIds \subseteq strayIds',
           s = "awaited" /\ entries # <<>> => w \in strays' /\ UpdatedId(n) \in strayIds',
           session' = session, entries' \in Seq(Entries), entries' # <<>> => entries # <<>>,
           appMap' = appMap, removals' = removals,
           theLastLaunched' = theLastLaunched \/ (theLastLaunched' = w /\ s = "scene")
    PROVE  IInv'
<1> DEFINE u == UpdatedId(n)
           next == NextId(n)
<1>1. TypeInv
  BY DEF IInv
<1>2. /\ u \in 1..MaxId /\ u < next /\ next \in 1 .. MaxId + 1 /\ _globalAppId <= next
      /\ u >= _globalAppId \/ (n # 0 /\ u = n)
  BY <1>1, NewNumber
<1>3. _globalAppId' = next /\ gid' = [gid EXCEPT ![w] = u]
  OBVIOUS
<1>4. /\ \/ streams' = streams \cup {w} /\ AddSchedulableWidget(w, u)
         \/ UNCHANGED <<streams, widgetList, _widgetMap, misused>>
      /\ s = "awaited" /\ entries # <<>> => w \in strays' /\ u \in strayIds'
  OBVIOUS
<1> HIDE DEF u, next
<1>5. /\ life' \in [Widget -> {"none", "awaited", "scene"}] /\ gid' \in [Widget -> 0..MaxId]
      /\ life'[w] = s /\ gid'[w] = u
      /\ \A v \in Widget \ {w} : life'[v] = life[v] /\ gid'[v] = gid[v]
  BY <1>1, <1>2, <1>3 DEF TypeInv
<1>6. /\ life[w] = "none" /\ w \notin {theLastLaunched, appMap}
      /\ ~Contains(deferred, w) /\ ~Contains(_sageWidgetQueue, w)
      /\ w \notin streams /\ w \notin removals
  BY DEF Free, IInv, ClosedInv, QueueInv, LiveInv, StudyInv, IsClosed
<1>7. /\ _sageWidgetQueue' \in Seq(Widget) /\ deferred' \in Seq(Widget \cup {Monitor})
      /\ Unique(_sageWidgetQueue') /\ Unique(deferred')
      /\ \A v \in Widget \ {w} : /\ Contains(_sageWidgetQueue', v) <=> Contains(_sageWidgetQueue, v)
                                 /\ Contains(deferred', v) <=> Contains(deferred, v)
      /\ Contains(_sageWidgetQueue', w) <=> s = "awaited" /\ ~Contains(deferred', w)
      /\ Contains(deferred, Monitor) => Contains(deferred', Monitor)
  <2>1. /\ _sageWidgetQueue \in Seq(Widget) /\ deferred \in Seq(Widget \cup {Monitor})
        /\ Unique(_sageWidgetQueue) /\ Unique(deferred)
    BY DEF IInv, TypeInv, QueueInv, ClosedInv
  <2>2. CASE s = "awaited" /\ _sageWidgetQueue' = Append(_sageWidgetQueue, w) /\ UNCHANGED deferred
    BY <2>1, <2>2, <1>6, AppendOne
  <2>3. CASE s = "awaited" /\ deferred' = Append(deferred, w) /\ UNCHANGED _sageWidgetQueue
    BY <2>1, <2>3, <1>6, AppendOne
  <2>4. CASE s = "scene" /\ UNCHANGED <<deferred, _sageWidgetQueue>>
    BY <2>1, <2>4, <1>6
  <2> QED
    BY <2>2, <2>3, <2>4 DEF Created
<1>8. TypeInv'
  <2>1. streams' \subseteq Widget
    BY <1>1, <1>4 DEF TypeInv
  <2> QED
    BY <1>1, <1>2, <1>3, <1>5, <1>7, <2>1 DEF TypeInv
<1>9. QueueInv'
  BY <1>5, <1>7 DEF IInv, QueueInv, IsClosed
<1>10. ClosedInv'
  BY <1>5, <1>7 DEF IInv, ClosedInv, IsClosed
<1>11. streams' \in {streams, streams \cup {w}} /\ widgetList' \subseteq streams'
  BY <1>4 DEF IInv, LiveInv, AddSchedulableWidget
<1>12. LiveInv'
  BY <1>1, <1>2, <1>5, <1>11 DEF IInv, LiveInv, TypeInv
<1>13. MonitorInv'
  BY <1>4 DEF IInv, MonitorInv, AddSchedulableWidget
<1>14. MappedIsListed'
  <2>1. \A m \in DOMAIN _widgetMap : /\ _widgetMap[m] \in widgetList /\ _widgetMap[m] \in Widget \ {w}
                                     /\ gid[_widgetMap[m]] = m
    BY <1>1, <1>6 DEF IInv, MappedIsListed, LiveInv, TypeInv
  <2>2. CASE UNCHANGED <<widgetList, _widgetMap>>
    BY <2>1, <2>2, <1>5 DEF MappedIsListed
  <2>3. CASE /\ widgetList' = widgetList \cup {w}
             /\ _widgetMap' = [m \in DOMAIN _widgetMap \cup {u} |-> IF m = u THEN w ELSE _widgetMap[m]]
    <3>1. \A m \in DOMAIN _widgetMap' : \/ m = u /\ _widgetMap'[m] = w
                                        \/ m \in DOMAIN _widgetMap /\ _widgetMap'[m] = _widgetMap[m]
      BY <2>3
    <3> QED
      BY <3>1, <2>1, <2>3, <1>5 DEF MappedIsListed
  <2> QED
    BY <2>2, <2>3, <1>4 DEF AddSchedulableWidget
<1>15. NumberInv'
  <2>1. \A v \in Widget \ {w} : life'[v] # "none" /\ ~IsClosed(v)' /\ v \notin strays' => gid'[v] < _globalAppId
    BY <1>5, <1>7 DEF IInv, NumberInv, IsClosed
  <2>2. \A v \in Widget : gid'[v] \in Int
    BY <1>5
  <2>3. _globalAppId \in Int /\ next \in Int
    BY <1>1, <1>2 DEF TypeInv
  <2>4. \A v \in Widget \ {w} : life'[v] # "none" /\ ~IsClosed(v)' /\ v \notin strays' => gid'[v] < next
    BY <2>1, <2>2, <2>3, <1>2
  <2> QED
    BY <2>4, <1>2, <1>3, <1>5 DEF NumberInv
<1>16. \A v \in Widget \ {w} : gid[v] = u /\ life[v] # "none" => IsClosed(v) \/ v \in strays
  <2> SUFFICES ASSUME NEW v \in Widget \ {w}, gid[v] = u, life[v] # "none",
                      ~IsClosed(v), v \notin strays
               PROVE  FALSE
    OBVIOUS
  <2>1. gid[v] < _globalAppId
    BY DEF IInv, NumberInv
  <2>2. n # 0 /\ u = n
    BY <2>1, <1>1, <1>2 DEF TypeInv
  <2>3. life[v] = "awaited"
    BY <2>2, <1>1 DEF GetUserWidget, Items, TypeInv
  <2> QED
    BY <2>2, <2>3 DEF IInv, EntriesInv
<1>17. Clash'
  <2> SUFFICES ASSUME NEW x \in Widget, NEW y \in Widget, x # y, gid'[x] = gid'[y],
                      life'[x] # "none", life'[y] # "none"
               PROVE  IsClosed(x)' \/ IsClosed(y)' \/ {x, y} \cap strays' # {}
    BY DEF Clash, NumbersClashOnlyWithAwaited
  <2>1. \A v \in Widget \ {w} : IsClosed(v)' <=> IsClosed(v)
    BY <1>7 DEF IsClosed
  <2>2. CASE x # w /\ y # w
    BY <2>1, <2>2, <1>5 DEF IInv, Clash, NumbersClashOnlyWithAwaited
  <2>3. CASE x = w
    BY <2>1, <2>3, <1>5, <1>16
  <2>4. CASE y = w
    BY <2>1, <2>4, <1>5, <1>16
  <2> QED
    BY <2>2, <2>3, <2>4
<1>18. EntriesInv'
  BY <1>5, <1>7 DEF IInv, EntriesInv, IsClosed
<1>19. StudyInv'
  BY <1>5, <1>6 DEF IInv, StudyInv
<1>20. ASSUME (monitor = "alive" /\ ~IsClosed(Monitor))'
       PROVE  /\ \A v \in Widget : life[v] # "none" => gid[v] < _globalAppId
              /\ entries # <<>> => \A v \in Widget : life[v] = "awaited" => gid[v] \in strayIds
              /\ \A v, x \in Widget : v # x /\ life[v] # "none" /\ life[x] # "none" /\ gid[v] = gid[x]
                                      => gid[x] \in strayIds
              /\ \A v \in streams : \/ gid[v] \in strayIds
                                    \/ gid[v] \in DOMAIN _widgetMap /\ _widgetMap[gid[v]] = v
  <2>1. monitor = "alive" /\ ~IsClosed(Monitor)
    BY <1>20, <1>7 DEF IsClosed
  <2>2. KnownInv /\ StreamsAreFound
    BY DEF IInv, FoundInv
  <2>3. \A v \in streams : \/ gid[v] \in strayIds
                           \/ gid[v] \in DOMAIN _widgetMap /\ _widgetMap[gid[v]] = v
    BY <2>1, <2>2 DEF StreamsAreFound
  <2>4. KnownInv
    BY <2>2
  <2>5. /\ \A v \in Widget : life[v] # "none" => gid[v] < _globalAppId
        /\ entries # <<>> => \A v \in Widget : life[v] = "awaited" => gid[v] \in strayIds
        /\ \A v, x \in Widget : v # x /\ life[v] # "none" /\ life[x] # "none" /\ gid[v] = gid[x]
                                => gid[x] \in strayIds
    BY <2>1, <2>4, Zenon DEF KnownInv
  <2> QED
    BY <2>3, <2>5
<1>21. ASSUME (monitor = "alive" /\ ~IsClosed(Monitor))', NEW v \in Widget \ {w}, gid[v] = u, life[v] # "none"
       PROVE  u \in strayIds'
  <2>1. gid[v] < _globalAppId
    BY <1>20, <1>21
  <2>2. n # 0 /\ u = n
    BY <2>1, <1>1, <1>2, <1>21 DEF TypeInv
  <2>3. life[v] = "awaited"
    BY <2>2, <1>1, <1>21 DEF GetUserWidget, Items, TypeInv
  <2> QED
    BY <2>2, <2>3, <1>20, <1>21
<1>22. KnownInv'
  <2> SUFFICES ASSUME (monitor = "alive" /\ ~IsClosed(Monitor))'
               PROVE  /\ \A v \in Widget : life'[v] # "none" => gid'[v] < next
                      /\ entries' # <<>> => \A v \in Widget : life'[v] = "awaited" => gid'[v] \in strayIds'
                      /\ \A v, x \in Widget : v # x /\ life'[v] # "none" /\ life'[x] # "none" /\ gid'[v] = gid'[x]
                                              => gid'[x] \in strayIds'
    BY <1>3 DEF KnownInv
  <2>1. \A v \in Widget : life'[v] # "none" => gid'[v] < next
    BY <1>20, <1>1, <1>2, <1>5 DEF TypeInv
  <2>2. entries' # <<>> => \A v \in Widget : life'[v] = "awaited" => gid'[v] \in strayIds'
    BY <1>20, <1>4, <1>5
  <2>3. ASSUME NEW v \in Widget, NEW x \in Widget, v # x, life'[v] # "none", life'[x] # "none", gid'[v] = gid'[x]
        PROVE  gid'[x] \in strayIds'
    <3>1. CASE v # w /\ x # w
      BY <2>3, <3>1, <1>5, <1>20
    <3>2. CASE v = w
      BY <2>3, <3>2, <1>5, <1>21
    <3>3. CASE x = w
      BY <2>3, <3>3, <1>5, <1>21
    <3> QED
      BY <3>1, <3>2, <3>3
  <2> QED
    BY <2>1, <2>2, <2>3
<1>23. StreamsAreFound'
  <2> SUFFICES ASSUME (monitor = "alive" /\ ~IsClosed(Monitor))', NEW v \in streams'
               PROVE  \/ gid'[v] \in strayIds'
                      \/ gid'[v] \in DOMAIN _widgetMap' /\ _widgetMap'[gid'[v]] = v
    BY DEF StreamsAreFound
  <2>1. CASE v # w
    <3>1. v \in streams /\ v \in Widget \ {w} /\ life[v] # "none"
      BY <2>1, <1>1, <1>11 DEF IInv, LiveInv, TypeInv
    <3>2. \/ gid[v] \in strayIds
          \/ gid[v] \in DOMAIN _widgetMap /\ _widgetMap[gid[v]] = v
      BY <3>1, <1>20
    <3>3. gid'[v] = gid[v] /\ (gid[v] = u => u \in strayIds')
      BY <3>1, <1>5, <1>21
    <3>4. CASE UNCHANGED _widgetMap
      BY <3>2, <3>3, <3>4
    <3>5. CASE _widgetMap' = [m \in DOMAIN _widgetMap \cup {u} |-> IF m = u THEN w ELSE _widgetMap[m]]
      BY <3>2, <3>3, <3>5
    <3> QED
      BY <3>4, <3>5, <1>4 DEF AddSchedulableWidget
  <2>2. CASE v = w
    <3>1. AddSchedulableWidget(w, u) /\ monitor = "alive"
      BY <2>2, <1>4, <1>6
    <3>2. _widgetMap' = [m \in DOMAIN _widgetMap \cup {u} |-> IF m = u THEN w ELSE _widgetMap[m]]
      BY <3>1 DEF AddSchedulableWidget
    <3> QED
      BY <2>2, <3>2, <1>5
  <2> QED
    BY <2>1, <2>2
<1> QED
  BY <1>8, <1>9, <1>10, <1>12, <1>13, <1>14, <1>15, <1>17, <1>18, <1>19, <1>22, <1>23 DEF IInv, FoundInv

\* launch(fsmThread): the oldest awaited widget enters the scene.
LEMMA QueuedInv == ASSUME IInv, ~misused, LaunchQueued PROVE IInv'
<1> DEFINE h == Head(_sageWidgetQueue)
<1>1. /\ h \in Widget /\ life[h] = "awaited" /\ ~IsClosed(h)
      /\ _sageWidgetQueue' \in Seq(Widget) /\ Unique(_sageWidgetQueue')
      /\ ~Contains(_sageWidgetQueue', h)
      /\ \A v \in Widget \ {h} : Contains(_sageWidgetQueue', v) <=> Contains(_sageWidgetQueue, v)
  <2>1. /\ _sageWidgetQueue \in Seq(Widget) /\ _sageWidgetQueue # <<>> /\ Unique(_sageWidgetQueue)
        /\ _sageWidgetQueue' = Tail(_sageWidgetQueue)
        /\ \A w \in Widget : Contains(_sageWidgetQueue, w) <=> life[w] = "awaited" /\ ~IsClosed(w)
    BY DEF IInv, TypeInv, QueueInv, LaunchQueued
  <2> QED
    BY <2>1, TakeHead
<1>2. life' = [life EXCEPT ![h] = "scene"]
  BY DEF LaunchQueued
<1> HIDE DEF h
<1>3. UNCHANGED <<gid, streams, deferred, _globalAppId, widgetList, _widgetMap, monitor, misused,
                  session, entries, theLastLaunched, replay, appMap, removals, strays, strayIds>>
  BY DEF LaunchQueued, registryVars, otherVars, studyVars, historyVars
<1>4. /\ life' \in [Widget -> {"none", "awaited", "scene"}] /\ life'[h] = "scene"
      /\ \A v \in Widget \ {h} : life'[v] = life[v]
  BY <1>1, <1>2 DEF IInv, TypeInv
<1>5. \A v \in Widget : life'[v] = "none" <=> life[v] = "none"
  BY <1>1, <1>4
<1>6. TypeInv'
  BY <1>1, <1>3, <1>4 DEF IInv, TypeInv
<1>7. QueueInv' /\ ClosedInv'
  BY <1>1, <1>3, <1>4, <1>5 DEF IInv, QueueInv, ClosedInv, IsClosed
<1>8. LiveInv' /\ MonitorInv' /\ MappedIsListed'
  <2>1. streams \subseteq Widget
    BY DEF IInv, TypeInv
  <2> QED
    BY <2>1, <1>3, <1>5 DEF IInv, LiveInv, MonitorInv, MappedIsListed
<1>9. NumberInv' /\ Clash'
  BY <1>3, <1>5 DEF IInv, NumberInv, Clash, NumbersClashOnlyWithAwaited, IsClosed
<1>10. EntriesInv'
  BY <1>3, <1>4 DEF IInv, EntriesInv, IsClosed
<1>11. StudyInv'
  BY <1>3, <1>4 DEF IInv, StudyInv, TypeInv
<1>12. KnownInv'
  BY <1>1, <1>3, <1>4, <1>5 DEF IInv, FoundInv, KnownInv, IsClosed
<1>13. StreamsAreFound'
  BY <1>3 DEF IInv, FoundInv, StreamsAreFound, IsClosed
<1> QED
  BY <1>6, <1>7, <1>8, <1>9, <1>10, <1>11, <1>12, <1>13 DEF IInv, FoundInv

\* Widgets of the scene are closed: one of them, or all, with the counter set back.
LEMMA Closes ==
    ASSUME IInv, NEW X \in SUBSET Items,
           deferred' \in Seq(Widget \cup {Monitor}), Unique(deferred'),
           \A w \in Widget : Contains(deferred', w) <=> Contains(deferred, w) \/ w \in X,
           UNCHANGED <<life, gid, streams, _sageWidgetQueue, registryVars, session, entries,
                       theLastLaunched, replay, appMap, strayIds>>,
           removals' \subseteq removals,
           Contains(deferred, Monitor) => Contains(deferred', Monitor),
           \/ UNCHANGED <<_globalAppId, strays>>
           \/ /\ _globalAppId' = 1
              /\ monitor = "alive" => Contains(deferred', Monitor)
              /\ X = {w \in Items : ~IsClosed(w)}
              /\ strays' = strays \cup {w \in Widget : life[w] = "awaited"}
    PROVE  IInv'
<1>1. \A w \in Widget : IsClosed(w)' <=> IsClosed(w) \/ w \in X
  BY DEF IsClosed
<1>2. \A w \in X : w \in Widget /\ life[w] = "scene"
  BY DEF Items
<1>3. /\ UNCHANGED <<widgetList, _widgetMap, monitor, misused>>
      /\ \A w \in strays : w \in strays'
  BY DEF registryVars
<1>4. TypeInv'
  BY LauncherAssumption DEF IInv, TypeInv
<1>5. QueueInv' /\ ClosedInv'
  BY <1>1, <1>2 DEF IInv, QueueInv, ClosedInv
<1>6. LiveInv' /\ MonitorInv' /\ MappedIsListed'
  BY <1>3 DEF IInv, LiveInv, MonitorInv, MappedIsListed
<1>7. NumberInv'
  <2>1. CASE UNCHANGED <<_globalAppId, strays>>
    BY <2>1, <1>1 DEF IInv, NumberInv
  <2>2. CASE /\ X = {w \in Items : ~IsClosed(w)}
             /\ strays' = strays \cup {w \in Widget : life[w] = "awaited"}
    <3>1. \A w \in Widget : life'[w] # "none" /\ ~IsClosed(w)' => w \in strays'
      BY <2>2, <1>1 DEF Items, IInv, TypeInv
    <3> QED
      BY <3>1 DEF NumberInv
  <2> QED
    BY <2>1, <2>2
<1>8. Clash'
  BY <1>1, <1>3 DEF IInv, Clash, NumbersClashOnlyWithAwaited
<1>9. EntriesInv' /\ StudyInv'
  BY <1>1, <1>3 DEF IInv, EntriesInv, StudyInv
<1>10. (monitor = "alive" /\ ~IsClosed(Monitor))' =>
           monitor = "alive" /\ ~IsClosed(Monitor) /\ _globalAppId' = _globalAppId
  BY <1>3 DEF IsClosed
<1>11. FoundInv'
  BY <1>3, <1>10 DEF IInv, FoundInv, KnownInv, StreamsAreFound
<1> QED
  BY <1>4, <1>5, <1>6, <1>7, <1>8, <1>9, <1>11 DEF IInv

\* The first widget to be deleted goes, and its entries with it.
LEMMA DestroyInv == ASSUME IInv, ~misused, Destroy PROVE IInv'
<1> DEFINE h == Head(deferred)
<1>1. /\ h \in Widget /\ life[h] # "none" /\ IsClosed(h)
      /\ deferred' \in Seq(Widget \cup {Monitor}) /\ Unique(deferred')
      /\ ~Contains(deferred', h)
      /\ \A v \in Widget \ {h} : Contains(deferred', v) <=> Contains(deferred, v)
      /\ IsClosed(Monitor) => IsClosed(Monitor)'
  <2>1. /\ deferred \in Seq(Widget \cup {Monitor}) /\ deferred # <<>> /\ Unique(deferred)
        /\ deferred' = Tail(deferred) /\ h # Monitor
    BY DEF IInv, TypeInv, ClosedInv, Destroy
  <2>2. h \in Widget /\ IsClosed(h)
    BY <2>1, TakeHead DEF IsClosed
  <2>3. IsClosed(Monitor) => IsClosed(Monitor)'
    BY <2>1, TakeHead DEF IsClosed
  <2> QED
    BY <2>1, <2>2, <2>3, TakeHead DEF IInv, ClosedInv
<1>2. /\ life' = [life EXCEPT ![h] = "none"] /\ gid' = [gid EXCEPT ![h] = 0]
      /\ streams' = streams \ {h} /\ strays' = strays \ {h} /\ removals' = removals \ {h}
      /\ IF h \in streams THEN RemoveSchedulableWidget(h)
         ELSE UNCHANGED <<widgetList, _widgetMap, misused>>
  BY DEF Destroy
<1>3. UNCHANGED <<_globalAppId, _sageWidgetQueue, monitor, session, entries,
                  theLastLaunched, replay, appMap, strayIds>>
  BY DEF Destroy
<1> HIDE DEF h
<1>4. /\ life' \in [Widget -> {"none", "awaited", "scene"}] /\ gid' \in [Widget -> 0..MaxId]
      /\ life'[h] = "none"
      /\ \A v \in Widget \ {h} : life'[v] = life[v] /\ gid'[v] = gid[v]
  BY <1>1, <1>2, LauncherAssumption DEF IInv, TypeInv
<1>5. TypeInv'
  BY <1>1, <1>2, <1>3, <1>4 DEF IInv, TypeInv
<1>6. QueueInv'
  BY <1>1, <1>3, <1>4 DEF IInv, QueueInv, IsClosed
<1>7. ClosedInv'
  BY <1>1, <1>4 DEF IInv, ClosedInv, IsClosed
<1>8. /\ widgetList' = widgetList \ {h}
      /\ \A m \in DOMAIN _widgetMap' : /\ m \in DOMAIN _widgetMap /\ _widgetMap'[m] = _widgetMap[m]
                                       /\ _widgetMap[m] # h
  <2>1. \A m \in DOMAIN _widgetMap : _widgetMap[m] \in streams /\ gid[_widgetMap[m]] = m
    BY DEF IInv, MappedIsListed, LiveInv
  <2>2. CASE h \in streams /\ monitor # "none"
    <3>1. /\ widgetList' = widgetList \ {h}
          /\ _widgetMap' = Restrict(_widgetMap, DOMAIN _widgetMap \ {gid[h]})
      BY <2>2, <1>2 DEF RemoveSchedulableWidget
    <3>2. \A m \in DOMAIN _widgetMap' : /\ m \in DOMAIN _widgetMap \ {gid[h]}
                                        /\ _widgetMap'[m] = _widgetMap[m]
      BY <3>1 DEF Restrict
    <3> QED
      BY <3>1, <3>2, <2>1
  <2>3. CASE monitor = "none"
    BY <2>3, <1>2 DEF RemoveSchedulableWidget, IInv, MonitorInv
  <2>4. CASE h \notin streams
    BY <2>1, <2>4, <1>2 DEF IInv, LiveInv
  <2> QED
    BY <2>2, <2>3, <2>4
<1>9. LiveInv'
  BY <1>2, <1>4, <1>8 DEF IInv, LiveInv, TypeInv
<1>10. MonitorInv'
  BY <1>3, <1>8 DEF IInv, MonitorInv
<1>11. MappedIsListed'
  <2>1. \A m \in DOMAIN _widgetMap : _widgetMap[m] \in Widget
    BY DEF IInv, MappedIsListed, LiveInv, TypeInv
  <2> QED
    BY <2>1, <1>4, <1>8 DEF IInv, MappedIsListed
<1>12. NumberInv'
  BY <1>1, <1>2, <1>3, <1>4 DEF IInv, NumberInv, IsClosed
<1>13. Clash'
  BY <1>1, <1>2, <1>4 DEF IInv, Clash, NumbersClashOnlyWithAwaited, IsClosed
<1>14. EntriesInv'
  BY <1>1, <1>2, <1>3, <1>4 DEF IInv, EntriesInv, IsClosed
<1>15. StudyInv'
  BY <1>2, <1>3, <1>4, <1>8 DEF IInv, StudyInv, TypeInv
<1>16. KnownInv'
  BY <1>1, <1>3, <1>4 DEF IInv, FoundInv, KnownInv
<1>17. StreamsAreFound'
  <2> SUFFICES ASSUME (monitor = "alive" /\ ~IsClosed(Monitor))', NEW v \in streams'
               PROVE  \/ gid'[v] \in strayIds'
                      \/ gid'[v] \in DOMAIN _widgetMap' /\ _widgetMap'[gid'[v]] = v
    BY DEF StreamsAreFound
  <2>1. /\ v \in streams /\ v # h /\ v \in Widget /\ life[v] # "none"
        /\ gid'[v] = gid[v] /\ monitor = "alive" /\ ~IsClosed(Monitor)
    BY <1>1, <1>2, <1>3, <1>4 DEF IInv, LiveInv, TypeInv
  <2>2. /\ \/ gid[v] \in strayIds
           \/ gid[v] \in DOMAIN _widgetMap /\ _widgetMap[gid[v]] = v
        /\ gid[v] = gid[h] => gid[v] \in strayIds
    BY <2>1, <1>1 DEF IInv, FoundInv, KnownInv, StreamsAreFound
  <2>3. CASE gid[v] # gid[h]
    <3>1. \A m \in DOMAIN _widgetMap \ {gid[h]} : m \in DOMAIN _widgetMap' /\ _widgetMap'[m] = _widgetMap[m]
      BY <1>2 DEF RemoveSchedulableWidget, Restrict
    <3> QED
      BY <2>1, <2>2, <2>3, <3>1, <1>3
  <2> QED
    BY <2>1, <2>2, <2>3, <1>3
<1> QED
  BY <1>5, <1>6, <1>7, <1>9, <1>10, <1>11, <1>12, <1>13, <1>14, <1>15, <1>16, <1>17 DEF IInv, FoundInv

\* The deletion of the monitor takes no widget along.
LEMMA DeleteMonitorInv == ASSUME IInv, ~misused, DeleteMonitor PROVE IInv'
<1>1. /\ deferred' \in Seq(Widget \cup {Monitor}) /\ Unique(deferred')
      /\ \A v \in Widget : Contains(deferred', v) <=> Contains(deferred, v)
  <2>1. /\ deferred \in Seq(Widget \cup {Monitor}) /\ deferred # <<>> /\ Unique(deferred)
        /\ deferred' = Tail(deferred) /\ Head(deferred) \notin Widget
    BY LauncherAssumption DEF IInv, TypeInv, ClosedInv, DeleteMonitor
  <2> QED
    BY <2>1, TakeHead
<1>2. monitor' = "deleted"
  BY DEF DeleteMonitor
<1>3. UNCHANGED <<life, gid, streams, _globalAppId, _sageWidgetQueue, widgetList, _widgetMap,
                  misused, session, entries, theLastLaunched, replay, appMap, removals, strays>>
  BY DEF DeleteMonitor, otherVars, studyVars, historyVars
<1>4. TypeInv' /\ QueueInv' /\ ClosedInv'
  BY <1>1, <1>3 DEF IInv, TypeInv, QueueInv, ClosedInv, IsClosed
<1>5. LiveInv' /\ MonitorInv' /\ MappedIsListed'
  BY <1>2, <1>3 DEF IInv, LiveInv, MonitorInv, MappedIsListed
<1>6. NumberInv' /\ Clash' /\ EntriesInv'
  BY <1>1, <1>3 DEF IInv, NumberInv, Clash, NumbersClashOnlyWithAwaited, EntriesInv, IsClosed
<1>7. StudyInv' /\ FoundInv'
  BY <1>2, <1>3 DEF IInv, StudyInv, FoundInv, KnownInv, StreamsAreFound
<1> QED
  BY <1>4, <1>5, <1>6, <1>7 DEF IInv

\* What whoever has a widget made for the number n leaves as it is.
Asks(n) == /\ n # 0 => entries # <<>> /\ GetUserWidget(n) = {}
           /\ UNCHANGED <<session, theLastLaunched, appMap, removals>>
           /\ entries' \in Seq(Entries) /\ (entries' # <<>> => entries # <<>>)

\* The widget of an application waits in the queue or, if the process cannot be started, to be deleted.
LEMMA SageAppInv ==
    ASSUME IInv, ~misused, NEW n \in 0..MaxId, Asks(n), NEW w \in Widget, LaunchSageApp(w, n)
    PROVE  IInv'
<1>1. /\ Free(w) /\ NextId(n) <= MaxId + 1
      /\ life' = [life EXCEPT ![w] = "awaited"]
      /\ gid' = [gid EXCEPT ![w] = UpdatedId(n)]
      /\ _globalAppId' = NextId(n)
      /\ streams' = streams \cup {w} /\ AddSchedulableWidget(w, UpdatedId(n))
      /\ monitor' = monitor
      /\ strays \subseteq strays' /\ strayIds \subseteq strayIds'
      /\ entries # <<>> => w \in strays' /\ UpdatedId(n) \in strayIds'
  BY DEF LaunchSageApp, NewStream, historyVars
<1>2. Created(w, "awaited")
  BY DEF LaunchSageApp, Created
<1> QED
  BY <1>1, <1>2, NewWidget DEF Asks

\* A file gets its widget, in the scene, at once.
LEMMA MediaInv ==
    ASSUME IInv, ~misused, NEW n \in 0..MaxId, Asks(n), NEW w \in Widget, LaunchMedia(w, n)
    PROVE  IInv'
<1>1. /\ Free(w) /\ NextId(n) <= MaxId + 1
      /\ life' = [life EXCEPT ![w] = "scene"]
      /\ gid' = [gid EXCEPT ![w] = UpdatedId(n)]
      /\ _globalAppId' = NextId(n)
      /\ UNCHANGED <<streams, widgetList, _widgetMap, misused>>
      /\ monitor' = monitor /\ strays \subseteq strays' /\ strayIds \subseteq strayIds'
  BY DEF LaunchMedia, registryVars, historyVars
<1>2. Created(w, "scene")
  BY DEF LaunchMedia, Created
<1> QED
  BY <1>1, <1>2, NewWidget DEF Asks

\* The launches of a user.
LEMMA ByUserInv == ASSUME IInv, ~misused, LaunchByUser PROVE IInv'
<1>1. 0 \in 0..MaxId /\ Asks(0)
  BY LauncherAssumption DEF LaunchByUser, Asks, studyVars, IInv, TypeInv
<1>2. CASE \E w \in Widget : LaunchSageApp(w, 0) \/ LaunchMedia(w, 0)
  BY <1>1, <1>2, SageAppInv, MediaInv
<1>3. CASE LaunchNothing
  <2>1. /\ _globalAppId' = NextId(0) /\ NextId(0) <= MaxId + 1
        /\ UNCHANGED <<sceneVars, _sageWidgetQueue, widgetList, _widgetMap, monitor, misused, strays, strayIds>>
        /\ UNCHANGED <<session, entries, theLastLaunched, replay, appMap, removals>>
    BY <1>3 DEF LaunchNothing, LaunchByUser, registryVars, studyVars, historyVars
  <2>2. NextId(0) \in 1 .. MaxId + 1 /\ _globalAppId <= NextId(0)
    BY <1>1, <2>1, NewNumber DEF IInv
  <2>3. StudyInv'
    BY <2>1 DEF IInv, StudyInv, sceneVars
  <2> QED
    BY <2>1, <2>2, <2>3, SameWidgets DEF IInv, TypeInv
<1> QED
  BY <1>2, <1>3 DEF LaunchByUser, LaunchAny

\* An application that was started by hand gets a widget that is in the scene at once.
LEMMA ManualInv == ASSUME IInv, ~misused, LaunchManual PROVE IInv'
<1>1. PICK w \in Widget : NewStream(w, 0, "scene") /\ theLastLaunched' = w
  BY DEF LaunchManual
<1>2. /\ Free(w) /\ NextId(0) <= MaxId + 1
      /\ life' = [life EXCEPT ![w] = "scene"]
      /\ gid' = [gid EXCEPT ![w] = UpdatedId(0)]
      /\ _globalAppId' = NextId(0)
      /\ streams' = streams \cup {w} /\ AddSchedulableWidget(w, UpdatedId(0))
      /\ monitor' = monitor
  BY <1>1 DEF NewStream
<1>3. UNCHANGED <<_sageWidgetQueue, deferred, session, entries, appMap, removals, strays, strayIds>>
  BY DEF LaunchManual, studyVars, historyVars
<1>4. Created(w, "scene") /\ 0 \in 0..MaxId /\ entries' \in Seq(Entries)
  BY <1>3, LauncherAssumption DEF Created, IInv, TypeInv
<1> QED
  BY <1>1, <1>2, <1>3, <1>4, NewWidget

\* The study launches like a user.
LEMMA ReplayLaunchInv == ASSUME IInv, ~misused, ReplayLaunch PROVE IInv'
<1>1. 0 \in 0..MaxId /\ Asks(0)
  BY LauncherAssumption DEF ReplayLaunch, Asks, IInv, TypeInv
<1> QED
  BY <1>1, SageAppInv DEF ReplayLaunch

\* An entry of a session brings its number; a widget that waits meanwhile is a stray.
LEMMA LoadEntryInv == ASSUME IInv, ~misused, LoadEntry PROVE IInv'
<1> DEFINE e == Head(entries)
<1>1. entries # <<>> /\ entries \in Seq(Entries) /\ entries' = Tail(entries)
  BY DEF LoadEntry, IInv, TypeInv
<1>2. e \in Entries /\ entries' \in Seq(Entries)
  BY <1>1, TakeHead
<1>3. UNCHANGED <<session, theLastLaunched, replay, appMap, removals>>
  BY DEF LoadEntry, studyVars
<1>4. \/ UNCHANGED <<_globalAppId, _sageWidgetQueue, sceneVars, registryVars, historyVars>>
      \/ /\ GetUserWidget(e.gid) = {}
         /\ \E w \in Widget : LaunchSageApp(w, e.gid) \/ LaunchMedia(w, e.gid)
  BY DEF LoadEntry
<1> HIDE DEF e
<1>5. e.gid \in 0..MaxId
  BY <1>2, LauncherAssumption DEF Entries
<1>6. CASE UNCHANGED <<_globalAppId, _sageWidgetQueue, sceneVars, registryVars, historyVars>>
  <2>1. UNCHANGED <<_sageWidgetQueue, sceneVars, widgetList, _widgetMap, monitor, misused>>
    BY <1>6 DEF registryVars
  <2>2. StudyInv'
    BY <1>3, <2>1 DEF IInv, StudyInv, sceneVars
  <2>3. _globalAppId' \in 1 .. MaxId + 1 /\ _globalAppId <= _globalAppId' /\ strays \subseteq strays'
        /\ strayIds \subseteq strayIds'
    BY <1>6 DEF IInv, TypeInv, historyVars
  <2> QED
    BY <1>1, <1>2, <1>3, <2>1, <2>2, <2>3, SameWidgets DEF IInv, TypeInv
<1>7. CASE /\ GetUserWidget(e.gid) = {}
           /\ \E w \in Widget : LaunchSageApp(w, e.gid) \/ LaunchMedia(w, e.gid)
  <2>1. Asks(e.gid)
    BY <1>1, <1>2, <1>3, <1>7 DEF Asks
  <2> QED
    BY <1>5, <1>7, <2>1, SageAppInv, MediaInv
<1> QED
  BY <1>4, <1>6, <1>7

\* close() posts the deletion, once.
LEMMA CloseInv == ASSUME IInv, ~misused, NEW w \in Widget, Close(w) PROVE IInv'
<1>1. w \in Items /\ ~IsClosed(w) /\ deferred' = Append(deferred, w)
  BY DEF Close
<1>2. /\ deferred' \in Seq(Widget \cup {Monitor}) /\ Unique(deferred')
      /\ \A v \in Widget : Contains(deferred', v) <=> Contains(deferred, v) \/ v = w
      /\ Contains(deferred, Monitor) => Contains(deferred', Monitor)
  BY <1>1, AppendOne DEF IInv, TypeInv, ClosedInv, IsClosed
<1>3. UNCHANGED <<life, gid, streams, _globalAppId, _sageWidgetQueue, registryVars, session,
                  entries, theLastLaunched, replay, appMap, removals, strays, strayIds>>
  BY DEF Close, otherVars, studyVars, historyVars
<1> DEFINE X == {w}
<1>4. X \in SUBSET Items /\ \A v \in Widget : Contains(deferred', v) <=> Contains(deferred, v) \/ v \in X
  BY <1>1, <1>2
<1> HIDE DEF X
<1> QED
  BY <1>2, <1>3, <1>4, Closes

\* A close that the study has posted.
LEMMA RemovePostedInv == ASSUME IInv, ~misused, RemovePosted PROVE IInv'
<1>1. PICK w \in removals :
          /\ removals' = removals \ {w}
          /\ deferred' = IF IsClosed(w) THEN deferred ELSE Append(deferred, w)
  BY DEF RemovePosted
<1>2. w \in Items /\ w \in Widget
  BY DEF IInv, StudyInv, TypeInv, Items
<1>3. /\ deferred' \in Seq(Widget \cup {Monitor}) /\ Unique(deferred')
      /\ \A v \in Widget : Contains(deferred', v) <=> Contains(deferred, v) \/ v = w
      /\ Contains(deferred, Monitor) => Contains(deferred', Monitor)
  BY <1>1, <1>2, AppendOne DEF IInv, TypeInv, ClosedInv, IsClosed
<1>4. UNCHANGED <<life, gid, streams, _globalAppId, _sageWidgetQueue, registryVars, session,
                  entries, theLastLaunched, replay, appMap, strays, strayIds>>
  BY DEF RemovePosted, historyVars
<1> DEFINE X == {w}
<1>5. X \in SUBSET Items /\ \A v \in Widget : Contains(deferred', v) <=> Contains(deferred, v) \/ v \in X
  BY <1>2, <1>3
<1> HIDE DEF X
<1> QED
  BY <1>1, <1>3, <1>4, <1>5, Closes

\* close-all posts the deletion of every widget and of the monitor, and sets the counter back.
LEMMA CloseAllInv == ASSUME IInv, ~misused, WidgetCloseAll PROVE IInv'
<1> DEFINE X == {w \in Items : ~IsClosed(w)}
           T == Widget \cup {Monitor}
           m == IF monitor = "alive" /\ ~IsClosed(Monitor) THEN <<Monitor>> ELSE <<>>
<1>1. /\ CloseAllUserApp \in Seq(X) /\ Unique(CloseAllUserApp)
      /\ \A x : Contains(CloseAllUserApp, x) <=> x \in X
  <2>1. X \in SUBSET Widget
    BY DEF Items
  <2>2. IsFiniteSet(X)
    BY <2>1, LauncherAssumption, FS_Subset
  <2> QED
    BY <2>2, SeqOfSet DEF CloseAllUserApp
<1>2. X \in SUBSET Items /\ \A x \in X : x \in Widget /\ ~Contains(deferred, x)
  BY DEF Items, IsClosed
<1>3. /\ deferred' = deferred \o CloseAllUserApp \o m
      /\ _globalAppId' = 1
      /\ strays' = strays \cup {w \in Widget : life[w] = "awaited"}
      /\ UNCHANGED <<life, gid, streams, _sageWidgetQueue, registryVars, session, entries,
                     theLastLaunched, replay, appMap, removals, strayIds>>
  BY DEF WidgetCloseAll, studyVars
<1>4. /\ m \in Seq(T) /\ Unique(m)
      /\ \A x : Contains(m, x) => x = Monitor /\ ~Contains(deferred, x)
      /\ monitor = "alive" => Contains(deferred, Monitor) \/ Contains(m, Monitor)
  <2>1. CASE monitor = "alive" /\ ~IsClosed(Monitor)
    <3>1. m = <<Monitor>> /\ Len(m) = 1 /\ m[1] = Monitor /\ m \in Seq(T)
      BY <2>1
    <3> QED
      BY <3>1, <2>1 DEF Unique, Contains, IsClosed
  <2>2. CASE ~(monitor = "alive" /\ ~IsClosed(Monitor))
    BY <2>2 DEF Unique, Contains, IsClosed
  <2> QED
    BY <2>1, <2>2
<1>5. X = {w \in Items : ~IsClosed(w)}
  OBVIOUS
<1> HIDE DEF X, m
<1>6. deferred \in Seq(T) /\ CloseAllUserApp \in Seq(T) /\ Unique(deferred)
  <2>1. \A i \in 1..Len(CloseAllUserApp) : CloseAllUserApp[i] \in T
    BY <1>1, <1>2, ElementOfSeq
  <2>2. CloseAllUserApp \in Seq(T)
    BY <1>1, <2>1
  <2> QED
    BY <2>2 DEF IInv, TypeInv, ClosedInv
<1> DEFINE d == deferred \o CloseAllUserApp
<1>7. /\ d \in Seq(T) /\ Unique(d)
      /\ \A x : Contains(d, x) <=> Contains(deferred, x) \/ x \in X
  BY <1>1, <1>2, <1>6, JoinTwo
<1> HIDE DEF d
<1>8. deferred' = d \o m
  BY <1>3 DEF d
<1>9. Monitor \notin Widget
  BY LauncherAssumption
<1>10. /\ deferred' \in Seq(T) /\ Unique(deferred')
       /\ \A x : Contains(deferred', x) <=> Contains(d, x) \/ Contains(m, x)
  BY <1>2, <1>4, <1>7, <1>8, <1>9, JoinTwo
<1>11. \A w \in Widget : Contains(deferred', w) <=> Contains(deferred, w) \/ w \in X
  BY <1>4, <1>7, <1>9, <1>10
<1>13. /\ Contains(deferred, Monitor) => Contains(deferred', Monitor)
       /\ monitor = "alive" => Contains(deferred', Monitor)
  BY <1>4, <1>7, <1>10
<1> HIDE DEF T
<1>12. deferred' \in Seq(Widget \cup {Monitor})
  BY <1>10 DEF T
<1> QED
  BY <1>2, <1>3, <1>5, <1>10, <1>11, <1>12, <1>13, Closes

\* Saving changes no widget.
LEMMA SaveInv == ASSUME IInv, ~misused, SaveSession PROVE IInv'
<1> DEFINE saved == {Entry(w) : w \in Items}
           f == [w \in Items |-> Entry(w)]
<1>1. f \in Surjection(Items, saved)
  BY DEF Surjection
<1>2. Items \in SUBSET Widget
  BY DEF Items
<1>3. IsFiniteSet(saved)
  BY <1>1, <1>2, LauncherAssumption, FS_Subset, FS_Surjection
<1>4. \A w \in Items : Entry(w) \in Entries
  <2> SUFFICES ASSUME NEW w \in Items PROVE Entry(w) \in Entries
    OBVIOUS
  <2>1. gid[w] \in 1..MaxId
    BY LauncherAssumption DEF Items, IInv, TypeInv, LiveInv
  <2> QED
    BY <2>1 DEF Entry, Entries
<1>5. session' = SetToSeq(saved)
  BY DEF SaveSession
<1>6. saved \subseteq Entries
  BY <1>4
<1> HIDE DEF saved, f
<1>7. session' \in Seq(Entries)
  <2>1. session' \in Seq(saved)
    BY <1>3, <1>5, SeqOfSet
  <2>2. \A i \in 1..Len(session') : session'[i] \in Entries
    BY <2>1, <1>6, ElementOfSeq
  <2> QED
    BY <2>1, <2>2
<1>8. UNCHANGED <<_globalAppId, _sageWidgetQueue, sceneVars, widgetList, _widgetMap, monitor, misused,
                  entries, theLastLaunched, replay, appMap, removals, strays, strayIds>>
  BY DEF SaveSession, registryVars, studyVars, historyVars
<1>9. StudyInv'
  BY <1>8 DEF IInv, StudyInv, sceneVars
<1>10. _globalAppId' \in 1 .. MaxId + 1 /\ _globalAppId <= _globalAppId'
  BY <1>8, LauncherAssumption DEF IInv, TypeInv
<1> QED
  BY <1>7, <1>8, <1>9, <1>10, SameWidgets DEF IInv, TypeInv

\* When a session is loaded, who waits is a stray from then on.
LEMMA LoadInv == ASSUME IInv, ~misused, LoadSession PROVE IInv'
<1>1. /\ entries' = session /\ strays \subseteq strays' /\ strayIds \subseteq strayIds'
      /\ \A w \in Widget : life[w] = "awaited" => w \in strays' /\ gid[w] \in strayIds'
      /\ UNCHANGED <<_globalAppId, _sageWidgetQueue, sceneVars, widgetList, _widgetMap, monitor, misused,
                     session, theLastLaunched, replay, appMap, removals>>
  BY DEF LoadSession, registryVars, studyVars
<1>2. StudyInv'
  BY <1>1 DEF IInv, StudyInv, sceneVars
<1>3. _globalAppId' \in 1 .. MaxId + 1 /\ _globalAppId <= _globalAppId'
  BY <1>1, LauncherAssumption DEF IInv, TypeInv
<1> QED
  BY <1>1, <1>2, <1>3, SameWidgets DEF IInv, TypeInv

\* The study's thread.
LEMMA ReplayInv ==
    ASSUME IInv, ~misused, ReplayAsks \/ ReplayTakes \/ ReplayRemoves \/ ReplayMoves
    PROVE  IInv'
<1>1. UNCHANGED <<_globalAppId, _sageWidgetQueue, sceneVars, widgetList, _widgetMap, monitor,
                  session, entries, strays, strayIds>>
  BY DEF ReplayAsks, ReplayTakes, ReplayRemoves, ReplayMoves, registryVars, otherVars, historyVars
<1>2. _globalAppId' \in 1 .. MaxId + 1 /\ _globalAppId <= _globalAppId'
  BY <1>1, LauncherAssumption DEF IInv, TypeInv
<1>3. /\ {theLastLaunched', appMap'} \subseteq Widget \cup {NoWidget}
      /\ removals' \subseteq Widget /\ StudyInv'
  <2>1. /\ {theLastLaunched, appMap} \subseteq Widget \cup {NoWidget} /\ removals \subseteq Widget
        /\ life \in [Widget -> {"none", "awaited", "scene"}]
        /\ NoWidget \notin Widget
    BY LauncherAssumption DEF IInv, TypeInv
  <2>2. CASE ReplayAsks
    <3>1. /\ replay' = "asks"
          /\ UNCHANGED <<misused, theLastLaunched, appMap, removals>>
      BY <2>2 DEF ReplayAsks, registryVars
    <3> QED
      BY <2>1, <3>1, <1>1 DEF IInv, StudyInv, sceneVars
  <2>3. CASE ReplayTakes
    <3>1. /\ theLastLaunched # NoWidget /\ theLastLaunched' = NoWidget
          /\ appMap' = theLastLaunched /\ UNCHANGED removals
      BY <2>3 DEF ReplayTakes
    <3> QED
      BY <2>1, <3>1, <1>1 DEF IInv, StudyInv, sceneVars
  <2>4. CASE ReplayRemoves
    <3>1. /\ replay = "reads" /\ appMap # NoWidget /\ appMap' = NoWidget
          /\ removals' = removals \cup {appMap} /\ misused' = (life[appMap] = "none")
          /\ UNCHANGED <<theLastLaunched, replay>>
      BY <2>4 DEF ReplayRemoves
    <3>2. appMap \in Widget /\ life[appMap] # "awaited"
      BY <2>1, <3>1 DEF IInv, StudyInv
    <3>3. ~misused' => \A w \in removals' : life[w] = "scene"
      BY <2>1, <3>1, <3>2 DEF IInv, StudyInv
    <3> QED
      BY <2>1, <3>1, <3>2, <3>3, <1>1 DEF IInv, StudyInv, sceneVars
  <2>5. CASE ReplayMoves
    <3>1. misused' /\ UNCHANGED <<theLastLaunched, replay, appMap, removals>>
      BY <2>5 DEF ReplayMoves, otherVars, studyVars
    <3> QED
      BY <2>1, <3>1, <1>1 DEF IInv, StudyInv, sceneVars
  <2> QED
    BY <2>2, <2>3, <2>4, <2>5
<1> QED
  BY <1>1, <1>2, <1>3, SameWidgets DEF IInv, TypeInv

\* A step that changes nothing.
LEMMA StutterInv == IInv /\ UNCHANGED vars => IInv'
<1> SUFFICES ASSUME IInv, UNCHANGED vars PROVE IInv'
  OBVIOUS
<1>1. /\ UNCHANGED <<_globalAppId, _sageWidgetQueue, sceneVars, widgetList, _widgetMap, monitor, misused,
                     session, entries, theLastLaunched, replay, appMap, removals, strays, strayIds>>
  BY DEF vars, registryVars, otherVars, studyVars, historyVars
<1>2. StudyInv'
  BY <1>1 DEF IInv, StudyInv, sceneVars
<1>3. _globalAppId' \in 1 .. MaxId + 1 /\ _globalAppId <= _globalAppId'
  BY <1>1, LauncherAssumption DEF IInv, TypeInv
<1> QED
  BY <1>1, <1>2, <1>3, SameWidgets DEF IInv, TypeInv

\* The invariant is inductive.
LEMMA StepInv == IInv /\ [Next]_vars => IInv'
<1> SUFFICES ASSUME IInv, Next PROVE IInv'
  BY StutterInv
<1>1. ~misused
  BY DEF Next
<1>2. CASE LaunchByUser
  BY <1>1, <1>2, ByUserInv
<1>3. CASE LaunchQueued
  BY <1>1, <1>3, QueuedInv
<1>4. CASE LaunchManual
  BY <1>1, <1>4, ManualInv
<1>5. CASE ReplayLaunch
  BY <1>1, <1>5, ReplayLaunchInv
<1>6. CASE WidgetRemove
  <2>1. PICK w \in Widget : Close(w)
    BY <1>6 DEF WidgetRemove, GetUserWidget, Items
  <2> QED
    BY <1>1, <2>1, CloseInv
<1>7. CASE RemovePosted
  BY <1>1, <1>7, RemovePostedInv
<1>8. CASE WidgetCloseAll
  BY <1>1, <1>8, CloseAllInv
<1>9. CASE Destroy
  BY <1>1, <1>9, DestroyInv
<1>10. CASE DeleteMonitor
  BY <1>1, <1>10, DeleteMonitorInv
<1>11. CASE SaveSession
  BY <1>1, <1>11, SaveInv
<1>12. CASE LoadSession
  BY <1>1, <1>12, LoadInv
<1>13. CASE LoadEntry
  BY <1>1, <1>13, LoadEntryInv
<1>14. CASE ReplayAsks \/ ReplayTakes \/ ReplayRemoves \/ ReplayMoves
  BY <1>1, <1>14, ReplayInv
<1> QED
  BY <1>2, <1>3, <1>4, <1>5, <1>6, <1>7, <1>8, <1>9, <1>10, <1>11, <1>12, <1>13, <1>14 DEF Next, Gui

\* Types, queue, deferred deletions, registry and numbers agree in every reachable state.
THEOREM InvThm == Spec => []IInv
BY InitInv, StepInv, PTL DEF Spec

-------------------------------------------------------------------------------
\* The queue holds the awaited widgets that are still there, the registry the living
\* streams, each under its own number, however numbers are reused: launch(),
\* launchSageApp() and the widgets' constructors and destructors keep them in step.
THEOREM RegistryThm == Spec => []RegistryInv
<1>1. IInv => RegistryInv
  <2> SUFFICES ASSUME IInv PROVE RegistryInv
    OBVIOUS
  <2>1. \A w : w \in Range(_sageWidgetQueue) <=> Contains(_sageWidgetQueue, w)
    BY RangeIsContents DEF IInv, TypeInv
  <2>2. \A w : Contains(_sageWidgetQueue, w) => w \in Widget
    BY ElementOfSeq DEF Contains, IInv, TypeInv
  <2>3. {w \in Widget : life[w] = "awaited" /\ ~IsClosed(w)} = Range(_sageWidgetQueue)
    BY <2>1, <2>2 DEF IInv, QueueInv
  <2> QED
    BY <2>3 DEF RegistryInv, TypeOK, IInv, TypeInv, LiveInv
<1> QED
  BY <1>1, InvThm, PTL

\* _getUpdatedGlobalAppId(): two widgets that nobody has closed have the same number only
\* if one waited for its application while the counter was set back or a session loaded.
THEOREM NumbersThm == Spec => []NumbersClashOnlyWithAwaited
<1>1. IInv => NumbersClashOnlyWithAwaited
  BY DEF IInv, Clash
<1> QED
  BY <1>1, InvThm, PTL

\* addSchedulableWidget() and removeSchedulableWidget(): until the monitor is sent away, a
\* stream is what is found under its number, unless a widget that waited during a load
\* had the number.
THEOREM FoundThm == Spec => []StreamsAreFound
<1>1. IInv => StreamsAreFound
  BY DEF IInv, FoundInv
<1> QED
  BY <1>1, InvThm, PTL

-------------------------------------------------------------------------------
(* Files on their way                                                        *)

Token == [kind : {"header", "chunk", "part"}, file : File]

Event == [kind : {"begins", "report"}, file : File, bytes : Int]

Slot == [kind : {"progress"}, conn : Connection, file : File, bytes : Int]
            \cup [kind : {"launch"}, conn : Connection, file : File, whole : BOOLEAN]
            \cup [kind : {"add"}, conn : Connection, file : File]
            \cup [kind : {"finished"}, conn : Connection]

TransferTypes ==
    /\ cpc \in [Sender -> {"idle", "begin", "content", "wait", "done"}]
    /\ item \in [Sender -> 1 .. FilesPerDrop + 1]
    /\ \A s \in Sender : /\ cpc[s] # "done" => item[s] <= FilesPerDrop
                         /\ cpc[s] = "idle" => item[s] = 1
    /\ via \in [Sender -> Connection]
    /\ semaphore \in Nat
    /\ conn \in Connection
    /\ msgUp \in BOOLEAN
    /\ events \in Seq(Event)
    /\ posted \in Seq(Slot)
    /\ launched \in Seq(Slot) /\ \A i \in 1..Len(launched) : launched[i].kind = "launch"
    /\ link \in [Connection -> {"none", "up", "closed", "broken"}]
    /\ wire \in [Connection -> Seq(Token)]
    /\ spc \in [Connection -> {"none", "accept", "header", "open", "content", "store", "finished",
                               "deleted", "garbled"}]
    /\ receiving \in [Connection -> File \cup {NoFile}]
    /\ counted \in [Connection -> Nat] /\ arrived \in [Connection -> Nat]
    /\ \A c \in Connection : spc[c] \in {"open", "content", "store"} => receiving[c] \in File \ Urls

\* The report that ends a file, as an event of the client and as a slot of the wall.
Final(n) == n = Chunks \/ n <= 0
FinalEvent(e) == e.kind = "report" /\ Final(e.bytes)
FinalSlot(p) == p.kind = "progress" /\ p.conn = conn /\ msgUp /\ Final(p.bytes)

\* Only the present connection is written to; a later one is as it was at the start.
ConnectionInv ==
    /\ link[conn] = "up" => msgUp
    /\ \A c \in Connection : c # conn => link[c] # "up"
    /\ \A c \in Connection : c > conn => link[c] = "none" /\ wire[c] = <<>> /\ spc[c] = "none"
    /\ \A i \in 1..Len(posted) : posted[i].conn <= conn
    /\ ~msgUp => \A i \in 1..Len(events) : ~FinalEvent(events[i])

\* The wall reads a file, or has one to read.
FileHeader(t) == t.kind = "header" /\ t.file \notin Urls
Reads(c) == spc[c] \in {"open", "content"}
Pending == Reads(conn) \/ \E i \in 1..Len(wire[conn]) : FileHeader(wire[conn][i])

\* The report that ends a file is on its way.
Reporting == \/ \E i \in 1..Len(events) : FinalEvent(events[i])
             \/ \E i \in 1..Len(posted) : FinalSlot(posted[i])

\* One file at a time is on the wire or reported.
OneFile ==
    /\ \A i, j \in 1..Len(wire[conn]) : FileHeader(wire[conn][i]) /\ FileHeader(wire[conn][j]) => i = j
    /\ Reads(conn) => \A i \in 1..Len(wire[conn]) : ~FileHeader(wire[conn][i])
    /\ \A i, j \in 1..Len(events) : FinalEvent(events[i]) /\ FinalEvent(events[j]) => i = j
    /\ \A i, j \in 1..Len(posted) : FinalSlot(posted[i]) /\ FinalSlot(posted[j]) => i = j
    /\ \A i \in 1..Len(events), j \in 1..Len(posted) : ~(FinalEvent(events[i]) /\ FinalSlot(posted[j]))
    /\ ~(Pending /\ Reporting)

\* Its sender is known and waits, or is going to.
Waiting == {s \in Sender : cpc[s] \in {"content", "wait"}}

Knows(f) == f[1] \in Waiting /\ via[f[1]] = conn /\ item[f[1]] = f[2]

SenderKnown ==
    /\ Reads(conn) => Knows(receiving[conn])
    /\ \A i \in 1..Len(wire[conn]) : FileHeader(wire[conn][i]) => Knows(wire[conn][i].file)
    /\ \A i \in 1..Len(events) : FinalEvent(events[i]) => Knows(events[i].file)
    /\ \A i \in 1..Len(posted) : FinalSlot(posted[i]) => Knows(posted[i].file)

\* A thread that may begin, or was released, is the only one that will write.
OneTurn ==
    /\ \A s \in Sender : cpc[s] = "begin" =>
         semaphore = 0 /\ ~Pending /\ ~Reporting /\ \A t \in Sender : cpc[t] = "begin" => t = s
    /\ semaphore > 0 => semaphore = 1 /\ ~Pending /\ ~Reporting /\ Waiting # {}

\* A thread that is about to write contents is alone, unless the connection broke after
\* its header was sent: then the wall may have released it already.
OneContent ==
    \A s \in Sender : cpc[s] = "content" /\ (link[conn] = "up" \/ ~msgUp \/ via[s] # conn) =>
        /\ semaphore = 0
        /\ \A t \in Sender : cpc[t] # "begin" /\ (cpc[t] = "content" => t = s)
        /\ ~Reporting /\ (Pending => msgUp /\ via[s] = conn)

\* The chunks that follow the first i tokens of a wire.
Follow(c, i, n, f) == i + n <= Len(wire[c]) /\ \A j \in 1..n : wire[c][i + j] = Chunk(f)

\* The content is still to be written.
Awaits(c, f) == /\ c = conn /\ link[c] = "up"
                /\ cpc[f[1]] = "content" /\ via[f[1]] = c /\ item[f[1]] = f[2]

Complete(c, i, n, f) == Follow(c, i, n, f) \/ (i = Len(wire[c]) /\ n = Chunks /\ Awaits(c, f))

\* What follows a header is the file.
FilesFollow(c) ==
    /\ \A i \in 1..Len(wire[c]) : FileHeader(wire[c][i]) => Complete(c, i, Chunks, wire[c][i].file)
    /\ spc[c] = "open" => Complete(c, 0, Chunks, receiving[c])
    /\ spc[c] = "content" => /\ arrived[c] = counted[c] /\ counted[c] < Chunks
                             /\ Complete(c, 0, Chunks - counted[c], receiving[c])
    /\ spc[c] = "store" => arrived[c] = Chunks

WireInv == \A c \in Connection : link[c] # "broken" => FilesFollow(c)

\* Nothing is written behind a file until its report was read, and nothing behind its
\* header before its content is.
TailInv ==
    link[conn] = "up" =>
        /\ \A i \in 1..Len(wire[conn]) : FileHeader(wire[conn][i]) => Len(wire[conn]) <= i + Chunks
        /\ spc[conn] = "open" => Len(wire[conn]) <= Chunks
        /\ spc[conn] = "content" => Len(wire[conn]) <= Chunks - counted[conn]
        /\ \A s \in Sender : cpc[s] = "content" =>
             /\ \A i \in 1..Len(wire[conn]) : FileHeader(wire[conn][i]) => i = Len(wire[conn])
             /\ Reads(conn) => wire[conn] = <<>>

Continues(s) == cpc[s] = "begin" /\ item[s] > 1 /\ <<s, item[s] - 1>> \notin Urls

QuietInv ==
    link[conn] = "up" /\ (semaphore > 0 \/ Reporting \/ \E s \in Sender : Continues(s))
        => wire[conn] = <<>>

\* What the launcher is given.
WholeInv ==
    /\ \A i \in 1..Len(launched) : \/ launched[i].whole \/ link[launched[i].conn] = "broken"
                                   \/ launched[i].file \in unstored
    /\ \A i \in 1..Len(posted) : posted[i].kind = "launch"
         => posted[i].whole \/ link[posted[i].conn] = "broken" \/ posted[i].file \in unstored

\* Files of one drop over one connection stay in their order: in launched, posted to it,
\* being received, on the wire, and still to be sent.
Before(f, g) == f[1] = g[1] => f[2] < g[2]

Begun(f) == f[2] < item[f[1]] \/ (f[2] = item[f[1]] /\ f[1] \in Waiting)

IsLaunch(p, c) == p.kind = "launch" /\ p.conn = c

InHand(c) == spc[c] \in {"open", "content", "store"}

IsHeader(t) == t.kind = "header"

\* What is still behind the slots of a connection comes after f.
BeforeRest(f, c) == /\ InHand(c) => Before(f, receiving[c])
                    /\ \A j \in 1..Len(wire[c]) : IsHeader(wire[c][j]) => Before(f, wire[c][j].file)
                    /\ Begun(f)

Ordered(c) ==
    /\ \A i, j \in 1..Len(launched) : i < j /\ IsLaunch(launched[i], c) /\ IsLaunch(launched[j], c)
         => Before(launched[i].file, launched[j].file)
    /\ \A i \in 1..Len(launched), j \in 1..Len(posted) : IsLaunch(launched[i], c) /\ IsLaunch(posted[j], c)
         => Before(launched[i].file, posted[j].file)
    /\ \A i, j \in 1..Len(posted) : i < j /\ IsLaunch(posted[i], c) /\ IsLaunch(posted[j], c)
         => Before(posted[i].file, posted[j].file)
    /\ \A i \in 1..Len(launched) : IsLaunch(launched[i], c) => BeforeRest(launched[i].file, c)
    /\ \A i \in 1..Len(posted) : IsLaunch(posted[i], c) => BeforeRest(posted[i].file, c)
    /\ InHand(c) => /\ \A j \in 1..Len(wire[c]) : IsHeader(wire[c][j]) => Before(receiving[c], wire[c][j].file)
                    /\ Begun(receiving[c])
    /\ \A i, j \in 1..Len(wire[c]) : i < j /\ IsHeader(wire[c][i]) /\ IsHeader(wire[c][j])
         => Before(wire[c][i].file, wire[c][j].file)
    /\ \A j \in 1..Len(wire[c]) : IsHeader(wire[c][j]) => Begun(wire[c][j].file)

OrderInv == \A c \in Connection : Ordered(c)

TurnInv == /\ TransferTypes /\ ConnectionInv
           /\ OneFile /\ SenderKnown /\ OneTurn /\ OneContent
           /\ WireInv /\ TailInv /\ QuietInv

TransferInv == TurnInv /\ WholeInv /\ OrderInv /\ ThreadsLeave
-------------------------------------------------------------------------------
(* Sequences, place by place                                                 *)

\* The elements of a tail.
LEMMA TailAt ==
    ASSUME NEW S, NEW s \in Seq(S), s # <<>>
    PROVE  /\ Tail(s) \in Seq(S) /\ Head(s) \in S /\ Head(s) = s[1]
           /\ Len(s) \in Nat /\ Len(s) >= 1 /\ Len(Tail(s)) = Len(s) - 1
           /\ \A i \in 1..Len(Tail(s)) : Tail(s)[i] = s[i + 1] /\ i + 1 \in 1..Len(s)
           /\ \A i \in 1..Len(s) : i # 1 => i - 1 \in 1..Len(Tail(s)) /\ Tail(s)[i - 1] = s[i]
<1>1. /\ Tail(s) \in Seq(S) /\ Head(s) \in S /\ Len(Tail(s)) = Len(s) - 1
      /\ \A i \in 1..Len(Tail(s)) : Tail(s)[i] = s[i + 1]
  BY HeadTailProperties
<1>2. Len(s) \in Nat \ {0} /\ Head(s) = s[1]
  BY EmptySeq
<1> QED  BY <1>1, <1>2

\* The elements of a sequence with one more.
LEMMA AppendAt ==
    ASSUME NEW S, NEW s \in Seq(S), NEW e \in S
    PROVE  /\ Append(s, e) \in Seq(S) /\ Len(s) \in Nat /\ Len(Append(s, e)) = Len(s) + 1
           /\ \A i \in 1..Len(s) : Append(s, e)[i] = s[i]
           /\ Append(s, e)[Len(s) + 1] = e
           /\ \A i \in 1..Len(Append(s, e)) : i \in 1..Len(s) \/ i = Len(s) + 1
<1>1. /\ Append(s, e) \in Seq(S) /\ Len(Append(s, e)) = Len(s) + 1 /\ Len(s) \in Nat
      /\ \A i \in 1..Len(s) : Append(s, e)[i] = s[i]
      /\ Append(s, e)[Len(s) + 1] = e
  BY AppendProperties, LenProperties
<1> QED  BY <1>1

\* The elements of two sequences in a row.
LEMMA JoinAt ==
    ASSUME NEW S, NEW s \in Seq(S), NEW t \in Seq(S), NEW r, r = s \o t
    PROVE  /\ r \in Seq(S) /\ Len(s) \in Nat /\ Len(t) \in Nat /\ Len(r) = Len(s) + Len(t)
           /\ \A i \in 1..Len(s) : r[i] = s[i]
           /\ \A i \in 1..Len(t) : r[Len(s) + i] = t[i]
           /\ \A i \in 1..Len(r) : \/ i \in 1..Len(s)
                                   \/ i - Len(s) \in 1..Len(t) /\ r[i] = t[i - Len(s)]
<1>1. Len(s) \in Nat /\ Len(t) \in Nat
  BY LenProperties
<1>2. /\ s \o t \in Seq(S) /\ Len(s \o t) = Len(s) + Len(t)
      /\ \A i \in 1 .. Len(s) + Len(t) : (s \o t)[i] = IF i <= Len(s) THEN s[i] ELSE t[i - Len(s)]
  BY ConcatProperties
<1>3. /\ r \in Seq(S) /\ Len(r) = Len(s) + Len(t)
      /\ \A i \in 1 .. Len(s) + Len(t) : r[i] = IF i <= Len(s) THEN s[i] ELSE t[i - Len(s)]
  BY <1>2
<1>4. /\ \A i \in 1..Len(s) : r[i] = s[i]
      /\ \A i \in 1..Len(r) : \/ i \in 1..Len(s)
                              \/ i - Len(s) \in 1..Len(t) /\ r[i] = t[i - Len(s)]
  BY <1>1, <1>3
<1>5. ASSUME NEW i \in 1..Len(t)
      PROVE  r[Len(s) + i] = t[i]
  <2>1. Len(s) + i \in 1 .. Len(s) + Len(t) /\ ~(Len(s) + i <= Len(s)) /\ (Len(s) + i) - Len(s) = i
    BY <1>1
  <2> QED  BY <2>1, <1>3
<1> QED  BY <1>1, <1>3, <1>4, <1>5

-------------------------------------------------------------------------------
(* The client's threads                                                      *)

\* A thread begins when no other sends: all that was sent before has been read.
LEMMA DropTurn ==
    ASSUME TurnInv, ~Mixes, NEW s \in Sender, Drop(s)
    PROVE  TurnInv'
<1>1. /\ cpc[s] = "idle" /\ ~Sending /\ cpc' = [cpc EXCEPT ![s] = "begin"]
      /\ UNCHANGED <<item, via, semaphore, conn, msgUp, events, posted, launched, link, wire,
                     spc, receiving, counted, arrived>>
  BY DEF Drop, serverVars, wallVars
<1>2. /\ TransferTypes /\ ConnectionInv /\ OneFile /\ SenderKnown
      /\ OneTurn /\ OneContent /\ WireInv /\ TailInv /\ QuietInv
  BY DEF TurnInv
<1>3. /\ \A t \in Sender : cpc[t] \notin {"begin", "content"}
      /\ \A t \in Sender : cpc[t] = "wait" => via[t] # conn /\ ~(semaphore > 0)
  BY <1>1 DEF Sending
<1>4. ~Pending /\ ~Reporting
  BY <1>2, <1>3 DEF Pending, Reporting, SenderKnown, Knows, Waiting
<1>5. semaphore = 0 /\ item[s] = 1
  BY <1>1, <1>2, <1>3 DEF OneTurn, Waiting, TransferTypes
<1>6. (Pending' <=> Pending) /\ (Reporting' <=> Reporting)
  BY <1>1 DEF Pending, Reporting, Reads, FinalSlot
<1>7. TransferTypes' /\ ConnectionInv' /\ OneFile'
  <2>1. TransferTypes'
    BY <1>1, <1>2, <1>5, CountsAssumption DEF TransferTypes
  <2>2. ConnectionInv'
    BY <1>1, <1>2 DEF ConnectionInv
  <2>3. OneFile'
    BY <1>1, <1>2, <1>6 DEF OneFile, Reads, FinalSlot
  <2> QED  BY <2>1, <2>2, <2>3
<1>8. SenderKnown'
  BY <1>1, <1>4, <1>6 DEF SenderKnown, Pending, Reporting, Reads, FinalSlot
<1>9. OneTurn' /\ OneContent'
  BY <1>1, <1>2, <1>3, <1>4, <1>5, <1>6 DEF OneTurn, OneContent, TransferTypes
<1>10. WireInv' /\ TailInv'
  <2>1. WireInv'
    BY <1>1, <1>2, <1>3, <1>4 DEF WireInv, FilesFollow, Complete, Follow, Awaits, Pending, Reads
  <2>2. TailInv'
    BY <1>1, <1>2, <1>3, <1>4 DEF TailInv, Reads, TransferTypes
  <2> QED  BY <2>1, <2>2
<1>11. QuietInv'
  BY <1>1, <1>2, <1>3, <1>4, <1>5, <1>6 DEF QuietInv, Continues, TransferTypes
<1> QED  BY <1>7, <1>8, <1>9, <1>10, <1>11 DEF TurnInv

\* A thread whose turn it is to begin: nobody else sends over a connection that is up.
LEMMA Beginner ==
    ASSUME TurnInv, NEW s \in Sender, cpc[s] = "begin"
    PROVE  /\ semaphore = 0 /\ ~Pending /\ ~Reporting
           /\ \A t \in Sender : cpc[t] = "begin" => t = s
           /\ \A t \in Sender : cpc[t] = "content" => link[conn] # "up" /\ msgUp /\ via[t] = conn
           /\ ~Reads(conn) /\ \A i \in 1..Len(wire[conn]) : ~FileHeader(wire[conn][i])
           /\ \A i \in 1..Len(events) : ~FinalEvent(events[i])
           /\ \A i \in 1..Len(posted) : ~FinalSlot(posted[i])
           /\ item[s] \in 1..FilesPerDrop
<1>1. OneTurn /\ OneContent /\ TransferTypes
  BY DEF TurnInv
<1>2. semaphore = 0 /\ ~Pending /\ ~Reporting /\ \A t \in Sender : cpc[t] = "begin" => t = s
  BY <1>1 DEF OneTurn
<1>3. \A t \in Sender : cpc[t] = "content" => link[conn] # "up" /\ msgUp /\ via[t] = conn
  BY <1>1 DEF OneContent
<1>4. item[s] \in 1..FilesPerDrop
  BY <1>1, CountsAssumption DEF TransferTypes
<1> QED  BY <1>2, <1>3, <1>4 DEF Pending, Reporting

\* What one more token, or several, make of the wire in use.
LEMMA Written ==
    ASSUME TransferTypes, NEW t \in Seq(Token), Write(t)
    PROVE  /\ wire' \in [Connection -> Seq(Token)]
           /\ \A c \in Connection : c # conn \/ link[conn] # "up" => wire'[c] = wire[c]
           /\ Len(t) \in Nat /\ \A c \in Connection : Len(wire[c]) \in Nat
           /\ link[conn] = "up" =>
                /\ Len(wire'[conn]) = Len(wire[conn]) + Len(t)
                /\ \A i \in 1..Len(wire[conn]) : wire'[conn][i] = wire[conn][i]
                /\ \A i \in 1..Len(t) : wire'[conn][Len(wire[conn]) + i] = t[i]
                /\ \A i \in 1..Len(wire'[conn]) :
                     i \in 1..Len(wire[conn])
                        \/ (i - Len(wire[conn]) \in 1..Len(t) /\ wire'[conn][i] = t[i - Len(wire[conn])])
<1>1. wire \in [Connection -> Seq(Token)] /\ conn \in Connection
  BY DEF TransferTypes
<1>2. \A c \in Connection : Len(wire[c]) \in Nat
  BY <1>1, LenProperties
<1>3. wire[conn] \in Seq(Token) /\ Len(t) \in Nat
  BY <1>1, LenProperties
<1>4. CASE link[conn] = "up"
  <2>1. wire' = [wire EXCEPT ![conn] = wire[conn] \o t]
    BY <1>4 DEF Write
  <2>2. wire'[conn] = wire[conn] \o t /\ \A c \in Connection : c # conn => wire'[c] = wire[c]
    BY <2>1, <1>1
  <2>3. /\ wire'[conn] \in Seq(Token) /\ Len(wire'[conn]) = Len(wire[conn]) + Len(t)
        /\ \A i \in 1..Len(wire[conn]) : wire'[conn][i] = wire[conn][i]
        /\ \A i \in 1..Len(t) : wire'[conn][Len(wire[conn]) + i] = t[i]
        /\ \A i \in 1..Len(wire'[conn]) :
             i \in 1..Len(wire[conn])
                \/ (i - Len(wire[conn]) \in 1..Len(t) /\ wire'[conn][i] = t[i - Len(wire[conn])])
    BY <1>3, <2>2, JoinAt
  <2>4. wire' \in [Connection -> Seq(Token)]
    BY <2>1, <2>2, <2>3, <1>1
  <2> QED  BY <2>2, <2>3, <2>4, <1>2, <1>3, <1>4, Zenon
<1>5. CASE link[conn] # "up"
  <2>1. wire' = wire
    BY <1>5 DEF Write
  <2> QED  BY <2>1, <1>1, <1>2, <1>3, <1>5
<1> QED  BY <1>4, <1>5

\* Files on a connection that is not in use.
LEMMA FilesElsewhere ==
    ASSUME NEW c \in Connection, c # conn, c # conn', FilesFollow(c),
           wire'[c] = wire[c], spc'[c] = spc[c], receiving'[c] = receiving[c],
           counted'[c] = counted[c], arrived'[c] = arrived[c]
    PROVE  FilesFollow(c)'
<1>1. \A i, n, f : Complete(c, i, n, f) <=> Follow(c, i, n, f)
  BY DEF Complete, Awaits
<1>2. \A i, n, f : Complete(c, i, n, f)' <=> Follow(c, i, n, f)'
  BY DEF Complete, Awaits
<1>3. \A i, n, f : Follow(c, i, n, f)' <=> Follow(c, i, n, f)
  BY DEF Follow
<1> HIDE DEF Complete
<1> QED  BY <1>1, <1>2, <1>3 DEF FilesFollow

\* Whatever is on a wire or being received is a file.
LEMMA FilesOf ==
    ASSUME TransferTypes
    PROVE  /\ \A c \in Connection : \A i \in 1..Len(wire[c]) : wire[c][i] \in Token /\ wire[c][i].file \in File
           /\ \A c \in Connection : spc[c] \in {"open", "content", "store"} => receiving[c] \in File
<1>1. ASSUME NEW c \in Connection, NEW i \in 1..Len(wire[c])
      PROVE  wire[c][i] \in Token /\ wire[c][i].file \in File
  <2>1. wire[c] \in Seq(Token)
    BY DEF TransferTypes
  <2>2. wire[c][i] \in Token
    BY <2>1, ElementOfSeq
  <2> QED  BY <2>2 DEF Token
<1>2. \A c \in Connection : spc[c] \in {"open", "content", "store"} => receiving[c] \in File
  BY DEF TransferTypes
<1> QED  BY <1>1, <1>2

\* A web address is a header that no report follows.
LEMMA SendUrlTurn ==
    ASSUME TurnInv, ~Mixes, NEW s \in Sender, SendUrl(s)
    PROVE  TurnInv'
<1> DEFINE f == <<s, item[s]>>
           t == <<Header(f)>>
<1>1. /\ cpc[s] = "begin" /\ f \in Urls /\ Write(t)
      /\ item' = [item EXCEPT ![s] = item[s] + 1]
      /\ cpc' = [cpc EXCEPT ![s] = IF item[s] < FilesPerDrop THEN "begin" ELSE "done"]
      /\ UNCHANGED <<via, semaphore, conn, msgUp, events, posted, launched, link,
                     spc, receiving, counted, arrived>>
  BY DEF SendUrl, NextItem, serverVars, wallVars
<1>2. /\ TransferTypes /\ ConnectionInv /\ OneFile /\ SenderKnown
      /\ OneTurn /\ OneContent /\ WireInv /\ TailInv /\ QuietInv
  BY DEF TurnInv
<1>3. /\ semaphore = 0 /\ ~Pending /\ ~Reporting
      /\ \A u \in Sender : cpc[u] = "begin" => u = s
      /\ \A u \in Sender : cpc[u] = "content" => link[conn] # "up" /\ msgUp /\ via[u] = conn
      /\ ~Reads(conn) /\ \A i \in 1..Len(wire[conn]) : ~FileHeader(wire[conn][i])
      /\ \A i \in 1..Len(events) : ~FinalEvent(events[i])
      /\ \A i \in 1..Len(posted) : ~FinalSlot(posted[i])
      /\ item[s] \in 1..FilesPerDrop
  BY <1>1, Beginner
<1>4. f \in File /\ t \in Seq(Token) /\ Len(t) = 1 /\ ~FileHeader(t[1])
  BY <1>1, <1>3 DEF File, Token, Header, FileHeader
<1> HIDE DEF t
<1>5. /\ wire' \in [Connection -> Seq(Token)]
      /\ \A c \in Connection : c # conn \/ link[conn] # "up" => wire'[c] = wire[c]
      /\ \A i \in 1..Len(wire'[conn]) : ~FileHeader(wire'[conn][i])
  <2>1. conn \in Connection
    BY <1>2 DEF TransferTypes
  <2>2. /\ wire' \in [Connection -> Seq(Token)]
        /\ \A c \in Connection : c # conn \/ link[conn] # "up" => wire'[c] = wire[c]
        /\ link[conn] = "up" =>
             /\ \A i \in 1..Len(wire[conn]) : wire'[conn][i] = wire[conn][i]
             /\ \A i \in 1..Len(wire'[conn]) :
                  i \in 1..Len(wire[conn])
                     \/ (i - Len(wire[conn]) \in 1..Len(t) /\ wire'[conn][i] = t[i - Len(wire[conn])])
    BY <1>1, <1>2, <1>4, Written
  <2>3. \A k : k \in 1..Len(t) => k = 1
    BY <1>4
  <2> QED  BY <2>1, <2>2, <2>3, <1>3, <1>4
<1>6. ~Pending' /\ ~Reporting' /\ ~Reads(conn)'
  BY <1>1, <1>3, <1>5 DEF Pending, Reporting, Reads, FinalSlot
<1>7. TransferTypes' /\ ConnectionInv' /\ OneFile'
  <2>1. TransferTypes'
    <3>1. /\ item' \in [Sender -> 1 .. FilesPerDrop + 1]
          /\ cpc' \in [Sender -> {"idle", "begin", "content", "wait", "done"}]
          /\ \A u \in Sender : /\ cpc'[u] # "done" => item'[u] <= FilesPerDrop
                               /\ cpc'[u] = "idle" => item'[u] = 1
      BY SMTT(40), <1>1, <1>2, <1>3, CountsAssumption DEF TransferTypes
    <3> QED  BY <3>1, <1>1, <1>2, <1>5 DEF TransferTypes
  <2>2. ConnectionInv'
    BY <1>1, <1>2, <1>5 DEF ConnectionInv, TransferTypes
  <2>3. OneFile'
    BY <1>1, <1>2, <1>5, <1>6 DEF OneFile, FinalSlot
  <2> QED  BY <2>1, <2>2, <2>3
<1>8. SenderKnown'
  <2>1. /\ \A i \in 1..Len(events') : ~FinalEvent(events'[i])
        /\ \A i \in 1..Len(posted') : ~FinalSlot(posted[i])'
    BY <1>1, <1>3 DEF FinalSlot
  <2> QED  BY <2>1, <1>1, <1>5, <1>6 DEF SenderKnown
<1> DEFINE Step == /\ \A u \in Sender : u # s => cpc'[u] = cpc[u] /\ item'[u] = item[u]
                   /\ cpc'[s] \in {"begin", "done"} /\ item'[s] = item[s] + 1
<1>s. Step
  BY <1>1, <1>2 DEF TransferTypes
<1>9. OneTurn' /\ OneContent'
  <2>1. OneTurn'
    BY <1>1, <1>s, <1>3, <1>6 DEF OneTurn
  <2>2. OneContent'
    BY <1>1, <1>s, <1>3 DEF OneContent
  <2> QED  BY <2>1, <2>2
<1>10. WireInv' /\ TailInv'
  <2>1. WireInv'
    <3> SUFFICES ASSUME NEW c \in Connection, link'[c] # "broken"
                 PROVE  FilesFollow(c)'
      BY DEF WireInv
    <3>1. CASE c # conn
      BY <3>1, <1>1, <1>2, <1>5, FilesElsewhere DEF WireInv
    <3>2. CASE c = conn
      BY <3>2, <1>1, <1>2, <1>5, <1>6 DEF WireInv, FilesFollow, Reads
    <3> QED  BY <3>1, <3>2
  <2>2. TailInv'
    BY <1>1, <1>5, <1>6 DEF TailInv, Reads
  <2> QED  BY <2>1, <2>2
<1>11. QuietInv'
  <2>0. (item[s] + 1) - 1 = item[s]
    BY <1>3
  <2>1. \A u \in Sender : ~Continues(u)'
    BY <2>0, <1>1, <1>s, <1>3 DEF Continues
  <2> QED  BY <2>1, <1>1, <1>3, <1>6 DEF QuietInv
<1> QED  BY <1>7, <1>8, <1>9, <1>10, <1>11 DEF TurnInv

\* A header goes to a wire that holds no other file.
LEMMA SendHeaderTurn ==
    ASSUME TurnInv, ~Mixes, NEW s \in Sender, SendHeader(s)
    PROVE  TurnInv'
<1>0. PICK f : f = <<s, item[s]>>
  OBVIOUS
<1> DEFINE t == <<Header(f)>>
           n == Len(wire[conn])
<1>1. /\ cpc[s] = "begin" /\ f \notin Urls /\ Write(t)
      /\ events' = Append(events, Begins(f))
      /\ via' = [via EXCEPT ![s] = conn]
      /\ cpc' = [cpc EXCEPT ![s] = "content"]
      /\ UNCHANGED <<item, semaphore, conn, msgUp, posted, launched, link,
                     spc, receiving, counted, arrived>>
  BY <1>0 DEF SendHeader, serverVars, wallVars
<1>2. /\ TransferTypes /\ ConnectionInv /\ OneFile /\ SenderKnown
      /\ OneTurn /\ OneContent /\ WireInv /\ TailInv /\ QuietInv
  BY DEF TurnInv
<1>3. /\ semaphore = 0 /\ ~Pending /\ ~Reporting
      /\ \A u \in Sender : cpc[u] = "begin" => u = s
      /\ \A u \in Sender : cpc[u] = "content" => link[conn] # "up" /\ msgUp /\ via[u] = conn
      /\ ~Reads(conn) /\ \A i \in 1..Len(wire[conn]) : ~FileHeader(wire[conn][i])
      /\ \A i \in 1..Len(events) : ~FinalEvent(events[i])
      /\ \A i \in 1..Len(posted) : ~FinalSlot(posted[i])
      /\ item[s] \in 1..FilesPerDrop
  BY <1>1, Beginner
<1>4. /\ f \in File /\ t \in Seq(Token) /\ Len(t) = 1
      /\ FileHeader(t[1]) /\ t[1].file = f /\ f[1] = s /\ f[2] = item[s]
  <2>1. f \in File /\ f[1] = s /\ f[2] = item[s]
    BY <1>0, <1>3 DEF File
  <2>2. Header(f) \in Token /\ FileHeader(Header(f)) /\ Header(f).file = f
    BY <2>1, <1>1 DEF Token, Header, FileHeader
  <2> QED  BY <2>1, <2>2
<1> HIDE DEF t
<1>5. /\ conn \in Connection /\ n \in Nat
      /\ wire' \in [Connection -> Seq(Token)]
      /\ \A c \in Connection : c # conn \/ link[conn] # "up" => wire'[c] = wire[c]
      /\ link[conn] = "up" =>
           /\ Len(wire'[conn]) = n + 1
           /\ FileHeader(wire'[conn][n + 1]) /\ wire'[conn][n + 1].file = f
           /\ \A i \in 1..Len(wire'[conn]) : FileHeader(wire'[conn][i]) => i = n + 1
  <2>1. conn \in Connection
    BY <1>2 DEF TransferTypes
  <2>2. /\ wire' \in [Connection -> Seq(Token)] /\ n \in Nat
        /\ \A c \in Connection : c # conn \/ link[conn] # "up" => wire'[c] = wire[c]
        /\ link[conn] = "up" =>
             /\ Len(wire'[conn]) = n + 1
             /\ \A i \in 1..n : wire'[conn][i] = wire[conn][i]
             /\ \A i \in 1..Len(t) : wire'[conn][n + i] = t[i]
             /\ \A i \in 1..Len(wire'[conn]) : i \in 1..n \/ i - n \in 1..Len(t)
    BY <2>1, <1>1, <1>2, <1>4, Written
  <2> HIDE DEF n
  <2>3. \A i \in 1..n : ~FileHeader(wire[conn][i])
    BY <1>3 DEF n
  <2>4. 1 \in 1..Len(t) /\ \A i \in 1..Len(wire'[conn]) : i - n \in 1..Len(t) => i = n + 1
    BY <2>2, <1>4
  <2> QED  BY <2>1, <2>2, <2>3, <2>4, <1>4
<1> HIDE DEF n
<1>6. /\ events' \in Seq(Event)
      /\ \A i \in 1..Len(events') : ~FinalEvent(events'[i])
  <2>1. events \in Seq(Event) /\ Begins(f) \in Event /\ ~FinalEvent(Begins(f))
    BY <1>2, <1>4 DEF TransferTypes, Event, Begins, FinalEvent
  <2> QED  BY <2>1, <1>1, <1>3, AppendAt
<1>7. ~Reporting' /\ ~Reads(conn)' /\ (Pending' => link[conn] = "up")
  BY <1>1, <1>3, <1>5, <1>6 DEF Pending, Reporting, Reads, FinalSlot
<1>8. TransferTypes' /\ ConnectionInv' /\ OneFile'
  <2>1. TransferTypes'
    BY <1>1, <1>2, <1>3, <1>5, <1>6 DEF TransferTypes
  <2>2. ConnectionInv'
    BY <1>1, <1>2, <1>5, <1>6 DEF ConnectionInv, TransferTypes
  <2>3. OneFile'
    BY <1>1, <1>2, <1>3, <1>5, <1>6, <1>7 DEF OneFile, FinalSlot
  <2> QED  BY <2>1, <2>2, <2>3
<1>9. SenderKnown'
  <2>1. cpc'[s] = "content" /\ via'[s] = conn' /\ item'[s] = item[s]
    BY <1>1, <1>2 DEF TransferTypes
  <2>2. Knows(f)'
    BY <2>1, <1>4 DEF Knows, Waiting
  <2>3. \A i \in 1..Len(posted') : ~FinalSlot(posted[i])'
    BY <1>1, <1>3 DEF FinalSlot
  <2>4. \A i \in 1..Len(wire[conn]') : FileHeader(wire[conn][i])' => wire'[conn][i].file = f
    BY <1>1, <1>3, <1>5 DEF FileHeader
  <2> QED  BY <2>2, <2>3, <2>4, <1>1, <1>6, <1>7 DEF SenderKnown
<1>10. OneTurn' /\ OneContent'
  <2>1. OneTurn'
    BY <1>1, <1>2, <1>3 DEF OneTurn, TransferTypes
  <2>2. OneContent'
    BY <1>1, <1>2, <1>3, <1>7 DEF OneContent, TransferTypes, ConnectionInv
  <2> QED  BY <2>1, <2>2
<1>11. WireInv' /\ TailInv'
  <2>0. cpc'[s] = "content" /\ via'[s] = conn /\ item'[s] = item[s]
    BY <1>1, <1>2 DEF TransferTypes
  <2>1. link[conn] = "up" => Awaits(conn, f)'
    BY <2>0, <1>1, <1>4 DEF Awaits
  <2>2. WireInv'
    <3> SUFFICES ASSUME NEW c \in Connection, link'[c] # "broken"
                 PROVE  FilesFollow(c)'
      BY DEF WireInv
    <3>1. CASE c # conn
      BY <3>1, <1>1, <1>2, <1>5, FilesElsewhere DEF WireInv
    <3>2. CASE c = conn /\ link[conn] # "up"
      BY <3>2, <1>1, <1>2, <1>3, <1>5, <1>7 DEF WireInv, FilesFollow, Reads
    <3>3. CASE c = conn /\ link[conn] = "up"
      <4>1. \A i \in 1..Len(wire'[conn]) : FileHeader(wire'[conn][i]) =>
                Complete(conn, i, Chunks, wire[conn][i].file)'
        BY <2>1, <3>3, <1>1, <1>5 DEF Complete
      <4> QED  BY <4>1, <3>3, <1>1, <1>2, <1>7 DEF WireInv, FilesFollow, Reads
    <3> QED  BY <3>1, <3>2, <3>3
  <2>3. TailInv'
    <3> SUFFICES ASSUME link[conn] = "up"
                 PROVE  TailInv'
      BY <1>1 DEF TailInv
    <3>1. \A i \in 1..Len(wire'[conn]) : FileHeader(wire'[conn][i]) =>
             Len(wire'[conn]) <= i + Chunks /\ i = Len(wire'[conn])
      BY <1>5, CountsAssumption
    <3> QED  BY <3>1, <1>1, <1>7 DEF TailInv, Reads
  <2> QED  BY <2>2, <2>3
<1>12. QuietInv'
  <2>1. \A u \in Sender : ~Continues(u)'
    BY <1>1, <1>2, <1>3 DEF Continues, TransferTypes
  <2> QED  BY <2>1, <1>1, <1>3, <1>7 DEF QuietInv
<1> QED  BY <1>8, <1>9, <1>10, <1>11, <1>12 DEF TurnInv

\* The content follows its header at once.
LEMMA SendContentTurn ==
    ASSUME TurnInv, ~Mixes, NEW s \in Sender, SendContent(s)
    PROVE  TurnInv'
<1>0. PICK f : f = <<s, item[s]>>
  OBVIOUS
<1> DEFINE t == [i \in 1..Chunks |-> Chunk(f)]
           n == Len(wire[conn])
<1>1. /\ cpc[s] = "content" /\ Write(t)
      /\ cpc' = [cpc EXCEPT ![s] = "wait"]
      /\ UNCHANGED <<item, via, semaphore, conn, msgUp, events, posted, launched, link,
                     spc, receiving, counted, arrived>>
  BY <1>0 DEF SendContent, serverVars, wallVars
<1>2. /\ TransferTypes /\ ConnectionInv /\ OneFile /\ SenderKnown
      /\ OneTurn /\ OneContent /\ WireInv /\ TailInv /\ QuietInv
  BY DEF TurnInv
<1>3. f \in File /\ f[1] = s /\ f[2] = item[s]
  <2>1. item[s] \in 1..FilesPerDrop
    BY <1>1, <1>2, CountsAssumption DEF TransferTypes
  <2> QED  BY <2>1, <1>0 DEF File
<1>4. /\ t \in Seq(Token) /\ Chunks \in Nat /\ Chunks > 0 /\ Len(t) = Chunks
      /\ \A i \in 1..Chunks : t[i] = Chunk(f)
  <2>1. Chunk(f) \in Token /\ Chunks \in Nat /\ Chunks > 0
    BY <1>3, CountsAssumption DEF Token, Chunk
  <2>2. t \in [1..Chunks -> Token]
    BY <2>1
  <2>3. t \in Seq(Token)
    BY <2>1, <2>2, IsASeq
  <2> QED  BY <2>1, <2>2, <2>3, LenProperties
<1>5. ~FileHeader(Chunk(f)) /\ Chunk(f).kind = "chunk"
  BY DEF FileHeader, Chunk
<1> HIDE DEF t
<1>6. /\ cpc'[s] = "wait" /\ \A u \in Sender : u # s => cpc'[u] = cpc[u]
      /\ Waiting' = Waiting
  BY <1>1, <1>2 DEF TransferTypes, Waiting
<1>7. /\ conn \in Connection /\ n \in Nat
      /\ wire' \in [Connection -> Seq(Token)]
      /\ \A c \in Connection : c # conn \/ link[conn] # "up" => wire'[c] = wire[c]
      /\ link[conn] = "up" =>
           /\ Len(wire'[conn]) = n + Chunks
           /\ \A i \in 1..n : wire'[conn][i] = wire[conn][i]
           /\ \A i \in 1..Chunks : wire'[conn][n + i] = Chunk(f)
           /\ \A i \in 1..Len(wire'[conn]) :
                i \in 1..n \/ (i - n \in 1..Chunks /\ wire'[conn][i] = Chunk(f))
  <2>1. conn \in Connection
    BY <1>2 DEF TransferTypes
  <2>2. /\ wire' \in [Connection -> Seq(Token)] /\ n \in Nat
        /\ \A c \in Connection : c # conn \/ link[conn] # "up" => wire'[c] = wire[c]
        /\ link[conn] = "up" =>
             /\ Len(wire'[conn]) = n + Len(t)
             /\ \A i \in 1..n : wire'[conn][i] = wire[conn][i]
             /\ \A i \in 1..Len(t) : wire'[conn][n + i] = t[i]
             /\ \A i \in 1..Len(wire'[conn]) :
                  i \in 1..n \/ (i - n \in 1..Len(t) /\ wire'[conn][i] = t[i - n])
    BY <2>1, <1>1, <1>2, <1>4, Written
  <2> HIDE DEF n
  <2> QED  BY <2>1, <2>2, <1>4
<1> HIDE DEF n
<1>8. n = Len(wire[conn])
  BY DEF n
<1>9. /\ \A i \in 1..Len(wire'[conn]) : FileHeader(wire'[conn][i]) =>
             i \in 1..n /\ wire'[conn][i] = wire[conn][i] /\ FileHeader(wire[conn][i])
      /\ \A i \in 1..n : FileHeader(wire[conn][i]) => i \in 1..Len(wire'[conn]) /\ FileHeader(wire'[conn][i])
  BY <1>4, <1>5, <1>7, <1>8
<1>10. (Pending' <=> Pending) /\ (Reporting' <=> Reporting) /\ (Reads(conn)' <=> Reads(conn))
  BY <1>1, <1>8, <1>9 DEF Pending, Reporting, Reads, FinalSlot
\* Over a connection that is up nobody else sends.
<1>11. link[conn] = "up" =>
         /\ semaphore = 0 /\ ~Reporting
         /\ \A u \in Sender : cpc[u] # "begin" /\ (cpc[u] = "content" => u = s)
         /\ Pending => via[s] = conn
  BY <1>1, <1>2 DEF OneContent
<1>12. TransferTypes' /\ ConnectionInv' /\ OneFile'
  <2>1. TransferTypes'
    BY <1>1, <1>2, <1>7 DEF TransferTypes
  <2>2. ConnectionInv'
    BY <1>1, <1>2, <1>7 DEF ConnectionInv, TransferTypes
  <2>3. OneFile'
    BY <1>1, <1>2, <1>8, <1>9, <1>10 DEF OneFile, FinalSlot
  <2> QED  BY <2>1, <2>2, <2>3
<1>13. SenderKnown'
  <2>1. \A g : Knows(g)' <=> Knows(g)
    BY <1>1, <1>6 DEF Knows
  <2> QED  BY <2>1, <1>1, <1>2, <1>8, <1>9, <1>10 DEF SenderKnown, FinalSlot
<1>14. OneTurn' /\ OneContent'
  <2>1. OneTurn'
    BY <1>1, <1>2, <1>6, <1>10 DEF OneTurn
  <2>2. OneContent'
    BY <1>1, <1>2, <1>6, <1>10 DEF OneContent
  <2> QED  BY <2>1, <2>2
<1>15. WireInv'
  <2> SUFFICES ASSUME NEW c \in Connection, link'[c] # "broken"
               PROVE  FilesFollow(c)'
    BY DEF WireInv
  <2>0. FilesFollow(c)
    BY <1>1, <1>2 DEF WireInv
  <2>1. CASE c # conn
    BY <2>0, <2>1, <1>1, <1>7, FilesElsewhere
  <2>2. CASE c = conn /\ link[conn] # "up"
    <3>1. \A i, k, g : Complete(c, i, k, g)' <=> Complete(c, i, k, g)
      BY <2>2, <1>1, <1>7 DEF Complete, Follow, Awaits
    <3> QED  BY <2>0, <2>2, <3>1, <1>1, <1>7 DEF FilesFollow
  <2>3. CASE c = conn /\ link[conn] = "up"
    <3>1. ASSUME NEW i \in 0..n, NEW k \in Nat, NEW g \in File, Complete(conn, i, k, g)
          PROVE  Complete(conn, i, k, g)'
      <4>1. CASE Follow(conn, i, k, g)
        <5>1. i + k <= n /\ \A j \in 1..k : wire[conn][i + j] = Chunk(g)
          BY <4>1, <1>8 DEF Follow
        <5>2. i + k <= n + Chunks /\ \A j \in 1..k : i + j \in 1..n
          BY <5>1, <1>4, <1>7
        <5>3. /\ i + k <= Len(wire'[conn])
              /\ \A j \in 1..k : wire'[conn][i + j] = Chunk(g)
          BY <5>1, <5>2, <2>3, <1>7
        <5>4. Chunk(g)' = Chunk(g) /\ conn' = conn
          BY <1>1 DEF Chunk
        <5> QED  BY <5>3, <5>4 DEF Follow, Complete
      <4>2. CASE i = n /\ k = Chunks /\ Awaits(conn, g)
        <5>1. g[1] \in Sender /\ g[1] = s /\ g[2] = item[s] /\ g = <<g[1], g[2]>>
          BY <4>2, <1>11, <2>3 DEF Awaits, File
        <5>2. g = f
          BY <5>1, <1>0
        <5>3. i + k <= Len(wire'[conn]) /\ \A j \in 1..k : wire'[conn][i + j] = Chunk(g)
          BY <5>2, <4>2, <2>3, <1>7, <1>4
        <5>4. Chunk(g)' = Chunk(g) /\ conn' = conn
          BY <1>1 DEF Chunk
        <5> QED  BY <5>3, <5>4 DEF Follow, Complete
      <4>3. Follow(conn, i, k, g) \/ (i = n /\ k = Chunks /\ Awaits(conn, g))
        BY <3>1, <1>8 DEF Complete
      <4> QED  BY <4>1, <4>2, <4>3
    <3>2. \A i \in 1..n : wire[conn][i].file \in File
      BY <1>2, <1>7, <1>8, FilesOf
    <3>3. spc[conn] \in {"open", "content"} => receiving[conn] \in File
      BY <1>2, <1>7 DEF TransferTypes
    <3>4. counted[conn] \in Nat
      BY <1>2, <1>7 DEF TransferTypes
    <3>5. \A i \in 1..Len(wire'[conn]) :
             FileHeader(wire'[conn][i]) => Complete(conn, i, Chunks, wire[conn][i].file)'
      <4> SUFFICES ASSUME NEW i \in 1..Len(wire'[conn]), FileHeader(wire'[conn][i])
                   PROVE  Complete(conn, i, Chunks, wire[conn][i].file)'
        OBVIOUS
      <4>1. i \in 1..n /\ wire'[conn][i] = wire[conn][i] /\ FileHeader(wire[conn][i])
        BY <1>9
      <4>2. Complete(conn, i, Chunks, wire[conn][i].file)
        BY <4>1, <2>0, <2>3, <1>8 DEF FilesFollow
      <4>3. i \in 0..n /\ wire[conn][i].file \in File
        BY <4>1, <3>2, <1>7
      <4>4. PICK g : g = wire[conn][i].file
        OBVIOUS
      <4>5. Complete(conn, i, Chunks, g)'
        BY <4>2, <4>3, <4>4, <3>1, <1>4
      <4> QED  BY <4>1, <4>4, <4>5, <1>1
    <3>6. /\ spc[conn] = "open" => Complete(conn, 0, Chunks, receiving[conn])'
          /\ spc[conn] = "content" => Complete(conn, 0, Chunks - counted[conn], receiving[conn])'
      BY <2>0, <2>3, <3>1, <3>3, <3>4, <1>1, <1>4, <1>7 DEF FilesFollow
    <3> QED  BY <2>0, <2>3, <3>5, <3>6, <1>1 DEF FilesFollow
  <2> QED  BY <2>1, <2>2, <2>3
<1>16. TailInv'
  <2> SUFFICES ASSUME link[conn] = "up"
               PROVE  TailInv'
    BY <1>1 DEF TailInv
  <2>0. FilesFollow(conn)
    BY <1>2, <1>7 DEF WireInv
  <2>1. \A i \in 1..n : FileHeader(wire[conn][i]) => i = n
    BY <1>1, <1>2, <1>8 DEF TailInv
  <2>2. Reads(conn) => n = 0
    BY <1>1, <1>2, <1>7, <1>8, EmptySeq DEF TailInv
  <2>3. spc[conn] = "content" => counted[conn] = 0
    BY SMTT(40), <2>0, <2>2, <1>2, <1>4, <1>7, <1>8 DEF FilesFollow, Complete, Follow, Reads, TransferTypes
  <2>4. \A u \in Sender : cpc'[u] # "content"
    BY <1>6, <1>11
  <2>5. \A i \in 1..Len(wire'[conn]) : FileHeader(wire'[conn][i]) => Len(wire'[conn]) <= i + Chunks
    BY <2>1, <1>4, <1>7, <1>9
  <2>6. spc[conn] = "open" => Len(wire'[conn]) <= Chunks
    BY <2>2, <1>4, <1>7 DEF Reads
  <2>7. spc[conn] = "content" => Len(wire'[conn]) <= Chunks - counted[conn]
    BY <2>2, <2>3, <1>4, <1>7 DEF Reads
  <2> QED  BY <2>4, <2>5, <2>6, <2>7, <1>1 DEF TailInv
<1>17. QuietInv'
  <2>1. link[conn] = "up" => \A u \in Sender : ~Continues(u)'
    BY <1>1, <1>6, <1>11 DEF Continues
  <2> QED  BY <2>1, <1>1, <1>10, <1>11 DEF QuietInv
<1> QED  BY <1>12, <1>13, <1>14, <1>15, <1>16, <1>17 DEF TurnInv

\* The released thread is the only one to go on.
LEMMA AcquireTurn ==
    ASSUME TurnInv, ~Mixes, NEW s \in Sender, Acquire(s)
    PROVE  TurnInv'
<1>1. /\ cpc[s] = "wait" /\ semaphore > 0
      /\ semaphore' = semaphore - 1
      /\ item' = [item EXCEPT ![s] = item[s] + 1]
      /\ cpc' = [cpc EXCEPT ![s] = IF item[s] < FilesPerDrop THEN "begin" ELSE "done"]
      /\ UNCHANGED <<via, conn, msgUp, events, posted, launched, link, wire,
                     spc, receiving, counted, arrived>>
  BY DEF Acquire, NextItem, serverVars, wallVars
<1>2. /\ TransferTypes /\ ConnectionInv /\ OneFile /\ SenderKnown
      /\ OneTurn /\ OneContent /\ WireInv /\ TailInv /\ QuietInv
  BY DEF TurnInv
<1>3. semaphore = 1 /\ ~Pending /\ ~Reporting /\ \A u \in Sender : cpc[u] # "begin"
  BY <1>1, <1>2 DEF OneTurn
<1>4. /\ \A u \in Sender : u # s => cpc'[u] = cpc[u] /\ item'[u] = item[u]
      /\ cpc'[s] \in {"begin", "done"} /\ item'[s] = item[s] + 1 /\ semaphore' = 0
  BY <1>1, <1>2, <1>3 DEF TransferTypes
<1>5. ~Pending' /\ ~Reporting' /\ (Reads(conn)' <=> Reads(conn))
  BY <1>1, <1>3 DEF Pending, Reporting, Reads, FinalSlot
<1>6. TransferTypes' /\ ConnectionInv' /\ OneFile'
  <2>1. TransferTypes'
    <3>1. /\ item' \in [Sender -> 1 .. FilesPerDrop + 1]
          /\ cpc' \in [Sender -> {"idle", "begin", "content", "wait", "done"}]
          /\ \A u \in Sender : /\ cpc'[u] # "done" => item'[u] <= FilesPerDrop
                               /\ cpc'[u] = "idle" => item'[u] = 1
      <4>1. item[s] \in 1..FilesPerDrop /\ FilesPerDrop \in Nat
        BY <1>1, <1>2, CountsAssumption DEF TransferTypes
      <4> QED  BY SMTT(40), <4>1, <1>1, <1>2 DEF TransferTypes
    <3> QED  BY SMTT(40), <3>1, <1>1, <1>2, <1>4 DEF TransferTypes
  <2>2. ConnectionInv'
    BY <1>1, <1>2 DEF ConnectionInv
  <2>3. OneFile'
    BY <1>1, <1>2, <1>5 DEF OneFile, Reads, FinalSlot
  <2> QED  BY <2>1, <2>2, <2>3
<1>7. SenderKnown'
  BY <1>1, <1>3, <1>5 DEF SenderKnown, Pending, Reporting, FinalSlot
<1>8. OneTurn' /\ OneContent'
  <2>1. OneTurn'
    BY <1>1, <1>3, <1>4, <1>5 DEF OneTurn
  <2>2. OneContent'
    BY <1>1, <1>2, <1>3, <1>4, <1>5 DEF OneContent
  <2> QED  BY <2>1, <2>2
<1>9. WireInv' /\ TailInv'
  <2>0. ~Reads(conn) /\ \A i \in 1..Len(wire[conn]) : ~FileHeader(wire[conn][i])
    BY <1>3 DEF Pending
  <2>1. WireInv'
    <3> SUFFICES ASSUME NEW c \in Connection, link'[c] # "broken"
                 PROVE  FilesFollow(c)'
      BY DEF WireInv
    <3>1. CASE c # conn
      BY <3>1, <1>1, <1>2, FilesElsewhere DEF WireInv
    <3>2. CASE c = conn
      BY <3>2, <2>0, <1>1, <1>2 DEF WireInv, FilesFollow, Reads
    <3> QED  BY <3>1, <3>2
  <2>2. TailInv'
    BY <2>0, <1>1 DEF TailInv, Reads
  <2> QED  BY <2>1, <2>2
<1>10. QuietInv'
  BY <1>1, <1>2 DEF QuietInv
<1> QED  BY <1>6, <1>7, <1>8, <1>9, <1>10 DEF TurnInv

-------------------------------------------------------------------------------
(* The client's GUI thread and its connections                               *)

\* A begin that is handled is no report.
LEMMA FileSendingBeginsTurn ==
    ASSUME TurnInv, FileSendingBegins
    PROVE  TurnInv'
<1>1. /\ events # <<>> /\ Head(events).kind = "begins"
      /\ events' = Tail(events)
      /\ UNCHANGED <<cpc, item, via, semaphore, conn, msgUp, posted, launched, link, wire,
                     spc, receiving, counted, arrived>>
  BY DEF FileSendingBegins, serverVars, wallVars
<1>2. /\ TransferTypes /\ ConnectionInv /\ OneFile /\ SenderKnown
      /\ OneTurn /\ OneContent /\ WireInv /\ TailInv /\ QuietInv
  BY DEF TurnInv
<1>3. events \in Seq(Event)
  BY <1>2 DEF TransferTypes
<1>4. /\ events' \in Seq(Event) /\ ~FinalEvent(events[1]) /\ Len(events) \in Nat /\ Len(events) >= 1
      /\ \A i \in 1..Len(events') : events'[i] = events[i + 1] /\ i + 1 \in 1..Len(events)
      /\ \A i \in 1..Len(events) : i # 1 => i - 1 \in 1..Len(events') /\ events'[i - 1] = events[i]
  BY <1>1, <1>3, TailAt DEF FinalEvent
<1>5. /\ \A i \in 1..Len(events') : FinalEvent(events'[i]) => FinalEvent(events[i + 1])
      /\ \A i \in 1..Len(events) : FinalEvent(events[i]) =>
           i - 1 \in 1..Len(events') /\ FinalEvent(events'[i - 1])
  BY <1>4
<1>6. (Pending' <=> Pending) /\ (Reporting' <=> Reporting)
  <2>1. (\E i \in 1..Len(events') : FinalEvent(events'[i])) <=> \E i \in 1..Len(events) : FinalEvent(events[i])
    BY <1>4, <1>5
  <2> QED  BY <2>1, <1>1 DEF Pending, Reporting, Reads, FinalSlot
<1>7. TransferTypes' /\ ConnectionInv' /\ OneFile'
  <2>1. TransferTypes'
    BY <1>1, <1>2, <1>4 DEF TransferTypes
  <2>2. ConnectionInv'
    BY <1>1, <1>2, <1>4, <1>5 DEF ConnectionInv
  <2>3. OneFile'
    <3>1. \A i, j \in 1..Len(events') : FinalEvent(events'[i]) /\ FinalEvent(events'[j]) => i = j
      <4> TAKE i, j \in 1..Len(events')
      <4>1. FinalEvent(events'[i]) /\ FinalEvent(events'[j]) => i + 1 = j + 1
        BY <1>2, <1>4, <1>5 DEF OneFile
      <4> QED  BY <4>1
    <3>2. \A i \in 1..Len(events'), j \in 1..Len(posted) : ~(FinalEvent(events'[i]) /\ FinalSlot(posted[j]))
      BY <1>2, <1>4, <1>5 DEF OneFile
    <3> QED  BY <3>1, <3>2, <1>1, <1>2, <1>6 DEF OneFile, Reads, FinalSlot
  <2> QED  BY <2>1, <2>2, <2>3
<1>8. SenderKnown'
  <2>1. \A g : Knows(g)' <=> Knows(g)
    BY <1>1 DEF Knows, Waiting
  <2> QED  BY <2>1, <1>1, <1>2, <1>4, <1>5 DEF SenderKnown, FinalSlot, Reads
<1>9. OneTurn' /\ OneContent' /\ QuietInv'
  BY <1>1, <1>2, <1>6 DEF OneTurn, OneContent, QuietInv, Continues, Waiting
<1>10. WireInv' /\ TailInv'
  BY <1>1, <1>2 DEF WireInv, FilesFollow, Complete, Follow, Awaits, Reads, TailInv
<1> QED  BY <1>7, <1>8, <1>9, <1>10 DEF TurnInv

\* The report that ends a file releases one thread, at most once.
LEMMA ReadReportTurn ==
    ASSUME TurnInv, ReadReport
    PROVE  TurnInv'
<1>1. /\ events # <<>> /\ Head(events).kind = "report"
      /\ events' = Tail(events)
      /\ semaphore' = IF /\ Head(events).file = fileBeingSent
                         /\ Head(events).bytes = Chunks \/ Head(events).bytes <= 0
                      THEN semaphore + 1 ELSE semaphore
      /\ UNCHANGED <<cpc, item, via, conn, msgUp, posted, launched, link, wire,
                     spc, receiving, counted, arrived>>
  BY DEF ReadReport, serverVars, wallVars
<1>2. /\ TransferTypes /\ ConnectionInv /\ OneFile /\ SenderKnown
      /\ OneTurn /\ OneContent /\ WireInv /\ TailInv /\ QuietInv
  BY DEF TurnInv
<1>3. events \in Seq(Event)
  BY <1>2 DEF TransferTypes
<1>4. /\ events' \in Seq(Event) /\ Head(events) = events[1]
      /\ Len(events) \in Nat /\ Len(events) >= 1 /\ 1 \in 1..Len(events)
      /\ \A i \in 1..Len(events') : events'[i] = events[i + 1] /\ i + 1 \in 1..Len(events)
      /\ \A i \in 1..Len(events) : i # 1 => i - 1 \in 1..Len(events') /\ events'[i - 1] = events[i]
  BY <1>1, <1>3, TailAt
<1>5. /\ \A i \in 1..Len(events') : FinalEvent(events'[i]) => FinalEvent(events[i + 1])
      /\ \A i \in 1..Len(events) : i # 1 /\ FinalEvent(events[i]) =>
           i - 1 \in 1..Len(events') /\ FinalEvent(events'[i - 1])
  BY <1>4
<1>6. (Pending' <=> Pending) /\ (Reads(conn)' <=> Reads(conn))
  BY <1>1 DEF Pending, Reads
\* The report that is read is the one there was, or it does not end a file.
<1>7. \/ /\ ~Reporting' /\ Reporting /\ ~Pending /\ semaphore = 0 /\ semaphore' \in {0, 1}
         /\ Waiting # {} /\ \A s \in Sender : cpc[s] # "begin"
      \/ semaphore' = semaphore /\ (Reporting' <=> Reporting)
  <2>1. CASE FinalEvent(events[1])
    <3>1. Reporting /\ ~Pending
      BY <2>1, <1>2, <1>4 DEF Reporting, OneFile
    <3>2. semaphore = 0 /\ \A s \in Sender : cpc[s] # "begin"
      BY <3>1, <1>2 DEF OneTurn, TransferTypes
    <3>3. events[1].file[1] \in Waiting
      BY <2>1, <1>2, <1>4 DEF SenderKnown, Knows
    <3>4. \A i \in 1..Len(events') : ~FinalEvent(events'[i])
      <4> TAKE i \in 1..Len(events')
      <4>1. FinalEvent(events'[i]) => i + 1 = 1
        BY <2>1, <1>2, <1>4, <1>5 DEF OneFile
      <4> QED  BY <4>1
    <3>5. \A j \in 1..Len(posted) : ~FinalSlot(posted[j])
      BY <2>1, <1>2, <1>4 DEF OneFile
    <3>6. ~Reporting'
      BY <3>4, <3>5, <1>1 DEF Reporting, FinalSlot
    <3> QED  BY <3>1, <3>2, <3>3, <3>6, <1>1
  <2>2. CASE ~FinalEvent(events[1])
    <3>1. semaphore' = semaphore
      BY <2>2, <1>1, <1>4 DEF FinalEvent, Final
    <3>2. (\E i \in 1..Len(events') : FinalEvent(events'[i])) <=> \E i \in 1..Len(events) : FinalEvent(events[i])
      BY <2>2, <1>4, <1>5
    <3> QED  BY <3>1, <3>2, <1>1 DEF Reporting, FinalSlot
  <2> QED  BY <2>1, <2>2
<1>8. TransferTypes' /\ ConnectionInv' /\ OneFile'
  <2>1. TransferTypes'
    BY SMTT(40), <1>1, <1>2, <1>4, <1>7 DEF TransferTypes
  <2>2. ConnectionInv'
    BY <1>1, <1>2, <1>4, <1>5 DEF ConnectionInv
  <2>3. OneFile'
    <3>1. \A i, j \in 1..Len(events') : FinalEvent(events'[i]) /\ FinalEvent(events'[j]) => i = j
      <4> TAKE i, j \in 1..Len(events')
      <4>1. FinalEvent(events'[i]) /\ FinalEvent(events'[j]) => i + 1 = j + 1
        BY <1>2, <1>4, <1>5 DEF OneFile
      <4> QED  BY <4>1
    <3>2. \A i \in 1..Len(events'), j \in 1..Len(posted) : ~(FinalEvent(events'[i]) /\ FinalSlot(posted[j]))
      BY <1>2, <1>4, <1>5 DEF OneFile
    <3>3. ~(Pending' /\ Reporting')
      BY <1>2, <1>6, <1>7 DEF OneFile
    <3> QED  BY <3>1, <3>2, <3>3, <1>1, <1>2 DEF OneFile, Reads, FinalSlot
  <2> QED  BY <2>1, <2>2, <2>3
<1>9. SenderKnown'
  <2>1. \A g : Knows(g)' <=> Knows(g)
    BY <1>1 DEF Knows, Waiting
  <2> QED  BY <2>1, <1>1, <1>2, <1>4, <1>5 DEF SenderKnown, FinalSlot, Reads
<1>10. OneTurn' /\ OneContent' /\ QuietInv'
  <2>1. OneTurn'
    BY <1>1, <1>2, <1>6, <1>7 DEF OneTurn, Waiting
  <2>2. OneContent'
    BY <1>1, <1>2, <1>6, <1>7 DEF OneContent
  <2>3. QuietInv'
    BY <1>1, <1>2, <1>7 DEF QuietInv, Continues
  <2> QED  BY <2>1, <2>2, <2>3
<1>11. WireInv' /\ TailInv'
  BY <1>1, <1>2 DEF WireInv, FilesFollow, Complete, Follow, Awaits, Reads, TailInv
<1> QED  BY <1>8, <1>9, <1>10, <1>11 DEF TurnInv

\* Nothing of the old connection is reported any more.
LEMMA DisconnectTurn ==
    ASSUME TurnInv, ~Mixes, Disconnect
    PROVE  TurnInv'
<1>1. /\ msgUp' = FALSE /\ events' = <<>>
      /\ link' = [link EXCEPT ![conn] = IF link[conn] = "up" THEN "closed" ELSE link[conn]]
      /\ \A s \in Sender : cpc[s] # "content"
      /\ UNCHANGED <<cpc, item, via, semaphore, conn, posted, launched, wire,
                     spc, receiving, counted, arrived>>
  BY DEF Disconnect, serverVars, wallVars
<1>2. /\ TransferTypes /\ ConnectionInv /\ OneFile /\ SenderKnown
      /\ OneTurn /\ OneContent /\ WireInv /\ TailInv /\ QuietInv
  BY DEF TurnInv
<1>3. /\ link'[conn] # "up" /\ (link'[conn] = "broken" <=> link[conn] = "broken")
      /\ \A c \in Connection : c # conn => link'[c] = link[c]
      /\ link' \in [Connection -> {"none", "up", "closed", "broken"}]
  BY <1>1, <1>2 DEF TransferTypes
<1>4. Len(events') = 0 /\ events' \in Seq(Event)
  BY <1>1
<1>5. (Pending' <=> Pending) /\ ~Reporting' /\ (Reads(conn)' <=> Reads(conn))
  BY <1>1, <1>4 DEF Pending, Reporting, Reads, FinalSlot
<1>6. TransferTypes' /\ ConnectionInv' /\ OneFile'
  <2>1. TransferTypes'
    BY <1>1, <1>2, <1>3, <1>4 DEF TransferTypes
  <2>2. ConnectionInv'
    BY <1>1, <1>2, <1>3, <1>4 DEF ConnectionInv, TransferTypes
  <2>3. OneFile'
    BY <1>1, <1>2, <1>4, <1>5 DEF OneFile, FinalSlot
  <2> QED  BY <2>1, <2>2, <2>3
<1>7. SenderKnown'
  <2>1. \A g : Knows(g)' <=> Knows(g)
    BY <1>1 DEF Knows, Waiting
  <2> QED  BY <2>1, <1>1, <1>2, <1>4 DEF SenderKnown, FinalSlot, Reads
<1>8. OneTurn' /\ OneContent' /\ QuietInv' /\ TailInv'
  BY <1>1, <1>2, <1>3, <1>5 DEF OneTurn, OneContent, QuietInv, TailInv, Waiting
<1>9. WireInv'
  <2>1. \A c, i, n, f : ~Awaits(c, f)'
    BY <1>1, <1>3 DEF Awaits
  <2>2. \A c \in Connection : \A i, n : \A f \in File : Complete(c, i, n, f) => Complete(c, i, n, f)'
    <3>1. \A c : \A f \in File : ~Awaits(c, f)
      BY <1>1 DEF Awaits, File
    <3>2. \A c, i, n, f : Follow(c, i, n, f)' <=> Follow(c, i, n, f)
      BY <1>1 DEF Follow, Chunk
    <3> QED  BY <3>1, <3>2 DEF Complete
  <2>3. /\ \A c \in Connection : \A i \in 1..Len(wire[c]) : wire[c][i].file \in File
        /\ \A c \in Connection : spc[c] \in {"open", "content"} => receiving[c] \in File
    BY <1>2, FilesOf
  <2> SUFFICES ASSUME NEW c \in Connection, link'[c] # "broken"
               PROVE  FilesFollow(c)'
    BY DEF WireInv
  <2>4. FilesFollow(c)
    BY <1>1, <1>2, <1>3 DEF WireInv
  <2> QED  BY <2>2, <2>3, <2>4, <1>1 DEF FilesFollow
<1> QED  BY <1>6, <1>7, <1>8, <1>9 DEF TurnInv

\* A new connection starts with an empty wire.
LEMMA ConnectTurn ==
    ASSUME TurnInv, Connect
    PROVE  TurnInv'
<1>1. /\ ~msgUp /\ conn < MaxConnections /\ conn' = conn + 1 /\ msgUp' = TRUE
      /\ link' = [link EXCEPT ![conn'] = "up"]
      /\ spc' = [spc EXCEPT ![conn'] = "accept"]
      /\ UNCHANGED <<cpc, item, via, semaphore, events, posted, launched, wire,
                     receiving, counted, arrived>>
  BY DEF Connect, wallVars
<1>2. /\ TransferTypes /\ ConnectionInv /\ OneFile /\ SenderKnown
      /\ OneTurn /\ OneContent /\ WireInv /\ TailInv /\ QuietInv
  BY DEF TurnInv
<1>3. /\ conn \in Connection /\ conn' \in Connection /\ conn' > conn /\ conn' # conn
      /\ conn \in Nat
      /\ \A c \in Connection : c > conn' \/ c = conn' => c > conn
      /\ \A c \in Connection : c # conn' => link'[c] = link[c] /\ spc'[c] = spc[c]
      /\ link'[conn'] = "up" /\ spc'[conn'] = "accept" /\ link[conn'] = "none"
      /\ wire'[conn'] = <<>> /\ Len(wire'[conn']) = 0
  <2>1. conn \in Connection /\ conn' \in Connection
    BY <1>1, <1>2, CountsAssumption DEF TransferTypes, Connection
  <2>2. /\ conn' > conn /\ conn' # conn /\ conn \in Nat
        /\ \A c \in Connection : c > conn' \/ c = conn' => c > conn
    BY <2>1, <1>1 DEF Connection
  <2>3. /\ \A c \in Connection : c # conn' => link'[c] = link[c] /\ spc'[c] = spc[c]
        /\ link'[conn'] = "up" /\ spc'[conn'] = "accept"
    BY <2>1, <1>1, <1>2 DEF TransferTypes
  <2>4. link[conn'] = "none" /\ wire'[conn'] = <<>> /\ Len(wire'[conn']) = 0
    BY <2>1, <2>2, <1>1, <1>2 DEF ConnectionInv
  <2> QED  BY <2>1, <2>2, <2>3, <2>4
<1>4. link[conn] # "up" /\ \A c \in Connection : link[c] # "up"
  BY <1>1, <1>2, <1>3 DEF ConnectionInv
<1>5. /\ \A i \in 1..Len(events) : ~FinalEvent(events[i])
      /\ \A i \in 1..Len(posted') : ~FinalSlot(posted[i])'
  <2>1. \A i \in 1..Len(posted) : posted[i].conn # conn'
    <3> TAKE i \in 1..Len(posted)
    <3>1. posted[i].conn <= conn
      BY <1>2 DEF ConnectionInv
    <3> QED  BY <3>1, <1>1, <1>3
  <2> QED  BY <2>1, <1>1, <1>2 DEF ConnectionInv, FinalSlot
<1>6. ~Pending' /\ ~Reporting' /\ ~Reads(conn)'
  BY <1>1, <1>3, <1>5 DEF Pending, Reporting, Reads
<1>7. TransferTypes' /\ ConnectionInv' /\ OneFile'
  <2>1. TransferTypes'
    <3>1. /\ link' \in [Connection -> {"none", "up", "closed", "broken"}]
          /\ spc' \in [Connection -> {"none", "accept", "header", "open", "content", "store",
                                      "finished", "deleted", "garbled"}]
      BY <1>1, <1>2, <1>3 DEF TransferTypes
    <3>2. \A c \in Connection : spc'[c] \in {"open", "content", "store"} => spc'[c] = spc[c]
      BY <1>3
    <3> QED  BY <3>1, <3>2, <1>1, <1>2, <1>3 DEF TransferTypes
  <2>2. ConnectionInv'
    <3>1. \A c \in Connection : c # conn' => link'[c] # "up"
      BY <1>3, <1>4
    <3>2. \A c \in Connection : c > conn' => link'[c] = "none" /\ wire'[c] = <<>> /\ spc'[c] = "none"
      <4> SUFFICES ASSUME NEW c \in Connection, c > conn'
                   PROVE  link'[c] = "none" /\ wire'[c] = <<>> /\ spc'[c] = "none"
        OBVIOUS
      <4>1. c > conn /\ c # conn'
        BY <1>1, <1>3 DEF Connection
      <4> QED  BY <4>1, <1>1, <1>2, <1>3 DEF ConnectionInv
    <3>3. \A i \in 1..Len(posted') : posted'[i].conn <= conn'
      <4> SUFFICES ASSUME NEW i \in 1..Len(posted)
                   PROVE  posted[i].conn <= conn'
        BY <1>1
      <4>1. posted[i].conn <= conn
        BY <1>2 DEF ConnectionInv
      <4>2. posted[i].conn \in Int
        <5>1. posted[i] \in Slot
          BY <1>2 DEF TransferTypes
        <5> QED  BY <5>1 DEF Slot, Connection
      <4> QED  BY <4>1, <4>2, <1>1, <1>3
    <3> QED  BY <3>1, <3>2, <3>3, <1>1 DEF ConnectionInv
  <2>3. OneFile'
    BY <1>1, <1>3, <1>5, <1>6 DEF OneFile
  <2> QED  BY <2>1, <2>2, <2>3
<1>8. SenderKnown'
  BY <1>1, <1>3, <1>5, <1>6 DEF SenderKnown
<1>9. OneTurn' /\ OneContent' /\ TailInv' /\ QuietInv'
  <2>1. OneTurn'
    BY <1>1, <1>2, <1>6 DEF OneTurn, Waiting
  <2>2. OneContent'
    BY <1>1, <1>2, <1>6 DEF OneContent
  <2>3. TailInv' /\ QuietInv'
    BY <1>3, <1>6 DEF TailInv, QuietInv, Reads
  <2> QED  BY <2>1, <2>2, <2>3
<1>10. WireInv'
  <2> SUFFICES ASSUME NEW c \in Connection, link'[c] # "broken"
               PROVE  FilesFollow(c)'
    BY DEF WireInv
  <2>1. CASE c = conn'
    BY <2>1, <1>3 DEF FilesFollow
  <2>2. CASE c # conn'
    <3>1. FilesFollow(c) /\ link[c] # "up" /\ link'[c] # "up"
      BY <2>2, <1>2, <1>3, <1>4 DEF WireInv
    <3>2. \A i, n, f : Complete(c, i, n, f)' <=> Complete(c, i, n, f)
      BY <3>1, <1>1 DEF Complete, Follow, Awaits, Chunk
    <3> QED  BY <3>1, <3>2, <2>2, <1>1, <1>3 DEF FilesFollow
  <2> QED  BY <2>1, <2>2
<1> QED  BY <1>7, <1>8, <1>9, <1>10 DEF TurnInv

\* What is left on the wire of a connection that breaks.
LEMMA WireBroken ==
    ASSUME TransferTypes, Break
    PROVE  /\ wire' \in [Connection -> Seq(Token)]
           /\ \A c \in Connection : c # conn => wire'[c] = wire[c]
           /\ \A i \in 1..Len(wire'[conn]) :
                IsHeader(wire'[conn][i]) => i \in 1..Len(wire[conn]) /\ wire'[conn][i] = wire[conn][i]
<1> DEFINE w == wire[conn]
<1>0. conn \in Connection /\ w \in Seq(Token) /\ Len(w) \in Nat /\ wire \in [Connection -> Seq(Token)]
  BY LenProperties DEF TransferTypes
<1>1. PICK n \in 0..Len(w) :
         \/ wire' = [wire EXCEPT ![conn] = SubSeq(w, 1, n)]
         \/ /\ n < Len(w)
            /\ wire' = [wire EXCEPT ![conn] =
                           Append(SubSeq(w, 1, n), [kind |-> "part", file |-> w[n + 1].file])]
  BY Zenon DEF Break
<1>2. PICK r : r = SubSeq(w, 1, n)
  OBVIOUS
<1>3. \A i \in 1..n : w[i] \in Token
  BY <1>0, <1>1, ElementOfSeq
<1>4. r \in Seq(Token) /\ Len(r) = n /\ \A i \in 1..n : r[i] = w[i]
  <2>1. /\ SubSeq(w, 1, n) \in Seq(Token) /\ Len(SubSeq(w, 1, n)) = IF 1 <= n THEN n - 1 + 1 ELSE 0
        /\ \A i \in 1 .. n - 1 + 1 : SubSeq(w, 1, n)[i] = w[1 + i - 1]
    <3>1. n \in Int /\ 1 \in Int
      BY <1>0, <1>1
    <3> QED  BY <3>1, <1>3, SubSeqProperties
  <2>2. n \in Nat /\ n - 1 + 1 = n /\ \A i \in 1..n : 1 + i - 1 = i
    BY <1>0, <1>1
  <2> QED  BY <2>1, <2>2, <1>2
<1>5. PICK p : p = [kind |-> "part", file |-> w[n + 1].file]
  OBVIOUS
<1>6. CASE wire' = [wire EXCEPT ![conn] = r]
  <2>1. wire'[conn] = r /\ wire' \in [Connection -> Seq(Token)] /\ \A c \in Connection : c # conn => wire'[c] = wire[c]
    BY <1>4, <1>6, <1>0
  <2> QED  BY <2>1, <1>1, <1>4, <1>0
<1>7. CASE n < Len(w) /\ wire' = [wire EXCEPT ![conn] = Append(r, p)]
  <2>1. w[n + 1] \in Token
    <3>1. n + 1 \in 1..Len(w)
      BY <1>1, <1>7, <1>0
    <3> QED  BY <3>1, <1>0, ElementOfSeq
  <2>2. p \in Token /\ ~IsHeader(p)
    BY <1>5, <2>1 DEF Token, IsHeader
  <2>3. /\ Append(r, p) \in Seq(Token) /\ Len(Append(r, p)) = n + 1
        /\ \A i \in 1..n : Append(r, p)[i] = r[i]
        /\ Append(r, p)[n + 1] = p
    BY <1>4, <2>2, AppendAt
  <2>4. /\ wire'[conn] = Append(r, p) /\ wire' \in [Connection -> Seq(Token)]
        /\ \A c \in Connection : c # conn => wire'[c] = wire[c]
    BY <1>7, <2>3, <1>0
  <2>5. \A i \in 1..n + 1 : i \in 1..n \/ i = n + 1
    BY <1>1, <1>0
  <2>6. \A i \in 1..n : i \in 1..Len(w)
    BY <1>1, <1>0
  <2> QED  BY <2>2, <2>3, <2>4, <2>5, <2>6, <1>4
<1> QED  BY <1>1, <1>2, <1>5, <1>6, <1>7

\* What is left on the wire of a broken connection is a part of what was there.
LEMMA BreakTurn ==
    ASSUME TurnInv, Break
    PROVE  TurnInv'
<1> DEFINE w == wire[conn]
<1>1. /\ link[conn] = "up" /\ link' = [link EXCEPT ![conn] = "broken"]
      /\ UNCHANGED <<cpc, item, via, semaphore, conn, msgUp, events, posted, launched,
                     spc, receiving, counted, arrived>>
  BY Zenon DEF Break, clientVars, serverVars, wallVars
<1>2. /\ TransferTypes /\ ConnectionInv /\ OneFile /\ SenderKnown
      /\ OneTurn /\ OneContent /\ WireInv /\ TailInv /\ QuietInv
  BY DEF TurnInv
<1>3. conn \in Connection /\ w \in Seq(Token) /\ Len(w) \in Nat /\ wire \in [Connection -> Seq(Token)]
  BY <1>2, LenProperties DEF TransferTypes
<1>4. /\ wire' \in [Connection -> Seq(Token)]
      /\ \A c \in Connection : c # conn => wire'[c] = wire[c]
      /\ \A i \in 1..Len(wire'[conn]) : FileHeader(wire'[conn][i]) => i \in 1..Len(w) /\ wire'[conn][i] = w[i]
  BY <1>2, WireBroken DEF FileHeader, IsHeader
<1>5. /\ link'[conn] = "broken" /\ \A c \in Connection : c # conn => link'[c] = link[c]
      /\ link' \in [Connection -> {"none", "up", "closed", "broken"}]
  BY <1>1, <1>2 DEF TransferTypes
<1>6. /\ Reads(conn)' <=> Reads(conn)
      /\ Pending' => Pending
      /\ Reporting' <=> Reporting
  BY <1>1, <1>4 DEF Pending, Reporting, Reads, FinalSlot
<1>7. TransferTypes' /\ ConnectionInv' /\ OneFile'
  <2>1. TransferTypes'
    BY <1>1, <1>2, <1>4, <1>5 DEF TransferTypes
  <2>2. ConnectionInv'
    BY <1>1, <1>2, <1>3, <1>4, <1>5 DEF ConnectionInv
  <2>3. OneFile'
    BY <1>1, <1>2, <1>4, <1>6 DEF OneFile, FinalSlot
  <2> QED  BY <2>1, <2>2, <2>3
<1>8. SenderKnown'
  <2>1. \A g : Knows(g)' <=> Knows(g)
    BY <1>1 DEF Knows, Waiting
  <2> QED  BY <2>1, <1>1, <1>2, <1>4, <1>6 DEF SenderKnown, FinalSlot
<1>9. OneTurn' /\ OneContent' /\ QuietInv' /\ TailInv'
  BY <1>1, <1>2, <1>5, <1>6 DEF OneTurn, OneContent, QuietInv, TailInv, Waiting, ConnectionInv
<1>10. WireInv'
  BY <1>1, <1>2, <1>4, <1>5, FilesElsewhere DEF WireInv
<1> QED  BY <1>7, <1>8, <1>9, <1>10 DEF TurnInv

-------------------------------------------------------------------------------
(* The wall                                                                  *)

\* What TurnInv says of the slots.
SlotInv == /\ posted \in Seq(Slot)
           /\ \A i \in 1..Len(posted) : posted[i].conn <= conn
           /\ \A i, j \in 1..Len(posted) : FinalSlot(posted[i]) /\ FinalSlot(posted[j]) => i = j
           /\ \A i \in 1..Len(events), j \in 1..Len(posted) : ~(FinalEvent(events[i]) /\ FinalSlot(posted[j]))
           /\ \A i \in 1..Len(posted) : FinalSlot(posted[i]) => Knows(posted[i].file)

\* Slots are posted that report no end of a file of this connection.
LEMMA SlotsGained ==
    ASSUME TurnInv, UNCHANGED <<cpc, item, via, conn, msgUp, events>>,
           NEW t \in Seq(Slot), posted' = posted \o t,
           \A i \in 1..Len(t) : ~FinalSlot(t[i]) /\ t[i].conn <= conn
    PROVE  SlotInv' /\ (Reporting' <=> Reporting)
<1>1. /\ posted \in Seq(Slot) /\ OneFile /\ SenderKnown
      /\ \A i \in 1..Len(posted) : posted[i].conn <= conn
  BY DEF TurnInv, TransferTypes, ConnectionInv
<1>2. /\ posted' \in Seq(Slot) /\ Len(posted) \in Nat /\ Len(t) \in Nat
      /\ Len(posted') = Len(posted) + Len(t)
      /\ \A i \in 1..Len(posted) : posted'[i] = posted[i]
      /\ \A i \in 1..Len(posted') : \/ i \in 1..Len(posted)
                                    \/ i - Len(posted) \in 1..Len(t) /\ posted'[i] = t[i - Len(posted)]
  BY <1>1, JoinAt
<1>3. \A p : FinalSlot(p)' <=> FinalSlot(p)
  BY DEF FinalSlot
<1>4. \A f : Knows(f)' <=> Knows(f)
  BY DEF Knows, Waiting
<1>5. \A i \in 1..Len(posted') : FinalSlot(posted'[i]) => i \in 1..Len(posted) /\ posted'[i] = posted[i]
  BY <1>2
<1>6. \A i \in 1..Len(posted) : i \in 1..Len(posted') /\ posted'[i] = posted[i]
  BY <1>2
<1>7. \A i \in 1..Len(posted') : posted'[i].conn <= conn'
  BY <1>1, <1>2
<1>8. /\ \A i, j \in 1..Len(posted') : FinalSlot(posted'[i]) /\ FinalSlot(posted'[j]) => i = j
      /\ \A i \in 1..Len(events), j \in 1..Len(posted') : ~(FinalEvent(events[i]) /\ FinalSlot(posted'[j]))
  BY <1>1, <1>5 DEF OneFile
<1>9. \A i \in 1..Len(posted') : FinalSlot(posted'[i]) => Knows(posted'[i].file)
  BY <1>1, <1>5 DEF SenderKnown
<1>10. SlotInv'
  BY <1>2, <1>3, <1>4, <1>7, <1>8, <1>9 DEF SlotInv
<1>11. (\E i \in 1..Len(posted') : FinalSlot(posted'[i])) <=> \E i \in 1..Len(posted) : FinalSlot(posted[i])
  BY <1>5, <1>6
<1> QED  BY <1>3, <1>10, <1>11 DEF Reporting

\* One slot is posted, and it reports the end of the file that was being read.
LEMMA EndPosted ==
    ASSUME TurnInv, UNCHANGED <<cpc, item, via, conn, msgUp, events>>,
           NEW e \in Slot, posted' = Append(posted, e), e.conn = conn, Reads(conn), Knows(e.file)
    PROVE  SlotInv'
<1>1. /\ posted \in Seq(Slot) /\ OneFile /\ SenderKnown
      /\ \A i \in 1..Len(posted) : posted[i].conn <= conn
      /\ conn \in Connection
  BY DEF TurnInv, TransferTypes, ConnectionInv
<1>2. /\ posted' \in Seq(Slot) /\ Len(posted) \in Nat
      /\ \A i \in 1..Len(posted) : posted'[i] = posted[i]
      /\ posted'[Len(posted) + 1] = e
      /\ \A i \in 1..Len(posted') : i \in 1..Len(posted) \/ i = Len(posted) + 1
  BY <1>1, AppendAt
<1>3. \A p : FinalSlot(p)' <=> FinalSlot(p)
  BY DEF FinalSlot
<1>4. \A f : Knows(f)' <=> Knows(f)
  BY DEF Knows, Waiting
<1>5. /\ \A i \in 1..Len(events) : ~FinalEvent(events[i])
      /\ \A i \in 1..Len(posted) : ~FinalSlot(posted[i])
  BY <1>1 DEF OneFile, Pending, Reporting
<1>6. \A i \in 1..Len(posted') : FinalSlot(posted'[i]) => i = Len(posted) + 1
  BY <1>2, <1>5
<1>7. \A i \in 1..Len(posted') : posted'[i].conn <= conn'
  <2>1. conn <= conn
    BY <1>1 DEF Connection
  <2> QED  BY <2>1, <1>1, <1>2
<1>8. /\ \A i, j \in 1..Len(posted') : FinalSlot(posted'[i]) /\ FinalSlot(posted'[j]) => i = j
      /\ \A i \in 1..Len(posted') : FinalSlot(posted'[i]) => Knows(posted'[i].file)
  BY <1>2, <1>6
<1> QED  BY <1>2, <1>3, <1>4, <1>5, <1>7, <1>8 DEF SlotInv

\* The GUI thread runs a slot that reports no end of a file of this connection.
LEMMA SlotsTaken ==
    ASSUME TurnInv, UNCHANGED <<cpc, item, via, conn, msgUp, events>>,
           posted # <<>>, posted' = Tail(posted), ~FinalSlot(Head(posted))
    PROVE  SlotInv' /\ (Reporting' <=> Reporting)
<1>1. /\ posted \in Seq(Slot) /\ OneFile /\ SenderKnown
      /\ \A i \in 1..Len(posted) : posted[i].conn <= conn
  BY DEF TurnInv, TransferTypes, ConnectionInv
<1>2. /\ posted' \in Seq(Slot) /\ Len(posted) \in Nat /\ Head(posted) = posted[1]
      /\ \A i \in 1..Len(posted') : posted'[i] = posted[i + 1] /\ i + 1 \in 1..Len(posted)
      /\ \A i \in 1..Len(posted) : i # 1 => i - 1 \in 1..Len(posted') /\ posted'[i - 1] = posted[i]
  BY <1>1, TailAt
<1>3. \A p : FinalSlot(p)' <=> FinalSlot(p)
  BY DEF FinalSlot
<1>4. \A f : Knows(f)' <=> Knows(f)
  BY DEF Knows, Waiting
<1>5. \A i \in 1..Len(posted') : posted'[i].conn <= conn'
  BY <1>1, <1>2
<1>6. \A i, j \in 1..Len(posted') : FinalSlot(posted'[i]) /\ FinalSlot(posted'[j]) => i = j
  <2> TAKE i, j \in 1..Len(posted')
  <2>1. FinalSlot(posted'[i]) /\ FinalSlot(posted'[j]) => i + 1 = j + 1
    BY <1>1, <1>2 DEF OneFile
  <2> QED  BY <2>1
<1>7. /\ \A i \in 1..Len(events), j \in 1..Len(posted') : ~(FinalEvent(events[i]) /\ FinalSlot(posted'[j]))
      /\ \A i \in 1..Len(posted') : FinalSlot(posted'[i]) => Knows(posted'[i].file)
  BY <1>1, <1>2 DEF OneFile, SenderKnown
<1>8. SlotInv'
  BY <1>2, <1>3, <1>4, <1>5, <1>6, <1>7 DEF SlotInv
<1>9. (\E i \in 1..Len(posted') : FinalSlot(posted'[i])) <=> \E i \in 1..Len(posted) : FinalSlot(posted[i])
  BY <1>2
<1> QED  BY <1>3, <1>8, <1>9 DEF Reporting

States == {"none", "accept", "header", "open", "content", "store", "finished", "deleted", "garbled"}

\* A step after which no thread reads that did not read before, with nothing new on the wire.
LEMMA IdleTurn ==
    ASSUME TurnInv, SlotInv', Reporting' <=> Reporting,
           UNCHANGED <<cpc, item, via, semaphore, conn, msgUp, events, link, wire, receiving>>,
           launched' \in Seq(Slot) /\ \A i \in 1..Len(launched') : launched'[i].kind = "launch",
           spc' \in [Connection -> States],
           counted' \in [Connection -> Nat] /\ arrived' \in [Connection -> Nat],
           \A c \in Connection :
               \/ spc'[c] = spc[c] /\ counted'[c] = counted[c] /\ arrived'[c] = arrived[c]
               \/ spc[c] # "none" /\ spc'[c] \notin {"none", "open", "content", "store"}
    PROVE  TurnInv'
<1>1. /\ TransferTypes /\ ConnectionInv /\ OneFile /\ SenderKnown
      /\ OneTurn /\ OneContent /\ WireInv /\ TailInv /\ QuietInv
  BY DEF TurnInv
<1>2. conn \in Connection
  BY <1>1 DEF TransferTypes
<1>3. (Reads(conn)' => Reads(conn)) /\ (Pending' => Pending)
  BY <1>2 DEF Reads, Pending
<1>4. TransferTypes' /\ ConnectionInv' /\ OneFile'
  <2>1. TransferTypes'
    <3>1. \A c \in Connection : spc'[c] \in {"open", "content", "store"} => receiving'[c] \in File \ Urls
      BY <1>1 DEF TransferTypes
    <3> QED  BY <3>1, <1>1 DEF TransferTypes, States, SlotInv
  <2>2. ConnectionInv'
    <3>1. \A c \in Connection : c > conn => spc'[c] = "none"
      BY <1>1 DEF ConnectionInv
    <3> QED  BY <3>1, <1>1 DEF ConnectionInv, SlotInv
  <2>3. OneFile'
    <3>1. ~(Pending' /\ Reporting')
      BY <1>1, <1>3 DEF OneFile
    <3> QED  BY <3>1, <1>1, <1>3 DEF OneFile, SlotInv
  <2> QED  BY <2>1, <2>2, <2>3
<1>5. SenderKnown'
  <2>1. \A g : Knows(g)' <=> Knows(g)
    BY DEF Knows, Waiting
  <2> QED  BY <2>1, <1>1, <1>3 DEF SenderKnown, SlotInv
<1>6. OneTurn' /\ OneContent' /\ QuietInv'
  BY <1>1, <1>3 DEF OneTurn, OneContent, QuietInv, Waiting, Continues
<1>7. WireInv'
  <2> SUFFICES ASSUME NEW c \in Connection, link'[c] # "broken"
               PROVE  FilesFollow(c)'
    BY DEF WireInv
  <2>1. FilesFollow(c)
    BY <1>1 DEF WireInv
  <2>2. \A i, n, f : Complete(c, i, n, f)' <=> Complete(c, i, n, f)
    BY DEF Complete, Follow, Awaits, Chunk
  <2>3. CASE spc'[c] = spc[c] /\ counted'[c] = counted[c] /\ arrived'[c] = arrived[c]
    BY <2>1, <2>2, <2>3 DEF FilesFollow
  <2>4. CASE spc'[c] \notin {"none", "open", "content", "store"}
    BY <2>1, <2>2, <2>4 DEF FilesFollow
  <2> QED  BY <2>3, <2>4
<1>8. TailInv'
  <2>1. CASE spc'[conn] = spc[conn] /\ counted'[conn] = counted[conn]
    BY <2>1, <1>1 DEF TailInv, Reads
  <2>2. CASE spc'[conn] \notin {"none", "open", "content", "store"}
    BY <2>2, <1>1 DEF TailInv, Reads
  <2> QED  BY <2>1, <2>2, <1>2
<1> QED  BY <1>4, <1>5, <1>6, <1>7, <1>8 DEF TurnInv

\* Nothing of this concerns TurnInv.
LEMMA StillTurn ==
    ASSUME TurnInv,
           UNCHANGED <<cpc, item, via, semaphore, conn, msgUp, events, posted, launched, link, wire,
                       spc, receiving, counted, arrived>>
    PROVE  TurnInv'
<1>1. /\ TransferTypes /\ ConnectionInv /\ OneFile /\ SenderKnown
      /\ OneTurn /\ OneContent /\ WireInv /\ TailInv /\ QuietInv
  BY DEF TurnInv
<1>2. (Pending' <=> Pending) /\ (Reporting' <=> Reporting)
  BY DEF Pending, Reporting, Reads, FinalSlot
<1>3. TransferTypes' /\ ConnectionInv'
  BY <1>1 DEF TransferTypes, ConnectionInv
<1>4. OneFile' /\ SenderKnown'
  BY <1>1, <1>2 DEF OneFile, SenderKnown, Knows, Waiting, Reads, FinalSlot
<1>5. OneTurn' /\ OneContent' /\ QuietInv'
  BY <1>1, <1>2 DEF OneTurn, OneContent, QuietInv, Waiting, Continues
<1>6. WireInv' /\ TailInv'
  BY <1>1 DEF WireInv, FilesFollow, Complete, Follow, Awaits, Chunk, TailInv, Reads
<1> QED  BY <1>3, <1>4, <1>5, <1>6 DEF TurnInv

\* The types that the steps of the wall need.
LEMMA Typed ==
    ASSUME TurnInv
    PROVE  /\ spc \in [Connection -> States] /\ conn \in Connection
           /\ counted \in [Connection -> Nat] /\ arrived \in [Connection -> Nat]
           /\ launched \in Seq(Slot) /\ \A i \in 1..Len(launched) : launched[i].kind = "launch"
           /\ posted \in Seq(Slot) /\ wire \in [Connection -> Seq(Token)]
           /\ \A c \in Connection : spc[c] # "none" => c <= conn
  BY DEF TurnInv, TransferTypes, ConnectionInv, States, Connection

\* What a stored file makes the thread post: nothing, or the file, whole unless its
\* connection broke or the disk did not take it.
LEMMA Stored ==
    ASSUME NEW c, Store(c)
    PROVE  /\ unstored \subseteq unstored'
           /\ \E w \in BOOLEAN :
                /\ w \/ arrived[c] # Chunks \/ receiving[c] \in unstored'
                /\ \/ posted' = posted
                   \/ posted' = posted \o <<Launch(c, receiving[c], w), Add(c, receiving[c])>>
<1>1. CASE FileReceived(c, arrived[c] = Chunks) /\ UNCHANGED unstored
  <2>1. PICK w \in BOOLEAN : w = (arrived[c] = Chunks)
    OBVIOUS
  <2> QED  BY <1>1, <2>1 DEF FileReceived
<1>2. CASE unstored' = unstored \cup {receiving[c]} /\ (FileReceived(c, FALSE) \/ UNCHANGED posted)
  BY <1>2 DEF FileReceived
<1> QED  BY <1>1, <1>2 DEF Store

\* The steps of a thread of the wall that neither begin nor end a file.
LEMMA SimpleServerTurn ==
    ASSUME TurnInv, NEW c \in Connection,
           RecvGarbage(c) \/ Disconnected(c) \/ Store(c) \/ IncomingConnection(c)
    PROVE  TurnInv'
<1>1. /\ spc[c] # "none"
      /\ \E x \in {"garbled", "finished", "header"} : spc' = [spc EXCEPT ![c] = x]
      /\ UNCHANGED <<cpc, item, via, semaphore, conn, msgUp, events, launched, link, wire,
                     receiving, counted, arrived>>
  BY DEF RecvGarbage, Disconnected, Store, IncomingConnection, clientVars, wallVars
<1>2. /\ spc \in [Connection -> States] /\ conn \in Connection
      /\ counted \in [Connection -> Nat] /\ arrived \in [Connection -> Nat]
      /\ launched \in Seq(Slot) /\ \A i \in 1..Len(launched) : launched[i].kind = "launch"
      /\ posted \in Seq(Slot) /\ c <= conn
  BY <1>1, Typed
<1>3. SlotInv' /\ (Reporting' <=> Reporting)
  <2> DEFINE Gained(t) == /\ t \in Seq(Slot) /\ posted' = posted \o t
                          /\ \A i \in 1..Len(t) : ~FinalSlot(t[i]) /\ t[i].conn <= conn
  <2>1. CASE posted' = posted
    <3>1. /\ <<>> \in Seq(Slot) /\ posted' = posted \o <<>> /\ Len(<<>>) = 0
      BY <2>1, <1>2, ConcatEmptySeq, EmptySeq
    <3>2. Gained(<<>>)
      BY <3>1
    <3> HIDE DEF Gained
    <3> QED  BY <3>2, <1>1, SlotsGained DEF Gained
  <2>2. CASE Disconnected(c)
    <3>1. Finished(c) \in Slot /\ ~FinalSlot(Finished(c)) /\ Finished(c).conn = c
      BY DEF Slot, Finished, FinalSlot
    <3>2. posted' = posted \o <<Finished(c)>>
      BY <2>2, <3>1, <1>2, AppendIsConcat DEF Disconnected
    <3>3. Gained(<<Finished(c)>>)
      BY <3>1, <3>2, <1>2
    <3> HIDE DEF Gained
    <3> QED  BY <3>3, <1>1, SlotsGained DEF Gained
  <2>3. CASE Store(c)
    <3>0. CASE posted' = posted
      BY <2>1, <3>0
    <3>a. PICK w \in BOOLEAN : \/ posted' = posted
                              \/ posted' = posted \o <<Launch(c, receiving[c], w), Add(c, receiving[c])>>
      BY <2>3, Stored
    <3>1. PICK a, b : a = Launch(c, receiving[c], w) /\ b = Add(c, receiving[c])
                      /\ (posted' = posted \/ posted' = posted \o <<a, b>>)
      BY <3>a
    <3> SUFFICES ASSUME posted' = posted \o <<a, b>> PROVE SlotInv' /\ (Reporting' <=> Reporting)
      BY <3>0, <3>1
    <3>2. posted' = posted \o <<a, b>> /\ receiving[c] \in File
      BY <2>3 DEF Store, TurnInv, TransferTypes
    <3>3. a \in Slot /\ b \in Slot /\ ~FinalSlot(a) /\ ~FinalSlot(b) /\ a.conn = c /\ b.conn = c
      BY <3>1, <3>2 DEF Slot, Launch, Add, FinalSlot
    <3>4. Gained(<<a, b>>)
      BY <3>2, <3>3, <1>2
    <3> HIDE DEF Gained
    <3> QED  BY <3>4, <1>1, SlotsGained DEF Gained
  <2> QED  BY <2>1, <2>2, <2>3 DEF RecvGarbage, IncomingConnection
<1>4. PICK x \in {"garbled", "finished", "header"} : spc' = [spc EXCEPT ![c] = x]
  BY <1>1
<1>5. /\ spc' \in [Connection -> States]
      /\ \A d \in Connection : d # c => spc'[d] = spc[d]
      /\ spc'[c] \notin {"none", "open", "content", "store"}
  BY <1>2, <1>4 DEF States
<1> QED  BY <1>1, <1>2, <1>3, <1>5, IdleTurn

\* The slots that report nothing.
LEMMA SimpleGuiTurn ==
    ASSUME TurnInv, LaunchReceived \/ AddReceived \/ ThreadFinished
    PROVE  TurnInv'
<1>1. /\ posted # <<>> /\ Head(posted).kind # "progress" /\ posted' = Tail(posted)
      /\ UNCHANGED <<cpc, item, via, semaphore, conn, msgUp, events, link, wire,
                     receiving, counted, arrived>>
  BY Zenon DEF LaunchReceived, AddReceived, ThreadFinished, Runs, clientVars, serverVars
<1>2. /\ spc \in [Connection -> States] /\ conn \in Connection
      /\ counted \in [Connection -> Nat] /\ arrived \in [Connection -> Nat]
      /\ launched \in Seq(Slot) /\ \A i \in 1..Len(launched) : launched[i].kind = "launch"
      /\ posted \in Seq(Slot)
  BY Typed
<1>3. SlotInv' /\ (Reporting' <=> Reporting)
  BY <1>1, SlotsTaken DEF FinalSlot
<1>4. launched' \in Seq(Slot) /\ \A i \in 1..Len(launched') : launched'[i].kind = "launch"
  <2>1. CASE launched' = launched
    BY <2>1, <1>2
  <2>2. CASE LaunchReceived
    <3>1. Head(posted) \in Slot /\ Head(posted).kind = "launch" /\ launched' = Append(launched, Head(posted))
      BY <2>2, <1>1, <1>2, TailAt DEF LaunchReceived, Runs
    <3>2. PICK e \in Slot : e = Head(posted)
      BY <3>1
    <3>3. /\ Append(launched, e) \in Seq(Slot) /\ Len(launched) \in Nat
          /\ \A i \in 1..Len(launched) : Append(launched, e)[i] = launched[i]
          /\ Append(launched, e)[Len(launched) + 1] = e
          /\ \A i \in 1..Len(Append(launched, e)) : i \in 1..Len(launched) \/ i = Len(launched) + 1
      BY <1>2, AppendAt
    <3>4. PICK r : r = Append(launched, e)
      OBVIOUS
    <3>5. r \in Seq(Slot) /\ \A i \in 1..Len(r) : r[i].kind = "launch"
      BY <1>2, <3>1, <3>2, <3>3, <3>4
    <3> QED  BY <3>1, <3>2, <3>4, <3>5
  <2> QED  BY <2>1, <2>2 DEF AddReceived, ThreadFinished, wallVars
<1>5. /\ spc' \in [Connection -> States]
      /\ \A c \in Connection : \/ spc'[c] = spc[c] /\ counted'[c] = counted[c] /\ arrived'[c] = arrived[c]
                               \/ spc[c] # "none" /\ spc'[c] \notin {"none", "open", "content", "store"}
  <2>1. CASE spc' = spc
    BY <2>1, <1>1, <1>2
  <2>2. CASE spc' = [c \in Connection |-> IF spc[c] = "finished" THEN "deleted" ELSE spc[c]]
    BY <2>2, <1>1, <1>2 DEF States
  <2> QED  BY <2>1, <2>2 DEF LaunchReceived, AddReceived, ThreadFinished, serverVars
<1> QED  BY <1>1, <1>2, <1>3, <1>4, <1>5, IdleTurn

\* The slots are the same.
LEMMA SlotsKept ==
    ASSUME TurnInv, UNCHANGED <<cpc, item, via, conn, msgUp, events, posted>>
    PROVE  SlotInv' /\ (Reporting' <=> Reporting)
<1>1. /\ <<>> \in Seq(Slot) /\ posted' = posted \o <<>> /\ Len(<<>>) = 0
  BY Typed, ConcatEmptySeq, EmptySeq
<1>2. \A i \in 1..Len(<<>>) : ~FinalSlot((<<>>)[i]) /\ (<<>>)[i].conn <= conn
  BY <1>1
<1> QED  BY <1>1, <1>2, SlotsGained

\* The wall's thread takes one token.
LEMMA WireTaken ==
    ASSUME TurnInv, UNCHANGED <<cpc, item, via, conn, link>>,
           NEW c \in Connection, wire[c] # <<>>, wire' = [wire EXCEPT ![c] = Tail(wire[c])]
    PROVE  /\ wire' \in [Connection -> Seq(Token)]
           /\ \A d \in Connection : d # c => wire'[d] = wire[d]
           /\ Len(wire[c]) \in Nat /\ Len(wire[c]) >= 1 /\ Len(wire'[c]) = Len(wire[c]) - 1
           /\ Head(wire[c]) = wire[c][1] /\ wire[c][1] \in Token
           /\ \A i \in 1..Len(wire'[c]) : wire'[c][i] = wire[c][i + 1] /\ i + 1 \in 1..Len(wire[c])
           /\ \A i, n \in Nat : \A f : Complete(c, i + 1, n, f) => Complete(c, i, n, f)'
           /\ \A d \in Connection : d # c => \A i, n, f : Complete(d, i, n, f)' <=> Complete(d, i, n, f)
<1>1. wire \in [Connection -> Seq(Token)] /\ wire[c] \in Seq(Token)
  BY Typed
<1>2. wire'[c] = Tail(wire[c]) /\ \A d \in Connection : d # c => wire'[d] = wire[d]
  BY <1>1
<1>3. /\ wire'[c] \in Seq(Token) /\ Head(wire[c]) = wire[c][1] /\ wire[c][1] \in Token
      /\ Len(wire[c]) \in Nat /\ Len(wire[c]) >= 1 /\ Len(wire'[c]) = Len(wire[c]) - 1
      /\ \A i \in 1..Len(wire'[c]) : wire'[c][i] = wire[c][i + 1] /\ i + 1 \in 1..Len(wire[c])
  BY <1>1, <1>2, TailAt
<1>4. wire' \in [Connection -> Seq(Token)]
  BY <1>1, <1>2, <1>3
<1>5. ASSUME NEW i \in Nat, NEW n \in Nat, NEW f, Complete(c, i + 1, n, f)
      PROVE  Complete(c, i, n, f)'
  <2>1. CASE Follow(c, i + 1, n, f)
    <3>1. (i + 1) + n <= Len(wire[c]) /\ \A j \in 1..n : wire[c][(i + 1) + j] = Chunk(f)
      BY <2>1 DEF Follow
    <3>2. i + n <= Len(wire'[c]) /\ \A j \in 1..n : i + j \in 1..Len(wire'[c]) /\ (i + j) + 1 = (i + 1) + j
      BY <3>1, <1>3
    <3>3. \A j \in 1..n : wire'[c][i + j] = Chunk(f)
      BY <3>1, <3>2, <1>3
    <3>4. Follow(c, i, n, f)'
      BY <3>2, <3>3 DEF Follow, Chunk
    <3> QED  BY <3>4 DEF Complete
  <2>2. CASE i + 1 = Len(wire[c]) /\ n = Chunks /\ Awaits(c, f)
    <3>1. i = Len(wire'[c])
      BY <2>2, <1>3
    <3>2. Awaits(c, f)'
      BY <2>2 DEF Awaits
    <3> QED  BY <3>1, <3>2, <2>2 DEF Complete
  <2> QED  BY <1>5, <2>1, <2>2 DEF Complete
<1>6. ASSUME NEW d \in Connection, d # c
      PROVE  \A i, n, f : Complete(d, i, n, f)' <=> Complete(d, i, n, f)
  BY <1>2, <1>6 DEF Complete, Follow, Awaits, Chunk
<1> QED  BY <1>2, <1>3, <1>4, <1>5, <1>6

\* Behind a header that moves up its file follows still.
LEMMA HeadersTaken ==
    ASSUME TurnInv, UNCHANGED <<cpc, item, via, conn, link>>, NEW c \in Connection, FilesFollow(c),
           wire[c] # <<>>, wire' = [wire EXCEPT ![c] = Tail(wire[c])],
           NEW i \in 1..Len(wire'[c]), FileHeader(wire'[c][i])
    PROVE  Complete(c, i, Chunks, wire[c][i].file)'
<1>0. i \in Nat /\ Chunks \in Nat
  BY CountsAssumption
<1>1. /\ i + 1 \in 1..Len(wire[c]) /\ wire'[c][i] = wire[c][i + 1]
      /\ \A k, n \in Nat : \A f : Complete(c, k + 1, n, f) => Complete(c, k, n, f)'
  BY WireTaken
<1>2. PICK g : g = wire[c][i + 1].file
  OBVIOUS
<1>3. Complete(c, i + 1, Chunks, g)
  BY <1>1, <1>2 DEF FilesFollow
<1>4. Complete(c, i, Chunks, g)'
  BY <1>0, <1>1, <1>3
<1> QED  BY <1>1, <1>2, <1>4

\* A step of the thread of another connection.
LEMMA ElsewhereTurn ==
    ASSUME TurnInv, SlotInv', Reporting' <=> Reporting,
           UNCHANGED <<cpc, item, via, semaphore, conn, msgUp, events, link>>,
           wire'[conn] = wire[conn], spc'[conn] = spc[conn],
           receiving'[conn] = receiving[conn], counted'[conn] = counted[conn]
    PROVE  (OneFile /\ SenderKnown /\ OneTurn /\ OneContent /\ TailInv /\ QuietInv)'
<1>1. OneFile /\ SenderKnown /\ OneTurn /\ OneContent /\ TailInv /\ QuietInv
  BY DEF TurnInv
<1>2. Pending' <=> Pending
  BY DEF Pending, Reads
<1>3. OneFile'
  <2>1. ~(Pending' /\ Reporting')
    BY <1>1, <1>2 DEF OneFile
  <2> QED  BY <2>1, <1>1 DEF OneFile, SlotInv, Reads
<1>4. SenderKnown'
  <2>1. \A g : Knows(g)' <=> Knows(g)
    BY DEF Knows, Waiting
  <2> QED  BY <2>1, <1>1 DEF SenderKnown, SlotInv, Reads
<1>5. OneTurn' /\ OneContent'
  BY <1>1, <1>2 DEF OneTurn, OneContent, Waiting
<1>6. QuietInv'
  BY <1>1 DEF QuietInv, Continues
<1>7. TailInv'
  BY <1>1 DEF TailInv, Reads
<1> QED  BY <1>3, <1>4, <1>5, <1>6, <1>7

\* The file whose header was read is the one that is read next.
LEMMA RecvHeaderTurn ==
    ASSUME TurnInv, NEW c \in Connection, RecvHeader(c)
    PROVE  TurnInv'
<1>0. PICK f : f = Head(wire[c]).file
  OBVIOUS
<1>1. /\ spc[c] = "header" /\ wire[c] # <<>> /\ Head(wire[c]).kind = "header"
      /\ wire' = [wire EXCEPT ![c] = Tail(wire[c])]
      /\ receiving' = [receiving EXCEPT ![c] = f]
      /\ IF f \in Urls
         THEN posted' = posted \o <<Launch(c, f, TRUE), Add(c, f)>> /\ spc' = spc
         ELSE spc' = [spc EXCEPT ![c] = "open"] /\ posted' = posted
      /\ UNCHANGED <<cpc, item, via, semaphore, conn, msgUp, launched, events, link, counted, arrived>>
  BY <1>0 DEF RecvHeader, clientVars, wallVars
<1>2. /\ TransferTypes /\ ConnectionInv /\ OneFile /\ SenderKnown
      /\ OneTurn /\ OneContent /\ WireInv /\ TailInv /\ QuietInv
  BY DEF TurnInv
<1>3. /\ wire' \in [Connection -> Seq(Token)]
      /\ \A d \in Connection : d # c => wire'[d] = wire[d]
      /\ Len(wire[c]) \in Nat /\ Len(wire[c]) >= 1 /\ Len(wire'[c]) = Len(wire[c]) - 1
      /\ Head(wire[c]) = wire[c][1] /\ wire[c][1] \in Token
      /\ \A i \in 1..Len(wire'[c]) : wire'[c][i] = wire[c][i + 1] /\ i + 1 \in 1..Len(wire[c])
      /\ \A i, n \in Nat : \A g : Complete(c, i + 1, n, g) => Complete(c, i, n, g)'
      /\ \A d \in Connection : d # c => \A i, n, g : Complete(d, i, n, g)' <=> Complete(d, i, n, g)
  BY <1>1, WireTaken
<1>4. conn \in Connection /\ f \in File /\ f = wire[c][1].file /\ 1 \in 1..Len(wire[c]) /\ c <= conn
  BY <1>0, <1>1, <1>3, Typed DEF Token
<1>5. /\ receiving'[c] = f /\ \A d \in Connection : d # c => receiving'[d] = receiving[d] /\ spc'[d] = spc[d]
      /\ receiving' \in [Connection -> File \cup {NoFile}]
      /\ spc'[c] = IF f \in Urls THEN "header" ELSE "open"
      /\ spc' \in [Connection -> States]
  BY <1>1, <1>2, <1>4 DEF TransferTypes, States
<1>6. SlotInv' /\ (Reporting' <=> Reporting)
  <2>1. CASE f \notin Urls
    BY <2>1, <1>1, SlotsKept
  <2>2. CASE f \in Urls
    <3>1. PICK a, b : a = Launch(c, f, TRUE) /\ b = Add(c, f)
      OBVIOUS
    <3>2. a \in Slot /\ b \in Slot /\ ~FinalSlot(a) /\ ~FinalSlot(b) /\ a.conn = c /\ b.conn = c
      BY <3>1, <1>4 DEF Slot, Launch, Add, FinalSlot
    <3> DEFINE t == <<a, b>>
    <3>3. t \in Seq(Slot) /\ posted' = posted \o t /\ \A i \in 1..Len(t) : ~FinalSlot(t[i]) /\ t[i].conn <= conn
      <4>1. posted' = posted \o t
        BY <2>2, <3>1, <1>1
      <4>2. t \in Seq(Slot) /\ \A i \in 1..Len(t) : ~FinalSlot(t[i]) /\ t[i].conn <= conn
        BY <3>2, <1>4
      <4> QED  BY <4>1, <4>2
    <3> HIDE DEF t
    <3> QED  BY <3>3, <1>1, SlotsGained
  <2> QED  BY <2>1, <2>2
<1>7. \A i \in 1..Len(wire'[c]) : FileHeader(wire'[c][i]) => FileHeader(wire[c][i + 1])
  BY <1>3
<1> DEFINE Rest == OneFile /\ SenderKnown /\ OneTurn /\ OneContent /\ TailInv /\ QuietInv
\* The header of a file was the only one on the wire in use.
<1>8. ASSUME c = conn /\ f \notin Urls
      PROVE  Rest'
  <2>1. FileHeader(wire[conn][1]) /\ ~Reads(conn) /\ Reads(conn)' /\ Pending /\ Pending'
    BY <1>8, <1>1, <1>3, <1>4, <1>5 DEF FileHeader, Pending, Reads
  <2>2. \A i \in 1..Len(wire'[conn]) : ~FileHeader(wire'[conn][i])
    <3> TAKE i \in 1..Len(wire'[conn])
    <3>1. FileHeader(wire'[conn][i]) => i + 1 = 1
      BY <1>8, <2>1, <1>2, <1>3, <1>4, <1>7 DEF OneFile
    <3> QED  BY <3>1
  <2>3. Knows(f) /\ Knows(f)'
    BY <1>8, <2>1, <1>1, <1>2, <1>4 DEF SenderKnown, Knows, Waiting
  <2>4. OneFile' /\ SenderKnown'
    <3>1. OneFile'
      BY <2>1, <2>2, <1>1, <1>2, <1>6 DEF OneFile, SlotInv
    <3>2. \A g : Knows(g)' <=> Knows(g)
      BY <1>1 DEF Knows, Waiting
    <3>3. SenderKnown'
      BY <2>2, <2>3, <3>2, <1>1, <1>2, <1>5, <1>6, <1>8 DEF SenderKnown, SlotInv
    <3> QED  BY <3>1, <3>3
  <2>5. OneTurn' /\ OneContent' /\ QuietInv'
    <3>1. OneTurn' /\ OneContent'
      BY <2>1, <1>1, <1>2, <1>6 DEF OneTurn, OneContent, Waiting
    <3>2. QuietInv'
      BY <1>8, <1>1, <1>2, <1>6 DEF QuietInv, Continues
    <3> QED  BY <3>1, <3>2
  <2>6. TailInv'
    <3> SUFFICES ASSUME link[conn] = "up"
                 PROVE  TailInv'
      BY <1>1 DEF TailInv
    <3>1. Len(wire[conn]) <= 1 + Chunks /\ \A s \in Sender : cpc[s] = "content" => 1 = Len(wire[conn])
      BY <2>1, <1>2, <1>4, <1>8 DEF TailInv
    <3>2. Len(wire'[conn]) <= Chunks
      BY <3>1, <1>3, <1>8, CountsAssumption
    <3>3. \A s \in Sender : cpc[s] = "content" => wire'[conn] = <<>>
      <4>1. wire'[conn] \in Seq(Token)
        BY <1>3, <1>4
      <4> QED  BY <4>1, <3>1, <1>3, <1>8, EmptySeq
    <3>4. spc'[conn] = "open" /\ conn' = conn /\ cpc' = cpc
      BY <1>1, <1>5, <1>8
    <3> QED  BY <2>2, <3>2, <3>3, <3>4 DEF TailInv, Reads
  <2> QED  BY <2>4, <2>5, <2>6
<1>9. ASSUME ~(c = conn /\ f \notin Urls)
      PROVE  Rest'
  <2>1. /\ Reads(conn)' <=> Reads(conn)
        /\ Reads(conn) => receiving'[conn] = receiving[conn]
    BY <1>9, <1>1, <1>4, <1>5 DEF Reads
  <2>2. CASE c # conn
    <3>1. wire'[conn] = wire[conn] /\ spc'[conn] = spc[conn] /\ receiving'[conn] = receiving[conn]
      BY <2>2, <1>3, <1>4, <1>5
    <3> QED  BY <3>1, <1>1, <1>6, ElsewhereTurn
  <2>3. CASE c = conn /\ f \in Urls
    <3>1. ~FileHeader(wire[conn][1]) /\ ~Reads(conn) /\ ~Reads(conn)' /\ spc'[conn] = "header"
      BY <2>3, <1>1, <1>4, <1>5 DEF FileHeader, Reads
    <3>2. Pending' => Pending
      BY <2>3, <3>1, <1>1, <1>3, <1>7 DEF Pending
    <3>3. \A g : Knows(g)' <=> Knows(g)
      BY <1>1 DEF Knows, Waiting
    <3>4. \A i, j \in 1..Len(wire'[conn]) : FileHeader(wire'[conn][i]) /\ FileHeader(wire'[conn][j]) => i = j
      <4> TAKE i, j \in 1..Len(wire'[conn])
      <4>1. FileHeader(wire'[conn][i]) /\ FileHeader(wire'[conn][j]) => i + 1 = j + 1
        BY <2>3, <1>2, <1>3, <1>7 DEF OneFile
      <4> QED  BY <4>1
    <3>5. \A i \in 1..Len(wire'[conn]) : FileHeader(wire'[conn][i]) => Knows(wire'[conn][i].file)
      BY <2>3, <1>2, <1>3, <1>7 DEF SenderKnown
    <3>6. OneFile' /\ SenderKnown'
      <4>1. ~(Pending' /\ Reporting')
        BY <3>2, <1>2, <1>6 DEF OneFile
      <4>2. OneFile'
        <5>1. conn' = conn /\ events' = events
          BY <1>1
        <5>2. ~(spc'[conn] \in {"open", "content"})
          BY <3>1
        <5> QED  BY <3>4, <4>1, <5>1, <5>2, <1>2, <1>6 DEF OneFile, SlotInv, Reads
      <4>3. SenderKnown'
        BY <3>1, <3>3, <3>5, <1>1, <1>2, <1>6 DEF SenderKnown, SlotInv
      <4> QED  BY <4>2, <4>3
    <3>7. OneTurn' /\ OneContent'
      BY <3>2, <1>1, <1>2, <1>6 DEF OneTurn, OneContent, Waiting
    <3>8. QuietInv'
      BY <2>3, <1>1, <1>2, <1>6 DEF QuietInv, Continues
    <3>9. TailInv'
      <4> SUFFICES ASSUME link[conn] = "up"
                   PROVE  TailInv'
        BY <1>1 DEF TailInv
      <4>1. ASSUME NEW i \in 1..Len(wire'[conn]), FileHeader(wire'[conn][i])
            PROVE  /\ Len(wire'[conn]) <= i + Chunks
                   /\ \A s \in Sender : cpc[s] = "content" => i = Len(wire'[conn])
        <5>1. i + 1 \in 1..Len(wire[conn]) /\ FileHeader(wire[conn][i + 1])
          BY <4>1, <2>3, <1>3, <1>7
        <5>2. /\ Len(wire[conn]) <= (i + 1) + Chunks
              /\ \A s \in Sender : cpc[s] = "content" => i + 1 = Len(wire[conn])
          BY <5>1, <1>2 DEF TailInv
        <5> QED  BY <5>2, <2>3, <1>3, CountsAssumption
      <4>2. conn' = conn /\ cpc' = cpc
        BY <1>1
      <4> QED  BY <4>1, <4>2, <3>1 DEF TailInv, Reads
    <3> QED  BY <3>6, <3>7, <3>8, <3>9
  <2> QED  BY <2>2, <2>3, <1>9
<1>10. TransferTypes' /\ ConnectionInv'
  <2>1. TransferTypes'
    <3>1. \A d \in Connection : spc'[d] \in {"open", "content", "store"} => receiving'[d] \in File \ Urls
      BY ZenonT(60), <1>2, <1>4, <1>5 DEF TransferTypes
    <3> QED  BY <3>1, <1>1, <1>2, <1>3, <1>5, <1>6 DEF TransferTypes, States, SlotInv
  <2>2. ConnectionInv'
    <3>1. \A d \in Connection : d > conn => d # c
      BY <1>4 DEF Connection
    <3> QED  BY <3>1, <1>1, <1>2, <1>3, <1>5, <1>6 DEF ConnectionInv, SlotInv
  <2> QED  BY <2>1, <2>2
<1>11. WireInv'
  <2> SUFFICES ASSUME NEW d \in Connection, link'[d] # "broken"
               PROVE  FilesFollow(d)'
    BY DEF WireInv
  <2>0. FilesFollow(d)
    BY <1>1, <1>2 DEF WireInv
  <2>1. CASE d # c
    BY <2>0, <2>1, <1>1, <1>3, <1>5 DEF FilesFollow
  <2>2. CASE d = c
    <3>0. Chunks \in Nat
      BY CountsAssumption
    <3>1. \A i \in 1..Len(wire'[c]) : FileHeader(wire'[c][i]) => Complete(c, i, Chunks, wire[c][i].file)'
      BY <2>0, <2>2, <1>1, HeadersTaken
    <3>2. spc'[c] = "open" => Complete(c, 0, Chunks, receiving[c])'
      <4> SUFFICES ASSUME f \notin Urls
                   PROVE  Complete(c, 0, Chunks, receiving[c])'
        BY <1>5
      <4>1. FileHeader(wire[c][1])
        BY <1>1, <1>3, <1>4 DEF FileHeader
      <4>2. Complete(c, 1, Chunks, f)
        BY <4>1, <2>0, <2>2, <1>4 DEF FilesFollow
      <4>3. Complete(c, 0, Chunks, f)'
        <5>1. 0 \in Nat /\ 0 + 1 = 1
          OBVIOUS
        <5> QED  BY <5>1, <4>2, <3>0, <1>3
      <4> QED  BY <4>3, <1>5
    <3> QED  BY <2>2, <3>1, <3>2, <1>5 DEF FilesFollow
  <2> QED  BY <2>1, <2>2
<1> QED  BY <1>8, <1>9, <1>10, <1>11 DEF TurnInv

\* A file that cannot be opened is never reported.
LEMMA OpenFileTurn ==
    ASSUME TurnInv, NEW c \in Connection, OpenFile(c)
    PROVE  TurnInv'
<1>1. /\ spc[c] = "open"
      /\ spc' = [spc EXCEPT ![c] = "content"] \/ spc' = [spc EXCEPT ![c] = "header"]
      /\ counted' = [counted EXCEPT ![c] = 0]
      /\ arrived' = [arrived EXCEPT ![c] = 0]
      /\ UNCHANGED <<cpc, item, via, semaphore, conn, msgUp, launched, events, posted, link, wire, receiving>>
  BY DEF OpenFile, clientVars, wallVars
<1>2. /\ TransferTypes /\ ConnectionInv /\ OneFile /\ SenderKnown
      /\ OneTurn /\ OneContent /\ WireInv /\ TailInv /\ QuietInv
  BY DEF TurnInv
<1>3. /\ spc \in [Connection -> States] /\ conn \in Connection
      /\ counted \in [Connection -> Nat] /\ arrived \in [Connection -> Nat]
      /\ launched \in Seq(Slot) /\ \A i \in 1..Len(launched) : launched[i].kind = "launch"
      /\ c <= conn
  BY <1>1, Typed
<1>4. SlotInv' /\ (Reporting' <=> Reporting)
  BY <1>1, SlotsKept
<1>5. counted' \in [Connection -> Nat] /\ arrived' \in [Connection -> Nat] /\ counted'[c] = 0 /\ arrived'[c] = 0
  BY <1>1, <1>3
<1>6. /\ \A d \in Connection : d # c => spc'[d] = spc[d] /\ counted'[d] = counted[d] /\ arrived'[d] = arrived[d]
      /\ spc' \in [Connection -> States]
  BY <1>1, <1>3 DEF States
<1>7. CASE spc' = [spc EXCEPT ![c] = "header"]
  <2>1. spc'[c] = "header"
    BY <1>3, <1>7
  <2> QED  BY <2>1, <1>1, <1>3, <1>4, <1>5, <1>6, IdleTurn
<1>8. CASE spc' = [spc EXCEPT ![c] = "content"]
  <2>1. spc'[c] = "content"
    BY <1>3, <1>8
  <2>2. /\ \A d \in Connection : Reads(d)' <=> Reads(d)
        /\ Pending' <=> Pending
    BY <2>1, <1>1, <1>3, <1>6 DEF Reads, Pending
  <2>3. TransferTypes' /\ ConnectionInv'
    <3>1. \A d \in Connection : spc'[d] \in {"open", "content", "store"} => receiving'[d] \in File \ Urls
      BY <2>1, <1>1, <1>2, <1>6 DEF TransferTypes
    <3>2. TransferTypes'
      BY <3>1, <1>1, <1>2, <1>4, <1>5, <1>6 DEF TransferTypes, States, SlotInv
    <3>3. \A d \in Connection : d > conn => d # c
      BY <1>3 DEF Connection
    <3>4. ConnectionInv'
      BY <3>3, <1>1, <1>2, <1>4, <1>6 DEF ConnectionInv, SlotInv
    <3> QED  BY <3>2, <3>4
  <2>4. OneFile'
    <3>1. ~(Pending' /\ Reporting')
      BY <2>2, <1>2, <1>4 DEF OneFile
    <3>2. Reads(conn)' <=> Reads(conn)
      BY <2>2, <1>1, <1>3 DEF Reads
    <3> QED  BY <3>1, <3>2, <1>1, <1>2, <1>4 DEF OneFile, SlotInv
  <2>5. SenderKnown'
    <3>1. \A g : Knows(g)' <=> Knows(g)
      BY <1>1 DEF Knows, Waiting
    <3>2. Reads(conn)' <=> Reads(conn)
      BY <2>2, <1>1, <1>3 DEF Reads
    <3> QED  BY <3>1, <3>2, <1>1, <1>2, <1>4 DEF SenderKnown, SlotInv
  <2>6. OneTurn' /\ OneContent' /\ QuietInv'
    BY <2>2, <1>1, <1>2, <1>4 DEF OneTurn, OneContent, QuietInv, Waiting, Continues
  <2>7. WireInv'
    <3> SUFFICES ASSUME NEW d \in Connection, link'[d] # "broken"
                 PROVE  FilesFollow(d)'
      BY DEF WireInv
    <3>1. FilesFollow(d)
      BY <1>1, <1>2 DEF WireInv
    <3>2. \A i, n, f : Complete(d, i, n, f)' <=> Complete(d, i, n, f)
      BY <1>1 DEF Complete, Follow, Awaits, Chunk
    <3>3. CASE d # c
      BY <3>1, <3>2, <3>3, <1>1, <1>6 DEF FilesFollow
    <3>4. CASE d = c
      <4>1. 0 < Chunks /\ Chunks - 0 = Chunks
        BY CountsAssumption
      <4>2. Complete(c, 0, Chunks, receiving[c])
        BY <3>1, <3>4, <1>1 DEF FilesFollow
      <4>3. Complete(c, 0, Chunks - counted[c], receiving[c])'
        BY <4>1, <4>2, <3>2, <3>4, <1>1, <1>5
      <4> QED  BY <4>1, <4>3, <3>1, <3>2, <3>4, <2>1, <1>1, <1>5 DEF FilesFollow
    <3> QED  BY <3>3, <3>4
  <2>8. TailInv'
    <3>1. conn' = conn /\ cpc' = cpc /\ link' = link /\ wire' = wire
      BY <1>1
    <3>2. CASE c # conn
      BY <3>1, <3>2, <1>2, <1>3, <1>6 DEF TailInv, Reads
    <3>3. CASE c = conn
      <4>1. Chunks - 0 = Chunks
        BY CountsAssumption
      <4> QED  BY <4>1, <3>1, <3>3, <2>1, <1>1, <1>2, <1>5 DEF TailInv, Reads
    <3> QED  BY <3>2, <3>3
  <2> QED  BY <2>3, <2>4, <2>5, <2>6, <2>7, <2>8 DEF TurnInv
<1> QED  BY <1>1, <1>7, <1>8

\* A thread that ends to read the file of the connection in use, with its report posted.
LEMMA EndTurn ==
    ASSUME TurnInv, Reads(conn), NEW n \in Int, posted' = Append(posted, Progress(conn, receiving[conn], n)),
           UNCHANGED <<cpc, item, via, semaphore, conn, msgUp, events, link>>,
           \A i \in 1..Len(wire'[conn]) : ~FileHeader(wire'[conn][i]),
           link[conn] = "up" => wire'[conn] = <<>> /\ \A s \in Sender : cpc[s] # "content",
           spc'[conn] \notin {"open", "content"}
    PROVE  (OneFile /\ SenderKnown /\ OneTurn /\ OneContent /\ TailInv /\ QuietInv /\ SlotInv)'
<1>1. /\ TransferTypes /\ ConnectionInv /\ OneFile /\ SenderKnown
      /\ OneTurn /\ OneContent /\ WireInv /\ TailInv /\ QuietInv
  BY DEF TurnInv
<1>2. /\ conn \in Connection /\ receiving[conn] \in File
  BY <1>1 DEF TransferTypes, Reads
<1>3. Pending /\ Knows(receiving[conn])
  BY <1>1 DEF Pending, SenderKnown
<1>4. PICK e : e = Progress(conn, receiving[conn], n)
  OBVIOUS
<1>5. e \in Slot /\ e.conn = conn /\ e.file = receiving[conn] /\ posted' = Append(posted, e)
  BY <1>2, <1>4 DEF Slot, Progress
<1>6. SlotInv'
  BY <1>3, <1>5, EndPosted
<1>7. ~Pending' /\ spc'[conn] \notin {"open", "content"}
  BY DEF Pending, Reads
<1>8. OneFile' /\ SenderKnown'
  <2>1. OneFile'
    BY <1>1, <1>6, <1>7 DEF OneFile, SlotInv, Reads
  <2>2. \A g : Knows(g)' <=> Knows(g)
    BY DEF Knows, Waiting
  <2>3. SenderKnown'
    BY <2>2, <1>1, <1>6, <1>7 DEF SenderKnown, SlotInv, Reads
  <2> QED  BY <2>1, <2>3
<1>9. OneTurn'
  <2>1. ~(semaphore > 0) /\ \A s \in Sender : cpc[s] # "begin"
    BY <1>1, <1>3 DEF OneTurn
  <2> QED  BY <2>1 DEF OneTurn
<1>10. OneContent'
  <2>1. \A s \in Sender : cpc[s] = "content" => ~(link[conn] = "up" \/ ~msgUp \/ via[s] # conn)
    <3> SUFFICES ASSUME NEW s \in Sender, cpc[s] = "content", link[conn] = "up" \/ ~msgUp \/ via[s] # conn
                 PROVE  FALSE
      OBVIOUS
    <3>1. msgUp /\ via[s] = conn
      BY <1>1, <1>3 DEF OneContent
    <3> QED  BY <3>1
  <2> QED  BY <2>1 DEF OneContent
<1>11. TailInv' /\ QuietInv'
  BY <1>7 DEF TailInv, QuietInv, Reads
<1> QED  BY <1>6, <1>8, <1>9, <1>10, <1>11

\* A failure ends the file with a report.
LEMMA RecvFailsTurn ==
    ASSUME TurnInv, NEW c \in Connection, RecvFails(c)
    PROVE  TurnInv'
<1>1. /\ spc[c] = "content" /\ wire[c] = <<>> /\ link[c] # "up"
      /\ posted' = Append(posted, Progress(c, receiving[c], Cancelled))
      /\ spc' = [spc EXCEPT ![c] = "header"]
      /\ UNCHANGED <<cpc, item, via, semaphore, conn, msgUp, launched, events, link, wire, receiving,
                     counted, arrived>>
  BY DEF RecvFails, clientVars, wallVars
<1>2. /\ TransferTypes /\ ConnectionInv /\ OneFile /\ SenderKnown
      /\ OneTurn /\ OneContent /\ WireInv /\ TailInv /\ QuietInv
  BY DEF TurnInv
<1>3. /\ spc \in [Connection -> States] /\ conn \in Connection
      /\ counted \in [Connection -> Nat] /\ arrived \in [Connection -> Nat]
      /\ launched \in Seq(Slot) /\ \A i \in 1..Len(launched) : launched[i].kind = "launch"
      /\ posted \in Seq(Slot) /\ c <= conn
  BY <1>1, Typed
<1>4. /\ \A d \in Connection : d # c => spc'[d] = spc[d]
      /\ spc' \in [Connection -> States] /\ spc'[c] = "header"
  BY <1>1, <1>3 DEF States
<1>5. CASE c # conn
  <2>1. PICK e : e = Progress(c, receiving[c], Cancelled)
    OBVIOUS
  <2>2. receiving[c] \in File /\ Cancelled \in Int
    BY <1>1, <1>2 DEF TransferTypes, Cancelled
  <2>3. e \in Slot /\ e.conn = c /\ ~FinalSlot(e)
    BY <1>5, <2>1, <2>2 DEF Slot, Progress, FinalSlot
  <2>4. posted' = posted \o <<e>>
    BY <2>1, <2>3, <1>1, <1>3, AppendIsConcat
  <2> DEFINE t == <<e>>
  <2>5. t \in Seq(Slot) /\ posted' = posted \o t /\ \A i \in 1..Len(t) : ~FinalSlot(t[i]) /\ t[i].conn <= conn
    BY <2>3, <2>4, <1>3
  <2> HIDE DEF t
  <2>6. SlotInv' /\ (Reporting' <=> Reporting)
    BY <2>5, <1>1, SlotsGained
  <2> QED  BY <2>6, <1>1, <1>3, <1>4, IdleTurn
<1>6. CASE c = conn
  <2>1. /\ Reads(conn) /\ Cancelled \in Int /\ spc'[conn] \notin {"open", "content"}
        /\ \A i \in 1..Len(wire'[conn]) : ~FileHeader(wire'[conn][i])
    BY <1>6, <1>1, <1>4 DEF Reads, Cancelled
  <2>2. (OneFile /\ SenderKnown /\ OneTurn /\ OneContent /\ TailInv /\ QuietInv /\ SlotInv)'
    BY <2>1, <1>1, <1>6, EndTurn
  <2>3. TransferTypes' /\ ConnectionInv'
    <3>1. \A d \in Connection : spc'[d] \in {"open", "content", "store"} => receiving'[d] \in File \ Urls
      BY <1>1, <1>2, <1>4 DEF TransferTypes
    <3>2. TransferTypes'
      BY <3>1, <2>2, <1>1, <1>2, <1>4 DEF TransferTypes, States, SlotInv
    <3>3. \A d \in Connection : d > conn => d # c
      BY <1>3 DEF Connection
    <3>4. ConnectionInv'
      BY <3>3, <2>2, <1>1, <1>2, <1>4 DEF ConnectionInv, SlotInv
    <3> QED  BY <3>2, <3>4
  <2>4. WireInv'
    <3> SUFFICES ASSUME NEW d \in Connection, link'[d] # "broken"
                 PROVE  FilesFollow(d)'
      BY DEF WireInv
    <3>1. FilesFollow(d)
      BY <1>1, <1>2 DEF WireInv
    <3>2. \A i, n, f : Complete(d, i, n, f)' <=> Complete(d, i, n, f)
      BY <1>1 DEF Complete, Follow, Awaits, Chunk
    <3> QED  BY <3>1, <3>2, <1>1, <1>4 DEF FilesFollow
  <2> QED  BY <2>2, <2>3, <2>4 DEF TurnInv
<1> QED  BY <1>5, <1>6

\* What is left of a file when one chunk of it was taken.
LEMMA ChunkTaken ==
    ASSUME TurnInv, UNCHANGED <<cpc, item, via, conn, link>>, NEW c \in Connection, FilesFollow(c),
           spc[c] = "content", wire[c] # <<>>, wire' = [wire EXCEPT ![c] = Tail(wire[c])],
           NEW f, f = receiving[c], NEW m, m = Chunks - (counted[c] + 1)
    PROVE  Head(wire[c]) = Chunk(f) /\ Complete(c, 0, m, f)'
<1>1. /\ Len(wire[c]) \in Nat /\ Len(wire[c]) >= 1 /\ Head(wire[c]) = wire[c][1]
      /\ \A k, n \in Nat : \A g : Complete(c, k + 1, n, g) => Complete(c, k, n, g)'
  BY WireTaken
<1>2. counted[c] \in Nat /\ Chunks \in Nat /\ counted[c] < Chunks
  BY Typed, CountsAssumption DEF FilesFollow
<1>4. m \in Nat /\ Chunks - counted[c] = m + 1
  BY <1>2
<1>5. Complete(c, 0, m + 1, f)
  BY <1>4 DEF FilesFollow
<1>6. 0 + (m + 1) <= Len(wire[c]) /\ \A j \in 1..m + 1 : wire[c][0 + j] = Chunk(f)
  BY <1>1, <1>4, <1>5 DEF Complete, Follow
<1>7. wire[c][1] = Chunk(f)
  <2>1. 1 \in 1..m + 1 /\ 0 + 1 = 1
    BY <1>4
  <2> QED  BY <2>1, <1>6
<1>8. Follow(c, 1, m, f)
  <2>1. 1 + m <= Len(wire[c])
    BY <1>1, <1>4, <1>6
  <2>2. \A j \in 1..m : 1 + j \in 1..m + 1 /\ 0 + (1 + j) = 1 + j
    BY <1>4
  <2> QED  BY <2>1, <2>2, <1>6 DEF Follow
<1>9. Complete(c, 0, m, f)'
  <2>1. 0 \in Nat /\ 0 + 1 = 1
    OBVIOUS
  <2>2. Complete(c, 0 + 1, m, f)
    BY <1>8, <2>1 DEF Complete
  <2> QED  BY <2>1, <2>2, <1>1, <1>4
<1> QED  BY <1>1, <1>7, <1>9

\* Each chunk belongs to the file that is received; the last one ends it.
LEMMA RecvChunkTurn ==
    ASSUME TurnInv, NEW c \in Connection, RecvChunk(c)
    PROVE  TurnInv'
<1>1. /\ spc[c] = "content" /\ wire[c] # <<>>
      /\ wire' = [wire EXCEPT ![c] = Tail(wire[c])]
      /\ counted' = [counted EXCEPT ![c] = counted[c] + 1]
      /\ arrived' = [arrived EXCEPT ![c] = IF Head(wire[c]) = Chunk(receiving[c]) THEN arrived[c] + 1 ELSE arrived[c]]
      /\ posted' = Append(posted, Progress(c, receiving[c], counted'[c]))
      /\ spc' = [spc EXCEPT ![c] = IF counted'[c] = Chunks THEN "store" ELSE "content"]
      /\ UNCHANGED <<cpc, item, via, semaphore, conn, msgUp, launched, events, link, receiving>>
  BY DEF RecvChunk, clientVars, wallVars
<1>2. /\ TransferTypes /\ ConnectionInv /\ OneFile /\ SenderKnown
      /\ OneTurn /\ OneContent /\ WireInv /\ TailInv /\ QuietInv
  BY DEF TurnInv
<1>3. /\ spc \in [Connection -> States] /\ conn \in Connection
      /\ counted \in [Connection -> Nat] /\ arrived \in [Connection -> Nat]
      /\ posted \in Seq(Slot) /\ c <= conn
  BY <1>1, Typed
<1> DEFINE k == counted[c] + 1
<1>4. /\ counted' \in [Connection -> Nat] /\ arrived' \in [Connection -> Nat] /\ spc' \in [Connection -> States]
      /\ counted'[c] = k /\ spc'[c] = (IF k = Chunks THEN "store" ELSE "content")
      /\ k \in Nat /\ k > 0
      /\ arrived'[c] = IF Head(wire[c]) = Chunk(receiving[c]) THEN arrived[c] + 1 ELSE arrived[c]
      /\ \A d \in Connection : d # c => spc'[d] = spc[d] /\ counted'[d] = counted[d] /\ arrived'[d] = arrived[d]
  BY <1>1, <1>3 DEF States
<1>5. /\ wire' \in [Connection -> Seq(Token)]
      /\ \A d \in Connection : d # c => wire'[d] = wire[d]
      /\ Len(wire[c]) \in Nat /\ Len(wire[c]) >= 1 /\ Len(wire'[c]) = Len(wire[c]) - 1
      /\ \A i \in 1..Len(wire'[c]) : wire'[c][i] = wire[c][i + 1] /\ i + 1 \in 1..Len(wire[c])
      /\ \A d \in Connection : d # c => \A i, n, g : Complete(d, i, n, g)' <=> Complete(d, i, n, g)
  BY <1>1, WireTaken
<1> DEFINE Rest == OneFile /\ SenderKnown /\ OneTurn /\ OneContent /\ TailInv /\ QuietInv /\ SlotInv
<1>6. ASSUME c # conn \/ k # Chunks
      PROVE  SlotInv' /\ (Reporting' <=> Reporting)
  <2>1. PICK e : e = Progress(c, receiving[c], k)
    OBVIOUS
  <2>2. receiving[c] \in File /\ k \in Int
    BY <1>1, <1>2, <1>4 DEF TransferTypes
  <2>3. e \in Slot /\ e.conn = c
    BY <2>1, <2>2 DEF Slot, Progress
  <2>4. ~FinalSlot(e)
    BY <1>6, <2>1, <1>4 DEF Progress, FinalSlot, Final
  <2>5. posted' = posted \o <<e>>
    BY <2>1, <2>3, <1>1, <1>3, <1>4, AppendIsConcat
  <2> DEFINE t == <<e>>
  <2>6. t \in Seq(Slot) /\ posted' = posted \o t /\ \A i \in 1..Len(t) : ~FinalSlot(t[i]) /\ t[i].conn <= conn
    BY <2>3, <2>4, <2>5, <1>3
  <2> HIDE DEF t
  <2> QED  BY <2>6, <1>1, SlotsGained
<1>7. ASSUME c # conn
      PROVE  Rest'
  <2>1. /\ wire'[conn] = wire[conn] /\ spc'[conn] = spc[conn] /\ receiving'[conn] = receiving[conn]
        /\ counted'[conn] = counted[conn]
    BY <1>7, <1>1, <1>3, <1>4, <1>5
  <2> QED  BY <2>1, <1>1, <1>6, <1>7, ElsewhereTurn
<1>8. ASSUME c = conn
      PROVE  /\ Reads(conn) /\ Pending /\ ~Reporting
             /\ \A i \in 1..Len(wire'[conn]) : ~FileHeader(wire'[conn][i])
             /\ link[conn] = "up" => /\ \A s \in Sender : cpc[s] # "content"
                                     /\ Len(wire'[conn]) <= Chunks - k
  <2>1. Reads(conn) /\ Pending
    BY <1>1, <1>8 DEF Reads, Pending
  <2>2. ~Reporting
    BY <2>1, <1>2 DEF OneFile
  <2>3. \A i \in 1..Len(wire'[conn]) : ~FileHeader(wire'[conn][i])
    BY <2>1, <1>2, <1>5, <1>8 DEF OneFile
  <2>4. ASSUME link[conn] = "up"
        PROVE  /\ \A s \in Sender : cpc[s] # "content"
               /\ Len(wire'[conn]) <= Chunks - k
    <3>1. \A s \in Sender : cpc[s] # "content"
      BY <2>1, <2>4, <1>1, <1>2, <1>8 DEF TailInv
    <3>2. Len(wire[conn]) <= Chunks - counted[conn]
      BY <2>4, <1>1, <1>2, <1>8 DEF TailInv
    <3>3. Chunks \in Nat /\ counted[conn] \in Nat
      BY <1>3, CountsAssumption
    <3> QED  BY <3>1, <3>2, <3>3, <1>5, <1>8
  <2> QED  BY <2>1, <2>2, <2>3, <2>4
<1>9. ASSUME c = conn, k = Chunks
      PROVE  Rest'
  <2>1. spc'[conn] \notin {"open", "content"} /\ k \in Int
    BY <1>4, <1>9
  <2>2. posted' = Append(posted, Progress(conn, receiving[conn], k))
    BY <1>1, <1>4, <1>9
  <2>3. link[conn] = "up" => wire'[conn] = <<>> /\ \A s \in Sender : cpc[s] # "content"
    <3>1. wire'[conn] \in Seq(Token) /\ Chunks - k = 0
      BY <1>3, <1>4, <1>5, <1>9
    <3>2. Len(wire'[conn]) <= 0 => wire'[conn] = <<>>
      BY <3>1, EmptySeq
    <3> QED  BY <3>1, <3>2, <1>8, <1>9
  <2> HIDE DEF k
  <2> QED  BY <2>1, <2>2, <2>3, <1>1, <1>8, <1>9, EndTurn
<1>10. ASSUME c = conn, k # Chunks
       PROVE  Rest'
  <2>0. spc'[conn] = "content" /\ counted'[conn] = k /\ conn' = conn
    BY <1>1, <1>4, <1>10
  <2>1. Reads(conn)' /\ Pending' /\ SlotInv' /\ ~Reporting'
    BY <2>0, <1>6, <1>8, <1>10 DEF Reads, Pending
  <2>2. OneFile'
    BY <2>1, <1>1, <1>2, <1>8, <1>10 DEF OneFile, SlotInv
  <2>3. SenderKnown'
    <3>1. \A g : Knows(g)' <=> Knows(g)
      BY <1>1 DEF Knows, Waiting
    <3>2. receiving'[conn] = receiving[conn]
      BY <1>1
    <3> QED  BY <2>1, <3>1, <3>2, <1>1, <1>2, <1>8, <1>10 DEF SenderKnown, SlotInv
  <2>4. OneTurn' /\ OneContent'
    BY <2>1, <1>1, <1>2, <1>8, <1>10 DEF OneTurn, OneContent, Waiting
  <2>5. QuietInv'
    BY <2>1, <1>1, <1>2, <1>10 DEF QuietInv, Continues
  <2>6. TailInv'
    BY <2>0, <1>1, <1>8, <1>10 DEF TailInv
  <2> QED  BY <2>1, <2>2, <2>3, <2>4, <2>5, <2>6
<1>11. Rest'
  BY <1>7, <1>9, <1>10
<1>12. TransferTypes' /\ ConnectionInv'
  <2>1. TransferTypes'
    <3>1. \A d \in Connection : spc'[d] \in {"open", "content", "store"} => receiving'[d] \in File \ Urls
      BY <1>1, <1>2, <1>4 DEF TransferTypes
    <3> QED  BY <3>1, <1>1, <1>2, <1>4, <1>5, <1>11 DEF TransferTypes, States, SlotInv
  <2>2. ConnectionInv'
    <3>1. \A d \in Connection : d > conn => d # c
      BY <1>3 DEF Connection
    <3> QED  BY <3>1, <1>1, <1>2, <1>4, <1>5, <1>11 DEF ConnectionInv, SlotInv
  <2> QED  BY <2>1, <2>2
<1>13. WireInv'
  <2> SUFFICES ASSUME NEW d \in Connection, link'[d] # "broken"
               PROVE  FilesFollow(d)'
    BY DEF WireInv
  <2>0. FilesFollow(d)
    BY <1>1, <1>2 DEF WireInv
  <2>1. CASE d # c
    BY <2>0, <2>1, <1>1, <1>4, <1>5 DEF FilesFollow
  <2>2. CASE d = c
    <3>1. \A i \in 1..Len(wire'[c]) : FileHeader(wire'[c][i]) => Complete(c, i, Chunks, wire[c][i].file)'
      BY <2>0, <2>2, <1>1, HeadersTaken
    <3>0. PICK f, m : f = receiving[c] /\ m = Chunks - (counted[c] + 1)
      OBVIOUS
    <3>2. Head(wire[c]) = Chunk(f) /\ Complete(c, 0, m, f)'
      BY <2>0, <2>2, <3>0, <1>1, ChunkTaken
    <3>3. arrived[c] = counted[c] /\ counted[c] < Chunks /\ counted[c] \in Nat /\ Chunks \in Nat
      BY <2>0, <2>2, <1>1, <1>3, CountsAssumption DEF FilesFollow
    <3>4. arrived'[c] = k /\ counted'[c] = k /\ (k # Chunks => k < Chunks)
      BY <3>0, <3>2, <3>3, <1>4
    <3>5. Complete(c, 0, Chunks - counted[c], receiving[c])'
      <4>1. Chunks' - counted'[c] = m /\ receiving'[c] = f
        BY <3>0, <3>4, <1>1
      <4> QED  BY <3>2, <4>1
    <3> QED  BY <2>2, <3>1, <3>4, <3>5, <1>4 DEF FilesFollow
  <2> QED  BY <2>1, <2>2
<1> QED  BY <1>11, <1>12, <1>13 DEF TurnInv

\* The report goes from the slots of the wall to the events of the client.
LEMMA SendRecvProgressTurn ==
    ASSUME TurnInv, SendRecvProgress
    PROVE  TurnInv'
<1>0. PICK p : p = Head(posted)
  OBVIOUS
<1>1. /\ posted # <<>> /\ p.kind = "progress" /\ posted' = Tail(posted)
      /\ events' = IF p.conn = conn /\ msgUp THEN Append(events, Report(p.file, p.bytes)) ELSE events
      /\ UNCHANGED <<cpc, item, via, semaphore, conn, msgUp, launched, link, wire, spc, receiving,
                     counted, arrived>>
  BY <1>0 DEF SendRecvProgress, Runs, clientVars, serverVars, wallVars
<1>2. /\ TransferTypes /\ ConnectionInv /\ OneFile /\ SenderKnown
      /\ OneTurn /\ OneContent /\ WireInv /\ TailInv /\ QuietInv
  BY DEF TurnInv
<1>3. posted \in Seq(Slot) /\ events \in Seq(Event) /\ Len(events) \in Nat
  BY <1>2, LenProperties DEF TransferTypes
<1>4. /\ posted' \in Seq(Slot) /\ p = posted[1] /\ p \in Slot /\ 1 \in 1..Len(posted)
      /\ \A i \in 1..Len(posted') : posted'[i] = posted[i + 1] /\ i + 1 \in 1..Len(posted)
      /\ \A i \in 1..Len(posted) : i # 1 => i - 1 \in 1..Len(posted') /\ posted'[i - 1] = posted[i]
  BY <1>0, <1>1, <1>3, TailAt
<1>5. p.file \in File /\ p.bytes \in Int
  BY <1>1, <1>4 DEF Slot
<1>6. PICK e : e = Report(p.file, p.bytes)
  OBVIOUS
<1>7. e \in Event /\ e.file = p.file /\ (FinalEvent(e) <=> Final(p.bytes))
  BY <1>5, <1>6 DEF Event, Report, FinalEvent
<1>8. FinalSlot(p) <=> Final(p.bytes) /\ p.conn = conn /\ msgUp
  BY <1>1 DEF FinalSlot
<1>9. \A q : FinalSlot(q)' <=> FinalSlot(q)
  BY <1>1 DEF FinalSlot
\* The ends of files that are reported afterwards: this one, and the others as before.
<1>10. /\ events' \in Seq(Event)
       /\ \A i \in 1..Len(events') : FinalEvent(events'[i]) =>
            \/ i \in 1..Len(events) /\ events'[i] = events[i]
            \/ i = Len(events) + 1 /\ events'[i] = e /\ FinalSlot(p)
       /\ \A i \in 1..Len(events) : i \in 1..Len(events') /\ events'[i] = events[i]
       /\ FinalSlot(p) => \E i \in 1..Len(events') : FinalEvent(events'[i])
  <2>1. CASE p.conn = conn /\ msgUp
    <3>1. PICK r : r = Append(events, e)
      OBVIOUS
    <3>2. /\ r \in Seq(Event) /\ Len(r) = Len(events) + 1
          /\ \A i \in 1..Len(events) : r[i] = events[i]
          /\ r[Len(events) + 1] = e
          /\ \A i \in 1..Len(r) : i \in 1..Len(events) \/ i = Len(events) + 1
      BY <3>1, <1>3, <1>7, AppendAt
    <3>3. events' = r
      BY <2>1, <3>1, <1>1, <1>6
    <3>4. FinalEvent(e) => FinalSlot(p)
      BY <2>1, <1>7, <1>8
    <3>5. FinalSlot(p) => Len(events) + 1 \in 1..Len(r) /\ FinalEvent(r[Len(events) + 1])
      BY <3>2, <1>3, <1>7, <1>8
    <3> QED  BY <3>2, <3>3, <3>4, <3>5, <1>3
  <2>2. CASE ~(p.conn = conn /\ msgUp)
    BY <2>2, <1>1, <1>3, <1>8
  <2> QED  BY <2>1, <2>2
<1>11. FinalSlot(p) => /\ \A i \in 1..Len(events) : ~FinalEvent(events[i])
                       /\ \A i \in 1..Len(posted') : ~FinalSlot(posted'[i])
  <2>1. ASSUME FinalSlot(p), NEW i \in 1..Len(posted')
        PROVE  ~FinalSlot(posted'[i])
    <3>1. FinalSlot(posted'[i]) => i + 1 = 1
      BY <2>1, <1>2, <1>4 DEF OneFile
    <3> QED  BY <3>1
  <2> QED  BY <2>1, <1>2, <1>4 DEF OneFile
<1>12. /\ \A i \in 1..Len(posted') : FinalSlot(posted'[i]) => ~FinalSlot(p)
       /\ Reporting' <=> Reporting
  <2>1. \A i \in 1..Len(posted') : FinalSlot(posted'[i]) => ~FinalSlot(p)
    BY <1>11
  <2>2. ASSUME Reporting
        PROVE  Reporting'
    <3>1. CASE \E i \in 1..Len(events) : FinalEvent(events[i])
      BY <3>1, <1>10 DEF Reporting
    <3>2. CASE \E i \in 1..Len(posted) : FinalSlot(posted[i])
      BY <3>2, <1>4, <1>9, <1>10 DEF Reporting
    <3> QED  BY <2>2, <3>1, <3>2 DEF Reporting
  <2>3. ASSUME Reporting'
        PROVE  Reporting
    BY <2>3, <1>4, <1>9, <1>10 DEF Reporting
  <2> QED  BY <2>1, <2>2, <2>3
<1>13. Pending' <=> Pending
  BY <1>1 DEF Pending, Reads
<1>14. TransferTypes' /\ ConnectionInv'
  <2>1. TransferTypes'
    BY <1>1, <1>2, <1>4, <1>10 DEF TransferTypes
  <2>2. ~msgUp => \A i \in 1..Len(events') : ~FinalEvent(events'[i])
    BY <1>2, <1>8, <1>10 DEF ConnectionInv
  <2>3. ConnectionInv'
    BY <2>2, <1>1, <1>2, <1>4 DEF ConnectionInv
  <2> QED  BY <2>1, <2>3
<1>15. OneFile'
  <2>1. \A i, j \in 1..Len(events') : FinalEvent(events'[i]) /\ FinalEvent(events'[j]) => i = j
    BY <1>2, <1>10, <1>11 DEF OneFile
  <2>2. \A i, j \in 1..Len(posted') : FinalSlot(posted'[i]) /\ FinalSlot(posted'[j]) => i = j
    <3> TAKE i, j \in 1..Len(posted')
    <3>1. FinalSlot(posted'[i]) /\ FinalSlot(posted'[j]) => i + 1 = j + 1
      BY <1>2, <1>4 DEF OneFile
    <3> QED  BY <3>1
  <2>3. \A i \in 1..Len(events'), j \in 1..Len(posted') : ~(FinalEvent(events'[i]) /\ FinalSlot(posted'[j]))
    BY <1>2, <1>4, <1>10, <1>11 DEF OneFile
  <2>4. ~(Pending' /\ Reporting')
    BY <1>2, <1>12, <1>13 DEF OneFile
  <2> QED  BY <2>1, <2>2, <2>3, <2>4, <1>1, <1>2, <1>9 DEF OneFile, Reads
<1>16. SenderKnown'
  <2>1. \A g : Knows(g)' <=> Knows(g)
    BY <1>1 DEF Knows, Waiting
  <2>2. \A i \in 1..Len(events') : FinalEvent(events'[i]) => Knows(events'[i].file)
    BY <1>2, <1>4, <1>7, <1>10 DEF SenderKnown
  <2>3. \A i \in 1..Len(posted') : FinalSlot(posted'[i]) => Knows(posted'[i].file)
    BY <1>2, <1>4 DEF SenderKnown
  <2> QED  BY <2>1, <2>2, <2>3, <1>1, <1>2, <1>9 DEF SenderKnown, Reads
<1>17. OneTurn' /\ OneContent' /\ QuietInv'
  BY <1>1, <1>2, <1>12, <1>13 DEF OneTurn, OneContent, QuietInv, Continues, Waiting
<1>18. WireInv' /\ TailInv'
  BY <1>1, <1>2 DEF WireInv, FilesFollow, Complete, Follow, Awaits, Chunk, TailInv, Reads
<1> QED  BY <1>14, <1>15, <1>16, <1>17, <1>18 DEF TurnInv

\* Nothing has been sent at first.
LEMMA InitTurn ==
    ASSUME TransferInit
    PROVE  TurnInv
<1>1. /\ cpc = [s \in Sender |-> "idle"] /\ item = [s \in Sender |-> 1] /\ via = [s \in Sender |-> 1]
      /\ semaphore = 0 /\ events = <<>> /\ posted = <<>> /\ launched = <<>> /\ conn = 1 /\ msgUp = TRUE
      /\ link = [c \in Connection |-> IF c = 1 THEN "up" ELSE "none"]
      /\ wire = [c \in Connection |-> <<>>]
      /\ spc = [c \in Connection |-> IF c = 1 THEN "header" ELSE "none"]
      /\ receiving = [c \in Connection |-> NoFile]
      /\ counted = [c \in Connection |-> 0] /\ arrived = [c \in Connection |-> 0]
  BY DEF TransferInit
<1>2. /\ conn \in Connection /\ 1 \in 1..FilesPerDrop /\ FilesPerDrop \in Nat
      /\ \A c \in Connection : c \in Nat
  BY <1>1, CountsAssumption DEF Connection
<1>3. Len(events) = 0 /\ Len(posted) = 0 /\ Len(launched) = 0 /\ \A c \in Connection : Len(wire[c]) = 0
  BY <1>1
<1>4. \A c \in Connection : spc[c] \in {"header", "none"}
  BY <1>1
<1>5. ~Pending /\ ~Reporting /\ ~Reads(conn)
  BY <1>2, <1>3, <1>4 DEF Pending, Reporting, Reads
<1>6. TransferTypes
  <2>1. /\ events \in Seq(Event) /\ posted \in Seq(Slot) /\ launched \in Seq(Slot)
        /\ wire \in [Connection -> Seq(Token)]
    BY <1>1, EmptySeq
  <2> QED  BY <2>1, <1>1, <1>2, <1>3, <1>4 DEF TransferTypes
<1>7. ConnectionInv /\ OneFile /\ SenderKnown
  <2>1. ConnectionInv
    BY <1>1, <1>2, <1>3 DEF ConnectionInv
  <2> QED  BY <2>1, <1>2, <1>3, <1>5 DEF OneFile, SenderKnown
<1>8. OneTurn /\ OneContent /\ QuietInv
  BY <1>1, <1>2, <1>5 DEF OneTurn, OneContent, QuietInv
<1>9. WireInv /\ TailInv
  BY <1>1, <1>2, <1>3, <1>4 DEF WireInv, FilesFollow, TailInv, Reads
<1> QED  BY <1>6, <1>7, <1>8, <1>9 DEF TurnInv

\* Every step leaves at most one file on its way or reported.
LEMMA StepTurn ==
    ASSUME TurnInv, ~Mixes, [TransferNext]_transferVars
    PROVE  TurnInv'
<1>1. ASSUME NEW s \in Sender, Drop(s) \/ SenderStep(s)
      PROVE  TurnInv'
  BY <1>1, DropTurn, SendUrlTurn, SendHeaderTurn, SendContentTurn, AcquireTurn DEF SenderStep
<1>2. CASE ClientGui \/ Disconnect \/ Connect \/ Break
  BY <1>2, FileSendingBeginsTurn, ReadReportTurn, DisconnectTurn, ConnectTurn, BreakTurn DEF ClientGui
<1>3. ASSUME NEW c \in Connection, Server(c)
      PROVE  TurnInv'
  BY <1>3, RecvHeaderTurn, OpenFileTurn, RecvChunkTurn, RecvFailsTurn, SimpleServerTurn DEF Server
<1>4. CASE WallGui
  BY <1>4, SimpleServerTurn, SendRecvProgressTurn, SimpleGuiTurn DEF WallGui
<1>5. CASE OpenFiles \/ UseBrowser \/ UNCHANGED transferVars
  <2>1. UNCHANGED <<cpc, item, via, semaphore, conn, msgUp, events, posted, launched, link, wire,
                    spc, receiving, counted, arrived>>
    BY <1>5 DEF OpenFiles, UseBrowser, transferVars, clientVars, serverVars, wallVars
  <2> QED  BY <2>1, StillTurn
<1> QED  BY <1>1, <1>2, <1>3, <1>4, <1>5 DEF TransferNext

-------------------------------------------------------------------------------
(* The order of the files                                                    *)

\* The files of the invariant of the order are files of the client.
LEMMA OrderFiles ==
    ASSUME TurnInv
    PROVE  /\ Len(launched) \in Nat /\ Len(posted) \in Nat /\ \A c \in Connection : Len(wire[c]) \in Nat
           /\ \A i \in 1..Len(launched) : launched[i].kind = "launch" /\ launched[i].file \in File
           /\ \A i \in 1..Len(posted) : posted[i].kind = "launch" => posted[i].file \in File
           /\ \A c \in Connection : \A i \in 1..Len(wire[c]) : wire[c][i].file \in File
           /\ \A c \in Connection : InHand(c) => receiving[c] \in File
           /\ item \in [Sender -> 1 .. FilesPerDrop + 1] /\ FilesPerDrop \in Nat
<1>1. TransferTypes
  BY DEF TurnInv
<1>2. launched \in Seq(Slot) /\ posted \in Seq(Slot)
  BY <1>1 DEF TransferTypes
<1>3. \A e \in Slot : e.kind = "launch" => e.file \in File
  BY DEF Slot
<1>4. Len(launched) \in Nat /\ Len(posted) \in Nat /\ \A c \in Connection : Len(wire[c]) \in Nat
  BY <1>1, LenProperties DEF TransferTypes
<1>5. \A i \in 1..Len(launched) : launched[i] \in Slot
  BY <1>2, ElementOfSeq
<1>6. \A i \in 1..Len(posted) : posted[i] \in Slot
  BY <1>2, ElementOfSeq
<1>7. \A i \in 1..Len(launched) : launched[i].kind = "launch"
  BY <1>1 DEF TransferTypes
<1>8. \A c \in Connection : InHand(c) => receiving[c] \in File
  BY <1>1, FilesOf DEF InHand
<1>9. \A c \in Connection : \A i \in 1..Len(wire[c]) : wire[c][i].file \in File
  BY <1>1, FilesOf
<1>10. item \in [Sender -> 1 .. FilesPerDrop + 1] /\ FilesPerDrop \in Nat
  BY <1>1, CountsAssumption DEF TransferTypes
<1> QED  BY <1>3, <1>4, <1>5, <1>6, <1>7, <1>8, <1>9, <1>10

\* Where files only go, the others stay in their order.
LEMMA FewerOrdered ==
    ASSUME TurnInv, TurnInv', NEW c \in Connection, Ordered(c), NEW k \in Nat, NEW m \in Nat,
           launched' = launched,
           \A f \in File : Begun(f) => Begun(f)',
           \A i \in 1..Len(posted') : IsLaunch(posted'[i], c) => i + k \in 1..Len(posted) /\ posted'[i] = posted[i + k],
           \A i \in 1..Len(wire'[c]) : IsHeader(wire'[c][i]) => i + m \in 1..Len(wire[c]) /\ wire'[c][i] = wire[c][i + m],
           InHand(c)' => InHand(c) /\ receiving'[c] = receiving[c]
    PROVE  Ordered(c)'
<1>1. /\ Len(launched) \in Nat /\ Len(posted) \in Nat /\ Len(wire[c]) \in Nat
      /\ Len(launched') \in Nat /\ Len(posted') \in Nat /\ Len(wire'[c]) \in Nat
      /\ \A i \in 1..Len(launched) : launched[i].file \in File
      /\ \A i \in 1..Len(posted) : posted[i].kind = "launch" => posted[i].file \in File
      /\ \A i \in 1..Len(wire[c]) : wire[c][i].file \in File
      /\ InHand(c) => receiving[c] \in File
  <2>1. Len(launched') \in Nat /\ Len(posted') \in Nat /\ Len(wire'[c]) \in Nat
    BY LenProperties DEF TurnInv, TransferTypes
  <2> QED  BY <2>1, OrderFiles
<1>2. \A f \in File : BeforeRest(f, c) => BeforeRest(f, c)'
  <2> SUFFICES ASSUME NEW f \in File, BeforeRest(f, c)
               PROVE  BeforeRest(f, c)'
    OBVIOUS
  <2>1. InHand(c)' => Before(f, receiving'[c])
    BY DEF BeforeRest
  <2>2. ASSUME NEW j \in 1..Len(wire'[c]), IsHeader(wire'[c][j])
        PROVE  Before(f, wire'[c][j].file)
    BY <2>2 DEF BeforeRest
  <2> QED  BY <2>1, <2>2 DEF BeforeRest, Before, IsHeader
<1>3. \A i \in 1..Len(posted') : IsLaunch(posted'[i], c) => posted'[i].file \in File
  BY <1>1 DEF IsLaunch
<1>4. /\ \A i, j \in 1..Len(launched') : i < j /\ IsLaunch(launched'[i], c) /\ IsLaunch(launched'[j], c)
           => Before(launched'[i].file, launched'[j].file)
      /\ \A i \in 1..Len(launched') : IsLaunch(launched'[i], c) => BeforeRest(launched[i].file, c)'
  BY <1>1, <1>2 DEF Ordered
<1>5. /\ \A i \in 1..Len(launched'), j \in 1..Len(posted') :
           IsLaunch(launched'[i], c) /\ IsLaunch(posted'[j], c) => Before(launched'[i].file, posted'[j].file)
      /\ \A i \in 1..Len(posted') : IsLaunch(posted'[i], c) => BeforeRest(posted[i].file, c)'
  BY <1>2, <1>3 DEF Ordered
<1>6. ASSUME NEW i \in 1..Len(posted'), NEW j \in 1..Len(posted'), i < j, IsLaunch(posted'[i], c), IsLaunch(posted'[j], c)
      PROVE  Before(posted'[i].file, posted'[j].file)
  <2>1. /\ i + k \in 1..Len(posted) /\ posted'[i] = posted[i + k]
        /\ j + k \in 1..Len(posted) /\ posted'[j] = posted[j + k]
    BY <1>6
  <2>2. i + k < j + k
    BY <1>1, <1>6
  <2> QED  BY <2>1, <2>2, <1>6 DEF Ordered
<1>7. ASSUME NEW i \in 1..Len(wire'[c]), NEW j \in 1..Len(wire'[c]), i < j, IsHeader(wire'[c][i]), IsHeader(wire'[c][j])
      PROVE  Before(wire'[c][i].file, wire'[c][j].file)
  <2>1. /\ i + m \in 1..Len(wire[c]) /\ wire'[c][i] = wire[c][i + m]
        /\ j + m \in 1..Len(wire[c]) /\ wire'[c][j] = wire[c][j + m]
    BY <1>7
  <2>2. i + m < j + m
    BY <1>1, <1>7
  <2> QED  BY <2>1, <2>2, <1>7 DEF Ordered
<1>8. \A j \in 1..Len(wire'[c]) : IsHeader(wire'[c][j]) => Begun(wire[c][j].file)'
  BY <1>1 DEF Ordered
<1>9. InHand(c)' => /\ \A j \in 1..Len(wire'[c]) : IsHeader(wire'[c][j]) => Before(receiving'[c], wire'[c][j].file)
                    /\ Begun(receiving[c])'
  BY <1>1 DEF Ordered
<1> QED  BY <1>4, <1>5, <1>6, <1>7, <1>8, <1>9 DEF Ordered, Before, IsLaunch, IsHeader

\* A header is written behind all of the drop that is begun.
LEMMA SendOrdered ==
    ASSUME TurnInv, TurnInv', OrderInv, NEW s \in Sender, SendUrl(s) \/ SendHeader(s)
    PROVE  OrderInv'
<1>0. PICK f : f = <<s, item[s]>>
  OBVIOUS
<1>1. /\ cpc[s] = "begin" /\ Write(<<Header(f)>>)
      /\ UNCHANGED <<conn, launched, posted, spc, receiving>>
      /\ \/ /\ item' = [item EXCEPT ![s] = item[s] + 1]
            /\ cpc' = [cpc EXCEPT ![s] = IF item[s] < FilesPerDrop THEN "begin" ELSE "done"]
         \/ item' = item /\ cpc' = [cpc EXCEPT ![s] = "content"]
  BY <1>0 DEF SendUrl, SendHeader, NextItem, serverVars, wallVars
<1>2. TransferTypes /\ cpc \in [Sender -> {"idle", "begin", "content", "wait", "done"}] /\ conn \in Connection
  BY DEF TurnInv, TransferTypes
<1>3. item \in [Sender -> 1 .. FilesPerDrop + 1] /\ FilesPerDrop \in Nat /\ item[s] \in 1..FilesPerDrop
  BY <1>1, OrderFiles, Beginner
<1>4. f \in File /\ f[1] = s /\ f[2] = item[s]
  BY <1>0, <1>3 DEF File
<1>5. \A g \in File : g[1] \in Sender /\ g[2] \in Nat
  BY <1>3 DEF File
<1>6. /\ \A g \in File : Begun(g) => Begun(g)' /\ Before(g, f)
      /\ Begun(f)'
  <2>1. s \notin Waiting
    BY <1>1 DEF Waiting
  <2>2. ASSUME NEW g \in File, Begun(g)
        PROVE  Begun(g)' /\ Before(g, f)
    <3>1. Before(g, f)
      BY <2>1, <2>2, <1>4 DEF Begun, Before
    <3>2. CASE g[1] # s
      <4>1. item'[g[1]] = item[g[1]] /\ cpc'[g[1]] = cpc[g[1]]
        BY <3>2, <1>1, <1>2, <1>3, <1>5
      <4> QED  BY <4>1, <3>1, <2>2, <1>5 DEF Begun, Waiting
    <3>3. CASE g[1] = s
      <4>1. g[2] < item[s] /\ item[s] <= item'[s] /\ item[s] \in Nat /\ item'[s] \in Nat
        BY <3>1, <3>3, <1>1, <1>3, <1>4 DEF Before
      <4> QED  BY <4>1, <3>1, <3>3, <1>5 DEF Begun
    <3> QED  BY <3>1, <3>2, <3>3
  <2>3. Begun(f)'
    <3>1. CASE item' = [item EXCEPT ![s] = item[s] + 1]
      BY <3>1, <1>3, <1>4 DEF Begun
    <3>2. CASE item' = item /\ cpc' = [cpc EXCEPT ![s] = "content"]
      BY <3>2, <1>2, <1>4 DEF Begun, Waiting
    <3> QED  BY <3>1, <3>2, <1>1
  <2> QED  BY <2>2, <2>3
<1> SUFFICES ASSUME NEW c \in Connection
             PROVE  Ordered(c)'
  BY DEF OrderInv
<1>7. Ordered(c)
  BY DEF OrderInv
<1>8. InHand(c)' => InHand(c) /\ receiving'[c] = receiving[c]
  BY <1>1 DEF InHand
<1> DEFINE t == <<Header(f)>>
<1>9. t \in Seq(Token) /\ Len(t) = 1 /\ t[1] = Header(f)
  BY <1>4 DEF Token, Header
<1>10. Write(t)
  BY <1>1
<1> HIDE DEF t
<1>11. /\ \A d \in Connection : d # conn \/ link[conn] # "up" => wire'[d] = wire[d]
       /\ \A d \in Connection : Len(wire[d]) \in Nat
       /\ link[conn] = "up" =>
                /\ \A i \in 1..Len(wire[conn]) : wire'[conn][i] = wire[conn][i]
                /\ \A i \in 1..Len(wire'[conn]) :
                     i \in 1..Len(wire[conn])
                        \/ (i - Len(wire[conn]) \in 1..Len(t) /\ wire'[conn][i] = t[i - Len(wire[conn])])
  BY <1>2, <1>9, <1>10, Written
<1>12. CASE c # conn \/ link[conn] # "up"
  <2>1. wire'[c] = wire[c]
    BY <1>11, <1>12
  <2>2. /\ \A i \in 1..Len(posted') : IsLaunch(posted'[i], c) => i + 0 \in 1..Len(posted) /\ posted'[i] = posted[i + 0]
        /\ \A i \in 1..Len(wire'[c]) : IsHeader(wire'[c][i]) => i + 0 \in 1..Len(wire[c]) /\ wire'[c][i] = wire[c][i + 0]
    BY <2>1, <1>1
  <2> QED  BY <2>2, <1>1, <1>6, <1>7, <1>8, FewerOrdered
<1>13. CASE c = conn /\ link[conn] = "up"
  <2>1. \A i \in 1..Len(wire'[c]) : \/ i \in 1..Len(wire[c]) /\ wire'[c][i] = wire[c][i]
                                    \/ i = Len(wire[c]) + 1 /\ wire'[c][i].file = f
    BY <1>9, <1>11, <1>13 DEF Header
  <2>2. /\ \A i \in 1..Len(launched) : launched[i].file \in File
        /\ \A i \in 1..Len(posted) : IsLaunch(posted[i], c) => posted[i].file \in File
        /\ \A i \in 1..Len(wire[c]) : wire[c][i].file \in File
        /\ InHand(c) => receiving[c] \in File
        /\ Len(wire[c]) \in Nat
    BY OrderFiles DEF IsLaunch
  <2>3. ASSUME NEW g \in File, BeforeRest(g, c)
        PROVE  BeforeRest(g, c)'
    <3>1. Begun(g)' /\ Before(g, f)
      BY <2>3, <1>6 DEF BeforeRest
    <3>2. ASSUME NEW j \in 1..Len(wire'[c]), IsHeader(wire'[c][j])
          PROVE  Before(g, wire'[c][j].file)
      BY <3>1, <3>2, <2>1, <2>3 DEF BeforeRest
    <3> QED  BY <3>1, <3>2, <2>3, <1>1 DEF BeforeRest, Before, IsHeader, InHand
  <2>4. /\ \A i \in 1..Len(launched) : IsLaunch(launched[i], c) => BeforeRest(launched[i].file, c)'
        /\ \A i \in 1..Len(posted) : IsLaunch(posted[i], c) => BeforeRest(posted[i].file, c)'
    BY <2>2, <2>3, <1>1, <1>7 DEF Ordered
  <2>5. InHand(c) => /\ \A j \in 1..Len(wire'[c]) : IsHeader(wire'[c][j]) => Before(receiving[c], wire'[c][j].file)
                     /\ Begun(receiving[c])'
    <3> SUFFICES ASSUME InHand(c)
                 PROVE  /\ \A j \in 1..Len(wire'[c]) : IsHeader(wire'[c][j]) => Before(receiving[c], wire'[c][j].file)
                        /\ Begun(receiving[c])'
      OBVIOUS
    <3>0. PICK r : r = receiving[c]
      OBVIOUS
    <3>1. r \in File /\ Begun(r) /\ \A j \in 1..Len(wire[c]) : IsHeader(wire[c][j]) => Before(r, wire[c][j].file)
      BY <3>0, <2>2, <1>7 DEF Ordered
    <3>2. Begun(r)' /\ Before(r, f)
      BY <3>1, <1>6
    <3>3. \A j \in 1..Len(wire'[c]) : IsHeader(wire'[c][j]) => Before(r, wire'[c][j].file)
      BY <3>1, <3>2, <2>1
    <3>4. receiving'[c] = r
      BY <3>0, <1>1
    <3> QED  BY <3>0, <3>2, <3>3, <3>4
  <2>6. ASSUME NEW i \in 1..Len(wire'[c]), NEW j \in 1..Len(wire'[c]), i < j, IsHeader(wire'[c][i]), IsHeader(wire'[c][j])
        PROVE  Before(wire'[c][i].file, wire'[c][j].file)
    <3>0. i \in 1..Len(wire[c]) /\ wire'[c][i] = wire[c][i]
      <4>1. i # Len(wire[c]) + 1
        BY <2>1, <2>2, <2>6
      <4> QED  BY <4>1, <2>1
    <3>1. CASE j \in 1..Len(wire[c]) /\ wire'[c][j] = wire[c][j]
      BY <3>0, <3>1, <2>6, <1>7 DEF Ordered
    <3>2. CASE j = Len(wire[c]) + 1 /\ wire'[c][j].file = f
      <4>1. Begun(wire[c][i].file) /\ wire[c][i].file \in File
        BY <3>0, <2>2, <2>6, <1>7 DEF Ordered
      <4> QED  BY <4>1, <3>0, <3>2, <1>6
    <3> QED  BY <3>1, <3>2, <2>1
  <2>7. ASSUME NEW j \in 1..Len(wire'[c]), IsHeader(wire'[c][j])
        PROVE  Begun(wire[c][j].file)'
    <3>1. CASE j \in 1..Len(wire[c]) /\ wire'[c][j] = wire[c][j]
      <4>1. PICK g : g = wire[c][j].file
        OBVIOUS
      <4>2. g \in File /\ Begun(g)
        BY <4>1, <3>1, <2>2, <2>7, <1>7 DEF Ordered
      <4>3. Begun(g)' /\ wire'[c][j].file = g
        BY <4>1, <4>2, <3>1, <1>6
      <4> QED  BY <4>3
    <3>2. CASE wire'[c][j].file = f
      BY <3>2, <1>6
    <3> QED  BY <3>1, <3>2, <2>1
  <2> QED  BY ZenonT(60), <2>4, <2>5, <2>6, <2>7, <1>1, <1>7 DEF Ordered, Before, IsLaunch, IsHeader, InHand
<1> QED  BY <1>12, <1>13

\* A file that is handed over goes behind all that are posted.
LEMMA HandedOver ==
    ASSUME TurnInv, TurnInv', NEW c \in Connection, Ordered(c), UNCHANGED <<cpc, item, launched>>,
           NEW f \in File, NEW w \in BOOLEAN, posted' = posted \o <<Launch(c, f, w), Add(c, f)>>,
           NEW m \in Nat,
           \A i \in 1..Len(wire'[c]) : IsHeader(wire'[c][i]) => i + m \in 1..Len(wire[c]) /\ wire'[c][i] = wire[c][i + m],
           ~InHand(c)', Begun(f),
           \A g \in File : BeforeRest(g, c) => Before(g, f),
           \A i \in 1..Len(wire'[c]) : IsHeader(wire'[c][i]) => Before(f, wire'[c][i].file)
    PROVE  Ordered(c)'
<1>1. /\ Len(launched) \in Nat /\ Len(posted) \in Nat /\ Len(wire[c]) \in Nat
      /\ \A i \in 1..Len(launched) : launched[i].file \in File
      /\ \A i \in 1..Len(posted) : IsLaunch(posted[i], c) => posted[i].file \in File
      /\ \A i \in 1..Len(wire[c]) : wire[c][i].file \in File
  BY OrderFiles DEF IsLaunch
<1>2. Len(wire'[c]) \in Nat
  BY LenProperties DEF TurnInv, TransferTypes
<1>3. \A g : Begun(g)' <=> Begun(g)
  BY DEF Begun, Waiting
<1>4. \A g \in File : BeforeRest(g, c) => BeforeRest(g, c)'
  <2> SUFFICES ASSUME NEW g \in File, BeforeRest(g, c)
               PROVE  BeforeRest(g, c)'
    OBVIOUS
  <2>1. ASSUME NEW j \in 1..Len(wire'[c]), IsHeader(wire'[c][j])
        PROVE  Before(g, wire'[c][j].file)
    BY <2>1 DEF BeforeRest
  <2> QED  BY <2>1, <1>3 DEF BeforeRest, Before, IsHeader
<1>5. BeforeRest(f, c)'
  BY <1>3 DEF BeforeRest, Before, IsHeader
<1>6. /\ \A i \in 1..Len(posted) : posted'[i] = posted[i]
      /\ Len(posted') = Len(posted) + 2
      /\ posted'[Len(posted) + 1].file = f
      /\ ~IsLaunch(posted'[Len(posted) + 2], c)
  <2> DEFINE t == <<Launch(c, f, w), Add(c, f)>>
  <2>1. t \in Seq(Slot) /\ Len(t) = 2 /\ t[1] = Launch(c, f, w) /\ t[2] = Add(c, f)
    BY DEF Slot, Launch, Add
  <2>2. posted \in Seq(Slot) /\ posted' = posted \o t
    BY DEF TurnInv, TransferTypes
  <2> HIDE DEF t
  <2>3. Len(posted') = Len(posted) + 2 /\ \A i \in 1..Len(posted) : posted'[i] = posted[i]
    BY <2>1, <2>2, JoinAt
  <2>4. posted'[Len(posted) + 1] = t[1] /\ posted'[Len(posted) + 2] = t[2]
    <3>1. \A i \in 1..2 : posted'[Len(posted) + i] = t[i]
      BY <2>1, <2>2, JoinAt
    <3> QED  BY <3>1
  <2> QED  BY <2>1, <2>3, <2>4 DEF Launch, Add, IsLaunch
<1>7. \A j \in 1..Len(posted') : IsLaunch(posted'[j], c) =>
           \/ j \in 1..Len(posted) /\ posted'[j] = posted[j]
           \/ j = Len(posted) + 1 /\ posted'[j].file = f
  <2>1. \A j \in 1..Len(posted') : j \in 1..Len(posted) \/ j = Len(posted) + 1 \/ j = Len(posted) + 2
    BY <1>1, <1>6
  <2> QED  BY <2>1, <1>6
<1>8. /\ \A i, j \in 1..Len(launched) : i < j /\ IsLaunch(launched[i], c) /\ IsLaunch(launched[j], c)
           => Before(launched[i].file, launched[j].file)
      /\ \A i \in 1..Len(launched) : IsLaunch(launched[i], c) => BeforeRest(launched[i].file, c)'
  <2>1. \A i \in 1..Len(launched) : IsLaunch(launched[i], c) => BeforeRest(launched[i].file, c)
    BY DEF Ordered
  <2> QED  BY <2>1, <1>1, <1>4 DEF Ordered
<1>9. \A i \in 1..Len(launched), j \in 1..Len(posted') : IsLaunch(launched[i], c) /\ IsLaunch(posted'[j], c)
           => Before(launched[i].file, posted'[j].file)
  BY <1>1, <1>7 DEF Ordered
<1>10. ASSUME NEW i \in 1..Len(posted'), NEW j \in 1..Len(posted'), i < j, IsLaunch(posted'[i], c), IsLaunch(posted'[j], c)
       PROVE  Before(posted'[i].file, posted'[j].file)
  <2>1. i \in 1..Len(posted) /\ posted'[i] = posted[i]
    <3>1. i # Len(posted) + 1
      BY <1>1, <1>7, <1>10
    <3> QED  BY <3>1, <1>7, <1>10
  <2>2. CASE j \in 1..Len(posted) /\ posted'[j] = posted[j]
    BY <2>1, <2>2, <1>10 DEF Ordered
  <2>3. CASE j = Len(posted) + 1 /\ posted'[j].file = f
    <3>1. BeforeRest(posted[i].file, c) /\ posted[i].file \in File
      BY <2>1, <1>1, <1>10 DEF Ordered
    <3> QED  BY <3>1, <2>1, <2>3
  <2> QED  BY <2>2, <2>3, <1>7, <1>10
<1>11. ASSUME NEW i \in 1..Len(posted'), IsLaunch(posted'[i], c)
       PROVE  BeforeRest(posted[i].file, c)'
  <2>1. CASE i \in 1..Len(posted) /\ posted'[i] = posted[i]
    <3>1. PICK g : g = posted[i].file
      OBVIOUS
    <3>2. BeforeRest(g, c) /\ g \in File
      BY <3>1, <2>1, <1>1, <1>11 DEF Ordered
    <3>3. BeforeRest(g, c)' /\ posted'[i].file = g
      BY <3>1, <3>2, <2>1, <1>4
    <3> QED  BY <3>3
  <2>2. CASE posted'[i].file = f
    BY <2>2, <1>5
  <2> QED  BY <2>1, <2>2, <1>7, <1>11
<1>12. ASSUME NEW i \in 1..Len(wire'[c]), NEW j \in 1..Len(wire'[c]), i < j, IsHeader(wire'[c][i]), IsHeader(wire'[c][j])
       PROVE  Before(wire'[c][i].file, wire'[c][j].file)
  <2>1. /\ i + m \in 1..Len(wire[c]) /\ wire'[c][i] = wire[c][i + m]
        /\ j + m \in 1..Len(wire[c]) /\ wire'[c][j] = wire[c][j + m]
    BY <1>12
  <2>2. i + m < j + m
    BY <1>2, <1>12
  <2> QED  BY <2>1, <2>2, <1>12 DEF Ordered
<1>13. \A j \in 1..Len(wire'[c]) : IsHeader(wire'[c][j]) => Begun(wire[c][j].file)'
  BY <1>1, <1>3 DEF Ordered
<1> QED  BY ZenonT(60), <1>8, <1>9, <1>10, <1>11, <1>12, <1>13 DEF Ordered, Before, IsLaunch, IsHeader

\* A stored file was received after all that are posted.
LEMMA StoreOrdered ==
    ASSUME TurnInv, TurnInv', NEW c \in Connection, Ordered(c), Store(c)
    PROVE  Ordered(c)'
<1>1. /\ spc[c] = "store" /\ spc' = [spc EXCEPT ![c] = "header"]
      /\ UNCHANGED <<cpc, item, launched, wire, receiving>>
  BY DEF Store, clientVars, wallVars
<1>0. PICK f : f = receiving[c]
  OBVIOUS
<1>2. PICK w \in BOOLEAN : \/ posted' = posted
                           \/ posted' = posted \o <<Launch(c, f, w), Add(c, f)>>
  BY <1>0, Stored
<1>4. InHand(c) /\ ~InHand(c)'
  BY <1>1, Typed DEF InHand
<1>3. CASE posted' = posted
  <2>1. \A i \in 1..Len(posted') : IsLaunch(posted'[i], c) => i + 0 \in 1..Len(posted) /\ posted'[i] = posted[i + 0]
    <3>1. Len(posted) \in Nat
      BY LenProperties DEF TurnInv, TransferTypes
    <3> QED  BY <1>3, <3>1
  <2>2. \A i \in 1..Len(wire'[c]) : i + 0 \in 1..Len(wire[c]) /\ wire'[c][i] = wire[c][i + 0]
    BY <1>1
  <2>3. \A g \in File : Begun(g) => Begun(g)'
    BY <1>1 DEF Begun, Waiting
  <2>4. 0 \in Nat
    OBVIOUS
  <2> QED  BY <2>1, <2>2, <2>3, <2>4, <1>1, <1>4, FewerOrdered
<1>5. f \in File
  BY <1>0, <1>4, OrderFiles
<1>6. Begun(f) /\ \A i \in 1..Len(wire'[c]) : IsHeader(wire'[c][i]) => Before(f, wire'[c][i].file)
  BY <1>0, <1>1, <1>4 DEF Ordered
<1>7. \A g \in File : BeforeRest(g, c) => Before(g, f)
  BY <1>0, <1>4 DEF BeforeRest
<1>8. 0 \in Nat /\ \A i \in 1..Len(wire'[c]) :
        IsHeader(wire'[c][i]) => i + 0 \in 1..Len(wire[c]) /\ wire'[c][i] = wire[c][i + 0]
  BY <1>1
<1> QED  BY <1>1, <1>2, <1>3, <1>4, <1>5, <1>6, <1>7, <1>8, HandedOver

\* The next header was written after all that are posted.
LEMMA RecvHeaderOrdered ==
    ASSUME TurnInv, TurnInv', NEW c \in Connection, Ordered(c), RecvHeader(c)
    PROVE  Ordered(c)'
<1>0. PICK f : f = Head(wire[c]).file
  OBVIOUS
<1>1. /\ spc[c] = "header" /\ wire[c] # <<>> /\ Head(wire[c]).kind = "header"
      /\ wire' = [wire EXCEPT ![c] = Tail(wire[c])]
      /\ receiving' = [receiving EXCEPT ![c] = f]
      /\ \/ f \in Urls /\ posted' = posted \o <<Launch(c, f, TRUE), Add(c, f)>> /\ UNCHANGED spc
         \/ posted' = posted /\ spc' = [spc EXCEPT ![c] = "open"]
      /\ UNCHANGED <<cpc, item, via, conn, link, launched>>
  BY <1>0 DEF RecvHeader, clientVars, wallVars
<1>2. /\ Len(wire[c]) \in Nat /\ Len(wire[c]) >= 1 /\ Len(wire'[c]) = Len(wire[c]) - 1
      /\ Head(wire[c]) = wire[c][1]
      /\ \A i \in 1..Len(wire'[c]) : wire'[c][i] = wire[c][i + 1] /\ i + 1 \in 1..Len(wire[c])
  BY <1>1, WireTaken
<1>3. f = wire[c][1].file /\ IsHeader(wire[c][1]) /\ 1 \in 1..Len(wire[c]) /\ f \in File
  BY <1>0, <1>1, <1>2, OrderFiles DEF IsHeader
<1>4. Begun(f) /\ \A i \in 1..Len(wire'[c]) : IsHeader(wire'[c][i]) => Before(f, wire'[c][i].file)
  <2>1. ASSUME NEW i \in 1..Len(wire'[c]), IsHeader(wire'[c][i])
        PROVE  Before(f, wire'[c][i].file)
    <3>1. 1 < i + 1 /\ i + 1 \in 1..Len(wire[c]) /\ IsHeader(wire[c][i + 1]) /\ wire'[c][i] = wire[c][i + 1]
      BY <1>2, <2>1 DEF IsHeader
    <3> QED  BY <3>1, <1>3 DEF Ordered
  <2> QED  BY <2>1, <1>3 DEF Ordered
<1>5. \A g \in File : BeforeRest(g, c) => Before(g, f)
  BY <1>3 DEF BeforeRest
<1>6. ~InHand(c)
  BY <1>1 DEF InHand
<1>7. \A i \in 1..Len(wire'[c]) : IsHeader(wire'[c][i]) => i + 1 \in 1..Len(wire[c]) /\ wire'[c][i] = wire[c][i + 1]
  BY <1>2
<1>8. CASE f \in Urls /\ posted' = posted \o <<Launch(c, f, TRUE), Add(c, f)>> /\ UNCHANGED spc
  <2>1. ~InHand(c)' /\ 1 \in Nat /\ TRUE \in BOOLEAN
    BY <1>6, <1>8 DEF InHand
  <2> QED  BY <2>1, <1>1, <1>3, <1>4, <1>5, <1>7, <1>8, HandedOver
<1>9. CASE posted' = posted /\ spc' = [spc EXCEPT ![c] = "open"]
  <2>1. receiving'[c] = f
    BY <1>1 DEF TurnInv, TransferTypes
  <2>2. \A g : Begun(g)' <=> Begun(g)
    BY <1>1 DEF Begun, Waiting
  <2>3. ASSUME NEW g \in File, BeforeRest(g, c)
        PROVE  BeforeRest(g, c)'
    <3>1. \A j \in 1..Len(wire'[c]) : IsHeader(wire'[c][j]) => Before(g, wire'[c][j].file)
      BY <2>3, <1>2 DEF BeforeRest
    <3>2. Before(g, f) /\ Begun(g)'
      BY <2>2, <2>3, <1>5 DEF BeforeRest
    <3> QED  BY <3>1, <3>2, <2>1 DEF BeforeRest, Before, IsHeader
  <2>4. /\ \A i \in 1..Len(launched) : launched[i].file \in File
        /\ \A i \in 1..Len(posted) : IsLaunch(posted[i], c) => posted[i].file \in File
    BY OrderFiles DEF IsLaunch
  <2>5. /\ \A i \in 1..Len(launched) : IsLaunch(launched[i], c) => BeforeRest(launched[i].file, c)'
        /\ \A i \in 1..Len(posted) : IsLaunch(posted[i], c) => BeforeRest(posted[i].file, c)'
    BY <2>3, <2>4, <1>1, <1>9 DEF Ordered
  <2>6. /\ \A j \in 1..Len(wire'[c]) : IsHeader(wire'[c][j]) => Before(receiving'[c], wire'[c][j].file)
        /\ Begun(receiving[c])'
    BY <2>1, <2>2, <1>4
  <2>7. ASSUME NEW i \in 1..Len(wire'[c]), NEW j \in 1..Len(wire'[c]), i < j, IsHeader(wire'[c][i]), IsHeader(wire'[c][j])
        PROVE  Before(wire'[c][i].file, wire'[c][j].file)
    <3>1. /\ i + 1 \in 1..Len(wire[c]) /\ wire'[c][i] = wire[c][i + 1]
          /\ j + 1 \in 1..Len(wire[c]) /\ wire'[c][j] = wire[c][j + 1]
          /\ i + 1 < j + 1
      BY <2>7, <1>2
    <3> QED  BY <3>1, <2>7 DEF Ordered
  <2>8. \A j \in 1..Len(wire'[c]) : IsHeader(wire'[c][j]) => Begun(wire[c][j].file)'
    BY <2>2, <1>2 DEF Ordered
  <2> QED  BY ZenonT(60), <2>5, <2>6, <2>7, <2>8, <1>1, <1>9 DEF Ordered, Before, IsLaunch, IsHeader
<1> QED  BY <1>1, <1>8, <1>9

\* The first file that is posted is launched.
LEMMA LaunchOrdered ==
    ASSUME TurnInv, NEW c \in Connection, Ordered(c), LaunchReceived
    PROVE  Ordered(c)'
<1>0. PICK p : p = Head(posted)
  OBVIOUS
<1>1. /\ posted # <<>> /\ p.kind = "launch" /\ posted' = Tail(posted) /\ launched' = Append(launched, p)
      /\ UNCHANGED <<cpc, item, spc, receiving, wire>>
  BY <1>0 DEF LaunchReceived, Runs, clientVars, serverVars
<1>2. posted \in Seq(Slot) /\ launched \in Seq(Slot) /\ Len(launched) \in Nat
  BY Typed, LenProperties
<1>3. /\ posted' \in Seq(Slot) /\ p = posted[1] /\ p \in Slot /\ 1 \in 1..Len(posted) /\ Len(posted) \in Nat
      /\ \A i \in 1..Len(posted') : posted'[i] = posted[i + 1] /\ i + 1 \in 1..Len(posted)
  BY <1>0, <1>1, <1>2, TailAt
<1>4. /\ Len(launched') = Len(launched) + 1
      /\ \A i \in 1..Len(launched') : \/ i \in 1..Len(launched) /\ launched'[i] = launched[i]
                                      \/ i = Len(launched) + 1 /\ launched'[i] = p
  <2>1. PICK r : r = Append(launched, p)
    OBVIOUS
  <2>2. /\ Len(r) = Len(launched) + 1
        /\ \A i \in 1..Len(launched) : r[i] = launched[i]
        /\ r[Len(launched) + 1] = p
        /\ \A i \in 1..Len(r) : i \in 1..Len(launched) \/ i = Len(launched) + 1
    BY <2>1, <1>2, <1>3, AppendAt
  <2> QED  BY <2>1, <2>2, <1>1
<1>5. \A f : BeforeRest(f, c)' <=> BeforeRest(f, c)
  BY <1>1 DEF BeforeRest, Begun, Waiting, InHand
<1>6. ASSUME NEW i \in 1..Len(launched'), NEW j \in 1..Len(launched'), i < j,
             IsLaunch(launched'[i], c), IsLaunch(launched'[j], c)
      PROVE  Before(launched'[i].file, launched'[j].file)
  <2>1. i \in 1..Len(launched) /\ launched'[i] = launched[i]
    BY <1>2, <1>4, <1>6
  <2>2. CASE j \in 1..Len(launched) /\ launched'[j] = launched[j]
    BY <2>1, <2>2, <1>6 DEF Ordered
  <2>3. CASE launched'[j] = p
    BY <2>1, <2>3, <1>3, <1>6 DEF Ordered
  <2> QED  BY <2>2, <2>3, <1>4
<1>7. ASSUME NEW i \in 1..Len(launched'), NEW j \in 1..Len(posted'), IsLaunch(launched'[i], c), IsLaunch(posted'[j], c)
      PROVE  Before(launched'[i].file, posted'[j].file)
  <2>1. posted'[j] = posted[j + 1] /\ j + 1 \in 1..Len(posted) /\ 1 < j + 1
    BY <1>3
  <2>2. CASE i \in 1..Len(launched) /\ launched'[i] = launched[i]
    BY <2>1, <2>2, <1>7 DEF Ordered
  <2>3. CASE launched'[i] = p
    BY <2>1, <2>3, <1>3, <1>7 DEF Ordered
  <2> QED  BY <2>2, <2>3, <1>4
<1>8. ASSUME NEW i \in 1..Len(posted'), NEW j \in 1..Len(posted'), i < j, IsLaunch(posted'[i], c), IsLaunch(posted'[j], c)
      PROVE  Before(posted'[i].file, posted'[j].file)
  <2>1. /\ posted'[i] = posted[i + 1] /\ i + 1 \in 1..Len(posted)
        /\ posted'[j] = posted[j + 1] /\ j + 1 \in 1..Len(posted) /\ i + 1 < j + 1
    BY <1>3, <1>8
  <2> QED  BY <2>1, <1>8 DEF Ordered
<1>9. ASSUME NEW i \in 1..Len(launched'), IsLaunch(launched'[i], c)
      PROVE  BeforeRest(launched'[i].file, c)
  BY <1>3, <1>4, <1>9 DEF Ordered
<1>10. ASSUME NEW i \in 1..Len(posted'), IsLaunch(posted'[i], c)
       PROVE  BeforeRest(posted'[i].file, c)
  BY <1>3, <1>10 DEF Ordered
<1>11. /\ \A i \in 1..Len(launched') : IsLaunch(launched'[i], c) => BeforeRest(launched[i].file, c)'
       /\ \A i \in 1..Len(posted') : IsLaunch(posted'[i], c) => BeforeRest(posted[i].file, c)'
  <2>1. ASSUME NEW i \in 1..Len(launched'), IsLaunch(launched'[i], c)
        PROVE  BeforeRest(launched[i].file, c)'
    <3>1. PICK g : g = launched'[i].file
      OBVIOUS
    <3>2. BeforeRest(g, c)'
      BY <3>1, <2>1, <1>5, <1>9
    <3> QED  BY <3>1, <3>2
  <2>2. ASSUME NEW i \in 1..Len(posted'), IsLaunch(posted'[i], c)
        PROVE  BeforeRest(posted[i].file, c)'
    <3>1. PICK g : g = posted'[i].file
      OBVIOUS
    <3>2. BeforeRest(g, c)'
      BY <3>1, <2>2, <1>5, <1>10
    <3> QED  BY <3>1, <3>2
  <2> QED  BY <2>1, <2>2
<1>12. /\ InHand(c)' => /\ \A j \in 1..Len(wire'[c]) : IsHeader(wire'[c][j]) => Before(receiving'[c], wire'[c][j].file)
                        /\ Begun(receiving[c])'
       /\ \A i, j \in 1..Len(wire'[c]) : i < j /\ IsHeader(wire'[c][i]) /\ IsHeader(wire'[c][j])
            => Before(wire'[c][i].file, wire'[c][j].file)
       /\ \A j \in 1..Len(wire'[c]) : IsHeader(wire'[c][j]) => Begun(wire[c][j].file)'
  BY <1>1 DEF Ordered, InHand, Begun, Waiting
<1> QED  BY <1>6, <1>7, <1>8, <1>11, <1>12 DEF Ordered, Before, IsLaunch, IsHeader

\* The steps of the client that neither write nor go on leave the files where they are.
LEMMA ClientOrdered ==
    ASSUME TurnInv, TurnInv', OrderInv,
           UNCHANGED <<launched, posted, receiving>>,
           \A f \in File : Begun(f) => Begun(f)',
           \A c \in Connection : InHand(c)' => InHand(c),
           \A c \in Connection : \A i \in 1..Len(wire'[c]) : IsHeader(wire'[c][i]) =>
               i \in 1..Len(wire[c]) /\ wire'[c][i] = wire[c][i]
    PROVE  OrderInv'
<1> SUFFICES ASSUME NEW c \in Connection
             PROVE  Ordered(c)'
  BY DEF OrderInv
<1>1. Ordered(c)
  BY DEF OrderInv
<1>2. /\ \A i \in 1..Len(posted') : IsLaunch(posted'[i], c) => i + 0 \in 1..Len(posted) /\ posted'[i] = posted[i + 0]
      /\ \A i \in 1..Len(wire'[c]) : IsHeader(wire'[c][i]) => i + 0 \in 1..Len(wire[c]) /\ wire'[c][i] = wire[c][i + 0]
  <2>1. Len(posted') \in Nat /\ Len(wire'[c]) \in Nat
    BY LenProperties DEF TurnInv, TransferTypes
  <2> QED  BY <2>1
<1> QED  BY <1>1, <1>2, FewerOrdered

\* The steps of the wall that hand over no file.
LEMMA WallOrdered ==
    ASSUME TurnInv, TurnInv', NEW c \in Connection, Ordered(c), NEW k \in {0, 1}, NEW m \in {0, 1},
           UNCHANGED <<cpc, item, launched>>,
           \A i \in 1..Len(posted') : IsLaunch(posted'[i], c) => i + k \in 1..Len(posted) /\ posted'[i] = posted[i + k],
           \A i \in 1..Len(wire'[c]) : i + m \in 1..Len(wire[c]) /\ wire'[c][i] = wire[c][i + m],
           InHand(c)' => InHand(c) /\ receiving'[c] = receiving[c]
    PROVE  Ordered(c)'
<1>1. \A f \in File : Begun(f) => Begun(f)'
  BY DEF Begun, Waiting
<1>2. k \in Nat /\ m \in Nat
  OBVIOUS
<1> QED  BY <1>1, <1>2, FewerOrdered

\* What is posted besides files.
LEMMA NoLaunch ==
    ASSUME TurnInv, NEW e \in Slot, e.kind # "launch", posted' = Append(posted, e)
    PROVE  \A c \in Connection : \A i \in 1..Len(posted') : IsLaunch(posted'[i], c) =>
               i + 0 \in 1..Len(posted) /\ posted'[i] = posted[i + 0]
<1>1. PICK r : r = Append(posted, e)
  OBVIOUS
<1>2. posted \in Seq(Slot)
  BY Typed
<1>3. /\ Len(posted) \in Nat /\ Len(r) = Len(posted) + 1
      /\ \A i \in 1..Len(posted) : r[i] = posted[i]
      /\ r[Len(posted) + 1] = e
      /\ \A i \in 1..Len(r) : i \in 1..Len(posted) \/ i = Len(posted) + 1
  BY <1>1, <1>2, AppendAt
<1> QED  BY <1>1, <1>3 DEF IsLaunch

\* The content of a file brings no header.
LEMMA ContentWritten ==
    ASSUME TurnInv, NEW s \in Sender, SendContent(s)
    PROVE  \A c \in Connection : \A i \in 1..Len(wire'[c]) : IsHeader(wire'[c][i]) =>
               i \in 1..Len(wire[c]) /\ wire'[c][i] = wire[c][i]
<1>0. PICK f : f = <<s, item[s]>>
  OBVIOUS
<1> DEFINE t == [i \in 1..Chunks |-> Chunk(f)]
<1>1. cpc[s] = "content" /\ Write(t)
  BY <1>0 DEF SendContent
<1>2. f \in File
  <2>1. item[s] \in 1..FilesPerDrop
    BY <1>1, CountsAssumption DEF TurnInv, TransferTypes
  <2> QED  BY <2>1, <1>0 DEF File
<1>3. /\ t \in Seq(Token) /\ Len(t) = Chunks /\ \A i \in 1..Chunks : ~IsHeader(t[i])
  <2>1. Chunk(f) \in Token /\ Chunks \in Nat /\ ~IsHeader(Chunk(f))
    BY <1>2, CountsAssumption DEF Token, Chunk, IsHeader
  <2>2. t \in [1..Chunks -> Token]
    BY <2>1
  <2>3. t \in Seq(Token)
    BY <2>1, <2>2, IsASeq
  <2> QED  BY <2>1, <2>2, <2>3, LenProperties
<1>4. TransferTypes /\ conn \in Connection
  BY DEF TurnInv, TransferTypes
<1> HIDE DEF t
<1>5. /\ \A c \in Connection : c # conn \/ link[conn] # "up" => wire'[c] = wire[c]
      /\ link[conn] = "up" =>
           /\ \A i \in 1..Len(wire[conn]) : wire'[conn][i] = wire[conn][i]
           /\ \A i \in 1..Len(wire'[conn]) :
                i \in 1..Len(wire[conn])
                   \/ (i - Len(wire[conn]) \in 1..Len(t) /\ wire'[conn][i] = t[i - Len(wire[conn])])
  BY <1>1, <1>3, <1>4, Written
<1> SUFFICES ASSUME NEW c \in Connection
             PROVE  \A i \in 1..Len(wire'[c]) : IsHeader(wire'[c][i]) =>
                        i \in 1..Len(wire[c]) /\ wire'[c][i] = wire[c][i]
  OBVIOUS
<1>6. CASE c # conn \/ link[conn] # "up"
  BY <1>5, <1>6
<1>7. CASE c = conn /\ link[conn] = "up"
  BY <1>3, <1>5, <1>7
<1> QED  BY <1>6, <1>7

\* The steps of the client that write no header: the GUI thread and the connection.
LEMMA ClientOrder ==
    ASSUME TurnInv, TurnInv', OrderInv, OpenFiles \/ ClientGui \/ Disconnect \/ Connect \/ Break \/ UseBrowser
    PROVE  OrderInv'
<1>1. UNCHANGED <<cpc, item, launched, posted, receiving>>
  BY DEF OpenFiles, ClientGui, FileSendingBegins, ReadReport, Disconnect, Connect, Break, UseBrowser,
         clientVars, serverVars, wallVars
<1>2. \A f \in File : Begun(f) => Begun(f)'
  BY <1>1 DEF Begun, Waiting
<1>3. \A c \in Connection : InHand(c)' => InHand(c)
  <2>1. CASE Connect
    <3>1. spc' = [spc EXCEPT ![conn'] = "accept"]
      BY <2>1 DEF Connect
    <3>2. \A c \in Connection : spc'[c] = spc[c] \/ spc'[c] = "accept"
      BY <3>1, Typed
    <3> QED  BY <3>2 DEF InHand
  <2>2. CASE OpenFiles \/ ClientGui \/ Disconnect \/ Break \/ UseBrowser
    <3>1. spc' = spc
      BY <2>2 DEF OpenFiles, ClientGui, FileSendingBegins, ReadReport, Disconnect, Break, UseBrowser, serverVars
    <3> QED  BY <3>1 DEF InHand
  <2> QED  BY <2>1, <2>2
<1>4. \A c \in Connection : \A i \in 1..Len(wire'[c]) : IsHeader(wire'[c][i]) =>
          i \in 1..Len(wire[c]) /\ wire'[c][i] = wire[c][i]
  <2>1. CASE Break
    <3>1. TransferTypes
      BY DEF TurnInv
    <3> QED  BY <2>1, <3>1, WireBroken
  <2>2. CASE OpenFiles \/ ClientGui \/ Disconnect \/ Connect \/ UseBrowser
    <3>1. wire' = wire
      BY <2>2 DEF OpenFiles, ClientGui, FileSendingBegins, ReadReport, Disconnect, Connect, UseBrowser
    <3> QED  BY <3>1
  <2> QED  BY <2>1, <2>2
<1> QED  BY <1>1, <1>2, <1>3, <1>4, ClientOrdered

\* The steps of the sending threads that write no header.
LEMMA SenderOrder ==
    ASSUME TurnInv, TurnInv', OrderInv, NEW s \in Sender, Drop(s) \/ SendContent(s) \/ Acquire(s)
    PROVE  OrderInv'
<1>1. UNCHANGED <<launched, posted, receiving, spc>>
  BY DEF Drop, SendContent, Acquire, serverVars, wallVars
<1>2. \A f \in File : Begun(f) => Begun(f)'
  <2>1. /\ cpc \in [Sender -> {"idle", "begin", "content", "wait", "done"}]
        /\ item \in [Sender -> 1 .. FilesPerDrop + 1] /\ FilesPerDrop \in Nat
    BY OrderFiles DEF TurnInv, TransferTypes
  <2>2. \A f \in File : f[1] \in Sender /\ f[2] \in Nat
    BY <2>1 DEF File
  <2>3. CASE Drop(s)
    <3>1. item' = item /\ cpc[s] = "idle" /\ cpc' = [cpc EXCEPT ![s] = "begin"]
      BY <2>3 DEF Drop
    <3> QED  BY <3>1, <2>1 DEF Begun, Waiting
  <2>4. CASE SendContent(s)
    <3>1. item' = item /\ cpc[s] = "content" /\ cpc' = [cpc EXCEPT ![s] = "wait"]
      BY <2>4 DEF SendContent
    <3> QED  BY <3>1, <2>1 DEF Begun, Waiting
  <2>5. CASE Acquire(s)
    <3>1. /\ item' = [item EXCEPT ![s] = item[s] + 1]
          /\ \E v \in {"begin", "done"} : cpc' = [cpc EXCEPT ![s] = v]
      BY <2>5 DEF Acquire, NextItem
    <3>2. /\ item'[s] = item[s] + 1 /\ item[s] \in Nat
          /\ \A u \in Sender : u # s => item'[u] = item[u] /\ cpc'[u] = cpc[u]
      BY <3>1, <2>1
    <3> SUFFICES ASSUME NEW f \in File, Begun(f)
                 PROVE  Begun(f)'
      OBVIOUS
    <3>3. CASE f[1] = s
      BY <3>2, <3>3, <2>2 DEF Begun
    <3>4. CASE f[1] # s
      BY <3>2, <3>4, <2>2 DEF Begun, Waiting
    <3> QED  BY <3>3, <3>4
  <2> QED  BY <2>3, <2>4, <2>5
<1>3. \A c \in Connection : InHand(c)' => InHand(c)
  BY <1>1 DEF InHand
<1>4. \A c \in Connection : \A i \in 1..Len(wire'[c]) : IsHeader(wire'[c][i]) =>
          i \in 1..Len(wire[c]) /\ wire'[c][i] = wire[c][i]
  <2>1. CASE SendContent(s)
    BY <2>1, ContentWritten
  <2>2. CASE Drop(s) \/ Acquire(s)
    <3>1. wire' = wire
      BY <2>2 DEF Drop, Acquire
    <3> QED  BY <3>1
  <2> QED  BY <2>1, <2>2
<1> QED  BY <1>1, <1>2, <1>3, <1>4, ClientOrdered

\* What a thread of the wall posts: files only when it hands one over, whole ones unless
\* the connection broke.
LEMMA ServerPosts ==
    ASSUME TurnInv, NEW c \in Connection, Server(c)
    PROVE  /\ \A i \in 1..Len(posted) : i \in 1..Len(posted') /\ posted'[i] = posted[i]
           /\ \A i \in 1..Len(posted') :
                \/ i \in 1..Len(posted) /\ posted'[i] = posted[i]
                \/ posted'[i].kind # "launch"
                \/ /\ RecvHeader(c) \/ Store(c)
                   /\ posted'[i].conn = c
                   /\ posted'[i].whole \/ link[c] = "broken" \/ posted'[i].file \in unstored'
           /\ Disconnected(c) => \E i \in 1..Len(posted') : posted'[i] = Finished(c)
<1> DEFINE Right(e) == \/ e.kind # "launch"
                       \/ /\ (RecvHeader(c) \/ Store(c)) /\ e.conn = c
                          /\ e.whole \/ link[c] = "broken" \/ e.file \in unstored'
<1>1. TransferTypes /\ WireInv /\ posted \in Seq(Slot) /\ Len(posted) \in Nat
  BY LenProperties DEF TurnInv, TransferTypes
<1>2. \E t \in Seq(Slot) : /\ posted' = posted \o t
                           /\ \A i \in 1..Len(t) : Right(t[i])
                           /\ Disconnected(c) => 1 \in 1..Len(t) /\ t[1] = Finished(c)
  <2>1. ASSUME NEW f \in File, NEW w \in BOOLEAN, posted' = posted \o <<Launch(c, f, w), Add(c, f)>>,
               RecvHeader(c) \/ Store(c), w \/ link[c] = "broken" \/ f \in unstored', ~Disconnected(c)
        PROVE  \E t \in Seq(Slot) : /\ posted' = posted \o t
                                    /\ \A i \in 1..Len(t) : Right(t[i])
                                    /\ Disconnected(c) => 1 \in 1..Len(t) /\ t[1] = Finished(c)
    <3> DEFINE t == <<Launch(c, f, w), Add(c, f)>>
    <3>1. t \in Seq(Slot) /\ Len(t) = 2 /\ t[1] = Launch(c, f, w) /\ t[2] = Add(c, f)
      BY DEF Slot, Launch, Add
    <3>2. Right(Launch(c, f, w)) /\ Right(Add(c, f))
      BY <2>1 DEF Launch, Add
    <3>3. posted' = posted \o t
      BY <2>1
    <3> HIDE DEF t, Right
    <3>4. \A i \in 1..Len(t) : Right(t[i])
      <4>1. \A i \in 1..Len(t) : i = 1 \/ i = 2
        BY <3>1
      <4> QED  BY <3>1, <3>2, <4>1
    <3> QED  BY <2>1, <3>1, <3>3, <3>4
  <2>2. ASSUME NEW e \in Slot, e.kind # "launch", posted' = Append(posted, e),
               Disconnected(c) => e = Finished(c)
        PROVE  \E t \in Seq(Slot) : /\ posted' = posted \o t
                                    /\ \A i \in 1..Len(t) : Right(t[i])
                                    /\ Disconnected(c) => 1 \in 1..Len(t) /\ t[1] = Finished(c)
    <3> DEFINE t == <<e>>
    <3>1. t \in Seq(Slot) /\ Len(t) = 1 /\ t[1] = e
      OBVIOUS
    <3>2. posted' = posted \o t
      BY <2>2, <1>1, AppendIsConcat
    <3>3. Right(e)
      BY <2>2
    <3> HIDE DEF t, Right
    <3>4. \A i \in 1..Len(t) : i = 1
      BY <3>1
    <3>5. \A i \in 1..Len(t) : Right(t[i])
      BY <3>1, <3>3, <3>4
    <3>6. Disconnected(c) => 1 \in 1..Len(t) /\ t[1] = Finished(c)
      BY <2>2, <3>1
    <3> QED  BY <3>1, <3>2, <3>5, <3>6
  <2>3. ASSUME posted' = posted, ~Disconnected(c)
        PROVE  \E t \in Seq(Slot) : /\ posted' = posted \o t
                                    /\ \A i \in 1..Len(t) : Right(t[i])
                                    /\ Disconnected(c) => 1 \in 1..Len(t) /\ t[1] = Finished(c)
    <3> DEFINE t == <<>>
    <3>1. t \in Seq(Slot) /\ Len(t) = 0 /\ posted' = posted \o t
      BY <2>3, <1>1, EmptySeq, ConcatEmptySeq
    <3> HIDE DEF t, Right
    <3>2. \A i \in 1..Len(t) : Right(t[i])
      BY <3>1
    <3> QED  BY <2>3, <3>1, <3>2
  <2>4. CASE RecvHeader(c)
    <3>1. PICK f : f = Head(wire[c]).file
      OBVIOUS
    <3>2. ~Disconnected(c)
      BY <2>4 DEF RecvHeader, Disconnected
    <3>3. posted' = posted \/ posted' = posted \o <<Launch(c, f, TRUE), Add(c, f)>>
      BY <2>4, <3>1 DEF RecvHeader
    <3>4. f \in File
      <4>1. wire[c] \in Seq(Token) /\ wire[c] # <<>>
        BY <2>4, <1>1 DEF RecvHeader, TransferTypes
      <4>2. wire[c][1] = Head(wire[c]) /\ 1 \in 1..Len(wire[c])
        BY <4>1, TailAt
      <4> QED  BY <3>1, <4>2, OrderFiles
    <3> QED  BY <2>1, <2>3, <2>4, <3>2, <3>3, <3>4
  <2>5. CASE Store(c)
    <3>0. PICK f : f = receiving[c]
      OBVIOUS
    <3>1. PICK w \in BOOLEAN : /\ w \/ arrived[c] # Chunks \/ f \in unstored'
                              /\ \/ posted' = posted
                                 \/ posted' = posted \o <<Launch(c, f, w), Add(c, f)>>
      BY <2>5, <3>0, Stored
    <3>2. spc[c] = "store"
      BY <2>5 DEF Store
    <3>3. ~Disconnected(c) /\ f \in File
      BY <3>0, <3>2, <1>1 DEF Disconnected, TransferTypes
    <3>4. w \/ link[c] = "broken" \/ f \in unstored'
      BY <3>1, <3>2, <1>1 DEF WireInv, FilesFollow
    <3> QED  BY <2>1, <2>3, <2>5, <3>1, <3>3, <3>4
  <2>6. CASE Disconnected(c)
    <3>1. Finished(c) \in Slot /\ Finished(c).kind # "launch" /\ posted' = Append(posted, Finished(c))
      BY <2>6 DEF Disconnected, Slot, Finished
    <3> QED  BY <2>2, <3>1
  <2>7. ASSUME NEW n \in Int, posted' = Append(posted, Progress(c, receiving[c], n)), spc[c] = "content"
        PROVE  \E t \in Seq(Slot) : /\ posted' = posted \o t
                                    /\ \A i \in 1..Len(t) : Right(t[i])
                                    /\ Disconnected(c) => 1 \in 1..Len(t) /\ t[1] = Finished(c)
    <3>1. PICK e : e = Progress(c, receiving[c], n)
      OBVIOUS
    <3>2. receiving[c] \in File /\ ~Disconnected(c)
      BY <2>7, <1>1 DEF TransferTypes, Disconnected
    <3>3. e \in Slot /\ e.kind # "launch"
      BY <3>1, <3>2 DEF Slot, Progress
    <3>4. posted' = Append(posted, e)
      BY <2>7, <3>1
    <3> HIDE DEF Right
    <3> QED  BY <2>2, <3>2, <3>3, <3>4
  <2>8. CASE RecvChunk(c)
    <3>1. /\ spc[c] = "content" /\ posted' = Append(posted, Progress(c, receiving[c], counted'[c]))
          /\ counted' = [counted EXCEPT ![c] = counted[c] + 1]
      BY <2>8 DEF RecvChunk
    <3>2. counted'[c] \in Int
      BY <3>1, Typed
    <3> QED  BY <2>7, <3>1, <3>2
  <2>9. CASE RecvFails(c)
    <3>1. /\ spc[c] = "content" /\ posted' = Append(posted, Progress(c, receiving[c], Cancelled))
      BY <2>9 DEF RecvFails
    <3>2. Cancelled \in Int
      BY DEF Cancelled
    <3> QED  BY <2>7, <3>1, <3>2
  <2>10. CASE RecvGarbage(c) \/ OpenFile(c)
    <3>1. posted' = posted /\ ~Disconnected(c)
      BY <2>10 DEF RecvGarbage, OpenFile, Disconnected
    <3> QED  BY <2>3, <3>1
  <2> QED  BY <2>4, <2>5, <2>6, <2>8, <2>9, <2>10 DEF Server
<1>3. PICK t \in Seq(Slot) : /\ posted' = posted \o t
                             /\ \A i \in 1..Len(t) : Right(t[i])
                             /\ Disconnected(c) => 1 \in 1..Len(t) /\ t[1] = Finished(c)
  BY <1>2
<1>4. /\ Len(t) \in Nat /\ Len(posted') = Len(posted) + Len(t)
      /\ \A i \in 1..Len(posted) : posted'[i] = posted[i]
      /\ \A i \in 1..Len(t) : posted'[Len(posted) + i] = t[i]
      /\ \A i \in 1..Len(posted') : \/ i \in 1..Len(posted)
                                    \/ i - Len(posted) \in 1..Len(t) /\ posted'[i] = t[i - Len(posted)]
  BY <1>1, <1>3, JoinAt
<1>5. \A i \in 1..Len(posted') : \/ i \in 1..Len(posted) /\ posted'[i] = posted[i]
                                 \/ Right(posted'[i])
  <2> HIDE DEF Right
  <2> QED  BY <1>3, <1>4
<1>6. Disconnected(c) => Len(posted) + 1 \in 1..Len(posted') /\ posted'[Len(posted) + 1] = Finished(c)
  BY <1>1, <1>3, <1>4
<1>7. \A i \in 1..Len(posted) : i \in 1..Len(posted')
  BY <1>1, <1>4
<1> QED  BY <1>4, <1>5, <1>6, <1>7

\* The threads of the wall keep the order of their own connection and of the others.
LEMMA ServerOrder ==
    ASSUME TurnInv, TurnInv', OrderInv, NEW c \in Connection, Server(c)
    PROVE  OrderInv'
<1> SUFFICES ASSUME NEW d \in Connection
             PROVE  Ordered(d)'
  BY DEF OrderInv
<1>0. Ordered(d)
  BY DEF OrderInv
<1>1. UNCHANGED <<cpc, item, launched>>
  BY DEF Server, RecvHeader, RecvGarbage, Disconnected, OpenFile, RecvChunk, RecvFails, Store,
         clientVars, wallVars
<1>2. /\ wire \in [Connection -> Seq(Token)] /\ spc \in [Connection -> States]
      /\ receiving \in [Connection -> File \cup {NoFile}]
      /\ \A e \in Connection : Len(wire[e]) \in Nat
  BY Typed, OrderFiles DEF TurnInv, TransferTypes
<1>3. CASE d = c /\ (RecvHeader(c) \/ Store(c))
  BY <1>0, <1>3, RecvHeaderOrdered, StoreOrdered
<1>4. CASE ~(d = c /\ (RecvHeader(c) \/ Store(c)))
  <2>1. \A i \in 1..Len(posted') : IsLaunch(posted'[i], d) => i + 0 \in 1..Len(posted) /\ posted'[i] = posted[i + 0]
    <3>1. \A i \in 1..Len(posted') : IsLaunch(posted'[i], d) => i \in 1..Len(posted) /\ posted'[i] = posted[i]
      BY <1>4, ServerPosts DEF IsLaunch
    <3> QED  BY <3>1
  <2>2. \E m \in {0, 1} : \A i \in 1..Len(wire'[d]) : i + m \in 1..Len(wire[d]) /\ wire'[d][i] = wire[d][i + m]
    <3>1. CASE wire'[d] = wire[d]
      <4>1. \A i \in 1..Len(wire'[d]) : i + 0 \in 1..Len(wire[d]) /\ wire'[d][i] = wire[d][i + 0]
        BY <3>1, <1>2
      <4> QED  BY <4>1
    <3>2. CASE wire'[d] # wire[d]
      <4>1. /\ wire[d] # <<>> /\ d = c
            /\ wire' = [wire EXCEPT ![c] = Tail(wire[c])]
            /\ UNCHANGED <<cpc, item, via, conn, link>>
        BY <3>2, <1>2 DEF Server, RecvHeader, RecvGarbage, Disconnected, OpenFile, RecvChunk, RecvFails,
                          Store, clientVars
      <4>2. \A i \in 1..Len(wire'[d]) : wire'[d][i] = wire[d][i + 1] /\ i + 1 \in 1..Len(wire[d])
        BY <4>1, WireTaken
      <4> QED  BY <4>2
    <3> QED  BY <3>1, <3>2
  <2>3. InHand(d)' => InHand(d) /\ receiving'[d] = receiving[d]
    <3>1. CASE d = c
      BY <3>1, <1>2, <1>4 DEF Server, RecvGarbage, Disconnected, OpenFile, RecvChunk, RecvFails, InHand
    <3>2. CASE d # c
      <4>1. spc'[d] = spc[d] /\ receiving'[d] = receiving[d]
        BY <3>2, <1>2 DEF Server, RecvHeader, RecvGarbage, Disconnected, OpenFile, RecvChunk, RecvFails, Store
      <4> QED  BY <4>1 DEF InHand
    <3> QED  BY <3>1, <3>2
  <2> QED  BY <2>1, <2>2, <2>3, <1>0, <1>1, WallOrdered
<1> QED  BY <1>3, <1>4

\* The slots keep the order.
LEMMA GuiOrder ==
    ASSUME TurnInv, TurnInv', OrderInv, WallGui
    PROVE  OrderInv'
<1> SUFFICES ASSUME NEW d \in Connection
             PROVE  Ordered(d)'
  BY DEF OrderInv
<1>0. Ordered(d)
  BY DEF OrderInv
<1>1. CASE LaunchReceived
  BY <1>0, <1>1, LaunchOrdered
<1>2. CASE SendRecvProgress \/ AddReceived \/ ThreadFinished \/ \E c \in Connection : IncomingConnection(c)
  <2>1. UNCHANGED <<cpc, item, launched, wire, receiving>>
    BY <1>2 DEF SendRecvProgress, AddReceived, ThreadFinished, IncomingConnection, Runs,
                clientVars, serverVars, wallVars
  <2>2. Len(wire[d]) \in Nat /\ posted \in Seq(Slot) /\ Len(posted) \in Nat /\ spc \in [Connection -> States]
    BY Typed, OrderFiles
  <2>3. 0 \in {0, 1} /\ \A i \in 1..Len(wire'[d]) : i + 0 \in 1..Len(wire[d]) /\ wire'[d][i] = wire[d][i + 0]
    BY <2>1, <2>2
  <2>4. InHand(d)' => InHand(d) /\ receiving'[d] = receiving[d]
    <3>1. spc'[d] = spc[d] \/ spc'[d] \in {"deleted", "header"}
      BY <1>2, <2>2 DEF SendRecvProgress, AddReceived, ThreadFinished, IncomingConnection, serverVars
    <3> QED  BY <3>1, <2>1 DEF InHand
  <2>5. \E k \in {0, 1} : \A i \in 1..Len(posted') : i + k \in 1..Len(posted) /\ posted'[i] = posted[i + k]
    <3>1. CASE posted' = posted
      <4>1. \A i \in 1..Len(posted') : i + 0 \in 1..Len(posted) /\ posted'[i] = posted[i + 0]
        BY <3>1, <2>2
      <4> QED  BY <4>1
    <3>2. CASE posted # <<>> /\ posted' = Tail(posted)
      <4>1. \A i \in 1..Len(posted') : posted'[i] = posted[i + 1] /\ i + 1 \in 1..Len(posted)
        BY <3>2, <2>2, TailAt
      <4> QED  BY <4>1
    <3> QED  BY <3>1, <3>2, <1>2 DEF SendRecvProgress, AddReceived, ThreadFinished, IncomingConnection, Runs
  <2> QED  BY <2>1, <2>3, <2>4, <2>5, <1>0, WallOrdered
<1> QED  BY <1>1, <1>2 DEF WallGui

\* Every step keeps the files of a drop in their order.
LEMMA OrderStep ==
    ASSUME TurnInv, TurnInv', OrderInv, [TransferNext]_transferVars
    PROVE  OrderInv'
<1>1. ASSUME NEW s \in Sender, Drop(s) \/ SenderStep(s)
      PROVE  OrderInv'
  BY <1>1, SendOrdered, SenderOrder DEF SenderStep
<1>2. CASE OpenFiles \/ ClientGui \/ Disconnect \/ Connect \/ Break \/ UseBrowser
  BY <1>2, ClientOrder
<1>3. ASSUME NEW c \in Connection, Server(c)
      PROVE  OrderInv'
  BY <1>3, ServerOrder
<1>4. CASE WallGui
  BY <1>4, GuiOrder
<1>5. CASE UNCHANGED transferVars
  <2>1. UNCHANGED <<cpc, item, launched, posted, spc, receiving, wire>>
    BY <1>5 DEF transferVars, clientVars, serverVars, wallVars
  <2> QED  BY <2>1 DEF OrderInv, Ordered, BeforeRest, Begun, Waiting, InHand
<1> QED  BY <1>1, <1>2, <1>3, <1>4, <1>5 DEF TransferNext

-------------------------------------------------------------------------------
(* Whole files, and threads that leave                                       *)

\* A file is whole when it is posted, and a broken connection stays broken.
LEMMA WholeStep ==
    ASSUME TurnInv, WholeInv, [TransferNext]_transferVars
    PROVE  WholeInv'
<1>0. /\ link \in [Connection -> {"none", "up", "closed", "broken"}] /\ conn \in Connection
      /\ posted \in Seq(Slot) /\ launched \in Seq(Slot)
      /\ Len(posted) \in Nat /\ Len(launched) \in Nat
      /\ \A c \in Connection : c > conn => link[c] = "none"
      /\ \A i \in 1..Len(launched) : launched[i].kind = "launch"
      /\ \A e \in Slot : e.kind = "launch" => e.conn \in Connection
      /\ \A c \in Connection : c \in Nat
  <2>1. \A e \in Slot : e.kind = "launch" => e.conn \in Connection
    BY DEF Slot
  <2> QED  BY <2>1, LenProperties DEF TurnInv, TransferTypes, ConnectionInv, Connection
<1>1. /\ \A i \in 1..Len(launched) : launched[i].conn \in Connection
      /\ \A i \in 1..Len(posted) : posted[i].kind = "launch" => posted[i].conn \in Connection
  BY <1>0, ElementOfSeq
<1>2. ASSUME UNCHANGED <<launched, posted, unstored>>, \A c \in Connection : link[c] = "broken" => link'[c] = "broken"
      PROVE  WholeInv'
  BY <1>1, <1>0, <1>2 DEF WholeInv
<1>3. ASSUME NEW c \in Connection, Server(c)
      PROVE  WholeInv'
  <2>0. unstored \subseteq unstored'
    BY <1>3, Stored DEF Server, RecvHeader, RecvGarbage, Disconnected, OpenFile, RecvChunk, RecvFails, wallVars
  <2>1. UNCHANGED <<launched, link>>
    BY <1>3 DEF Server, RecvHeader, RecvGarbage, Disconnected, OpenFile, RecvChunk, RecvFails, Store, wallVars
  <2>2. \A i \in 1..Len(posted') :
          \/ i \in 1..Len(posted) /\ posted'[i] = posted[i]
          \/ posted'[i].kind # "launch"
          \/ /\ posted'[i].conn = c
             /\ posted'[i].whole \/ link[c] = "broken" \/ posted'[i].file \in unstored'
    BY <1>3, ServerPosts
  <2> QED  BY <2>0, <2>1, <2>2 DEF WholeInv
<1>4. CASE LaunchReceived
  <2>0. PICK p : p = Head(posted)
    OBVIOUS
  <2>1. /\ posted # <<>> /\ p.kind = "launch" /\ posted' = Tail(posted)
        /\ launched' = Append(launched, p) /\ UNCHANGED <<link, unstored>>
    BY <1>4, <2>0 DEF LaunchReceived, Runs
  <2>2. /\ p = posted[1] /\ p \in Slot /\ 1 \in 1..Len(posted)
        /\ \A i \in 1..Len(posted') : posted'[i] = posted[i + 1] /\ i + 1 \in 1..Len(posted)
    BY <2>0, <2>1, <1>0, TailAt
  <2>3. PICK r : r = Append(launched, p)
    OBVIOUS
  <2>4. /\ Len(r) = Len(launched) + 1
        /\ \A i \in 1..Len(launched) : r[i] = launched[i]
        /\ r[Len(launched) + 1] = p
        /\ \A i \in 1..Len(r) : i \in 1..Len(launched) \/ i = Len(launched) + 1
    BY <2>2, <2>3, <1>0, AppendAt
  <2>5. p.whole \/ link[p.conn] = "broken" \/ p.file \in unstored
    BY <2>1, <2>2 DEF WholeInv
  <2> QED  BY <2>1, <2>2, <2>3, <2>4, <2>5 DEF WholeInv
<1>5. CASE SendRecvProgress \/ AddReceived \/ ThreadFinished
  <2>1. posted # <<>> /\ posted' = Tail(posted) /\ UNCHANGED <<launched, link, unstored>>
    BY <1>5 DEF SendRecvProgress, AddReceived, ThreadFinished, Runs, wallVars
  <2>2. \A i \in 1..Len(posted') : posted'[i] = posted[i + 1] /\ i + 1 \in 1..Len(posted)
    BY <2>1, <1>0, TailAt
  <2> QED  BY <2>1, <2>2 DEF WholeInv
<1>6. CASE Disconnect \/ Break
  <2>1. UNCHANGED <<launched, posted, unstored>>
    BY <1>6 DEF Disconnect, Break, wallVars
  <2>2. \A c \in Connection : link[c] = "broken" => link'[c] = "broken"
    BY <1>0, <1>6 DEF Disconnect, Break
  <2> QED  BY <2>1, <2>2, <1>2
<1>7. CASE Connect
  <2>1. /\ UNCHANGED <<launched, posted, unstored>>
        /\ conn' = conn + 1 /\ link' = [link EXCEPT ![conn'] = "up"]
    BY <1>7 DEF Connect, wallVars
  <2>2. \A c \in Connection : link[c] = "broken" => link'[c] = "broken"
    BY <1>0, <2>1
  <2> QED  BY <2>1, <2>2, <1>2
<1>8. ASSUME NEW s \in Sender, Drop(s) \/ SenderStep(s)
      PROVE  WholeInv'
  <2>1. UNCHANGED <<launched, posted, unstored, link>>
    BY <1>8 DEF Drop, SenderStep, SendUrl, SendHeader, SendContent, Acquire, wallVars
  <2> QED  BY <2>1, <1>2
<1>9. CASE ClientGui \/ OpenFiles \/ UseBrowser \/ UNCHANGED transferVars \/ \E c \in Connection : IncomingConnection(c)
  <2>1. UNCHANGED <<launched, posted, unstored, link>>
    BY <1>9 DEF ClientGui, FileSendingBegins, ReadReport, OpenFiles, UseBrowser, IncomingConnection, transferVars, wallVars
  <2> QED  BY <2>1, <1>2
<1> QED  BY <1>3, <1>4, <1>5, <1>6, <1>7, <1>8, <1>9 DEF TransferNext, WallGui

\* The message of a thread that finished stays posted until it is deleted with all others
\* that finished.
LEMMA LeaveStep ==
    ASSUME TurnInv, TurnInv', ThreadsLeave, [TransferNext]_transferVars
    PROVE  ThreadsLeave'
<1>0. /\ posted \in Seq(Slot) /\ Len(posted) \in Nat /\ spc \in [Connection -> States]
      /\ DOMAIN posted = 1..Len(posted) /\ DOMAIN posted' = 1..Len(posted')
  BY Typed, LenProperties DEF TurnInv, TransferTypes
<1>1. ASSUME posted' = posted, \A c \in Connection : spc'[c] = "finished" => spc[c] = "finished"
      PROVE  ThreadsLeave'
  BY <1>1 DEF ThreadsLeave, Finished
<1>2. ASSUME NEW c \in Connection, Server(c)
      PROVE  ThreadsLeave'
  <2>1. \A d \in Connection : spc'[d] = "finished" => spc[d] = "finished" \/ (d = c /\ Disconnected(c))
    <3>1. CASE Disconnected(c)
      <4>1. \A d \in Connection : d # c => spc'[d] = spc[d]
        BY <3>1, <1>0 DEF Disconnected
      <4> QED  BY <3>1, <4>1
    <3>2. CASE ~Disconnected(c)
      BY ZenonT(60), <3>2, <1>0, <1>2 DEF Server, RecvHeader, RecvGarbage, OpenFile, RecvChunk, RecvFails, Store
    <3> QED  BY <3>1, <3>2
  <2>2. /\ \A i \in 1..Len(posted) : i \in 1..Len(posted') /\ posted'[i] = posted[i]
        /\ Disconnected(c) => \E i \in 1..Len(posted') : posted'[i] = Finished(c)
    BY <1>2, ServerPosts
  <2>3. ASSUME NEW d \in Connection, spc'[d] = "finished"
        PROVE  \E i \in 1..Len(posted') : posted'[i] = Finished(d)
    BY <2>1, <2>2, <2>3, <1>0 DEF ThreadsLeave
  <2> QED  BY <2>3, <1>0 DEF ThreadsLeave, Finished
<1>3. CASE SendRecvProgress \/ LaunchReceived \/ AddReceived
  <2>1. posted # <<>> /\ posted' = Tail(posted) /\ Head(posted).kind # "finished" /\ spc' = spc
    BY <1>3 DEF SendRecvProgress, LaunchReceived, AddReceived, Runs, serverVars
  <2>2. /\ Head(posted) = posted[1]
        /\ \A i \in 1..Len(posted) : i # 1 => i - 1 \in 1..Len(posted') /\ posted'[i - 1] = posted[i]
    BY <2>1, <1>0, TailAt
  <2>3. ASSUME NEW c \in Connection, spc'[c] = "finished"
        PROVE  \E i \in 1..Len(posted') : posted'[i] = Finished(c)
    <3>1. PICK i \in 1..Len(posted) : posted[i] = Finished(c)
      BY <2>1, <2>3, <1>0 DEF ThreadsLeave
    <3>2. i # 1
      BY <3>1, <2>1, <2>2 DEF Finished
    <3> QED  BY <3>1, <3>2, <2>2
  <2> QED  BY <2>3, <1>0 DEF ThreadsLeave, Finished
<1>4. CASE ThreadFinished
  BY <1>4, <1>0 DEF ThreadFinished, ThreadsLeave
<1>5. CASE Connect
  <2>1. posted' = posted /\ spc' = [spc EXCEPT ![conn'] = "accept"]
    BY <1>5 DEF Connect
  <2> QED  BY <2>1, <1>0, <1>1
<1>6. ASSUME NEW c \in Connection, IncomingConnection(c)
      PROVE  ThreadsLeave'
  <2>1. posted' = posted /\ spc' = [spc EXCEPT ![c] = "header"]
    BY <1>6 DEF IncomingConnection
  <2> QED  BY <2>1, <1>0, <1>1
<1>7. ASSUME NEW s \in Sender, Drop(s) \/ SenderStep(s)
      PROVE  ThreadsLeave'
  <2>1. posted' = posted /\ spc' = spc
    BY <1>7 DEF Drop, SenderStep, SendUrl, SendHeader, SendContent, Acquire, serverVars
  <2> QED  BY <2>1, <1>1
<1>8. CASE ClientGui \/ OpenFiles \/ Disconnect \/ Break \/ UseBrowser \/ UNCHANGED transferVars
  <2>1. posted' = posted /\ spc' = spc
    BY <1>8 DEF ClientGui, FileSendingBegins, ReadReport, OpenFiles, Disconnect, Break, UseBrowser,
                transferVars, serverVars
  <2> QED  BY <2>1, <1>1
<1> QED  BY <1>2, <1>3, <1>4, <1>5, <1>6, <1>7, <1>8 DEF TransferNext, WallGui

\* The invariant holds at first.
LEMMA TransferStart ==
    ASSUME TransferInit
    PROVE  TransferInv
<1>1. /\ posted = <<>> /\ launched = <<>>
      /\ wire = [c \in Connection |-> <<>>]
      /\ spc = [c \in Connection |-> IF c = 1 THEN "header" ELSE "none"]
  BY DEF TransferInit
<1>2. Len(posted) = 0 /\ Len(launched) = 0 /\ \A c \in Connection : Len(wire[c]) = 0 /\ ~InHand(c)
  BY <1>1 DEF InHand
<1>3. WholeInv /\ OrderInv /\ ThreadsLeave
  BY <1>1, <1>2 DEF WholeInv, OrderInv, Ordered, ThreadsLeave
<1> QED  BY <1>3, InitTurn DEF TransferInv

\* The invariant is inductive.
LEMMA TransferStep ==
    ASSUME TransferInv, ~Mixes, [TransferNext]_transferVars
    PROVE  TransferInv'
<1>1. TurnInv /\ WholeInv /\ OrderInv /\ ThreadsLeave
  BY DEF TransferInv
<1>2. TurnInv'
  BY <1>1, StepTurn
<1> QED  BY <1>1, <1>2, WholeStep, OrderStep, LeaveStep DEF TransferInv

\* LaunchesRight: the launcher is given whole files in the order of their drop, a sender
\* never runs ahead of the wall, and every thread of the wall that finished is deleted.
LEMMA RightOfTransfer ==
    ASSUME TransferInv
    PROVE  LaunchesRight
<1>1. TurnInv /\ WholeInv /\ OrderInv /\ ThreadsLeave
  BY DEF TransferInv
<1>2. DOMAIN launched = 1..Len(launched) /\ \A i \in 1..Len(launched) : launched[i].kind = "launch"
  BY <1>1, LenProperties DEF TurnInv, TransferTypes
<1>3. \A i \in 1..Len(launched) : launched[i].conn \in Connection
  <2>1. \A e \in Slot : e.kind = "launch" => e.conn \in Connection
    BY DEF Slot
  <2>2. \A i \in 1..Len(launched) : launched[i] \in Slot
    BY <1>1, ElementOfSeq DEF TurnInv, TransferTypes
  <2> QED  BY <2>1, <2>2, <1>2
<1>4. WholeUnlessBroken
  BY <1>1, <1>2 DEF WholeInv, WholeUnlessBroken
<1>5. LaunchedInOrder
  BY <1>1, <1>2, <1>3 DEF OrderInv, Ordered, IsLaunch, Before, LaunchedInOrder
<1>6. WaitsForWall
  <2> SUFFICES ASSUME NEW s \in Sender, Continues(s), link[conn] = "up"
               PROVE  wire[conn] = <<>> /\ spc[conn] # "content"
    BY DEF WaitsForWall, Continues
  <2>1. wire[conn] = <<>>
    BY <1>1 DEF TurnInv, QuietInv
  <2>2. ~Reads(conn)
    BY <1>1, Beginner DEF Continues
  <2> QED  BY <2>1, <2>2 DEF Reads
<1> QED  BY <1>1, <1>4, <1>5, <1>6 DEF LaunchesRight

\* As long as the user sends one drop of files at a time (~Mixes; otherwise the code mixes
\* files on the wire), for any number of drops, files, chunks and connections: the files
\* launched are right, also when files cannot be opened and connections break.
THEOREM TransferLaunchesRight == ~Mixes => (TransferSpec => []LaunchesRight)
<1> SUFFICES ASSUME ~Mixes
             PROVE  TransferSpec => []LaunchesRight
  OBVIOUS
<1>1. TransferInit => TransferInv
  BY TransferStart
<1>2. TransferInv /\ [TransferNext]_transferVars => TransferInv'
  BY TransferStep
<1>3. TransferInv => LaunchesRight
  BY RightOfTransfer
<1> QED  BY <1>1, <1>2, <1>3, PTL DEF TransferSpec

-------------------------------------------------------------------------------
(* The media browser                                                         *)

\* Directories below the first are listed; a root window has no panel and is on its first
\* page, and any other has one.
BrowserInv ==
    /\ \A d \in Dir : Parent[d] \in Dir => d \in mediaList
    /\ currentDir \in Dir \union {Outside}
    /\ ~isOpen => rootIcons
    /\ rootIcons => isRootWindow
    /\ IF isRootWindow THEN ~panelButtons /\ ~arrows /\ panel = <<>> ELSE panelButtons
    /\ rootIcons => currPage = 0
    /\ currPage \in Nat
    /\ Len(currItems) \in Nat

\* What a directory is listed with is finite.
LEMMA ListedItems ==
    ASSUME NEW d
    PROVE  /\ Len(MediaListInDir(d)) \in Nat
           /\ MediaListInDir(d) = <<>> <=> Places(d) = {}
           /\ MediaListInDir(d) # <<>> => Len(MediaListInDir(d)) > 0
<1>1. IsFiniteSet(Places(d))
  <2>1. DOMAIN PathOrder = 1..Len(PathOrder) /\ Len(PathOrder) \in Nat
    BY OrderAssumption
  <2>2. IsFiniteSet(1..Len(PathOrder))
    BY <2>1, FS_Interval
  <2> QED
    BY <2>1, <2>2, FS_Subset DEF Places
<1>2. Cardinality(Places(d)) \in Nat /\ (Cardinality(Places(d)) = 0 <=> Places(d) = {})
  BY <1>1, FS_CardinalityType, FS_EmptySet
<1> DEFINE n == Cardinality(Places(d))
<1>3. MediaListInDir(d) = [i \in 1..n |-> MediaListInDir(d)[i]]
  BY DEF MediaListInDir
<1> HIDE DEF n
<1>4. DOMAIN MediaListInDir(d) = 1..n /\ n \in Nat
  BY <1>2, <1>3 DEF n
<1>5. MediaListInDir(d) \in Seq({MediaListInDir(d)[i] : i \in 1..n})
  BY <1>3, <1>4
<1>6. Len(MediaListInDir(d)) = n
  BY <1>4, <1>5
<1>7. MediaListInDir(d) = <<>> <=> n = 0
  BY <1>5, <1>6
<1> QED
  BY <1>2, <1>4, <1>6, <1>7 DEF n

\* A directory below another is one of its items.
LEMMA ParentHasItems ==
    ASSUME BrowserInv, NEW d \in Dir, Parent[d] \in Dir
    PROVE  MediaListInDir(Parent[d]) # <<>>
<1>1. PICK i \in DOMAIN PathOrder : PathOrder[i] = d
  BY OrderAssumption DEF ToSet
<1>2. d \in mediaList /\ HasThumbnail(d)
  BY DEF BrowserInv, HasThumbnail
<1>3. i \in Places(Parent[d])
  BY <1>1, <1>2 DEF Places
<1> QED
  BY <1>3, ListedItems

\* A page that exists begins before the end of the items, and the first one exists.
LEMMA PageBegins ==
    ASSUME NEW items, Len(items) \in Nat, NEW page \in Nat
    PROVE  /\ NumPages(items) \in Int
           /\ page < NumPages(items) => page * PerPage < Len(items)
           /\ Len(items) > 0 => 0 < NumPages(items)
<1> DEFINE n == Len(items)
           p == PerPage
           q == (n + p - 1) \div p
<1>1. n \in Nat /\ p \in Nat /\ p > 0
  BY PerPageAssumption
<1>2. NumPages(items) = q
  BY DEF NumPages
<1> HIDE DEF n, p
<1>3. q \in Int /\ p * q <= n + p - 1 /\ n + p - 1 < p * q + p
  BY <1>1
<1> HIDE DEF q
<1>4. page < q => p * (page + 1) <= p * q
  BY <1>1, <1>3
<1>5. p * (page + 1) = page * p + p /\ page * p \in Int
  BY <1>1
<1>6. page < q => page * p < n
  BY <1>1, <1>3, <1>4, <1>5
<1>7. n > 0 => 0 < q
  BY <1>1, <1>3
<1> QED
  BY <1>2, <1>3, <1>6, <1>7 DEF n, p

\* The browser's invariant holds when the wall starts.
LEMMA BrowserInitInv == BrowserInit => BrowserInv
  BY DirsAssumption DEF BrowserInit, InitMediaList, BrowserInv, HasThumbnail

\* The panel shows the page if it exists.
LEMMA PanelShows ==
    ASSUME NEW items, Len(items) \in Nat, NEW page \in Nat, page < NumPages(items),
           UpdateThumbnailPanel(items, page)
    PROVE  panel' = PageOf(items, page)
  BY PageBegins, PerPageAssumption DEF UpdateThumbnailPanel

\* What BrowserGoesOn says of a step.
GoesOnStep ==
    /\ HasWayOn => HasWayOn' \/ (isRootWindow /\ MediaListInDir(currentDir') = <<>>)
    /\ PageExists /\ ShowsPage =>
          \/ (PageExists /\ ShowsPage)'
          \/ currPage > 0 /\ currentDir' \in ToSet(panel) \union {Outside}

\* _populateMediaItems() keeps the invariant, whatever the directory holds.
LEMMA PopulateStep ==
    ASSUME BrowserInv, NEW d \in Dir \union {Outside}, NEW page \in Nat,
           PopulateMediaItems(d, page), UNCHANGED <<mediaList, isOpen>>,
           isOpen, isRootWindow => rootIcons, currPage' = page,
           rootIcons => page = 0
    PROVE  BrowserInv'
<1>1. Len(MediaListInDir(d)) \in Nat
  BY ListedItems
<1> QED
  BY <1>1 DEF BrowserInv, PopulateMediaItems, UpdateThumbnailPanel

\* Items that are there, with a page that exists, are shown.
LEMMA ShownStep ==
    ASSUME NEW d, NEW page \in Nat, PopulateMediaItems(d, page), currPage' = page,
           MediaListInDir(d) # <<>>, page < NumPages(MediaListInDir(d))
    PROVE  GoesOnStep
<1> DEFINE items == MediaListInDir(d)
<1>1. /\ currItems' = items /\ ~isRootWindow' /\ panelButtons'
      /\ UpdateThumbnailPanel(items, page)
  BY DEF PopulateMediaItems, UpdateThumbnailPanel
<1>2. panel' = PageOf(items, page)
  BY <1>1, ListedItems, PanelShows
<1>3. (PageExists /\ ShowsPage)' /\ HasWayOn'
  BY <1>1, <1>2 DEF PageExists, ShowsPage, HasWayOn, NumPages, PageOf
<1> QED
  BY <1>3 DEF GoesOnStep

\* A new browser shows its root icons.
LEMMA OpenBrowserStep == ASSUME BrowserInv, OpenBrowser PROVE BrowserInv' /\ GoesOnStep
  BY DEF BrowserInv, OpenBrowser, GoesOnStep, HasWayOn, PageExists, ShowsPage

\* The way back to the root icons is the first page of no items.
LEMMA DisplayRootWindowStep == ASSUME BrowserInv, DisplayRootWindow PROVE BrowserInv' /\ GoesOnStep
  BY DEF BrowserInv, DisplayRootWindow, GoesOnStep, HasWayOn, PageExists, ShowsPage

\* A root icon is clicked when the page number is 0: its directory's first page is shown.
LEMMA ClickMediaIconStep ==
    ASSUME BrowserInv, NEW d \in MediaIcons, ClickMediaIcon(d)
    PROVE  BrowserInv' /\ GoesOnStep
<1>1. d \in Dir /\ isOpen /\ rootIcons /\ PopulateMediaItems(d, currPage) /\ currPage = 0
      /\ UNCHANGED <<mediaList, isOpen, currPage>> /\ isRootWindow
  BY DirsAssumption DEF ClickMediaIcon, Usable, BrowserInv
<1>2. BrowserInv'
  BY <1>1, PopulateStep DEF BrowserInv
<1> SUFFICES GoesOnStep
  BY <1>2
<1>3. CASE MediaListInDir(d) = <<>>
  BY <1>1, <1>3 DEF GoesOnStep, PopulateMediaItems, PageExists, ShowsPage
<1>4. CASE MediaListInDir(d) # <<>>
  BY <1>1, <1>4, ShownStep, PageBegins, ListedItems
<1> QED
  BY <1>3, <1>4

\* A directory is opened on the page of its parent; only a later page goes wrong.
LEMMA OpenFolderStep ==
    ASSUME BrowserInv, NEW d \in Dir, OpenFolder(d)
    PROVE  BrowserInv' /\ GoesOnStep
<1>1. d \in ToSet(panel) /\ isOpen /\ PopulateMediaItems(d, currPage)
      /\ UNCHANGED <<mediaList, isOpen, currPage>> /\ currPage \in Nat
  BY DEF OpenFolder, Usable, BrowserInv
<1>2. ~isRootWindow /\ ~rootIcons /\ panelButtons
  BY <1>1 DEF BrowserInv, ToSet
<1>3. BrowserInv'
  BY <1>1, <1>2, PopulateStep
<1> SUFFICES GoesOnStep
  BY <1>3
<1>4. CASE currPage > 0
  BY <1>1, <1>2, <1>4 DEF GoesOnStep, PopulateMediaItems, UpdateThumbnailPanel, HasWayOn
<1>5. CASE MediaListInDir(d) = <<>>
  BY <1>1, <1>2, <1>5 DEF GoesOnStep, PopulateMediaItems, PageExists, ShowsPage, HasWayOn
<1>6. CASE ~(currPage > 0) /\ MediaListInDir(d) # <<>>
  <2>1. currPage < NumPages(MediaListInDir(d))
    BY <1>1, <1>6, PageBegins, ListedItems
  <2> QED
    BY <1>1, <1>6, <2>1, ShownStep
<1> QED
  BY <1>4, <1>5, <1>6

\* The parent of a directory has items, at least that directory, unless it is Outside.
LEMMA GetParentDirStep ==
    ASSUME BrowserInv, GetParentDir
    PROVE  BrowserInv' /\ GoesOnStep
<1> DEFINE d == IF currentDir = Outside THEN Outside ELSE Parent[currentDir]
<1>1. d \in Dir \union {Outside} /\ isOpen /\ panelButtons /\ currPage' = 0
      /\ PopulateMediaItems(d, 0) /\ UNCHANGED <<mediaList, isOpen>>
  BY DirsAssumption DEF GetParentDir, Usable, BrowserInv
<1>2. ~isRootWindow /\ ~rootIcons
  BY <1>1 DEF BrowserInv
<1>3. BrowserInv'
  BY <1>1, <1>2, PopulateStep
<1> SUFFICES GoesOnStep
  BY <1>3
<1>4. currentDir' = d
  BY <1>1 DEF PopulateMediaItems
<1>5. CASE MediaListInDir(d) = <<>>
  <2>1. d = Outside
    BY <1>1, <1>5, ParentHasItems DEF BrowserInv
  <2>2. CASE currPage > 0
    <3>1. currentDir' = Outside /\ HasWayOn'
      BY <1>1, <1>4, <1>5, <2>1 DEF PopulateMediaItems, HasWayOn
    <3> QED
      BY <3>1, <2>2 DEF GoesOnStep
  <2>3. CASE currPage = 0
    <3>1. UNCHANGED <<isRootWindow, currItems, currPage, panel>> /\ HasWayOn'
      BY <1>1, <1>5, <2>3 DEF PopulateMediaItems, HasWayOn
    <3>2. PageExists /\ ShowsPage => (PageExists /\ ShowsPage)'
      BY <3>1 DEF PageExists, ShowsPage
    <3> QED
      BY <3>1, <3>2 DEF GoesOnStep
  <2> QED
    BY <2>2, <2>3 DEF BrowserInv
<1>6. CASE MediaListInDir(d) # <<>>
  BY <1>1, <1>6, ShownStep, PageBegins, ListedItems
<1> QED
  BY <1>5, <1>6

\* A page turned to is shown if it exists.
LEMMA TurnStep ==
    ASSUME BrowserInv, arrows, NEW page \in Nat, TurnTo(page),
           page < NumPages(currItems) \/ ~(PageExists /\ ShowsPage)
    PROVE  BrowserInv' /\ GoesOnStep
<1>1. ~isRootWindow /\ UNCHANGED <<isRootWindow, currItems>> /\ currPage' = page
  BY DEF BrowserInv, TurnTo
<1>2. BrowserInv'
  BY <1>1 DEF BrowserInv, TurnTo, UpdateThumbnailPanel
<1>3. HasWayOn'
  BY DEF TurnTo, UpdateThumbnailPanel, HasWayOn
<1>4. CASE page < NumPages(currItems)
  <2>1. panel' = PageOf(currItems, page)
    BY <1>4, PanelShows DEF TurnTo, BrowserInv
  <2> QED
    BY <1>1, <1>2, <1>3, <1>4, <2>1 DEF GoesOnStep, PageExists, ShowsPage, NumPages, PageOf
<1>5. CASE ~(PageExists /\ ShowsPage)
  BY <1>2, <1>3, <1>5 DEF GoesOnStep
<1> QED
  BY <1>4, <1>5

\* The page before one that exists does.
LEMMA PrevPageStep == ASSUME BrowserInv, PrevPage PROVE BrowserInv' /\ GoesOnStep
<1>1. arrows /\ TurnTo(currPage - 1) /\ currPage > 0 /\ currPage \in Nat /\ NumPages(currItems) \in Int
  BY PageBegins DEF PrevPage, BrowserInv
<1>2. ~isRootWindow
  BY <1>1 DEF BrowserInv
<1>3. currPage - 1 < NumPages(currItems) \/ ~(PageExists /\ ShowsPage)
  BY <1>1, <1>2 DEF PageExists
<1> QED
  BY <1>1, <1>3, TurnStep

\* The arrow to the next page is refused on the last one.
LEMMA NextPageStep == ASSUME BrowserInv, NextPage PROVE BrowserInv' /\ GoesOnStep
<1>1. /\ arrows /\ TurnTo(currPage + 1) /\ currPage \in Nat /\ NumPages(currItems) \in Int
      /\ currPage # NumPages(currItems) - 1
  BY PageBegins DEF NextPage, BrowserInv
<1>2. ~isRootWindow
  BY <1>1 DEF BrowserInv
<1>3. currPage + 1 < NumPages(currItems) \/ ~(PageExists /\ ShowsPage)
  BY <1>1, <1>2 DEF PageExists
<1> QED
  BY <1>1, <1>3, TurnStep

\* No click breaks the invariant, and each goes on as promised.
LEMMA BrowserStep == ASSUME BrowserInv, BrowserNext PROVE BrowserInv' /\ GoesOnStep
  BY OpenBrowserStep, ClickMediaIconStep, OpenFolderStep, GetParentDirStep,
     DisplayRootWindowStep, PrevPageStep, NextPageStep DEF BrowserNext

\* The invariant is about the browser only.
LEMMA BrowserStutters == ASSUME BrowserInv, UNCHANGED browserVars PROVE BrowserInv'
  BY DEF BrowserInv, browserVars, windowVars

\* A file that is listed while the browser is open changes nothing in its window.
LEMMA ListingStep ==
    ASSUME BrowserInv, UNCHANGED windowVars, NEW p, AddNewMedia(p)
    PROVE  BrowserInv' /\ GoesOnStep
  BY DEF BrowserInv, AddNewMedia, windowVars, GoesOnStep, HasWayOn, PageExists, ShowsPage

\* What the client, the wall's threads and its other slots do leaves the browser alone.
LEMMA TransferBrowserStep ==
    ASSUME BrowserInv, TransferNext
    PROVE  BrowserInv' /\ (GoesOnStep \/ UNCHANGED browserVars)
<1>1. CASE UseBrowser
  BY <1>1, BrowserStep DEF UseBrowser
<1>2. CASE AddReceived
  BY <1>2, ListingStep DEF AddReceived
<1>3. CASE \E s \in Sender : Drop(s) \/ SenderStep(s)
  <2>1. UNCHANGED browserVars
    BY <1>3 DEF Drop, SenderStep, SendUrl, SendHeader, SendContent, Acquire, wallVars
  <2> QED
    BY <2>1, BrowserStutters
<1>4. CASE ClientGui \/ OpenFiles \/ Disconnect \/ Connect \/ Break
  <2>1. UNCHANGED browserVars
    BY <1>4 DEF ClientGui, FileSendingBegins, ReadReport, OpenFiles, Disconnect, Connect, Break, wallVars
  <2> QED
    BY <2>1, BrowserStutters
<1>5. CASE \E c \in Connection : Server(c)
  <2>1. UNCHANGED browserVars
    BY <1>5 DEF Server, RecvHeader, RecvGarbage, Disconnected, OpenFile, RecvChunk, RecvFails, Store, wallVars
  <2> QED
    BY <2>1, BrowserStutters
<1>6. CASE \/ \E c \in Connection : IncomingConnection(c)
           \/ SendRecvProgress \/ LaunchReceived \/ ThreadFinished
  <2>1. UNCHANGED browserVars
    BY <1>6 DEF IncomingConnection, SendRecvProgress, LaunchReceived, ThreadFinished, wallVars
  <2> QED
    BY <2>1, BrowserStutters
<1> QED
  BY <1>1, <1>2, <1>3, <1>4, <1>5, <1>6 DEF TransferNext, WallGui

\* For any directories, files and page size, while files arrive: whatever is clicked, the
\* user keeps something to click on and is shown a page that exists, but for the three
\* ways BrowserGoesOn names.
THEOREM BrowserGoesOnThm == TransferSpec => BrowserGoesOn
<1>1. TransferInit => BrowserInv
  BY BrowserInitInv DEF TransferInit
<1>2. BrowserInv /\ [TransferNext]_transferVars => BrowserInv'
  BY TransferBrowserStep, BrowserStutters DEF transferVars, wallVars
<1>3. BrowserInv /\ [TransferNext]_transferVars => [GoesOnStep]_browserVars
  BY TransferBrowserStep DEF transferVars, wallVars
<1> QED
  BY <1>1, <1>2, <1>3, PTL DEF TransferSpec, BrowserGoesOn, GoesOnStep
===============================================================================
