-------------------------------- MODULE Launcher --------------------------------
(***************************************************************************)
(* SN_Launcher: how an application gets its widget, its number and its     *)
(* entry in the resource monitor's registry, and how it loses them.        *)
(*                                                                         *)
(* Widgets are asked for by files that arrived (FileTransfer), by users,   *)
(* by SAGE applications that were started by hand, by saved sessions and   *)
(* by the replay of a user study, which runs in a thread of its own; a     *)
(* remote program closes all of them.  Everything else happens in the GUI  *)
(* thread, one event after the other; deleteLater() is an event too.       *)
(*                                                                         *)
(* A streaming widget is made before its application runs, enters the      *)
(* registry in its constructor, and the scene only when the application    *)
(* connects.  No widget calls setSchedulable(), so others never enter.     *)
(* The scene has no layout widget (LayoutTree has the other case), a saved *)
(* layout holds what a session holds, and one session is loaded at a time. *)
(***************************************************************************)
EXTENDS Integers, Sequences, SequencesExt, FiniteSets, Functions

CONSTANTS
    Widget,
    Monitor,        \* the resource monitor in the queue of deferred deletions
    NoWidget,
    MaxId           \* bound: no number above it is handed out

ASSUME LauncherAssumption == /\ MaxId \in Nat \ {0}
                             /\ IsFiniteSet(Widget)
                             /\ {Monitor, NoWidget} \cap Widget = {}

VARIABLES
    _globalAppId,   \* the next number
    life,           \* "none", "awaited" (no application yet) or "scene"
    gid,            \* SN_BaseWidget::globalAppId()
    streams,        \* the widgets that are SN_SageStreamWidget
    _sageWidgetQueue,
    widgetList,     \* the monitor's widgets
    _widgetMap,     \* and by number
    monitor,        \* "none" (not configured), "alive" or "deleted"
    misused,        \* a deleted monitor or widget has been called: the model stops
    deferred,       \* deleteLater(): what is to be deleted, oldest first
    session,        \* what was saved
    entries,        \* what is still to be read of a session that is being loaded
    theLastLaunched,
    replay,         \* the study's thread: "off", "reads" its file, "asks" or "waits"
    appMap,         \* the study's application, by its number in the file: here just one
    removals,       \* the close() calls the study has posted
    strays,         \* history: awaited while numbers were set anew
    strayIds        \* history: the numbers of those that awaited during a load

registryVars == <<widgetList, _widgetMap, monitor, misused>>
sceneVars == <<life, gid, streams, deferred>>
studyVars == <<replay, appMap, removals>>
historyVars == <<strays, strayIds>>
otherVars == <<session, entries, theLastLaunched, studyVars, historyVars>>
vars == <<_globalAppId, _sageWidgetQueue, sceneVars, registryVars, otherVars>>

Init == /\ _globalAppId = 1
        /\ life = [w \in Widget |-> "none"]
        /\ gid = [w \in Widget |-> 0]
        /\ streams = {}
        /\ _sageWidgetQueue = <<>>
        /\ widgetList = {}
        /\ _widgetMap = <<>>
        /\ monitor \in {"none", "alive"}
        /\ misused = FALSE
        /\ deferred = <<>>
        /\ session = <<>>
        /\ entries = <<>>
        /\ theLastLaunched = NoWidget
        /\ replay = "off"
        /\ appMap = NoWidget
        /\ removals = {}
        /\ strays = {}
        /\ strayIds = {}

-------------------------------------------------------------------------------
(* Numbers and the registry                                                  *)

\* The scene's items; a widget that was closed is one until it is deleted.
Items == {w \in Widget : life[w] = "scene"}

GetUserWidget(n) == {w \in Items : gid[w] = n}

\* _getUpdatedGlobalAppId(): the number for a widget that asks for n (0: any).
UpdatedId(n) == IF n = 0 THEN _globalAppId
                ELSE IF n >= _globalAppId \/ GetUserWidget(n) = {} THEN n ELSE 0

\* Mutant: the counter does not catch up with a number from a session.
NextIdLags(n) == IF n = 0 \/ n = _globalAppId THEN _globalAppId + 1 ELSE _globalAppId

NextId(n) == IF n = 0 THEN _globalAppId + 1
             ELSE IF n >= _globalAppId THEN n + 1 ELSE _globalAppId

CallMonitor == misused' = (monitor = "deleted")

AddSchedulableWidget(w, n) ==
    IF monitor = "none" THEN UNCHANGED <<widgetList, _widgetMap, misused>>
    ELSE /\ widgetList' = widgetList \cup {w}
         /\ _widgetMap' = [m \in DOMAIN _widgetMap \cup {n} |-> IF m = n THEN w ELSE _widgetMap[m]]
         /\ CallMonitor

\* Mutant: the map keeps its entry.
RemoveFromList(w) ==
    IF monitor = "none" THEN UNCHANGED <<widgetList, _widgetMap, misused>>
    ELSE /\ widgetList' = widgetList \ {w}
         /\ CallMonitor
         /\ UNCHANGED _widgetMap

\* The entry of the number goes, whosever it is.
RemoveSchedulableWidget(w) ==
    IF monitor = "none" THEN UNCHANGED <<widgetList, _widgetMap, misused>>
    ELSE /\ widgetList' = widgetList \ {w}
         /\ _widgetMap' = Restrict(_widgetMap, DOMAIN _widgetMap \ {gid[w]})
         /\ CallMonitor

\* A new widget is not made where one was that the replay still points at: which of the
\* two such a pointer would mean is undefined.
Free(w) == life[w] = "none" /\ w \notin {theLastLaunched, appMap}

\* new SN_SageStreamWidget for somebody who asked for the number n.
NewStream(w, n, state) ==
    /\ Free(w)
    /\ NextId(n) <= MaxId + 1
    /\ life' = [life EXCEPT ![w] = state]
    /\ gid' = [gid EXCEPT ![w] = UpdatedId(n)]
    /\ streams' = streams \cup {w}
    /\ _globalAppId' = NextId(n)
    /\ AddSchedulableWidget(w, UpdatedId(n))
    /\ UNCHANGED monitor

\* launchSageApp(): a widget that waits for its application.  When the process cannot
\* be started the widget, last in the queue, is taken out again and deleted.
LaunchSageApp(w, n) ==
    /\ NewStream(w, n, "awaited")
    /\ \/ /\ _sageWidgetQueue' = Append(_sageWidgetQueue, w)
          /\ UNCHANGED deferred
       \/ /\ deferred' = Append(deferred, w)
          /\ UNCHANGED _sageWidgetQueue
    /\ IF entries = <<>> THEN UNCHANGED historyVars
       ELSE strays' = strays \cup {w} /\ strayIds' = strayIds \cup {UpdatedId(n)}

\* launch(type, ...) of anything that is no stream.
LaunchMedia(w, n) ==
    /\ Free(w)
    /\ NextId(n) <= MaxId + 1
    /\ life' = [life EXCEPT ![w] = "scene"]
    /\ gid' = [gid EXCEPT ![w] = UpdatedId(n)]
    /\ _globalAppId' = NextId(n)
    /\ UNCHANGED <<streams, deferred, _sageWidgetQueue, registryVars, historyVars>>

\* Audio, a plugin that is not there, an unreadable file: the number is used up.
LaunchNothing ==
    /\ NextId(0) <= MaxId + 1
    /\ _globalAppId' = NextId(0)
    /\ UNCHANGED <<sceneVars, _sageWidgetQueue, registryVars, historyVars>>

LaunchAny(n) == \/ \E w \in Widget : LaunchSageApp(w, n) \/ LaunchMedia(w, n)
                \/ LaunchNothing

-------------------------------------------------------------------------------
(* Who launches                                                              *)

\* A file that arrived, a file dialog, the media browser.
LaunchByUser == /\ LaunchAny(0)
                /\ UNCHANGED <<session, entries, theLastLaunched, studyVars>>

\* launch(fsmThread): an application has connected; the oldest widget is its.
LaunchQueued == /\ _sageWidgetQueue # <<>>
                /\ life' = [life EXCEPT ![Head(_sageWidgetQueue)] = "scene"]
                /\ _sageWidgetQueue' = Tail(_sageWidgetQueue)
                /\ UNCHANGED <<gid, streams, deferred, _globalAppId, registryVars, otherVars>>

\* Nobody waits: somebody started it by hand.
LaunchManual == /\ _sageWidgetQueue = <<>>
                /\ \E w \in Widget : NewStream(w, 0, "scene") /\ theLastLaunched' = w
                /\ UNCHANGED <<_sageWidgetQueue, deferred, session, entries, studyVars, historyVars>>

\* launchRatkoUserStudyData(): the thread reads how windows were moved.  For an
\* application it does not know yet it has a call of launchSageApp() queued, ...
ReplayAsks == /\ replay \in {"off", "reads"}
              /\ appMap = NoWidget
              /\ replay' = "asks"
              /\ UNCHANGED <<_globalAppId, _sageWidgetQueue, sceneVars, registryVars, session,
                             entries, theLastLaunched, appMap, removals, historyVars>>

ReplayLaunch == /\ replay = "asks"
                /\ replay' = "waits"
                /\ \E w \in Widget : LaunchSageApp(w, 0)
                /\ UNCHANGED <<session, entries, theLastLaunched, appMap, removals>>

\* ... and takes what theLastLaunched becomes.
ReplayTakes == /\ replay \in {"asks", "waits"}
               /\ theLastLaunched # NoWidget
               /\ theLastLaunched' = NoWidget
               /\ appMap' = theLastLaunched
               /\ replay' = "reads"
               /\ misused' = (life[theLastLaunched] = "none")
               /\ UNCHANGED <<_globalAppId, _sageWidgetQueue, sceneVars, widgetList, _widgetMap,
                              monitor, session, entries, removals, historyVars>>

\* WINDOW REMOVE: close() is posted and the application forgotten.
ReplayRemoves == /\ replay = "reads"
                 /\ appMap # NoWidget
                 /\ appMap' = NoWidget
                 /\ removals' = removals \cup {appMap}
                 /\ misused' = (life[appMap] = "none")
                 /\ UNCHANGED <<_globalAppId, _sageWidgetQueue, sceneVars, widgetList, _widgetMap,
                                monitor, session, entries, theLastLaunched, replay, historyVars>>

\* WINDOW CHANGE and WINDOW Z of a known application: it is moved, whether or not it is
\* still there.
ReplayMoves == /\ replay = "reads"
               /\ appMap # NoWidget /\ life[appMap] = "none"
               /\ misused' = TRUE
               /\ UNCHANGED <<_globalAppId, _sageWidgetQueue, sceneVars, widgetList, _widgetMap,
                              monitor, otherVars>>

-------------------------------------------------------------------------------
(* Closing                                                                   *)

IsClosed(w) == Contains(deferred, w)

\* close() by a user, an action of the widget or WIDGET_REMOVE.
Close(w) == /\ w \in Items /\ ~IsClosed(w)
            /\ deferred' = Append(deferred, w)
            /\ UNCHANGED <<life, gid, streams, _globalAppId, _sageWidgetQueue, registryVars, otherVars>>

\* The call of close() that the study posted.
RemovePosted == \E w \in removals :
    /\ removals' = removals \ {w}
    /\ deferred' = IF IsClosed(w) THEN deferred ELSE Append(deferred, w)
    /\ UNCHANGED <<life, gid, streams, _globalAppId, _sageWidgetQueue, registryVars, session,
                   entries, theLastLaunched, replay, appMap, historyVars>>

WidgetRemove == \E n \in 1..MaxId : \E w \in GetUserWidget(n) : Close(w)

\* Every item is closed that is not being closed.
CloseAllUserApp == SetToSeq({w \in Items : ~IsClosed(w)})

\* Mutant: the counter is set back while the monitor stays.
CloseAllKeepsMonitor ==
    /\ deferred' = deferred \o CloseAllUserApp
    /\ _globalAppId' = 1
    /\ strays' = strays \cup {w \in Widget : life[w] = "awaited"}
    /\ UNCHANGED <<life, gid, streams, _sageWidgetQueue, registryVars, session, entries,
                   theLastLaunched, studyVars, strayIds>>

\* WIDGET_CLOSEALL; ratkoDataFinished() then deletes the monitor and sets the counter back.
WidgetCloseAll ==
    /\ deferred' = deferred \o CloseAllUserApp
                            \o (IF monitor = "alive" /\ ~IsClosed(Monitor) THEN <<Monitor>> ELSE <<>>)
    /\ _globalAppId' = 1
    /\ strays' = strays \cup {w \in Widget : life[w] = "awaited"}
    /\ UNCHANGED <<life, gid, streams, _sageWidgetQueue, registryVars, session, entries,
                   theLastLaunched, studyVars, strayIds>>

\* The destructor of a widget.  Qt forgets the calls posted to it; nobody tells the
\* launcher or the replay.
Destroy == /\ deferred # <<>> /\ Head(deferred) # Monitor
           /\ LET w == Head(deferred)
              IN  /\ life' = [life EXCEPT ![w] = "none"]
                  /\ streams' = streams \ {w}
                  /\ strays' = strays \ {w}
                  /\ removals' = removals \ {w}
                  /\ IF w \in streams THEN RemoveSchedulableWidget(w)
                     ELSE UNCHANGED <<widgetList, _widgetMap, misused>>
                  /\ gid' = [gid EXCEPT ![w] = 0]
           /\ deferred' = Tail(deferred)
           /\ UNCHANGED <<_globalAppId, _sageWidgetQueue, monitor, session, entries,
                          theLastLaunched, replay, appMap, strayIds>>

DeleteMonitor == /\ deferred # <<>> /\ Head(deferred) = Monitor
                 /\ monitor' = "deleted"
                 /\ deferred' = Tail(deferred)
                 /\ UNCHANGED <<life, gid, streams, _globalAppId, _sageWidgetQueue, widgetList,
                                _widgetMap, misused, otherVars>>

-------------------------------------------------------------------------------
(* Sessions                                                                  *)

Entry(w) == [gid |-> gid[w], stream |-> w \in streams]

SaveSession == /\ session = <<>>
               /\ session' = SetToSeq({Entry(w) : w \in Items})
               /\ UNCHANGED <<_globalAppId, _sageWidgetQueue, sceneVars, registryVars, entries,
                              theLastLaunched, studyVars, historyVars>>

LoadSession == /\ entries = <<>>
               /\ entries' = session
               /\ LET awaited == {w \in Widget : life[w] = "awaited"}
                  IN  /\ strays' = strays \cup awaited
                      /\ strayIds' = strayIds \cup {gid[w] : w \in awaited}
               /\ UNCHANGED <<_globalAppId, _sageWidgetQueue, sceneVars, registryVars, session,
                              theLastLaunched, studyVars>>

\* An entry whose number is in the scene is only put in its place.  After each entry
\* the pending events are processed.
LoadEntry == /\ entries # <<>>
             /\ entries' = Tail(entries)
             /\ LET e == Head(entries)
                IN  IF GetUserWidget(e.gid) # {}
                    THEN UNCHANGED <<_globalAppId, _sageWidgetQueue, sceneVars, registryVars, historyVars>>
                    ELSE \E w \in Widget : IF e.stream THEN LaunchSageApp(w, e.gid)
                                           ELSE LaunchMedia(w, e.gid)
             /\ UNCHANGED <<session, theLastLaunched, studyVars>>

-------------------------------------------------------------------------------
Gui == \/ LaunchByUser \/ LaunchQueued \/ LaunchManual \/ ReplayLaunch
       \/ WidgetRemove \/ RemovePosted \/ WidgetCloseAll \/ Destroy \/ DeleteMonitor
       \/ SaveSession \/ LoadSession \/ LoadEntry

Next == ~misused /\ (Gui \/ ReplayAsks \/ ReplayTakes \/ ReplayRemoves \/ ReplayMoves)

Spec == Init /\ [][Next]_vars

-------------------------------------------------------------------------------
TypeOK == /\ _globalAppId \in 1..(MaxId + 1)
          /\ life \in [Widget -> {"none", "awaited", "scene"}]
          /\ gid \in [Widget -> 0..MaxId]
          /\ \A w \in Widget : life[w] # "none" => gid[w] # 0
          /\ {w \in Widget : life[w] = "awaited" /\ ~IsClosed(w)} = Range(_sageWidgetQueue)
          /\ widgetList \subseteq streams

\* What the monitor and its schedulers find under a number is a living widget of the
\* list with that number, whatever widgets share it.
MappedIsListed ==
    \A n \in DOMAIN _widgetMap : _widgetMap[n] \in widgetList /\ gid[_widgetMap[n]] = n

\* Two widgets that nobody has closed have the same number only if one of them waited
\* for its application while the numbers were set back or a session was loaded.
NumbersClashOnlyWithAwaited ==
    \A v, w \in Widget :
        (v # w /\ gid[v] = gid[w] /\ life[v] # "none" /\ life[w] # "none")
            => IsClosed(v) \/ IsClosed(w) \/ {v, w} \cap strays # {}

\* Until a close-all sends the monitor away, every stream is what is found under its
\* number: no removal takes another's entry, and no new widget gets a number in use.
\* The exception is a number that a widget had which waited for its application while
\* a session was loaded, when the scene could not be asked for it.
StreamsAreFound ==
    monitor = "alive" /\ ~IsClosed(Monitor) =>
        \A w \in streams : \/ gid[w] \in strayIds
                           \/ gid[w] \in DOMAIN _widgetMap /\ _widgetMap[gid[w]] = w

\* The queue and the registry hold what they should: the awaited widgets that are
\* still there, the living streams, and each under its number.
RegistryInv == TypeOK /\ MappedIsListed
===============================================================================
