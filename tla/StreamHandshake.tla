---------------------------- MODULE StreamHandshake ----------------------------
(***************************************************************************)
(* How a SAGE application gets its streaming widget.  The application      *)
(* (SAIL) connects to fsManager, which starts an fsManagerMsgThread for    *)
(* it.  The launcher, in the GUI thread, gives that thread a widget: the   *)
(* one that has waited longest in _sageWidgetQueue or, if none waits, a    *)
(* new one.  The message thread has the widget listen for the stream, in a *)
(* thread of its own (waitForPixelStreamerConnection), and then tells SAIL *)
(* to connect to it.  The GUI thread handles its posted events in order;   *)
(* a widget that is closed blocks it until the message thread ended.       *)
(*                                                                         *)
(* A message thread is named by its application, a widget by its number.   *)
(* The streaming port (20005 + the application's number) stays below 65536.*)
(***************************************************************************)
EXTENDS Integers, Sequences, FiniteSets

CONSTANTS
    Launched,   \* applications started by launchSageApp()
    Manual,     \* applications somebody starts outside SAGENext
    MaxCloses,  \* bound: the widgets that users close
    NoApp       \* no application

ASSUME AppsAssumption == /\ IsFiniteSet(Launched)
                         /\ IsFiniteSet(Manual)
                         /\ Launched \cap Manual = {}
ASSUME ClosesAssumption == MaxCloses \in Nat

App    == Launched \cup Manual
Widget == 1 .. 2 * Cardinality(App)

ASSUME NoAppAssumption == NoApp \notin App

VARIABLES
    events,             \* events posted to the GUI thread, oldest first
    gui,                \* 0: in its event loop; w: in the destructor of widget w
    sageWidgetQueue,    \* widgets waiting for their application
    created,            \* the widgets created so far are 1..created
    owner,              \* the application a widget was created for
    fsm,                \* _fsmMsgThread of a widget
    waiter,             \* the thread in waitForPixelStreamerConnection()
    receiving,          \* startReceivingThread(): "no", "yes", or "bad" without a stream
    gone,               \* the destroyed widgets
    launchedApps,       \* the applications launchSageApp() has started
    tpc,                \* where each message thread is
    tend,               \* its _end
    sageWidget,         \* its _sageWidget, 0 if null
    told                \* SAIL was sent SAIL_CONNECT_TO_RCV

guiVars    == <<events, gui, sageWidgetQueue, created, owner, launchedApps>>
widgetVars == <<fsm, waiter, receiving, gone>>
threadVars == <<tpc, tend, sageWidget, told>>
vars == <<guiVars, widgetVars, threadVars>>

Post(kind, id) == events' = Append(events, [kind |-> kind, of |-> id])

Event(kind) == gui = 0 /\ events # <<>> /\ Head(events).kind = kind

\* isWaitingSailToConnect()
Ready(w) == waiter[w] \in {"accept", "ok", "failed"}

\* A widget is made without a message thread and not ready for a streamer.
NewWidgets == /\ owner = [w \in Widget |-> NoApp]
              /\ fsm = [w \in Widget |-> NoApp]
              /\ waiter = [w \in Widget |-> "none"]
              /\ receiving = [w \in Widget |-> "no"]
              /\ gone = {}

\* A message thread is made without a widget.
NewMsgThreads == /\ tpc = [a \in App |-> "absent"]
                 /\ tend = [a \in App |-> FALSE]
                 /\ sageWidget = [a \in App |-> 0]
                 /\ told = [a \in App |-> FALSE]

\* fsManager listens, and nobody has connected.
Init == /\ events = <<>>
        /\ gui = 0
        /\ sageWidgetQueue = <<>>
        /\ created = 0
        /\ launchedApps = {}
        /\ NewWidgets
        /\ NewMsgThreads

-------------------------------------------------------------------------------
(* The GUI thread                                                            *)

\* launchSageApp(): the widget waits in the queue before its process is started.
LaunchSageApp(a) == /\ gui = 0
                    /\ a \in Launched \ launchedApps
                    /\ launchedApps' = launchedApps \cup {a}
                    /\ created' = created + 1
                    /\ owner' = [owner EXCEPT ![created + 1] = a]
                    /\ sageWidgetQueue' = Append(sageWidgetQueue, created + 1)
                    /\ UNCHANGED <<events, gui, widgetVars, threadVars>>

\* fsManager::incomingConnection() starts a message thread for the application.
IncomingConnection(a) == /\ gui = 0
                         /\ a \in Manual \cup launchedApps
                         /\ tpc[a] = "absent"
                         /\ tpc' = [tpc EXCEPT ![a] = "recv"]
                         /\ UNCHANGED <<guiVars, widgetVars, tend, sageWidget, told>>

\* Widget w and message thread t are introduced to each other.
Pair(w, t) == /\ sageWidget' = [sageWidget EXCEPT ![t] = w]
              /\ fsm' = [fsm EXCEPT ![w] = t]
              /\ events' = Append(Tail(events), [kind |-> "wake", of |-> t])

\* Mutant: the widget is not taken from the queue.
PairFrontAgain ==
    /\ Event("launch")
    /\ sageWidgetQueue # <<>>
    /\ Pair(Head(sageWidgetQueue), Head(events).of)
    /\ UNCHANGED <<gui, sageWidgetQueue, created, owner, launchedApps, waiter, receiving, gone,
                   tpc, tend, told>>

\* launch() on sageAppConnectedToFSM, a widget is waiting.
LaunchQueued ==
    /\ Event("launch")
    /\ sageWidgetQueue # <<>>
    /\ Pair(Head(sageWidgetQueue), Head(events).of)
    /\ sageWidgetQueue' = Tail(sageWidgetQueue)
    /\ UNCHANGED <<gui, created, owner, launchedApps, waiter, receiving, gone, tpc, tend, told>>

\* launch() on sageAppConnectedToFSM, no widget is waiting: one is made.
LaunchManual ==
    /\ Event("launch")
    /\ sageWidgetQueue = <<>>
    /\ created' = created + 1
    /\ owner' = [owner EXCEPT ![created + 1] = Head(events).of]
    /\ Pair(created + 1, Head(events).of)
    /\ UNCHANGED <<gui, sageWidgetQueue, launchedApps, waiter, receiving, gone, tpc, tend, told>>

\* wakeOne(), without the mutex: it wakes a thread that is asleep, or nobody.
SignalSageWidgetCreated ==
    /\ Event("wake")
    /\ LET t == Head(events).of
       IN  tpc' = IF tpc[t] = "asleep" THEN [tpc EXCEPT ![t] = "test"] ELSE tpc
    /\ events' = Tail(events)
    /\ UNCHANGED <<gui, sageWidgetQueue, created, owner, launchedApps, widgetVars, tend, sageWidget,
                   told>>

\* doInitReceiver() runs waitForPixelStreamerConnection(); Qt drops the events of
\* a destroyed widget.
DoInitReceiver ==
    /\ Event("init")
    /\ LET w == Head(events).of
       IN  waiter' = IF w \in gone THEN waiter ELSE [waiter EXCEPT ![w] = "bind"]
    /\ events' = Tail(events)
    /\ UNCHANGED <<gui, sageWidgetQueue, created, owner, launchedApps, fsm, receiving, gone,
                   threadVars>>

\* The watcher calls startReceivingThread() however the waiting ended.
StartReceivingThread ==
    /\ Event("started")
    /\ LET w == Head(events).of
       IN  receiving' = IF w \in gone THEN receiving
                        ELSE [receiving EXCEPT ![w] = IF waiter[w] = "ok" THEN "yes" ELSE "bad"]
    /\ events' = Tail(events)
    /\ UNCHANGED <<gui, sageWidgetQueue, created, owner, launchedApps, fsm, waiter, gone, threadVars>>

\* The destructor: sendSailShutdownMsg(), then wait() for the message thread.
\* Only widgets that were given a message thread are closed: one destroyed before
\* that stays in _sageWidgetQueue as a dangling pointer.
CloseBegin(w) == /\ Cardinality(gone) < MaxCloses
                 /\ gui = 0
                 /\ fsm[w] # NoApp /\ w \notin gone
                 /\ gui' = w
                 /\ tend' = [tend EXCEPT ![fsm[w]] = TRUE]
                 /\ UNCHANGED <<events, sageWidgetQueue, created, owner, launchedApps, widgetVars,
                                tpc, sageWidget, told>>

CloseEnd == /\ gui # 0
            /\ tpc[fsm[gui]] = "done"
            /\ gone' = gone \cup {gui}
            /\ gui' = 0
            /\ UNCHANGED <<events, sageWidgetQueue, created, owner, launchedApps, fsm, waiter,
                           receiving, threadVars>>

-------------------------------------------------------------------------------
(* The message thread of application t                                       *)

RegApp(t) == /\ tpc[t] = "recv"
             /\ Post("launch", t)
             /\ tpc' = [tpc EXCEPT ![t] = "test"]
             /\ UNCHANGED <<gui, sageWidgetQueue, created, owner, launchedApps, widgetVars, tend,
                            sageWidget, told>>

\* while (!_sageWidget) wait: nobody who sets or signals takes the mutex.
TestWidget(t) == /\ tpc[t] = "test"
                 /\ tpc' = [tpc EXCEPT ![t] = IF sageWidget[t] = 0 THEN "sleep" ELSE "init"]
                 /\ UNCHANGED <<guiVars, widgetVars, tend, sageWidget, told>>

SleepForWidget(t) == /\ tpc[t] = "sleep"
                     /\ tpc' = [tpc EXCEPT ![t] = "asleep"]
                     /\ UNCHANGED <<guiVars, widgetVars, tend, sageWidget, told>>

\* The widget is asked to listen, then SAIL_INIT_MSG is sent; that may fail.
SendInit(t) == /\ tpc[t] = "init"
               /\ Post("init", sageWidget[t])
               /\ \E sent \in BOOLEAN :
                     /\ tend' = [tend EXCEPT ![t] = tend[t] \/ ~sent]
                     /\ tpc' = [tpc EXCEPT ![t] = IF tend'[t] THEN "done" ELSE "poll"]
               /\ UNCHANGED <<gui, sageWidgetQueue, created, owner, launchedApps, widgetVars,
                              sageWidget, told>>

\* Mutant: the message thread does not wait until the widget listens.
PollOnce(t) == /\ tpc[t] = "poll"
               /\ tpc' = [tpc EXCEPT ![t] = "connect"]
               /\ UNCHANGED <<guiVars, widgetVars, tend, sageWidget, told>>

\* The forever loop; it ends in no other way.
PollReady(t) == /\ tpc[t] = "poll"
                /\ Ready(sageWidget[t])
                /\ tpc' = [tpc EXCEPT ![t] = "connect"]
                /\ UNCHANGED <<guiVars, widgetVars, tend, sageWidget, told>>

\* SAIL_CONNECT_TO_RCV; that may fail, too.
SendConnect(t) == /\ tpc[t] = "connect"
                  /\ \E sent \in BOOLEAN :
                        /\ told' = [told EXCEPT ![t] = sent]
                        /\ tend' = [tend EXCEPT ![t] = tend[t] \/ ~sent]
                        /\ tpc' = [tpc EXCEPT ![t] = IF tend'[t] THEN "done" ELSE "run"]
                  /\ UNCHANGED <<guiVars, widgetVars, sageWidget>>

\* SAIL disconnects or sends SAIL_SHUTDOWN, because of APP_QUIT or on its own.
SailQuits(t) == /\ tpc[t] \in {"recv", "run"}
                /\ tend' = [tend EXCEPT ![t] = TRUE]
                /\ tpc' = [tpc EXCEPT ![t] = "done"]
                /\ UNCHANGED <<guiVars, widgetVars, sageWidget, told>>

-------------------------------------------------------------------------------
(* waitForPixelStreamerConnection() of widget w                              *)

WaiterEnds(w, result) == /\ waiter' = [waiter EXCEPT ![w] = result]
                         /\ Post("started", w)
                         /\ UNCHANGED <<gui, sageWidgetQueue, created, owner, launchedApps, fsm,
                                        receiving, gone, threadVars>>

\* socket(), bind() and listen(); on an error -1 is returned at once.
Listen(w) == /\ waiter[w] = "bind"
             /\ \/ /\ waiter' = [waiter EXCEPT ![w] = "accept"]
                   /\ UNCHANGED <<guiVars, fsm, receiving, gone, threadVars>>
                \/ WaiterEnds(w, "nosocket")

\* accept() and the registration message, which may not arrive.
Accept(w) == /\ waiter[w] = "accept"
             /\ told[fsm[w]]
             /\ \E result \in {"ok", "failed"} : WaiterEnds(w, result)

-------------------------------------------------------------------------------
GuiStep == \/ LaunchQueued \/ LaunchManual \/ SignalSageWidgetCreated
           \/ DoInitReceiver \/ StartReceivingThread \/ CloseEnd

MsgThread(t) == \/ RegApp(t) \/ TestWidget(t) \/ SleepForWidget(t) \/ SendInit(t)
                \/ PollReady(t) \/ SendConnect(t)

Waiter(w) == Listen(w) \/ Accept(w)

Next == \/ GuiStep
        \/ \E a \in App : LaunchSageApp(a) \/ IncomingConnection(a) \/ MsgThread(a) \/ SailQuits(a)
        \/ \E w \in Widget : CloseBegin(w) \/ Waiter(w)

Spec == Init /\ [][Next]_vars

-------------------------------------------------------------------------------
TypeOK == /\ \A i \in DOMAIN events :
                events[i] \in [kind : {"launch", "wake"}, of : App]
                              \cup [kind : {"init", "started"}, of : Widget]
          /\ gui \in {0} \cup Widget
          /\ sageWidgetQueue \in Seq(Widget)
          /\ created \in {0} \cup Widget
          /\ owner \in [Widget -> App \cup {NoApp}]
          /\ fsm \in [Widget -> App \cup {NoApp}]
          /\ waiter \in [Widget -> {"none", "bind", "nosocket", "accept", "ok", "failed"}]
          /\ receiving \in [Widget -> {"no", "yes", "bad"}]
          /\ gone \subseteq 1..created
          /\ launchedApps \subseteq Launched
          /\ tpc \in [App -> {"absent", "recv", "test", "sleep", "asleep", "init", "poll",
                              "connect", "run", "done"}]
          /\ tend \in [App -> BOOLEAN]
          /\ sageWidget \in [App -> {0} \cup Widget]
          /\ told \in [App -> BOOLEAN]

\* A widget and a message thread that know each other know nobody else.
PairedOneToOne == /\ \A t \in App : sageWidget[t] # 0 => fsm[sageWidget[t]] = t
                  /\ \A w \in Widget : fsm[w] # NoApp => sageWidget[fsm[w]] = w

\* Widgets find their applications in the order in which they were created: none
\* is overtaken while it waits (the two queues of the launcher stay in step).
FirstComeFirstServed == \A w \in 1..created : fsm[w] # NoApp => \A v \in 1..w : fsm[v] # NoApp

\* However applications connect, launch() pairs widgets and message threads one
\* to one and in the order of the queue.
PairingInv == TypeOK /\ PairedOneToOne /\ FirstComeFirstServed

\* SAIL is told to connect only after the widget began to listen for it.
ToldWhenListening == \A t \in App : told[t] => Ready(sageWidget[t])

\* The destructor of a widget that listens waits for a message thread that knows
\* of its end and does not, in turn, wait to be woken by the GUI thread.
WaitsForAwake == gui # 0 /\ Ready(gui) => /\ tend[fsm[gui]]
                                          /\ tpc[fsm[gui]] \in {"poll", "connect", "run", "done"}

\* The three threads of a widget agree on when it listens: the message thread
\* before it tells SAIL to connect, the GUI thread when it closes the widget.
ListeningInv == ToldWhenListening /\ WaitsForAwake
===============================================================================
