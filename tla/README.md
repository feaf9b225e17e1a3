# Verification of SAGENext

SAGENext is the software of a tiled display wall: one Qt program that shows windows of images, documents, web pages, VNC
desktops and pixel streams of SAGE applications, driven by pointers that users share from their laptops. This directory
holds TLA+ models of the parts of it in which several threads, several processes or long sequences of user actions meet,
TLC configurations that check them, and proofs of most of their safety properties for every size of the system.

Paths are relative to the repository root. `T/` abbreviates `src/thewall/`, and `C/` abbreviates `src/uiclient/`.

1. [Inventory](#1-inventory)
2. [Modules and how they correspond to the code](#2-modules-and-how-they-correspond-to-the-code)
3. [Runs, bounds and what they show](#3-runs-bounds-and-what-they-show)
4. [Fairness](#4-fairness)
5. [Proofs](#5-proofs)
6. [Disagreements between the code and what it says](#6-disagreements-between-the-code-and-what-it-says)
7. [What is not modelled, and the remaining hazards](#7-what-is-not-modelled-and-the-remaining-hazards)
8. [Plan](#8-plan)

Checking it: `tlc -config X.cfg M` for every pair of section 3, and `tlapm M.tla` for every module
whose name ends in `Proofs`. `PROJECT.json` maps every
definition that models code to its lines.

## 1. Inventory

The wall has one GUI thread. Everything Qt paints, every event, timer and queued signal runs there; it must never block
for long, because the whole wall stands still with it. Around it there are threads: one receiver per pixel stream, one
`fsManagerMsgThread` per SAGE application, a pool thread per stream while it waits for its connection, one thread per VNC
viewer, two threads per connected pointer client (messages and files), the scheduler's thread, the thread that replays a
user study, and a few that only compute pictures. They meet in queued signals, in mutexes with condition variables, and in
plain shared variables. Where there is only the GUI thread, what is hard is the order in which several users click.

| component | state | operations | interacts through | what is hard about it | what makes it correct |
|---|---|---|---|---|---|
| double buffer (`T/common/sn_doublebuffer.*`) | two buffers, `bufferIndex`, `queueLength`, a mutex, two conditions | `swapBuffer`, `getFrontBuffer`, `getBackBuffer`, `releaseBackBuffer`, `releaseLocks` | called by the receiver and by the GUI thread | the mutex is held between `getBackBuffer` and `releaseBackBuffer`; buffers are used outside of it; a length is read after unlocking | no torn frame, no lost frame, no lost wake-up, closing wakes everybody |
| streaming widget (`T/applications/base/sn_sagestreamwidget.cpp`, `sn_sagepixelreceiver.cpp`) | `_end`, `_delay`, the socket, the double buffer or a pair of PBOs | receive, swap, emit `frameReceived`, `scheduleUpdate`, `schedulePboUpdate`, destructor | queued signals `frameReceived`, `finished`, `setDelay_msec` | the receiver may be anywhere when the widget is closed; pausing; a sender that leaves | every frame is shown, the end of the stream is noticed, the destructor ends |
| stream handshake (`T/sage/fsmanager*.cpp`, `T/sn_sagenextlauncher.cpp`, `waitForPixelStreamerConnection`) | `_sageWidgetQueue`, `_sageWidget`, `_fsmMsgThread`, `_isWaiting…`, `_end` | REG_APP, `launch`, `signalSageWidgetCreated`, `doInitReceiver`, SAIL_INIT_MSG, SAIL_CONNECT_TO_RCV, APP_QUIT | TCP messages with SAIL, posted events, a condition variable, polling | four threads and a process; widgets and connections come in any order; closing in the middle | one widget per application, first come first served, SAIL connects to somebody who listens |
| VNC viewer (`T/applications/sn_vncwidget.cpp`) | `_pbomutex`, `__bufferMapped`, `_mappedBufferPtr`, `_end`, two PBOs | `receivingThread`, `scheduleUpdate`, `startImageRecvThread`, destructor | mutex and condition, `frameReceived`, `close` | the mutex is held through network input | the GUI thread is never held up by the network |
| file transfer (`C/sn_pointerui.cpp`, `T/uiserver/sn_fileserver.cpp`) | `_fileTransferSemaphore`, `_fileBeingSent`, the data socket, the progress dialog | `runSendFileThread`, `sendFilesToWall`, `readMessage`, `SN_FileServerThread::run`, `_recvFile` | data socket one way, reports over the message channel the other way | a protocol over two connections; failures to open; a connection that breaks | whole files, in order, launched once; the sender waits and goes on |
| layouts (`T/common/sn_layoutwidget.cpp`, minimize bar and sessions in `T/sn_scene.cpp`) | a tree of layouts with bars, windows in its leaves, geometry saved per window | split, remove, drag a bar, place, drag, minimize, restore, close, save and load a session | called by the pointers, recursively through Qt's resize events | a long series of legal calls; geometry in two coordinate systems; several users drag at a time | a tree whose leaves hold the windows; nothing jumps; a session restores the wall |
| launcher (`T/sn_sagenextlauncher.cpp`) | `_globalAppId`, the queue above, `theLastLaunched`, the application map of a replayed study | `launch` per media type, `launchSageApp`, sessions, replay, close-all | file server, media browser, sessions, fsManager, remote commands | numbers come from a counter that sessions overtake and close-all sets back; a thread polls a global pointer | a number finds the widget it was given to; the queue holds the widgets that wait |
| resource monitor (`T/system/sn_resourcemonitor.cpp`) | the list and the map of widgets, loads of processors | `addSchedulableWidget`, `removeSchedulableWidget`, `refresh`, `assignProcessor` | a timer, the scheduler, destructors of widgets | readers in other threads than the GUI's | no widget is used after it was deleted |
| schedulers (`T/system/sn_scheduler.cpp`) | thread, timer, fiducial widget, phases of the self-adjusting scheduler | start, stop, change of frequency, `doSchedule` | queued signals to and from the GUI thread, `setQuality` | replacing a scheduler while its thread runs | allocation within the capacity; a paused stream resumes |
| performance monitor, priority (`T/applications/base/sn_perfmonitor.cpp`, `sn_priority.cpp`, `T/system/sn_prioritygrid.cpp`) | measured and required bandwidth, counts of interaction | update per frame, evaluation per round | receiver writes, scheduler reads | feedback; divisions by elapsed time | requirements are finite and positive |
| UI server, message threads (`T/uiserver/sn_uiserver.cpp`, `sn_uimsgthread.cpp`) and the pointer program (`C/sn_pointerui.cpp`) | maps of clients, threads and pointers; on the client its number and whether it captures the mouse | connection, `handleMessage`, disconnection, sharing, shutdown | TCP messages, queued signals | clients that vanish with messages in flight; a message carries a number its sender wrote | no pointer is left behind by a thread; the mouse comes back |
| media storage and media browser (`T/sn_mediastorage.cpp`, `T/applications/sn_mediabrowser.cpp`) | the list of media; directory, page and panel of the window | browsing, paging, going up; adding a file that arrived | file server, launcher | the page number outlives its directory | the browser always shows a page that exists and a way on |
| Fitts law test (`T/applications/sn_fittslawtest.cpp`) | rounds per subject, the data object all tests share, trapped pointers, a double buffer used in its own way | the controller's buttons, clicks, drags, frames, closing | pointers, a receiving thread per streaming test | `processEvents()` inside a click; a counter changed without its mutex | a trapped pointer has a running round; every announced frame is accounted for |
| shared pointers (`T/common/sn_sharedpointer.cpp`) | the widget under the pointer and what is being done to it | press, move, release, click, wheel | calls into widgets, layouts and the scene | a widget may go away between press and release; two pointers share the flags and the remembered geometry of one widget | what is remembered of windows and pointers still exists; a window that is up has a size a user gave it |
| scene and view (`T/sn_scene.cpp`, `T/sn_view.cpp`, `T/main.cpp`) | the root layout, the buttons, the UI server | building, closing | timers, the window manager | shutting down from inside a message | everything is deleted once |
| base widgets (`T/applications/base/sn_basewidget.cpp`, `sn_railawarewidget.cpp`) | window state, recent geometry, affinity | minimize, maximize, close, press and drag | Qt's events | closing with events pending | |
| viewers without threads: images, PDF, web, video, drawing | a picture and its navigation | painting, input | the event loop | nothing runs concurrently | |
| checker (`T/applications/sn_checker.cpp`) | generated pixels | as the streaming widget's PBO path | | a benchmark | |
| thumbnails | pictures | scale | a thread that nothing starts | | |
| affinity, settings, dialogs, monitor widget | records of configuration | | | | |
| plugins, SAGE library, pointer capture | | | | code of other programs, or an interface | |

`PROJECT.json` lists the same components with what is modelled of each, and under "hazards" the places in this code where
a test would hardly find a mistake.

## 2. Modules and how they correspond to the code

| module | models | composes or extends |
|---|---|---|
| `FrameHandoff` | what the double buffer promises: a one-place slot | abstract specification |
| `DoubleBuffer` | the two threads inside `DoubleBuffer`'s five operations | implements `FrameHandoff` |
| `StreamWidget` | a whole streaming widget: receiver loop, pauses, disconnection, destructor | extends `DoubleBuffer` by its users' life, implements `FrameHandoff` |
| `PboStream` | the same widget on its OpenGL path, where the double buffer is not used | |
| `VncStream` | the VNC viewer, whose protocol between two threads is a third one | |
| `StreamHandshake` | how a widget and an application find each other before that | |
| `MediaBrowser` | the list of media and the window to browse it | |
| `FileTransfer` | files from a pointer client to the launcher and the list of media | extends `MediaBrowser` |
| `LayoutTree` | the wall's partitions, windows, minimize bar, and the saving and loading of sessions | |
| `PerfMonitor` | what is measured of one widget, and what it is believed to need | |
| `Scheduling` | the registry of widgets, the scheduler's control, thread and rounds | extends `PerfMonitor` |
| `SharedPointers` | what pointers do to windows, several on one window included | |
| `PointerClients` | pointer programs, the UI server and its message threads | |
| `Launcher` | numbers, the registry, the queue of awaited widgets, sessions, replay of a study | |
| `FittsLaw` | the Fitts law tests and the object they share | |
| `StreamWidgetProofs` | theorems about the double buffer and the widget, and that both implement the slot | extends `StreamWidget` |
| `PboStreamProofs`, `VncStreamProofs`, `StreamHandshakeProofs`, `SchedulingProofs`, `FittsLawProofs` | theorems about one module each | extend that module |
| `LauncherProofs` | theorems about the launcher, the files it is handed and the media browser | extends `Launcher` and `FileTransfer` |
| `PointerProofs` | theorems about pointers on windows, about the clients they come from and about the layouts they split | extends `SharedPointers`, `PointerClients` and `LayoutTree` |
| `MC…` | the instances for TLC | |

In the modules about threads an action is one step that another thread can see: taking or giving up a mutex, joining the
sleepers of a condition (which POSIX makes one step with giving up the mutex), one access to a shared variable, one queued
signal. Code between two such steps belongs to one of them. In the modules about the GUI thread alone an action is a whole
handler, with everything it calls. A queued signal is a counter where only one kind of signal exists (`frameReceived`), and a
sequence of events where the order matters (`events`, `posted`, `deferred`). Spurious wake-ups of condition variables
are actions: POSIX allows them. Pixels are the number of the frame they belong to, or `Torn` while `recv()` or `memcpy()`
writes into them.

**`DoubleBuffer`.** `queueLength`, `bufferIndex`, `doubleBuffer` and `mutex` are the class's fields; `asleep` is the two
condition variables (the receiver sleeps on `_notFull` only, the GUI thread on `_notEmpty` only). `Lock`, `Wait`, `Sleep`,
`Wake` are the prologue that `swapBuffer()` and `getBackBuffer()` share, with `MustWait` the condition of each loop. The
receiver's cycle is `SwapTest`, `SwapFlip`, `SwapUnlock`, `SwapSignal`, `Emit`, `RecvBegin`, `RecvEnd`; the GUI thread's is
`ScheduleUpdate`, `GetBackBuffer`, `Convert`, `ReleaseBackBuffer`, `ReleaseSignal`. `ReleaseBackBuffer` and `ReleaseSignal`
are two actions because the code reads `queueLength` again after it unlocked. `run()` swaps before the first `recv()`: frame 0
is what the buffers hold then. The refinement mapping `Slot` says when a frame is on offer: from the flip to the
conversion.

**`StreamWidget`** extends it by `_end`, the scheduler's pause (`_delay` below zero), the socket, and the destructor. The
destructor calls `endReceiver()`, then `releaseBackBuffer()` without holding the mutex (`DropBackBuffer`, `DropUnlock`, `DropSignal`:
what POSIX leaves undefined is taken as what a default pthread mutex does, it becomes free whoever held it), then
`releaseLocks()` (`Unblock`), then it waits (`Join`). `FinishedCloses` is the connection of `finished()` to `close()`. Closing
is the end of the abstract hand-off, whatever the destructor does to the buffer (`WidgetHandoff`).

**`PboStream`.** Each side flips an index of its own; `pthread_cond_wait()` has no condition around it. `Wake` models what
follows the wait up to `recv()`: the flip, and the round that is skipped when the pointer is null. `MapBuffer` may fail
(`MapFails`). `mapped` are the buffers that are really mapped and `bufarray` what the widget's array of pointers says.

**`VncStream`.** The thread keeps the mutex from `TakeBuffer` to `CopyDone`; `NetworkDone` stands for all the messages of
a frame interval. `StartThread` is `startImageRecvThread()`, `InitFails` its other outcome.

**`StreamHandshake`.** `events` is the GUI thread's queue of posted calls: `launch` (from `sageAppConnectedToFSM`), `wake`
(`signalSageWidgetCreated`), `init` (`doInitReceiver`) and `started` (the future watcher of
`waitForPixelStreamerConnection()`). The message thread is `RegApp`, `TestWidget`/`SleepForWidget` (the loop around its
condition variable, which is not atomic towards a signaller that takes no mutex), `SendInit`, `PollReady`, `SendConnect`, `SailQuits`.
`gui = w` says that the GUI thread is inside the destructor of widget `w`, where nothing else is handled.

**`MediaBrowser`.** `mediaList` is the storage's map; the window is `isRootWindow`, the directory `currentDir` with its items
and the page `panel` shows. A click needs something visible: `ClickMediaIcon` a root icon, `OpenFolder` a directory on the page,
`GetParentDir` and `DisplayRootWindow` the panel's buttons, `PrevPage` and `NextPage` the arrows. Moving an iterator past the end
of the items is undefined in C++: `UpdateThumbnailPanel` then shows any of `Wild`.

**`FileTransfer`.** A drop is a thread (`Sender`) with a list of files, files chosen in the dialog (`OpenFiles`) are sent by the
client's GUI thread itself. `wire` is the data socket of each connection, in chunks of one `recv()`; `events` is what the client's GUI
thread has to handle, its own queued `fileSendingBegins` and the wall's reports, in the order of arrival; `posted` is the same for the
wall. `RecvChunk` takes whatever comes for a chunk of the present file, as `_recvFile()` does. `Disconnect`, `Connect` and `Break`
are the ends of a connection; every connection has a thread of its own on the wall, and what it posts is handled after it is gone. `Store` writes
what arrived and has three outcomes: all of it, or with a full disk (`DiskFills`) a part, which is announced like the whole, or nothing, after which `_recvFile()`
returns without `fileReceived()`. The last report was sent before in any case. `unstored` is a history variable.
`LaunchReceived` and `AddReceived` are the two slots that a file that arrived is given to.

**`LayoutTree`.** `layout` maps a number to a layout's record: its parent, whether it is the first or the second child,
its rectangle in its parent, its bar and its two children. `window` says in which layout a window is and where. The code's
methods call themselves for the layouts below; the model has recursive functions over the layouts instead. `ResizeEvent`, `AdjustBar` and
`AdjustChildPos`, put together in `SetRectangles`, are the chain of Qt's resize events: the area of a layout follows from its parent's.
`Taker` is `addItem()` going down to a leaf; `Below` and `Leaves`, what is deleted and what is rescued with a partition, are the least sets that are
closed under children. `LoadSession` reads entry by entry: the layouts whose `loadSession()` has not returned are a stack (`todo`). `SaveSession`
is a recursion along the children, and `ItemEntries` writes the windows of a layout in some order: Qt's order of child items is that of the
last raise, and the properties do not depend on it. Scene positions are measured from the root layout. Windows are squares of one size, icons too; scaling and tiling are left out. An icon that is dragged off the
minimize bar stays in state `W_MINIMIZED`, and a click does not find it: so does the code.

**`PerfMonitor`, `Scheduling`.** `UpdateBWdata` is the method; qualities and shares are compared by cross multiplication. The GUI
thread's handlers are `AddSchedulableWidget`, `CloseWidget`, `Refresh`, `ToggleOn`/`ToggleOff`, `SetPrintFile`/`StopPrintData` and
`KillScheduler`; a handler that must wait for the scheduling thread (a destructor that needs the write lock, `stopScheduler()`,
the monitor's end) is in `gui` and goes on by `GuiContinues`. A round of ProportionalShare (`Visit`, `Apply`) holds the read lock from
its first step to its last and serves bucket by bucket in the order of priorities; `round` is its local state. A round of SelfAdjusting
(`Copy`, `Compare`) copies the list of widgets, works on the copy without the lock, and compares each pair. `posted` are the rounds the timer
has queued to the thread. The priority grid is kept as far as its total tells: not built, built with all zeros, or with shares.

**`SharedPointers`.** `ptr` is a pointer with the window it holds (`_basewidget`) and what it has pressed; `win` a window with its state,
its remembered geometry and the flags all pointers share; `stack` the order of the scene. `Move`, `LeftDrag`, `RightDrag`,
`PointerPress`, `PointerRelease`, `LeftClick`, `RightClick`, `DoubleClick` and `Wheel` are the handlers that the server's messages call;
`Close` is `close()` and `Destroy` the deferred deletion. `isWindow` tells a `Qt::Window`, which is resized and which the wheel leaves alone, from a widget that is
scaled. What is remembered of a size is `NoSize` until the first left press in the normal state, since `SN_AppInfo`'s constructor sets none; `restore()` resizes a
`Qt::Window` to it, `restoreWidget()` any widget. `grip` is a history variable: what the last press on the window took.

**`PointerClients`.** A connection has two ends: `peer` and `net` on the client's side, `thread` on the wall's. `RunReceive` and `RunEnd`
are the message thread, which posts to `events`; `GuiStep` handles the first event: `HandleMessage` (`PointerShare`, `PointerUnshare`,
`ToPointer`, the remote close), `RemoveFinishedThread` and `DestroyThread`. `LinkFails` cuts a connection without telling anybody: the wall's
keep-alive finds out (`RunEnd`), the client may (`SocketError`). `HostClosed` is what the wall's closing does to its clients. A program that shares before it read its number uses the stale one it had.

**`Launcher`.** `_globalAppId`, `_sageWidgetQueue`, `_widgetMap` and `theLastLaunched` are the code's; `life` says whether a widget is
awaited or in the scene, `deferred` what `deleteLater()` was called for. `LaunchByUser`, `LaunchQueued`, `LaunchManual`, `LoadEntry` and
`ReplayLaunch` are the five ways to a widget. The replay of a study is a thread of its own: `ReplayAsks`, `ReplayTakes`, `ReplayMoves`,
`ReplayRemoves`. `misused` is the end of the model: a deleted widget or monitor was called, which the code does (section 7) and after which
nothing can be said. `strays` and `strayIds` are history variables.

**`FittsLaw`.** `Launch` is the constructor: the first widget makes the data object, and from the fourth on each is user C and takes the place of the C
before it in `members`. `test` is the round of each widget, `calls` the stack of clicks that wait in `startRound()` while `processEvents()` runs other
handlers: `StartRound` pushes and `ClickGoesOn` returns. The controller's buttons are `AdvanceRound`, `PracticeRound` and `CloseAll`. The receiver's
cycle (`LoopTop` … `RecvFrame`) is the streaming widget's, with a semaphore before each frame; `HandleFrame`, `ReleaseBackBuffer` and
`SignalNotFull` are `scheduleDummyUpdate()`, which takes no mutex. `missed` is a history variable: the tests that `closeAll()` does not find.

How the parts meet: `StreamHandshake` ends where `StreamWidget` and `PboStream` begin; the pauses of `StreamWidget` (`SetDelay`) are what the
rounds of `Scheduling` ask for; the file that `FileTransfer` launches is `LaunchByUser` of `Launcher`, and the awaited widgets of `Launcher` are
paired by `StreamHandshake`; the messages of `PointerClients` are the operations of `SharedPointers`, and those on partition bars of `LayoutTree`.

## 3. Runs, bounds and what they show

| run | module, configuration | bounds | shows |
|---|---|---|---|
| `stream_widget` | `MCStreamWidget` | `NumFrames = 4`, pauses, closing and a sender that leaves at any moment | no torn frame (`NoTearing`), no missed signal (`SleepsOnlyOnFull`), the GUI thread never waits for a frame (`GuiNeverWaits`), frames are shown once and in order (`FramesInOrder`), all of it is the one-place slot with its liveness (`WidgetHandoffSpec`), a stream that ended takes its widget along (`EndsWithStream`), and closing ends whenever the receiver is neither in `swapBuffer()` nor paused (`ClosesOutsideSwap`) |
| `stream_close_swap` | `MCStreamWidget`, `MCStreamCloseSwap.cfg` | `NumFrames = 3`, no pauses | the violation of section 6 (`ClosingEnds`) |
| `pbo_stream` | `MCPboStream` | `NumFrames = 4`, mapping fails, users close, one spurious wake-up | the two indices stay in step and only mapped memory is written (`MappedInStep`), what is uploaded is whole, new, and all there is (`Uploads`), and which closings end (`WidgetCloses`) |
| `vnc_stream` | `MCVncStream` | `NumFrames = 4`, mapping fails, users close, any number of spurious wake-ups | mutex and flag divide the memory and never make the GUI thread wait for the network (`SharesBuffer`), whole frames are uploaded, all of them (`Uploads`), and which closings end (`WidgetCloses`) |
| `handshake` | `MCStreamHandshake` | two launched applications, one started by hand, one widget closed, symmetry of the launched | pairs are one to one and in the order of the queue (`PairingInv`); nobody is told to connect before his widget listens, and a destructor waits only for a thread that is awake and knows of its end (`ListeningInv`) |
| `file_transfer` | `MCFileTransfer` | one sender, a drop of a file and a web address or files by the dialog, two chunks, two connections, failing opens, a disk that is full; a browser over four directories with one item per page | files are whole, in order, never twice, the client does not run ahead and no thread is forgotten (`LaunchesRight`); the sender goes on (`SenderGoesOn`), what is begun is launched and listed unless its connection breaks or the disk does not take it (`EveryFileLaunched`); the browser fails its user in three ways only (`BrowserGoesOn`) |
| `layout_tree` | `MCLayoutTree` | a wall of 4 by 4, a window of side 2, at most 5 layouts, bars moved by 2, two places, two sessions | the layouts are a tree and windows are in its leaves (`TreeInv`), children meet at the bar (`SiblingsMeet`), a session that is saved restores the wall (`SessionRestores`), partitions and the minimize bar neither move nor lose a window (`PlacesKept`) |
| `scheduling` | `MCScheduling` | two widgets, one refresh or round beyond those at the start, two buckets | the list holds living widgets, and so does a proportional round (`LockInv`); after stopping everybody is at full quality and the data file says so (`StopInv`); a round serves by priority and wastes nothing (`SharesFairly`); waiting for the scheduling thread ends (`GuiGoesOn`) |
| `pointer` | `MCSharedPointers` | two pointers, two windows, one place on the wall beside button and bar, 6 steps of users | what is remembered of windows and pointers still exists (`HoverInv`), no series of clicks leaves a window up with an icon's size or a maximized one's; only a window nobody has pressed yet may come back with a size that was never set (`NormalHasOwnSize`), dropping resizes only what was taken at its corner (`MoveKeepsSize`) |
| `pointer_clients` | `MCPointerClients` | two clients, two connections, one message in flight | a message finds the thread it came from (`SenderInv`), a pointer goes with its thread (`PointerGoesWithThread`), whatever way a client leaves it is forgotten (`ClientsLeave`), and the mouse comes back when the wall closes (`MouseComesBack`) |
| `launcher` | `MCLauncher` | two widgets, numbers to 2, one saved session, symmetry of the widgets | queue, list and map agree with the widgets there are (`RegistryInv`); two widgets share a number only if one waited through a close-all or a session (`NumbersClashOnlyWithAwaited`); while the monitor is there, every stream is what is found under its number, but for numbers awaited while a session was loaded (`StreamsAreFound`) |
| `fitts` | `MCFittsLaw` | two subjects, two targets a round, four widgets, one with a stream, two pointers, two starts, three presses of the controller's buttons, one suspended click | a trapped pointer has a running round and the list of targets is what was shown (`RoundInv`), every announced frame is accounted for (`FramesAccounted`), the Finish button leaves nothing that uses the deleted data object, but a user C whose place a later test took and a test that came after the button (`FinishIsSafe`) |

Every property of a passing run has a mutant, a plausible mistake in the code written as an operator next to the
definition it would change; with it, TLC finds the property violated. They are marked `Mutant:` in the modules.

Why the bounds are enough:

* `NumFrames` bounds what the sender sends before it falls silent. The state of a hand-off is the parity of the index, what
  each of two buffers holds and where the threads are. It repeats after two frames; four let a frame follow one
  that went through both buffers and make the receiver meet a full buffer again after it was emptied. For what section 5
  proves of `DoubleBuffer`, `StreamWidget`, `PboStream` and `VncStream` the bound does not matter.
* One spurious wake-up in `PboStream` (`SpuriousWake` needs `~spurious`): the code has no condition around the wait, so one
  is enough to bring the indices out of step, and every further one would queue another `frameReceived`. The properties
  speak of behaviours up to that first one; what holds after it is not claimed. The condition waits of the other modules are in
  loops and have no such bound.
* Two launched applications and one by hand are the smallest set in which connections overtake each other and a foreign one takes
  a launched one's widget; three launched ones would only lengthen the queue. `MaxCloses = 1`: the destructor that is inside
  its wait blocks the GUI thread, so a second closing begins only after the first one's threads are gone. Widgets that are
  closed before their application connected stay out; the code leaves them in `_sageWidget` and in the queue (section 7).
* A drop of two files: one that needs a report and one that needs none. Two chunks make a report that is not the last; two connections
  are the one that breaks and the one that follows. `Mixes = FALSE` keeps a user from dropping or reconnecting while a transfer is under way,
  because the code then mixes files on the wire (section 7). The browser's directories are one without files, one with a picture and an
  empty directory, which is two pages, and three once a file arrived.
* `MaxLayouts = 5` is a wall that is split twice, so that a bar is inside of a layout that another bar resizes; all halves
  are whole numbers at this size. `WindowsNear` in `DragBar` keeps bars from pushing a window off the wall, which the code
  does not prevent. `DragBar`'s guard that the bar stays in its layout is the hand of a user whose pointer does not leave the
  layout while it drags the bar; without it `SiblingsMeet` is violated (section 7).
* `Reloads = FALSE` keeps sessions from being loaded onto a wall that has partitions, and `Web = {}` leaves out web pages. Setting
  `Reloads = TRUE` violates `IsTree`, and setting `Web <- OneWindow` violates `SessionRestores`: both are things the code does
  and both are on the list of section 7.
* `Scheduling` starts from an empty wall and from a wall in service, whose scheduler was started and whose monitor was refreshed once; with the
  second one a single further refresh (`MaxRounds = 1`) gives two rounds in a row, the second of which may still be queued while the
  scheduler is stopped. Two widgets are one that declared its need and one that is measured. `BucketParts = 2` makes the scoops of these figures whole
  numbers; the code uses 10, which changes the number of passes and not what a pass does.
* Two pointers are enough for one to press in the middle of the other's drag. Six steps are press, drag and release of both; one place on the wall
  and those of the button and the bar are all a drag can end on that makes a difference.
* Two clients with two connections: one client that comes back with a new number, or two that meet. One message in flight is enough because the
  wall's event queue keeps what was received, and messages of two threads interleave there.
* Two widgets and numbers to 2: a clash needs two widgets, and setting the counter back needs one number to have been given.
* `MaxPresses = 3` is a practice round, a real one, and one that interrupts it; one suspended click is a click inside of which everything else runs.
  Four widgets let one take the place of a user C. The run starts in two states that `Init` leads to: two tests were launched, finished and destroyed
  (`AfterATest`), or three were launched and one round button was pressed in the meantime without a round begun (`ThreeTests`). From `Init` itself four widgets
  with their rounds are out of reach of TLC; the theorems are about `Init`.
* The theorems of section 5 hold for every value of these constants. The bounds matter for liveness and for `HigherPriorityFirst`.

Deadlock is not checked: the sender falls silent, users need not do anything, a wall without clients is at rest. What must not
stop is stated as liveness.

## 4. Fairness

* Every thread has weak fairness of its own steps: the operating system runs it. A thread that waits for a sender, for a user
  or for a lock it cannot get has no enabled step.
* The GUI thread has in addition strong fairness of taking the mutex in `DoubleBuffer` and `StreamWidget` (`Lock("gui")`) and in
  `VncStream` (`Signal`). While it waits, spurious wake-ups may let the other thread take and give up the same mutex any number of
  times; a mutex that is free again and again is got in the end. No such thing is needed in `PboStream`.
* `FileTransfer`: each sending thread, each thread of the wall and both GUI threads go on. `Scheduling`: the scheduling thread, and the GUI thread
  inside a handler that waits for it. `PointerClients`: the wall's event loop, its accepting and receiving (its threads set the keep-alive option, which
  finds a cut link), and the notice each client takes of a wall that closed. The client sets no such option: nothing makes it find a cut link, and
  `MouseComesBack` speaks of those whose link holds.
* `StreamHandshake`, `LayoutTree`, `SharedPointers`, `Launcher` and `FittsLaw` state no fairness: their properties are about what a step may
  do. For `StreamHandshake` there is a reason: the code can lose a wake-up and poll forever (section 6), so that nothing of interest is
  certain to happen.
* Nothing is asked of users, of the sender, of the scheduler that pauses and resumes, of the VNC server, of a connection that
  may break, or of spurious wake-ups. Properties that need one of them say so: `EndsWithStream` speaks of
  streams that are not paused for good (`<>[]~paused`), `SenderGoesOn` of a connection that is not replaced.

## 5. Proofs

Eight modules hold theorems. Each proves them for every value of the constants, from the named assumptions of the module it extends and from
nothing else; those assumptions say that bounds are natural numbers, that sets of actors are finite and that different kinds of model values
are different; of saved sessions they say what `saveSession()` writes, areas that meet and no window twice. `Init` is the start of the program:
the second start of `MCScheduling` and the starts of `MCFittsLaw` are for TLC only. Three hypotheses occur besides. `~Mixes` of `FileTransfer`: when the user drops files, or connects
anew, while others are being sent, the client mixes them on the wire, and the wall cannot tell (section 6). `~Reloads` of `LayoutTree`: when a session is
loaded onto a wall that has partitions, `createChildPartitions()` forgets the layouts that were there, and the layouts are no longer a tree (section 7).
`Web = {}` of `LayoutTree`, for `SessionsAreRestored` only: the address of a web page is written to a session and not read back (section 7).

| module | theorem | states |
|---|---|---|
| `StreamWidgetProofs` | `TypeCorrect` | the types of `DoubleBuffer` |
| | `NoTearingThm`, `WidgetNoTearingThm` | `recv()` never writes into the buffer that is converted |
| | `NoLostNotFullThm`, `SleepsOnlyOnFullThm` | the signal after the unlock never misses a sleeping receiver; in the widget, until it is closed |
| | `GuiNeverWaitsThm`, `WidgetGuiNeverWaitsThm` | `scheduleUpdate()` never blocks in `getBackBuffer()` |
| | `FramesInOrderThm`, `WidgetFramesInOrderThm` | each conversion shows the frame after the last one shown |
| | `Refinement`, `WidgetRefinement` | the safety part of `HandoffSpec` and `WidgetHandoffSpec`: initial states and steps of the one-place slot |
| `PboStreamProofs` | `MappedInStepThm`, `UploadsFreshThm` | the two indices stay in step and only mapped memory is written; a frame that is uploaded is whole and the last one received |
| `VncStreamProofs` | `SharesBufferThm`, `UploadsFreshThm` | mutex and flag divide the mapped memory, and the GUI thread never waits for the network; whole frames are uploaded |
| `StreamHandshakeProofs` | `PairingThm`, `ListeningThm` | pairs are one to one and in the order of the queue; SAIL is told of listening widgets only |
| `SchedulingProofs` | `LockThm`, `StopThm` | types, and living widgets in a proportional round; full quality and the right file name after stopping |
| | `EnoughThm` | `EnoughServesAll`, the second half of `SharesFairly`: a round whose total suffices serves everybody in it fully |
| `PointerProofs` | `HoverThm`, `NormalHasOwnSizeThm`, `MoveKeepsSizeThm` | what is remembered still exists; a normal window has a user's size or, if nobody has pressed it yet, one that was never set; dropping resizes what was taken at a corner |
| | `SenderThm`, `PointerGoesThm` | an event finds the object of its thread; a pointer goes with its thread |
| | `LayoutsAreATree`, `SiblingsStayNext`, `WindowsKeepPlaces` | while sessions are loaded onto a wall without partitions: the layouts are a tree whose leaves hold the windows; siblings meet at the bar through all nested resizes; partitions neither move nor lose a window, and an icon keeps the place it goes back to |
| | `SessionsAreRestored` | if no window shows a web page, moreover: what is saved of any wall that can be made is restored on an empty one, every area, and every window in its layout and place |
| `LauncherProofs` | `RegistryThm`, `NumbersThm`, `FoundThm` | queue, list and map agree; who may share a number; every stream is found under its own |
| | `TransferLaunchesRight` | while drops do not mix: what is launched is whole unless its connection broke or the disk did not take it, in order and once, and no thread of the wall that ended is forgotten |
| | `BrowserGoesOnThm` | the browser fails its user in three ways only, whatever is clicked, in any directories, with any page size |
| `FittsLawProofs` | `RoundThm`, `FramesAccountedThm`, `FinishIsSafeThm` | the three invariants of the run `fitts` |

None of these properties is inductive. Every module therefore has an invariant (`IInv`; `WidgetInv`, `ClientsInv`, `LayoutInv`, `TransferInv` and `BrowserInv` where there are more) that was
checked with TLC on the run's instance before it was proved, a lemma that it holds at first, and a lemma that every action keeps
it, action by action. What the invariants say, and why they are needed:

* **Double buffer and widget.** For each flip there is one announcement, and it is in exactly one place. `TokenInv` says that `queueLength` equals
  the number of flips not announced yet, plus the queued `frameReceived`s, plus the one the GUI thread is working on. That a full buffer exists
  whenever `scheduleUpdate()` runs follows at once. `MutexInv` ties the mutex to the program counters, `MonitorInv` says who may be asleep,
  `FrameInv` ties the contents of both buffers to the last frame shown. In the widget the token is exact while the receiver runs;
  once it is finished there are at most as many announcements as frames, since `scheduleUpdate()` then returns early, and when the destructor has begun
  nothing is claimed of the buffer but that the GUI thread never comes back to it. The steps of the slot are the flip, the conversion and the
  closing; all others are shown to stutter.
* **PBO path.** Nothing in the code counts turns, but there are turns: the receiver announces and sleeps, the GUI thread flips, maps and signals, the
  receiver wakes and flips. The invariant says whose turn it is in every state until a wait returns without a signal or the widget closes, and
  that both indices agree then.
* **VNC viewer.** Again a token: the mapped buffer is being made, or on offer, or being filled, or announced.
* **Handshake.** A widget and a message thread find each other through one event: an application without a widget has exactly one `launch`
  on its way, one with a widget none. The widgets that wait are the last ones created, in their order; together with the order of the GUI thread's
  events this makes first come first served. `ListeningInv` follows from what each stage of the message thread implies for the widget.
* **Scheduling.** Only the lock makes a round safe: while the thread visits or applies, no handler can end a widget. A thread that was told to quit
  and still runs is waited for by the handler that told it (`ControlInv`), in which the GUI thread does nothing else; therefore nobody sees the qualities
  between the end of the thread and `reset()`. That the monitor's total is a number needs a lemma about the library's sum over a
  finite set, `SumIsNat`.
* **Shares.** `ShareInv` says of a round under way that nobody has more than was asked and that the total is what is left plus what was given
  (`Balanced`), as long as the round has seen no need change. The loop ends when all are done or nothing is left; in both cases everybody has what was
  asked if the total was enough: numbers below others whose sum is not smaller are the same (`SumReached`). How big a scoop is does not matter, but it
  must be a number: the priorities it is divided by are at least those of the widgets still to be visited in this pass (`Divisible`), as each
  widget is subtracted once at most.
* **Clients.** A message thread posts its end as its last event, and `deleteLater()` adds one more behind it. The invariant says that after
  such an event the queue holds nothing of that thread, so the object outlives all of its events; a pointer is registered under the number
  of a thread that has not been removed.
* **Windows.** Windows are changed by a handful of operators on their records. Each keeps a window well formed: what its state
  implies for its size, its remembered size and the flags of the last press. So all handlers do, whichever pointer calls them.
* **Layouts.** That the links of the layouts agree (`Linked`) does not make them a tree: a ring of layouts would pass. The invariant (`IsWall`, and
  `LayoutInv` of the state) asks for a depth that grows from every parent to its children and is bounded. A split adds two layouts one deeper, everything
  else keeps the depths. Origins and areas are recursions towards the root, `Taker` one towards the leaves, and the depth is what makes all of them
  functions: `Recursion` proves that a definition which looks only at an element of a lower rank has a function as its value, and `RankInduction`
  that what is handed down from the root holds everywhere. A window keeps its place because the origins of all layouts that are not split or deleted stay
  (`OriginsKept`), and the places of windows are computed back from them (`InTypes`). What a session does is shown entry by entry (`LoadEntryTypes`): the
  layouts that wait are different leaves (`Waiting`), so no entry splits a layout that already has a bar.
* **Sessions.** `SessionsAreRestored` relates two recursions that go different ways: saving descends the tree, loading reads a sequence and keeps a stack.
  Reading is a relation between two states of the loader (`ReadBy`, `Reads`), and reading one part after another composes (`ReadsBoth`). By
  induction from the deepest layouts up, the entries of a layout bring it into the leaf that is next and leave the rest of the stack alone (`BringsBack`).
  `Grown` says what that is: a map takes each layout below the saved one to the layout that stands for it, which has the same extent, has a bar where
  that one has, and holds the same windows in their places. The step from two children to their parent (`GrownBar`, `RestoredBar`) puts two such maps together:
  a split gives the two new layouts the areas that were written, and changes the extent of no other. At the root this begins with an empty wall
  of the size of the saved one, so the root must still fill the wall: `RootFills` is part of the invariant for that. `SameScenePos`
  keeps every window where it was seen, although its position in its layout is computed anew.
* **Launcher.** Until it is closed a stream is awaited exactly if it is in the queue, and closed ones are deleted once. A number of a widget nobody has
  closed is below the counter unless it belongs to a stray, a widget that waited while the counter was set back or a session loaded.
  While the monitor is there the counter has not been set back: every number that was given is below it, and two widgets with the same one are known from the load of a session (`KnownInv`).
* **File transfer.** The semaphore and `_fileBeingSent` do not say whose file is sent; the invariant does. One file at a time is on the wire, being
  read or being reported (`OneFile`), its sender is known and waits or is about to (`SenderKnown`), and a thread that begins or was released is the only
  one that will write (`OneTurn`, `OneContent`). So what follows a header on the wire is its file, and nothing is written behind it until its report was
  read (`WireInv`, `TailInv`, `QuietInv`), whatever the connection does: once broken it is never written to again. `OrderInv` says that the files of a
  drop keep their order on every stretch of their way: launched, posted to the GUI thread, being received, on the wire, still to be sent.
* **Media browser.** `BrowserGoesOn` is about single steps and still needs an invariant: a root icon can be clicked only while the page number is 0, a
  window that is not the root window has its buttons, and a directory below another is listed, so that going up from it never finds its
  parent empty, unless the parent is above `.sagenext/media`. `PageBegins` is the arithmetic: a page that exists begins before the end of its items.
* **Fitts law test.** A widget that runs a round is alive and not about to be deleted. The receiver increments the counter only when it is 0, and
  then nothing is announced that could make the GUI thread decrement it. As long as only the Finish button closes widgets, the data object knows every open one that is not
  in `missed`, where a user C that lost its place is, and a test that comes while the others wait for their deletion.

Lemmas about sequences (`AppendTo`, `TakeHead`, `WithoutKeeps` and the like) say what an event queue or a list holds after an event was
posted, handled or removed. The sum over a finite set is a recursive function of subsets. That there is such a function (`SumsExist`), that the sum is a number and
what becomes of it when an element goes or changes (`SumTypes`, `SumRemove`, `SumChange`) is obtained from a least counterexample: `LeastNat`
cites that `<` is well-founded on the naturals, since the library's induction theorems cannot be instantiated by the provers here. `StrongInduction`,
`Recursion` and `RankInduction` are obtained in the same way; they speak of sets and functions instead of operators, so that they can be cited.

While proving, two choices in `Scheduling` turned out to rest on the order in which TLC tries the arms of a `CASE` (the quality of a widget that is
not listed, and what a priority that is no number does to a grid that is off). The semantics of TLA+ leaves them open; they are `IF`s now, as in the code.

Only model-checked:

* all liveness (`EndsWithStream`, `ClosesOutsideSwap`, `ClosingEnds`, `WidgetCloses`, `SenderGoesOn`, `EveryFileLaunched`, `GuiGoesOn`, `ClientsLeave`, `MouseComesBack`,
  and the liveness parts of `WidgetHandoffSpec` and of `Uploads`): no installed prover handles fairness or `ENABLED`;
* `HigherPriorityFirst` of `Scheduling`, the first half of `SharesFairly`: the model's scoops are rounded to whole numbers, which may leave a widget of
  small need behind one of lower priority. It holds for figures that divide, as in the run, and not for every value of the constants.

## 6. Disagreements between the code and what it says

One is a run that TLC must find violated, and an entry of "findings" in `PROJECT.json`:

* `stream_close_swap`: the comment in the widget's destructor says that locks are released so that the receiver can exit.
  `releaseBackBuffer()` there decrements `queueLength` and unlocks a mutex the thread does not hold. The receiver may have read
  `queueLength > 0` and be about to sleep: `releaseLocks()` then signals nobody, the receiver sleeps, and the GUI thread waits for
  it forever (`ClosingEnds`).

Others were met while modelling; the models follow the code, and the properties say what holds in spite of them:

* `T/sage/fsmanagermsgthread.cpp:233`: the message thread tests `_sageWidget` and then waits; the launcher's setting of the widget and its
  `wakeOne()`, made without the mutex (`T/sn_sagenextlauncher.cpp:224`, where a comment suspects a race), can both fall between.
* `T/sage/fsmanagermsgthread.cpp:318`: the header says that `_end` breaks the thread's loop. The loop that polls for a listening
  widget does not look at it, and when the widget cannot listen, or is closed before it does, closing hangs. `ListeningInv` says
  when it does not.
* `C/sn_pointerui.cpp:776`: comments on both sides say that transfers are sequential and that a header always comes first. A second drop
  while the first one is being sent makes the wall read contents where it expects a header (`Mixes = TRUE`).
* `T/sn_sagenextlauncher.cpp:33`: the comment says that `theLastLaunched` is for the replay of a study, whose thread cannot get the return value of its queued
  call, and stores the widget that was launched recently. Only the launch by hand sets it (`:194`), `launchSageApp()`, which the replay queues, does not. So
  the replay waits until somebody starts an application by hand, and then moves that one (`LaunchManual`, `ReplayTakes`).
* `T/applications/base/sn_basewidget.h:467` calls the application id unique. Numbers clash, and `NumbersClashOnlyWithAwaited` says when.
* `T/applications/sn_fittslawtest.cpp:459`: a comment says that the pointer is trapped in its widget. It is remembered as trapped, but its
  movement is not confined.

## 7. What is not modelled, and the remaining hazards

Painting, OpenGL state, pixel formats, configuration, dialogs, reading `/proc`, affinity, and viewers that have no
thread are left out for good: they are data, presentation, or input and output. So are DividerWidget and the SMART scheduler, which do
nothing in this build, the assignment of processors (the vector of processors is never built), the thumbnail thread (nothing starts it) and downloads (no
client asks for one: `REQUEST_FILEINFO` is only in a comment, `C/sn_pointerui.cpp:1285`). The code of SAGE applications and of the RFB
library is outside of the repository's program; how it is used is the environment of the models. The paths of the VNC viewer without
a PBO take no lock at all.

Not modelled yet: tiling and scaling in `LayoutTree`, buttons and GUI proxies under a pointer, recordings (`ScenarioThread`) and more than one
application of a replayed study, the destruction of the file server while it serves, plugins, the checker.

The bounds of section 3 stand before what follows. It was met while modelling, and is beyond what the modules cover or is kept out
of them by a guard (hazards with notes in `PROJECT.json` name more):

* Streams. `T/applications/base/sn_sagepixelreceiver.cpp:83`: the destructor and `endReceiver()` both close the socket; its number may belong to
  another connection by then. `T/applications/base/sn_sagestreamwidget.cpp:321`: the pool thread in `waitForPixelStreamerConnection()`
  uses the widget and is not waited for by its destructor. `T/sage/fsmanagermsgthread.cpp:247`: when the streaming port passes 65535, the message
  thread calls `close()` of a widget that belongs to the GUI thread. `T/applications/sn_vncwidget.cpp:453`: a mapping that fails leaves the picture standing.
* Files. `T/uiserver/sn_fileserver.cpp:76`: a file that cannot be opened leaves its bytes in the socket, where the next header is expected;
  `:252`: a blocking read in the GUI thread. `:112`: what `write()` did to the file is
  asked only after the last report told the client that all had arrived, and only whether there is anything: a file cut short by a full disk is launched as it is, and one
  of which nothing was written is neither launched nor listed, while its user believes it is on the wall. `C/sn_pointerui.cpp:989`: files chosen in the dialog are sent by the GUI thread, which then waits
  for a report only it could read: it stands still (`gui = "waits"`; `SenderGoesOn` excludes it). A user who connects anew leaves a
  waiting thread without a report, and what it writes afterwards goes to the new connection.
* Media browser. The page number is not reset when a folder is opened (`T/applications/sn_mediabrowser.cpp:405`); an empty directory
  opened from the root icons leaves nothing to click on; going up beyond the media directory leaves the later page with the first one's number. `BrowserGoesOn`
  says that these are all. A browser that is open is not told of new media, and thumbnails go stale.
* Layouts. `T/common/sn_layoutwidget.cpp:907`: loading a session closes a window that is there instead of moving it, although the comment says
  otherwise; `:981`: events are processed while a session is half loaded; `:1022`: with a timed session, every call of `loadSession()` starts a
  timer that closes the wall; `:1006`: with `Reloads = TRUE`, `IsTree` is violated; `:938`: with a web page, `SessionRestores` is.
  `T/common/sn_sharedpointer.cpp:315`: a bar that is dragged over the near edge of its layout leaves its children apart.
* Launcher. A remote close-all deletes the resource monitor, which the launcher and every later stream still call (`T/main.cpp:468`; the model
  ends there, `misused`). `theLastLaunched` and the application map keep widgets that were destroyed. Dropping a directory
  recurses forever, since its listing contains itself; a list of files is left at the first that is recognised. A streamer whose ssh fails leaves
  its widget in the queue for the next application. `launch()` of a local video drops the number it was given. Only streams are in the
  registry, because no widget calls `setSchedulable()`.
* Scheduling. The self-adjusting scheduler works on a copy of the list without the lock (`T/system/sn_scheduler.cpp:965`), so that it may adjust a
  widget that is being destroyed; `LockProtects` speaks of the proportional one. `:1717`: a bandwidth that was tested a few lines above is read
  again and divided by, while the receiver writes it. `T/applications/base/sn_perfmonitor.cpp:137`: a widget that received nothing in one
  interval requires nothing until it receives again.
* Pointers. `SN_AppInfo`'s constructor leaves the remembered geometry unset (`T/applications/base/sn_appinfo.cpp:3`), and only a left press in the normal state sets
  it: a `Qt::Window` that its context menu minimizes or maximizes before comes back with a size nobody gave it (`T/applications/base/sn_basewidget.cpp:606`), and so does any window
  through the minimize bar. `NormalHasOwnSize` names this case. A program that shares before it read the wall's first message sends the number of its previous connection (`C/sn_pointerui.cpp:608`): a pointer
  under a foreign number may stay; `PointerGoesWithThread` speaks of the others. A pointer whose window was destroyed by another user calls it
  (the model lets such a pointer do nothing). `T/uiserver/sn_uiserver.cpp:51`: threads are terminated in the destructor;
  `T/uiserver/sn_uimsgthread.cpp:107`: a short read is taken for a message.
* Fitts law test. `T/applications/sn_fittslawtest.cpp:321`: the frame counter is decremented without the mutex, so that a receiver that just
  tested it misses the wake-up; a fourth test is user C again and takes that place in `_widgetMap` (`:1425`), so that `closeAll()` leaves the test that had it open, which
  `startRound()` (`:713`) then lets use a data object that is gone; so does a test that is launched after the Finish button while a suspended click delays the deletions
  (`FinishIsSafe` names both, and the model stops where a null object would be used). The assertion on the number of tests in
  `advanceRound()` (`:1225`) is taken as compiled out, as in a release build; a practice round that is cut short counts as a real one; closing one widget deletes the data object the others use,
  and the semaphore its receiver may wait on; a configuration that is missing makes the number of subjects −1.

Details of modelled methods that are left out or merged, because no property tells them apart:

* `DoubleBuffer.Convert`: the image is not null, so the early return of `scheduleUpdate()` with the mutex held (`T/applications/base/sn_sagestreamwidget.cpp:523`)
  does not happen; nor does the one of a widget that is not visible (`:516`), since nothing hides a widget that stays.
* The unlocked `_queueLength--` of `releaseBackBuffer()` in the destructor and the receiver's `_queueLength++` are one step each: an update lost between the two is left out.
* `MediaBrowser.GetParentDir`: `cdUp()` succeeds (`T/applications/sn_mediabrowser.cpp:471`). `VncStream.Join`: the wait for the initialization (`T/applications/sn_vncwidget.cpp:178`) is part
  of the step: the initialization ends on its own. `Scheduling.Rank`: what is read before the lock (`T/system/sn_scheduler.cpp:537`) is read with it.
* `PointerClients.ToSender`: no client sends `REQUEST_FILEINFO`, whose handler uses a pointer that may be null (`T/uiserver/sn_uiserver.cpp:357`). `Launcher.ReplayTakes`: the call of
  `launchSageApp()` that the replay has queued may still be pending; `LaunchByUser` has the same effect.

## 8. Plan

Done, in this order because the display's threads are where mistakes freeze or garble the wall: the double buffer with its abstract
specification and proofs, the streaming widget, the handshake, the PBO and VNC paths, file transfer, the layouts; then the media browser,
the registry with the scheduler, the pointers, their clients and server, the launcher, and the Fitts law tests.

Proved since: the safety properties of the streams, the handshake, the scheduler, the pointers and their clients, the launcher,
the transfer of files, the media browser, the tests, the layouts and their sessions (section 5).

Next, proving more: `StreamWidget` until closing begins implements `DoubleBuffer`, and `HigherPriorityFirst` for figures whose scoops are whole.

And, where the model can still grow: tiling and scaling in `LayoutTree`, several applications in a replayed study, and the file server's end
while it serves.
