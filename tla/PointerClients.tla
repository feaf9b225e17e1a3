---------------------------- MODULE PointerClients ----------------------------
(***************************************************************************)
(* Pointer programs (SN_PointerUI) and the wall's UI server (SN_UiServer). *)
(* A program connects, learns its number from the wall's first message,    *)
(* shares its pointer and sends what the mouse does.  The wall has one     *)
(* receiving thread (SN_UiMsgThread) for each connection; it hands every   *)
(* message to the GUI thread as an event.  When the connection ends the    *)
(* thread ends, two events later its object is deleted, and with it the    *)
(* pointer.  Any client may close the wall by clicking its close button    *)
(* twice.                                                                  *)
(*                                                                         *)
(* Connections are numbered in the order in which they are made, which is  *)
(* the order in which the wall accepts them: the number of a connection    *)
(* is the _uiClientId it gets.  A message is its code and the number its   *)
(* sender wrote into it, which need not be that of the connection.  What a *)
(* pointer does with a movement or a press is in SharedPointers.           *)
(***************************************************************************)
EXTENDS Naturals, Sequences, SequencesExt, Functions

CONSTANTS Clients,      \* the pointer programs
          MaxConns,     \* bound: connections made in a behaviour
          MaxFlight     \* bound: messages sent and not handled yet

ASSUME BoundsAssumption == MaxConns \in Nat /\ MaxFlight \in Nat \ {0}

VARIABLES
    sock,         \* _tcpMsgSock: the connection of a client, 0 if it has none
    _uiclientid,  \* the number a client believes to be its own
    isMouseCapturing,
    made,         \* connections made so far
    peer,         \* a connection: open, shut by the client, cut, or ended by the wall
    net,          \* messages sent on a connection and not received yet
    _uiClientId,  \* connections the wall has accepted
    thread,       \* message thread of a connection: running, finished, gone
    _pointers,    \* number -> the thread that its pointer was made for
    events,       \* the GUI thread's event queue
    _closeFlag,   \* the close button has been clicked
    wall          \* the UI server exists

cvars == <<sock, _uiclientid, isMouseCapturing>>
nvars == <<made, peer, net>>
svars == <<_uiClientId, thread, _pointers, events, _closeFlag, wall>>
clientVars == <<cvars, nvars, svars>>

Conns == 1 .. MaxConns
Numbers == 0 .. MaxConns
Codes == {"share", "unshare", "use", "ask"}
Messages == [code : Codes, id : Numbers]
Events == [type : {"msgReceived"}, from : Conns, msg : Messages]
              \cup [type : {"finished", "deleted"}, from : Conns]

Alive(k) == k \in DOMAIN thread /\ thread[k] # "gone"

InFlight == FoldFunction(LAMBDA q, n : Len(q) + n, 0, net)
                + Len(SelectSeq(events, LAMBDA e : e.type = "msgReceived"))
-----------------------------------------------------------------------------
(* The pointer program.                                                      *)

ClientsStart == /\ sock = [c \in Clients |-> 0]
                /\ _uiclientid = [c \in Clients |-> 0]
                /\ isMouseCapturing = [c \in Clients |-> FALSE]
                /\ made = 0 /\ peer = <<>> /\ net = <<>>

\* The server listens; nobody has connected.
ServerStarts == /\ _uiClientId = 0 /\ thread = <<>>
                /\ _pointers = [i \in {} |-> 0]
                /\ events = <<>> /\ _closeFlag = FALSE /\ wall = TRUE

ClientsInit == ClientsStart /\ ServerStarts

\* The connection is up before the wall has taken it from its backlog.
Connect(c) ==
    /\ sock[c] = 0 /\ wall /\ made < MaxConns
    /\ made' = made + 1
    /\ sock' = [sock EXCEPT ![c] = made']
    /\ peer' = Append(peer, "open")
    /\ net' = Append(net, <<>>)
    /\ UNCHANGED <<_uiclientid, isMouseCapturing, svars>>

\* Until ACK_FROM_WALL comes the number is the one of the connection before,
\* or 0.
Initialize(c, uiclientid) == _uiclientid' = [_uiclientid EXCEPT ![c] = uiclientid]

ReadMessage(c) ==
    /\ sock[c] \in 1 .. _uiClientId /\ _uiclientid[c] # sock[c]
    /\ Initialize(c, sock[c])
    /\ UNCHANGED <<sock, isMouseCapturing, nvars, svars>>

\* What is written after the connection was lost reaches nobody.
SendMessage(c, code) ==
    LET k == sock[c] IN
    /\ InFlight < MaxFlight
    /\ net' = IF peer[k] = "open"
              THEN [net EXCEPT ![k] = Append(@, [code |-> code, id |-> _uiclientid[c]])]
              ELSE net
    /\ UNCHANGED <<made, peer>>

HookMouse(c) ==
    /\ sock[c] # 0
    /\ isMouseCapturing' = [isMouseCapturing EXCEPT ![c] = TRUE]
    /\ SendMessage(c, "share")
    /\ UNCHANGED <<sock, _uiclientid, svars>>

UnhookMouse(c) ==
    /\ sock[c] # 0 /\ isMouseCapturing[c]
    /\ isMouseCapturing' = [isMouseCapturing EXCEPT ![c] = FALSE]
    /\ SendMessage(c, "unshare")
    /\ UNCHANGED <<sock, _uiclientid, svars>>

\* A movement, a press, a release, a click or a turn of the wheel.
UseMouse(c) ==
    /\ sock[c] # 0 /\ isMouseCapturing[c]
    /\ SendMessage(c, "use")
    /\ UNCHANGED <<cvars, svars>>

\* A text for the item below the pointer, or the desktop is to be shared.
AskWall(c) == /\ sock[c] # 0
              /\ SendMessage(c, "ask")
              /\ UNCHANGED <<cvars, svars>>

\* Mutant: the end of the connection does not release the mouse.
DeleteMouseHookProcessKeeps(c) == UNCHANGED isMouseCapturing

\* UnconnectedState: the mouse is released, and since the socket is not
\* connected any more the wall is not told.
DeleteMouseHookProcess(c) ==
    isMouseCapturing' = [isMouseCapturing EXCEPT ![c] = FALSE]

\* A new connection is wanted: the present one is shut.
NewConnection(c) ==
    /\ sock[c] # 0
    /\ sock' = [sock EXCEPT ![c] = 0]
    /\ peer' = [peer EXCEPT ![sock[c]] = IF @ = "open" THEN "shut" ELSE @]
    /\ DeleteMouseHookProcess(c)
    /\ UNCHANGED <<_uiclientid, made, net, svars>>

\* The program ends in any way and is started again.
Restart(c) ==
    /\ sock[c] # 0
    /\ sock' = [sock EXCEPT ![c] = 0]
    /\ peer' = [peer EXCEPT ![sock[c]] = IF @ = "open" THEN "shut" ELSE @]
    /\ _uiclientid' = [_uiclientid EXCEPT ![c] = 0]
    /\ isMouseCapturing' = [isMouseCapturing EXCEPT ![c] = FALSE]
    /\ UNCHANGED <<made, net, svars>>

\* The network between a client and the wall fails.
LinkFails(k) ==
    /\ k <= made /\ peer[k] = "open"
    /\ peer' = [peer EXCEPT ![k] = "cut"]
    /\ UNCHANGED <<made, net, cvars, svars>>

\* The socket reports that its connection is no more.
Disconnected(c) ==
    /\ sock' = [sock EXCEPT ![c] = 0]
    /\ DeleteMouseHookProcess(c)
    /\ UNCHANGED <<_uiclientid, nvars, svars>>

HostClosed(c) == /\ sock[c] # 0 /\ peer[sock[c]] = "ended"
                 /\ Disconnected(c)

\* A client that sends nothing may never find out that its link was cut: it
\* does not set SO_KEEPALIVE.
SocketError(c) == /\ sock[c] # 0 /\ peer[sock[c]] = "cut"
                  /\ Disconnected(c)
-----------------------------------------------------------------------------
(* The message threads of the wall.                                          *)

Post(e) == events' = Append(events, e)

IncomingConnection ==
    /\ wall /\ _uiClientId < made
    /\ _uiClientId' = _uiClientId + 1
    /\ thread' = Append(thread, "running")
    /\ UNCHANGED <<_pointers, events, _closeFlag, wall, cvars, nvars>>

RunReceive(k) ==
    /\ k <= _uiClientId /\ thread[k] = "running" /\ net[k] # <<>>
    /\ Post([type |-> "msgReceived", from |-> k, msg |-> Head(net[k])])
    /\ net' = [net EXCEPT ![k] = Tail(@)]
    /\ UNCHANGED <<made, peer, _uiClientId, thread, _pointers, _closeFlag, wall, cvars>>

\* Mutant: the server forgets the thread as soon as it ends, not in its event
\* loop.
RunEndForgotten(k) ==
    /\ k <= _uiClientId /\ thread[k] = "running"
    /\ peer[k] = "cut" \/ (peer[k] = "shut" /\ net[k] = <<>>)
    /\ thread' = [thread EXCEPT ![k] = "gone"]
    /\ net' = [net EXCEPT ![k] = <<>>]
    /\ _pointers' = Restrict(_pointers, DOMAIN _pointers \ {k})
    /\ UNCHANGED <<made, peer, _uiClientId, events, _closeFlag, wall, cvars>>

\* recv() returns 0 once everything was read, or -1 and the rest is lost.
RunEnd(k) ==
    /\ k <= _uiClientId /\ thread[k] = "running"
    /\ peer[k] = "cut" \/ (peer[k] = "shut" /\ net[k] = <<>>)
    /\ thread' = [thread EXCEPT ![k] = "finished"]
    /\ net' = [net EXCEPT ![k] = <<>>]
    /\ Post([type |-> "finished", from |-> k])
    /\ UNCHANGED <<made, peer, _uiClientId, _pointers, _closeFlag, wall, cvars>>
-----------------------------------------------------------------------------
(* The GUI thread of the wall.                                               *)

LaunchPointer(k, id) == _pointers' = [i \in DOMAIN _pointers \cup {id} |->
                                       IF i = id THEN k ELSE _pointers[i]]

\* A pointer that is there is shown again.
PointerShare(k, id) ==
    /\ IF id \in DOMAIN _pointers THEN UNCHANGED _pointers ELSE LaunchPointer(k, id)
    /\ events' = Tail(events)
    /\ UNCHANGED <<_uiClientId, thread, _closeFlag, wall, nvars>>

\* Only hides the pointer.
PointerUnshare == /\ events' = Tail(events)
                  /\ UNCHANGED <<_uiClientId, thread, _pointers, _closeFlag, wall, nvars>>

\* What a pointer does with the message is in SharedPointers.
ToPointer == /\ events' = Tail(events)
             /\ UNCHANGED <<_uiClientId, thread, _pointers, _closeFlag, wall, nvars>>

\* The handlers that turn to the thread a message came from.
ToSender == ToPointer

\* ~SN_UiServer(): pointers and threads go, and every socket is shut down.
DeleteUiServer ==
    /\ wall' = FALSE
    /\ _pointers' = Restrict(_pointers, {})
    /\ thread' = [k \in DOMAIN thread |-> "gone"]
    /\ events' = <<>>
    /\ peer' = [k \in DOMAIN peer |-> IF peer[k] = "cut" THEN "cut" ELSE "ended"]
    /\ net' = [k \in DOMAIN net |-> <<>>]
    /\ UNCHANGED <<_uiClientId, _closeFlag, made>>

\* The use was a click on the close button: the first one arms it, the second
\* closes the wall.
PrepareClosing(id) ==
    /\ id \in DOMAIN _pointers
    /\ \/ _closeFlag /\ DeleteUiServer
       \/ /\ ~ _closeFlag /\ _closeFlag' = TRUE
          /\ events' = Tail(events)
          /\ UNCHANGED <<_uiClientId, thread, _pointers, wall, nvars>>

Clicked(id) == ToPointer \/ PrepareClosing(id)

HandleMessage(e) ==
    \/ e.msg.code = "share" /\ PointerShare(e.from, e.msg.id)
    \/ e.msg.code = "unshare" /\ PointerUnshare
    \/ e.msg.code = "use" /\ Clicked(e.msg.id)
    \/ e.msg.code = "ask" /\ ToSender

\* Mutant: finished() is connected to nothing.
DeleteLaterNever(e) ==
    /\ events' = Tail(events)
    /\ UNCHANGED <<_uiClientId, thread, _pointers, _closeFlag, wall, nvars>>

\* deleteLater() of a finished thread.
DeleteLater(e) ==
    /\ events' = Append(Tail(events), [type |-> "deleted", from |-> e.from])
    /\ UNCHANGED <<_uiClientId, thread, _pointers, _closeFlag, wall, nvars>>

\* Mutant: the pointer stays.
RemoveFinishedThreadOnly(k) ==
    /\ thread' = [thread EXCEPT ![k] = "gone"]
    /\ UNCHANGED _pointers

RemoveFinishedThread(k) ==
    /\ thread' = [thread EXCEPT ![k] = "gone"]
    /\ _pointers' = Restrict(_pointers, DOMAIN _pointers \ {k})

\* The destructor of a message thread has the server forget it.
DestroyThread(e) ==
    /\ RemoveFinishedThread(e.from)
    /\ events' = Tail(events)
    /\ UNCHANGED <<_uiClientId, _closeFlag, wall, nvars>>

GuiStep ==
    /\ wall /\ events # <<>>
    /\ \E e \in {Head(events)} :
          \/ e.type = "msgReceived" /\ HandleMessage(e)
          \/ e.type = "finished" /\ DeleteLater(e)
          \/ e.type = "deleted" /\ DestroyThread(e)
    /\ UNCHANGED cvars
-----------------------------------------------------------------------------
ClientsNext ==
    \/ \E c \in Clients :
          \/ Connect(c) \/ ReadMessage(c) \/ HookMouse(c) \/ UnhookMouse(c)
          \/ UseMouse(c) \/ AskWall(c) \/ NewConnection(c) \/ Restart(c)
          \/ HostClosed(c) \/ SocketError(c)
    \/ \E k \in Conns : LinkFails(k) \/ RunReceive(k) \/ RunEnd(k)
    \/ IncomingConnection \/ GuiStep

\* The event loops, the receiving threads and TCP go on (the wall's threads set
\* SO_KEEPALIVE, which finds a cut link); users need not do anything.
Fairness == /\ WF_clientVars(GuiStep) /\ WF_clientVars(IncomingConnection)
            /\ \A k \in Conns : WF_clientVars(RunReceive(k)) /\ WF_clientVars(RunEnd(k))
            /\ \A c \in Clients : WF_clientVars(HostClosed(c))

ClientsSpec == ClientsInit /\ [][ClientsNext]_clientVars /\ Fairness
-----------------------------------------------------------------------------
(* The state of both ends.                                                   *)
ClientsTypeOK ==
    /\ made \in Numbers /\ _uiClientId \in 0 .. made
    /\ sock \in [Clients -> 0 .. made] /\ _uiclientid \in [Clients -> 0 .. made]
    /\ isMouseCapturing \in [Clients -> BOOLEAN]
    /\ peer \in [1 .. made -> {"open", "shut", "cut", "ended"}]
    /\ net \in [1 .. made -> Seq(Messages)]
    /\ thread \in [1 .. _uiClientId -> {"running", "finished", "gone"}]
    /\ DOMAIN _pointers \subseteq Numbers
    /\ \A i \in DOMAIN _pointers : _pointers[i] \in Conns
    /\ events \in Seq(Events)
    /\ _closeFlag \in BOOLEAN /\ wall \in BOOLEAN

(* handleMessage() casts sender() to the thread and asks it for its number   *)
(* and its address: no event of a thread may still be queued when the        *)
(* object is deleted.                                                        *)
SenderOutlivesMessages ==
    \A i \in DOMAIN events : Alive(events[i].from)

(* A pointer that was shared under the number of its own connection does not *)
(* stay on the wall after the connection's thread.                           *)
PointerGoesWithThread ==
    \A i \in DOMAIN _pointers :
        _pointers[i] = i => Alive(i)

(* However a connection ends, its thread and its pointer go in the end.      *)
ClientsLeave ==
    \A k \in Conns :
        (Alive(k) /\ peer[k] # "open") ~> ~ (Alive(k) \/ k \in DOMAIN _pointers)

(* When the wall closes, every user whose link holds gets the mouse back.    *)
MouseComesBack ==
    ~ wall ~> (\A c \in Clients :
                  isMouseCapturing[c] => sock[c] # 0 /\ peer[sock[c]] = "cut")

(* The maps of the server name what exists, and so do its queued messages.   *)
SenderInv == ClientsTypeOK /\ SenderOutlivesMessages
=============================================================================
