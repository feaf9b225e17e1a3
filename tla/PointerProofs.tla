----------------------------- MODULE PointerProofs -----------------------------
(***************************************************************************)
(* Theorems about PointerClients, for any number of pointer programs,      *)
(* connections and messages on their way, and about SharedPointers, whose  *)
(* operations those messages are, for any number of pointers, windows,     *)
(* places and steps.                                                       *)
(*                                                                         *)
(* Clients: no event outlives the thread it came from because a thread     *)
(* that ends posts its end as its last event, and deleteLater() adds a     *)
(* further one behind all that are queued: the object goes when the queue  *)
(* holds nothing of it.                                                    *)
(*                                                                         *)
(* Windows: a window is changed by a handful of operators on its record;   *)
(* each keeps it well formed, so that whichever pointer, menu or release   *)
(* applies one, the windows stay so.                                       *)
(*                                                                         *)
(* Layouts: LayoutTree, where pointers split the wall, for any wall, any   *)
(* windows and any sessions.  The layouts have a depth that grows from     *)
(* parent to child; origins, areas and the leaf that takes a window are    *)
(* recursions along it, and a session is one along its entries, so that    *)
(* one lemma says what all these functions are and one carries what is     *)
(* shown of the root, or of the leaves, to all layouts.                    *)
(***************************************************************************)
EXTENDS PointerClients, SharedPointers, LayoutTree, NaturalsInduction, WellFoundedInduction,
        FiniteSetTheorems, SequenceTheorems, TLAPS

-------------------------------------------------------------------------------
(* Clients and their threads                                                 *)

\* The event that ends a thread, in its run() or in deleteLater().
Ends(e) == e.type \in {"finished", "deleted"}

\* Every event is from a thread that exists, and what ends a thread is the last
\* event of it in the queue.
EventInv == /\ \A i \in 1..Len(events) : /\ Alive(events[i].from)
                                         /\ Ends(events[i]) => thread[events[i].from] = "finished"
            /\ \A i, j \in 1..Len(events) :
                  Ends(events[i]) /\ i < j => events[j].from # events[i].from

\* Without a server nothing is queued, and no thread is left to queue anything.
WallInv == ~wall => events = <<>> /\ \A k \in DOMAIN thread : ~Alive(k)

ClientsInv == ClientsTypeOK /\ EventInv /\ WallInv /\ PointerGoesWithThread
-------------------------------------------------------------------------------
\* A connection or a thread is added at the end of its sequence.
LEMMA AppendNext ==
    ASSUME NEW S, NEW n \in Nat, NEW f \in [1..n -> S], NEW x \in S
    PROVE  /\ Append(f, x) \in [1 .. n + 1 -> S]
           /\ \A i \in 1..n : Append(f, x)[i] = f[i]
           /\ Append(f, x)[n + 1] = x
<1>1. f \in Seq(S)
  BY SeqDef
<1>2. Len(f) = n
  BY <1>1, LenProperties
<1>3. /\ Append(f, x) \in Seq(S) /\ Len(Append(f, x)) = n + 1
      /\ \A i \in 1..n : Append(f, x)[i] = f[i]
      /\ Append(f, x)[n + 1] = x
  BY <1>1, <1>2, AppendProperties
<1>4. Append(f, x) \in [1 .. n + 1 -> S]
  BY <1>3, LenProperties
<1> QED
  BY <1>3, <1>4

\* Nothing has happened.
LEMMA ClientsInitInv == ClientsInit => ClientsInv
<1> SUFFICES ASSUME ClientsInit PROVE ClientsInv
  OBVIOUS
<1> USE DEF ClientsInit, ClientsStart, ServerStarts
<1>1. \A S : <<>> \in Seq(S) /\ <<>> \in [1..0 -> S] /\ Len(<<>>) = 0
  BY EmptySeq, LenProperties
<1>2. ClientsTypeOK
  <2>1. made \in Numbers /\ _uiClientId \in 0 .. made /\ made = 0 /\ _uiClientId = 0
    BY BoundsAssumption DEF Numbers
  <2>2. sock \in [Clients -> 0 .. made] /\ _uiclientid \in [Clients -> 0 .. made]
    BY <2>1
  <2>3. isMouseCapturing \in [Clients -> BOOLEAN] /\ _closeFlag \in BOOLEAN /\ wall \in BOOLEAN
    OBVIOUS
  <2>4. /\ peer \in [1 .. made -> {"open", "shut", "cut", "ended"}]
        /\ net \in [1 .. made -> Seq(Messages)]
        /\ thread \in [1 .. _uiClientId -> {"running", "finished", "gone"}]
        /\ events \in Seq(Events)
    BY <1>1, <2>1
  <2>5. DOMAIN _pointers = {}
    OBVIOUS
  <2> QED
    BY <2>1, <2>2, <2>3, <2>4, <2>5 DEF ClientsTypeOK
<1>3. EventInv /\ WallInv /\ PointerGoesWithThread
  BY <1>1 DEF EventInv, WallInv, PointerGoesWithThread
<1> QED
  BY <1>2, <1>3 DEF ClientsInv

\* What an event may be.
LEMMA EventType ==
    ASSUME NEW e \in Events
    PROVE  /\ e.from \in Conns
           /\ e.type = "msgReceived" => e.msg.code \in Codes /\ e.msg.id \in Numbers
           /\ e.type = "msgReceived" => ~Ends(e)
BY DEF Events, Messages, Ends

\* A message that has come is queued behind everything that is.
LEMMA PostKeeps ==
    ASSUME ClientsTypeOK, EventInv, NEW e \in Events, Post(e), Alive(e.from)',
           \A k \in DOMAIN thread : /\ Alive(k) => Alive(k)'
                                    /\ thread[k] = "finished" => thread'[k] = "finished",
           thread[e.from] = "running", Ends(e) => thread'[e.from] = "finished"
    PROVE  events' \in Seq(Events) /\ EventInv'
<1>1. /\ events' \in Seq(Events) /\ Len(events') = Len(events) + 1 /\ Len(events) \in Nat
      /\ \A i \in 1..Len(events) : events'[i] = events[i]
      /\ events'[Len(events) + 1] = e
  BY AppendProperties, LenProperties DEF Post, ClientsTypeOK
<1>2. ASSUME NEW i \in 1..Len(events')
      PROVE  Alive(events[i].from)' /\ (Ends(events'[i]) => thread'[events'[i].from] = "finished")
  BY <1>1 DEF EventInv, Alive
<1>3. ASSUME NEW i \in 1..Len(events'), NEW j \in 1..Len(events'), Ends(events'[i]), i < j
      PROVE  events'[j].from # events'[i].from
  BY <1>1, <1>3 DEF EventInv
<1> QED
  BY <1>1, <1>2, <1>3 DEF EventInv

\* The event loop takes the first event.
LEMMA TailKeeps ==
    ASSUME ClientsTypeOK, EventInv, events # <<>>
    PROVE  /\ Head(events) \in Events /\ Tail(events) \in Seq(Events)
           /\ Len(Tail(events)) = Len(events) - 1 /\ Len(events) \in Nat \ {0}
           /\ \A i \in 1..Len(Tail(events)) : Tail(events)[i] = events[i + 1]
           /\ Alive(Head(events).from)
           /\ Ends(Head(events)) =>
                 \A i \in 1..Len(Tail(events)) : Tail(events)[i].from # Head(events).from
<1>1. /\ Head(events) \in Events /\ Tail(events) \in Seq(Events)
      /\ Len(Tail(events)) = Len(events) - 1 /\ Len(events) \in Nat \ {0}
      /\ \A i \in 1..Len(Tail(events)) : Tail(events)[i] = events[i + 1]
      /\ Head(events) = events[1]
  BY HeadTailProperties, EmptySeq DEF ClientsTypeOK
<1> QED
  BY <1>1 DEF EventInv
-------------------------------------------------------------------------------
\* What the clients do, and the network, changes nothing of the wall.
LEMMA WallKeeps ==
    ASSUME EventInv, WallInv, PointerGoesWithThread, UNCHANGED svars
    PROVE  EventInv' /\ WallInv' /\ PointerGoesWithThread'
BY DEF EventInv, WallInv, PointerGoesWithThread, Alive, Ends, svars

\* A message has the number its sender believes in.
LEMMA SendType ==
    ASSUME ClientsTypeOK, NEW c \in Clients, sock[c] # 0, NEW code \in Codes, SendMessage(c, code)
    PROVE  made' = made /\ peer' = peer /\ net' \in [1..made -> Seq(Messages)]
<1> DEFINE k == sock[c]
           m == [code |-> code, id |-> _uiclientid[c]]
<1>1. k \in 1..made /\ m \in Messages
  BY BoundsAssumption DEF ClientsTypeOK, Messages, Numbers
<1>2. net[k] \in Seq(Messages)
  BY <1>1 DEF ClientsTypeOK
<1>3. Append(net[k], m) \in Seq(Messages)
  BY <1>1, <1>2, AppendProperties
<1>4. net' = [net EXCEPT ![k] = Append(net[k], m)] \/ net' = net
  BY DEF SendMessage
<1> HIDE DEF k, m
<1>5. net' \in [1..made -> Seq(Messages)]
  BY <1>1, <1>3, <1>4 DEF ClientsTypeOK
<1> QED
  BY <1>5 DEF SendMessage

LEMMA ClientInv ==
    ASSUME ClientsInv,
           \/ \E c \in Clients :
                 \/ Connect(c) \/ ReadMessage(c) \/ HookMouse(c) \/ UnhookMouse(c)
                 \/ UseMouse(c) \/ AskWall(c) \/ NewConnection(c) \/ Restart(c)
                 \/ HostClosed(c) \/ SocketError(c)
           \/ \E k \in Conns : LinkFails(k)
    PROVE  ClientsInv'
<1> USE DEF ClientsInv
<1>1. ASSUME NEW c \in Clients, Connect(c) PROVE ClientsTypeOK'
  <2> USE <1>1 DEF Connect
  <2>1. made \in Nat /\ made + 1 \in Numbers /\ <<>> \in Seq(Messages)
    BY EmptySeq, BoundsAssumption DEF ClientsTypeOK, Numbers
  <2>2. /\ peer' \in [1 .. made + 1 -> {"open", "shut", "cut", "ended"}]
        /\ net' \in [1 .. made + 1 -> Seq(Messages)]
    BY <2>1, AppendNext DEF ClientsTypeOK
  <2>3. sock' \in [Clients -> 0..made'] /\ _uiclientid \in [Clients -> 0..made']
    BY <2>1 DEF ClientsTypeOK
  <2> QED
    BY <2>1, <2>2, <2>3 DEF ClientsTypeOK, svars
<1>2. ASSUME NEW c \in Clients, ReadMessage(c) PROVE ClientsTypeOK'
  BY <1>2 DEF ReadMessage, Initialize, ClientsTypeOK, nvars, svars, Numbers
<1>3. ASSUME NEW c \in Clients, HookMouse(c) PROVE ClientsTypeOK'
  <2>1. net' \in [1..made -> Seq(Messages)] /\ made' = made /\ peer' = peer
    BY <1>3, SendType DEF HookMouse, Codes
  <2> QED
    BY <1>3, <2>1 DEF HookMouse, ClientsTypeOK, svars
<1>4. ASSUME NEW c \in Clients, UnhookMouse(c) PROVE ClientsTypeOK'
  <2>1. net' \in [1..made -> Seq(Messages)] /\ made' = made /\ peer' = peer
    BY <1>4, SendType DEF UnhookMouse, Codes
  <2> QED
    BY <1>4, <2>1 DEF UnhookMouse, ClientsTypeOK, svars
<1>5. ASSUME NEW c \in Clients, UseMouse(c) \/ AskWall(c) PROVE ClientsTypeOK'
  <2>1. net' \in [1..made -> Seq(Messages)] /\ made' = made /\ peer' = peer
    BY <1>5, SendType DEF UseMouse, AskWall, Codes
  <2> QED
    BY <1>5, <2>1 DEF UseMouse, AskWall, ClientsTypeOK, cvars, svars
<1>6. ASSUME NEW c \in Clients, NewConnection(c) \/ Restart(c) PROVE ClientsTypeOK'
  <2>1. peer' \in [1..made -> {"open", "shut", "cut", "ended"}]
    BY <1>6 DEF NewConnection, Restart, ClientsTypeOK
  <2>2. /\ sock' = [sock EXCEPT ![c] = 0]
        /\ _uiclientid' = _uiclientid \/ _uiclientid' = [_uiclientid EXCEPT ![c] = 0]
        /\ isMouseCapturing' = [isMouseCapturing EXCEPT ![c] = FALSE]
        /\ UNCHANGED <<made, net, svars>>
    BY <1>6 DEF NewConnection, Restart, DeleteMouseHookProcess
  <2>3. /\ sock' \in [Clients -> 0..made] /\ _uiclientid' \in [Clients -> 0..made]
        /\ isMouseCapturing' \in [Clients -> BOOLEAN]
    BY <2>2 DEF ClientsTypeOK, Numbers
  <2> QED
    BY <2>1, <2>2, <2>3 DEF ClientsTypeOK, svars
<1>7. ASSUME NEW c \in Clients, HostClosed(c) \/ SocketError(c) PROVE ClientsTypeOK'
  <2>1. /\ sock' = [sock EXCEPT ![c] = 0]
        /\ isMouseCapturing' = [isMouseCapturing EXCEPT ![c] = FALSE]
        /\ UNCHANGED <<_uiclientid, nvars, svars>>
    BY <1>7 DEF HostClosed, SocketError, Disconnected, DeleteMouseHookProcess
  <2>2. sock' \in [Clients -> 0..made] /\ isMouseCapturing' \in [Clients -> BOOLEAN]
    BY <2>1 DEF ClientsTypeOK, Numbers
  <2> QED
    BY <2>1, <2>2 DEF ClientsTypeOK, nvars, svars
<1>8. ASSUME NEW k \in Conns, LinkFails(k) PROVE ClientsTypeOK'
  BY <1>8 DEF LinkFails, ClientsTypeOK, cvars, svars
<1>9. UNCHANGED svars
  BY DEF Connect, ReadMessage, HookMouse, UnhookMouse, UseMouse, AskWall, NewConnection, Restart,
         HostClosed, SocketError, Disconnected, LinkFails
<1> QED
  BY <1>1, <1>2, <1>3, <1>4, <1>5, <1>6, <1>7, <1>8, <1>9, WallKeeps
-------------------------------------------------------------------------------
\* A thread is started with nothing queued of it; one that ends posts that last.
LEMMA ThreadInv ==
    ASSUME ClientsInv, IncomingConnection \/ \E k \in Conns : RunReceive(k) \/ RunEnd(k)
    PROVE  ClientsInv'
<1> USE DEF ClientsInv
<1>0. made \in Nat /\ _uiClientId \in Nat /\ DOMAIN thread = 1.._uiClientId
  BY DEF ClientsTypeOK, Numbers
<1>1. CASE IncomingConnection
  <2> USE <1>1 DEF IncomingConnection
  <2>1. thread' \in [1 .. _uiClientId + 1 -> {"running", "finished", "gone"}]
    BY <1>0, AppendNext DEF ClientsTypeOK
  <2>2. \A k \in 1.._uiClientId : thread'[k] = thread[k]
    BY <1>0, AppendNext DEF ClientsTypeOK
  <2>3. DOMAIN thread' = 1 .. _uiClientId + 1
    BY <2>1
  <2>4. ClientsTypeOK'
    BY <1>0, <2>1 DEF ClientsTypeOK, cvars, nvars
  <2>5. \A k \in DOMAIN thread : k \in DOMAIN thread' /\ thread'[k] = thread[k]
    BY <1>0, <2>2, <2>3
  <2>6. EventInv'
    BY <2>5 DEF EventInv, Alive
  <2>7. WallInv' /\ PointerGoesWithThread'
    BY <1>0, <2>5 DEF WallInv, PointerGoesWithThread, Alive
  <2> QED
    BY <2>4, <2>6, <2>7
<1>2. ASSUME NEW k \in Conns, RunReceive(k) PROVE ClientsInv'
  <2> USE <1>2 DEF RunReceive
  <2> DEFINE e == [type |-> "msgReceived", from |-> k, msg |-> Head(net[k])]
  <2>1. k \in 1.._uiClientId /\ k \in 1..made /\ net[k] \in Seq(Messages)
    BY <1>0 DEF ClientsTypeOK, Conns
  <2>2. Head(net[k]) \in Messages /\ Tail(net[k]) \in Seq(Messages)
    BY <2>1, HeadTailProperties
  <2>3. e \in Events /\ e.from = k /\ ~Ends(e) /\ Post(e)
    BY <2>2 DEF Events, Ends
  <2> HIDE DEF e
  <2>4. Alive(k) /\ thread' = thread
    BY <1>0, <2>1 DEF Alive
  <2>5. events' \in Seq(Events) /\ EventInv'
    BY <2>3, <2>4, PostKeeps DEF Alive
  <2>6. ClientsTypeOK'
    BY <2>1, <2>2, <2>5 DEF ClientsTypeOK, cvars
  <2>7. WallInv'
    BY <1>0, <2>1, <2>4 DEF WallInv
  <2>8. PointerGoesWithThread'
    BY <2>4 DEF PointerGoesWithThread, Alive
  <2> QED
    BY <2>5, <2>6, <2>7, <2>8
<1>3. ASSUME NEW k \in Conns, RunEnd(k) PROVE ClientsInv'
  <2> USE <1>3 DEF RunEnd
  <2> DEFINE e == [type |-> "finished", from |-> k]
  <2>1. k \in 1.._uiClientId /\ k \in 1..made
    BY <1>0 DEF ClientsTypeOK, Conns
  <2>2. e \in Events /\ e.from = k /\ Post(e)
    BY DEF Events
  <2>3. /\ thread' \in [1.._uiClientId -> {"running", "finished", "gone"}]
        /\ thread'[k] = "finished" /\ \A n \in 1.._uiClientId : n # k => thread'[n] = thread[n]
    BY <2>1 DEF ClientsTypeOK
  <2>4. \A n \in DOMAIN thread : n \in DOMAIN thread' /\ (Alive(n) => Alive(n)')
    BY <1>0, <2>1, <2>3 DEF Alive
  <2> HIDE DEF e
  <2>5. events' \in Seq(Events) /\ EventInv'
    BY <1>0, <2>1, <2>2, <2>3, <2>4, PostKeeps DEF Alive
  <2>6. ClientsTypeOK'
    BY <2>1, <2>3, <2>5, EmptySeq DEF ClientsTypeOK, cvars
  <2>7. PointerGoesWithThread'
    BY <2>4 DEF PointerGoesWithThread, Alive
  <2>8. WallInv'
    BY <1>0, <2>1 DEF WallInv, Alive
  <2> QED
    BY <2>5, <2>6, <2>7, <2>8
<1> QED
  BY <1>1, <1>2, <1>3
-------------------------------------------------------------------------------
\* A handler that only takes its event leaves everything as it was.
LEMMA TakenEvent ==
    ASSUME ClientsTypeOK, EventInv, events # <<>>, events' = Tail(events),
           UNCHANGED <<_uiClientId, thread, wall, nvars, cvars>>
    PROVE  events' \in Seq(Events) /\ EventInv'
<1>1. /\ events' \in Seq(Events) /\ Len(events') = Len(events) - 1 /\ Len(events) \in Nat \ {0}
      /\ \A i \in 1..Len(events') : events'[i] = events[i + 1]
  BY TailKeeps
<1>2. \A i \in 1..Len(events') : /\ Alive(events'[i].from)
                                 /\ Ends(events'[i]) => thread[events'[i].from] = "finished"
  BY <1>1 DEF EventInv
<1>3. \A i, j \in 1..Len(events') :
         Ends(events'[i]) /\ i < j => events'[j].from # events'[i].from
  BY <1>1 DEF EventInv
<1> QED
  BY <1>1, <1>2, <1>3 DEF EventInv, Alive

\* The handlers of a message.  A pointer that is made is its sender's, whose
\* thread exists.
LEMMA MessageInv ==
    ASSUME ClientsInv, wall, events # <<>>, Head(events).type = "msgReceived",
           HandleMessage(Head(events)), UNCHANGED cvars
    PROVE  ClientsInv'
<1> DEFINE e == Head(events)
<1> USE DEF ClientsInv
<1>1. e \in Events /\ e.from \in Conns /\ e.msg.id \in Numbers /\ Alive(e.from)
  BY TailKeeps, EventType
<1> HIDE DEF e
<1>2. CASE PointerShare(e.from, e.msg.id)
  <2>1. events' = Tail(events) /\ UNCHANGED <<_uiClientId, thread, _closeFlag, wall, nvars>>
    BY <1>2 DEF PointerShare
  <2>2. events' \in Seq(Events) /\ EventInv'
    BY <2>1, TakenEvent
  <2>3. /\ DOMAIN _pointers' \subseteq Numbers
        /\ \A i \in DOMAIN _pointers' :
              \/ i \in DOMAIN _pointers /\ _pointers'[i] = _pointers[i]
              \/ _pointers'[i] = e.from
    BY <1>1, <1>2 DEF PointerShare, LaunchPointer, ClientsTypeOK
  <2>4. ClientsTypeOK'
    BY <1>1, <2>1, <2>2, <2>3 DEF ClientsTypeOK, nvars, cvars
  <2>5. WallInv' /\ PointerGoesWithThread'
    BY <1>1, <2>1, <2>3 DEF WallInv, PointerGoesWithThread, Alive
  <2> QED
    BY <2>2, <2>4, <2>5
<1>3. CASE /\ events' = Tail(events) /\ _closeFlag' \in BOOLEAN
           /\ UNCHANGED <<_uiClientId, thread, _pointers, wall, nvars>>
  <2>1. events' \in Seq(Events) /\ EventInv'
    BY <1>3, TakenEvent
  <2>2. ClientsTypeOK'
    BY <1>3, <2>1 DEF ClientsTypeOK, nvars, cvars
  <2>3. WallInv' /\ PointerGoesWithThread'
    BY <1>3 DEF WallInv, PointerGoesWithThread, Alive
  <2> QED
    BY <2>1, <2>2, <2>3
<1>4. CASE DeleteUiServer
  <2> USE <1>4 DEF DeleteUiServer
  <2>1. /\ thread' \in [1.._uiClientId -> {"running", "finished", "gone"}]
        /\ \A k \in DOMAIN thread' : ~Alive(k)'
    BY DEF ClientsTypeOK, Alive
  <2>2. /\ peer' \in [1..made -> {"open", "shut", "cut", "ended"}]
        /\ net' \in [1..made -> Seq(Messages)]
    BY EmptySeq DEF ClientsTypeOK
  <2>3. events' \in Seq(Events) /\ Len(events') = 0
    BY EmptySeq
  <2>4. DOMAIN _pointers' = {}
    BY DEF Restrict
  <2>5. ClientsTypeOK'
    BY <2>1, <2>2, <2>3, <2>4 DEF ClientsTypeOK, cvars
  <2>6. EventInv' /\ WallInv' /\ PointerGoesWithThread'
    BY <2>1, <2>3, <2>4 DEF EventInv, WallInv, PointerGoesWithThread
  <2> QED
    BY <2>5, <2>6
<1> QED
  <2>1. _closeFlag \in BOOLEAN
    BY DEF ClientsTypeOK
  <2> QED
    BY <1>2, <1>3, <1>4, <2>1
       DEF HandleMessage, PointerUnshare, Clicked, ToPointer, ToSender, PrepareClosing, e

\* The two steps in which the object of a thread that ended is deleted.
LEMMA EndInv ==
    ASSUME ClientsInv, wall, events # <<>>, UNCHANGED cvars,
           \/ Head(events).type = "finished" /\ DeleteLater(Head(events))
           \/ Head(events).type = "deleted" /\ DestroyThread(Head(events))
    PROVE  ClientsInv'
<1> DEFINE e == Head(events)
           q == Tail(events)
<1> USE DEF ClientsInv
<1>1. /\ e \in Events /\ e.from \in Conns /\ Alive(e.from) /\ Ends(e)
      /\ thread[e.from] = "finished"
  BY TailKeeps, EventType, EmptySeq DEF Ends, EventInv, ClientsTypeOK
<1>2. /\ q \in Seq(Events) /\ Len(q) = Len(events) - 1 /\ Len(events) \in Nat \ {0}
      /\ \A i \in 1..Len(q) : q[i] = events[i + 1] /\ q[i].from # e.from
  BY <1>1, TailKeeps
<1>3. /\ \A i \in 1..Len(q) : /\ Alive(q[i].from)
                              /\ Ends(q[i]) => thread[q[i].from] = "finished"
      /\ \A i, j \in 1..Len(q) : Ends(q[i]) /\ i < j => q[j].from # q[i].from
  BY <1>2 DEF EventInv
<1> HIDE DEF e, q
<1>4. CASE DeleteLater(e)
  <2> DEFINE d == [type |-> "deleted", from |-> e.from]
  <2>1. events' = Append(q, d)
        /\ UNCHANGED <<_uiClientId, thread, _pointers, _closeFlag, wall, nvars>>
    BY <1>4 DEF DeleteLater, q
  <2>2. d \in Events /\ d.from = e.from
    BY <1>1 DEF Events
  <2> HIDE DEF d
  <2>3. /\ events' \in Seq(Events) /\ Len(events') = Len(q) + 1 /\ Len(q) \in Nat
        /\ \A i \in 1..Len(q) : events'[i] = q[i]
        /\ events'[Len(q) + 1] = d
    BY <1>2, <2>1, <2>2, AppendProperties
  <2>4. ASSUME NEW i \in 1..Len(events')
        PROVE  Alive(events'[i].from) /\ (Ends(events'[i]) => thread[events'[i].from] = "finished")
    BY <1>1, <1>3, <2>2, <2>3
  <2>5. ASSUME NEW i \in 1..Len(events'), NEW j \in 1..Len(events'), Ends(events'[i]), i < j
        PROVE  events'[j].from # events'[i].from
    BY <1>2, <1>3, <2>2, <2>3, <2>5
  <2>6. EventInv'
    BY <2>1, <2>4, <2>5 DEF EventInv, Alive
  <2>7. ClientsTypeOK'
    BY <2>1, <2>3 DEF ClientsTypeOK, nvars, cvars
  <2>8. WallInv' /\ PointerGoesWithThread'
    BY <2>1 DEF WallInv, PointerGoesWithThread, Alive
  <2> QED
    BY <2>6, <2>7, <2>8
<1>5. CASE DestroyThread(e)
  <2>1. /\ events' = q /\ UNCHANGED <<_uiClientId, _closeFlag, wall, nvars>>
        /\ thread' = [thread EXCEPT ![e.from] = "gone"]
        /\ _pointers' = Restrict(_pointers, DOMAIN _pointers \ {e.from})
    BY <1>5 DEF DestroyThread, RemoveFinishedThread, q
  <2>2. /\ thread' \in [1.._uiClientId -> {"running", "finished", "gone"}]
        /\ \A k \in DOMAIN thread : k # e.from => (Alive(k) <=> Alive(k)') /\ thread'[k] = thread[k]
    BY <2>1 DEF ClientsTypeOK, Alive
  <2>3. /\ DOMAIN _pointers' = DOMAIN _pointers \ {e.from}
        /\ \A i \in DOMAIN _pointers' : _pointers'[i] = _pointers[i]
    BY <2>1 DEF Restrict
  <2>4. ASSUME NEW i \in 1..Len(events')
        PROVE  Alive(events[i].from)' /\ (Ends(events'[i]) => thread'[events'[i].from] = "finished")
    BY <1>2, <1>3, <2>1, <2>2 DEF Alive
  <2>5. EventInv'
    BY <1>3, <2>1, <2>4 DEF EventInv
  <2>6. ClientsTypeOK'
    BY <1>2, <2>1, <2>2, <2>3 DEF ClientsTypeOK, nvars, cvars
  <2>7. WallInv'
    BY <2>1 DEF WallInv
  <2>8. PointerGoesWithThread'
    BY <2>2, <2>3 DEF PointerGoesWithThread, Alive
  <2> QED
    BY <2>5, <2>6, <2>7, <2>8
<1> QED
  BY <1>4, <1>5 DEF e
-------------------------------------------------------------------------------
\* A step of a client, of the network, of a message thread or of the GUI thread.
LEMMA ClientsStepInv == ClientsInv /\ [ClientsNext]_clientVars => ClientsInv'
<1> SUFFICES ASSUME ClientsInv, [ClientsNext]_clientVars PROVE ClientsInv'
  OBVIOUS
<1>1. CASE UNCHANGED clientVars
  BY <1>1, WallKeeps DEF clientVars, cvars, nvars, svars, ClientsInv, ClientsTypeOK
<1>2. CASE GuiStep
  BY <1>2, MessageInv, EndInv DEF GuiStep
<1> QED
  BY <1>1, <1>2, ClientInv, ThreadInv DEF ClientsNext

\* handleMessage() and the slots of finished() always find the object of the
\* thread that their event came from.
THEOREM SenderThm == ClientsSpec => []SenderInv
<1>1. ClientsInv => SenderInv
  BY LenProperties DEF ClientsInv, EventInv, SenderInv, SenderOutlivesMessages, ClientsTypeOK
<1> QED
  BY ClientsInitInv, ClientsStepInv, <1>1, PTL DEF ClientsSpec

\* A pointer shared under its own connection's number goes with that connection.
THEOREM PointerGoesThm == ClientsSpec => []PointerGoesWithThread
<1>1. ClientsInv => PointerGoesWithThread
  BY DEF ClientsInv
<1> QED
  BY ClientsInitInv, ClientsStepInv, <1>1, PTL DEF ClientsSpec

-------------------------------------------------------------------------------
(* Pointers and windows                                                      *)

\* A window in its normal state has a user's size, or none and none to come back to;
\* and _isResizing is set only while the last press took hold of a corner.
OwnSize(r) == r.size \in UserSizes \/ (r.size = NoSize /\ r.recent.size = NoSize)

WellFormed(r) == /\ r \in WindowType
                 /\ r.state = "normal" => OwnSize(r)
                 /\ r.corner => r.grip = "corner"

WindowInv == /\ DOMAIN win \subseteq Windows
             /\ win \in [DOMAIN win -> WindowType]
             /\ \A w \in DOMAIN win : WellFormed(win[w])

PointerInv == /\ DOMAIN ptr \subseteq Pointers
              /\ ptr \in [DOMAIN ptr -> PointerType]

\* The windows by height: all of them, each once.
StackInv == /\ stack \in Seq(DOMAIN win)
            /\ \A w \in DOMAIN win : \E i \in 1..Len(stack) : stack[i] = w
            /\ \A i, j \in 1..Len(stack) : stack[i] = stack[j] => i = j

IInv == WindowInv /\ PointerInv /\ StackInv /\ HoverListTrue
-------------------------------------------------------------------------------
(* The operators on a window.                                                *)

LEMMA PlacesNat == /\ WallPlaces \in Nat \ {0} /\ Places = 0 .. WallPlaces + 1
                   /\ Wall \subseteq Places /\ 1 \in Wall /\ Bar \in Places /\ RemoveButton \in Places
BY PointersAssumption DEF Places, RemoveButton, Bar, Wall

\* A window that is launched was never moved, and has the size it came with.
LEMMA NewWindowWellFormed ==
    ASSUME NEW place \in Wall, NEW isWindow \in BOOLEAN
    PROVE  WellFormed(NewWindow(place, isWindow)) /\ NewWindow(place, isWindow).pointerMap = {}
BY PlacesNat DEF NewWindow, Constructed, WellFormed, OwnSize, WindowType, Sizes, UserSizes, NoSize

\* A window that comes back to its normal state.
LEMMA PlacedWellFormed ==
    ASSUME NEW r, WellFormed(r), NEW at \in Places, NEW size \in UserSizes \cup {NoSize},
           size = NoSize => r.recent.size = NoSize
    PROVE  LET q == [r EXCEPT !.state = "normal", !.at = at, !.size = size]
           IN  WellFormed(q) /\ q.pointerMap = r.pointerMap
<1> DEFINE q == [r EXCEPT !.state = "normal", !.at = at, !.size = size]
<1>1. r \in WindowType /\ size \in Sizes
  BY DEF WellFormed, Sizes
<1>2. q \in WindowType
  BY <1>1 DEF WindowType
<1>3. /\ q.size = size /\ q.recent = r.recent /\ q.pointerMap = r.pointerMap
      /\ q.corner = r.corner /\ q.grip = r.grip
  BY <1>1 DEF WindowType
<1> HIDE DEF q
<1>4. WellFormed(q)
  BY <1>2, <1>3 DEF WellFormed, OwnSize
<1> QED
  BY <1>3, <1>4 DEF q

\* A window that a user gave another size.
LEMMA ResizedWellFormed ==
    ASSUME NEW r, WellFormed(r), NEW at \in Places
    PROVE  LET q == [r EXCEPT !.size = "other", !.at = at]
           IN  WellFormed(q) /\ q.pointerMap = r.pointerMap
<1> DEFINE q == [r EXCEPT !.size = "other", !.at = at]
<1>1. r \in WindowType /\ "other" \in Sizes /\ "other" \in UserSizes
  BY DEF WellFormed, Sizes, UserSizes
<1>2. q \in WindowType
  BY <1>1 DEF WindowType
<1>3. /\ q.size = "other" /\ q.pointerMap = r.pointerMap
      /\ q.corner = r.corner /\ q.grip = r.grip
  BY <1>1 DEF WindowType
<1> HIDE DEF q
<1>4. WellFormed(q)
  BY <1>1, <1>2, <1>3 DEF WellFormed, OwnSize
<1> QED
  BY <1>3, <1>4 DEF q

\* The menu and the double click.
LEMMA StatesWellFormed ==
    ASSUME NEW r, WellFormed(r)
    PROVE  \A q \in {Minimized(r), Maximized(r), Restored(r), OffBar(r), OntoBar(r)} :
              WellFormed(q) /\ q.pointerMap = r.pointerMap
<1> USE PlacesNat DEF WellFormed, OwnSize, WindowType, Sizes, UserSizes, NoSize
<1>1. WellFormed(Minimized(r)) /\ Minimized(r).pointerMap = r.pointerMap
  BY ZenonT(60) DEF Minimized
<1>2. WellFormed(Restored(r)) /\ Restored(r).pointerMap = r.pointerMap
  <2> DEFINE size == SizeToRestore(r)
             at == IF r.onBar THEN Bar ELSE r.recent.at
  <2>1. size \in UserSizes \cup {NoSize} /\ (size = NoSize => r.recent.size = NoSize)
    BY DEF SizeToRestore
  <2>2. at \in Places
    OBVIOUS
  <2>3. Restored(r) = IF r.state = "normal" THEN r
                      ELSE [r EXCEPT !.state = "normal", !.at = at, !.size = size]
    BY DEF Restored
  <2> HIDE DEF size, at
  <2> HIDE DEF WellFormed, OwnSize, WindowType, Sizes, UserSizes, NoSize
  <2>4. LET q == [r EXCEPT !.state = "normal", !.at = at, !.size = size]
        IN  WellFormed(q) /\ q.pointerMap = r.pointerMap
    BY <2>1, <2>2, PlacedWellFormed
  <2> QED
    BY <2>3, <2>4, ZenonT(60)
<1>3. WellFormed(Maximized(r)) /\ Maximized(r).pointerMap = r.pointerMap
  <2>1. CASE r.state = "maximized"
    <3> HIDE DEF WellFormed
    <3>1. Maximized(r) = Restored(r)
      BY <2>1 DEF Maximized
    <3> QED
      BY <1>2, <3>1
  <2>2. CASE r.state # "maximized" /\ r.onBar
    BY <2>2, ZenonT(60) DEF Maximized
  <2>3. CASE r.state # "maximized" /\ ~r.onBar
    BY <2>3, ZenonT(60) DEF Maximized
  <2> QED
    BY <2>1, <2>2, <2>3
<1>4. WellFormed(OffBar(r)) /\ OffBar(r).pointerMap = r.pointerMap
  BY ZenonT(60) DEF OffBar
<1>5. WellFormed(OntoBar(r)) /\ OntoBar(r).pointerMap = r.pointerMap
  BY ZenonT(60) DEF OntoBar
<1> QED
  BY <1>1, <1>2, <1>3, <1>4, <1>5, SMTT(30), ZenonT(60)

\* The geometry saved when a window in its normal state is pressed.
LEMMA SavedWellFormed ==
    ASSUME NEW r, WellFormed(r), NEW saved \in [at : Places, size : UserSizes \cup {NoSize}],
           saved.size = r.size
    PROVE  WellFormed([r EXCEPT !.recent = saved]) /\ [r EXCEPT !.recent = saved].pointerMap = r.pointerMap
BY DEF WellFormed, OwnSize, WindowType

\* Pressing, dragging, dropping and the wheel.
LEMMA HandlersWellFormed ==
    ASSUME NEW r, WellFormed(r)
    PROVE  /\ \A hit \in BOOLEAN : /\ WellFormed(Gripped(r, hit))
                                   /\ Gripped(r, hit).pointerMap = r.pointerMap
           /\ \A delta \in Int : /\ Dragged(r, delta).at \in Places => WellFormed(Dragged(r, delta))
                                 /\ Dragged(r, delta).pointerMap = r.pointerMap
           /\ \A place \in Places : /\ WellFormed(LetGo(r, place))
                                    /\ LetGo(r, place).pointerMap = r.pointerMap
           /\ \A q \in ReScaled(r) : WellFormed(q) /\ q.pointerMap = r.pointerMap
<1> USE PlacesNat DEF WellFormed, OwnSize, WindowType, Sizes, UserSizes, NoSize
<1>1. ASSUME NEW hit \in BOOLEAN
      PROVE  WellFormed(Gripped(r, hit)) /\ Gripped(r, hit).pointerMap = r.pointerMap
  <2>1. WellFormed(Gripped(r, TRUE)) /\ Gripped(r, TRUE).pointerMap = r.pointerMap
    <3> DEFINE grip == [r EXCEPT !.corner = TRUE, !.isMoving = FALSE, !.stretched = FALSE,
                                 !.grip = "corner"]
    <3>1. WellFormed(grip) /\ grip.pointerMap = r.pointerMap
          /\ grip.state = r.state /\ grip.size = r.size
      BY ZenonT(60)
    <3>2. CASE r.state = "normal"
      <4> DEFINE saved == [at |-> r.at, size |-> r.size]
      <4>1. Gripped(r, TRUE) = [grip EXCEPT !.recent = saved]
        BY <3>2, ZenonT(60) DEF Gripped
      <4>2. saved \in [at : Places, size : UserSizes \cup {NoSize}] /\ saved.size = grip.size
        BY <3>1, <3>2
      <4> HIDE DEF grip, saved, WellFormed
      <4>3. WellFormed([grip EXCEPT !.recent = saved])
            /\ [grip EXCEPT !.recent = saved].pointerMap = grip.pointerMap
        BY <3>1, <4>2, SavedWellFormed, Zenon
      <4> QED
        BY <3>1, <4>1, <4>3
    <3>3. CASE r.state # "normal"
      <4>1. Gripped(r, TRUE) = grip
        BY <3>3, ZenonT(60) DEF Gripped
      <4> QED
        BY <3>1, <4>1
    <3> QED
      BY <3>2, <3>3
  <2>2. WellFormed(Gripped(r, FALSE)) /\ Gripped(r, FALSE).pointerMap = r.pointerMap
    <3> DEFINE grip == [r EXCEPT !.corner = FALSE, !.isMoving = TRUE, !.stretched = r.stretched,
                                 !.grip = "inside"]
    <3>1. WellFormed(grip) /\ grip.pointerMap = r.pointerMap
          /\ grip.state = r.state /\ grip.size = r.size
      BY ZenonT(60)
    <3>2. CASE r.state = "normal"
      <4> DEFINE saved == [at |-> r.at, size |-> r.size]
      <4>1. Gripped(r, FALSE) = [grip EXCEPT !.recent = saved]
        BY <3>2, ZenonT(60) DEF Gripped
      <4>2. saved \in [at : Places, size : UserSizes \cup {NoSize}] /\ saved.size = grip.size
        BY <3>1, <3>2
      <4> HIDE DEF grip, saved, WellFormed
      <4>3. WellFormed([grip EXCEPT !.recent = saved])
            /\ [grip EXCEPT !.recent = saved].pointerMap = grip.pointerMap
        BY <3>1, <4>2, SavedWellFormed, Zenon
      <4> QED
        BY <3>1, <4>1, <4>3
    <3>3. CASE r.state # "normal"
      <4>1. Gripped(r, FALSE) = grip
        BY <3>3, ZenonT(60) DEF Gripped
      <4> QED
        BY <3>1, <4>1
    <3> QED
      BY <3>2, <3>3
  <2> HIDE DEF WellFormed
  <2> QED
    BY <2>1, <2>2, Zenon
<1>2. ASSUME NEW delta \in Int
      PROVE  /\ Dragged(r, delta).at \in Places => WellFormed(Dragged(r, delta))
             /\ Dragged(r, delta).pointerMap = r.pointerMap
  BY ZenonT(60) DEF Dragged
<1>3. ASSUME NEW place \in Places
      PROVE  WellFormed(LetGo(r, place)) /\ LetGo(r, place).pointerMap = r.pointerMap
  <2> DEFINE done == [r EXCEPT !.isMoving = FALSE, !.corner = FALSE, !.stretched = FALSE]
  <2>1. WellFormed(done) /\ done.pointerMap = r.pointerMap
    BY ZenonT(60)
  <2>2. CASE r.corner /\ r.stretched
    <3>1. LetGo(r, place) = [done EXCEPT !.size = "other", !.at = place]
      BY <2>2, ZenonT(60) DEF LetGo
    <3> HIDE DEF done
    <3> HIDE DEF WellFormed, OwnSize, WindowType, Sizes, UserSizes, NoSize
    <3>2. LET q == [done EXCEPT !.size = "other", !.at = place]
          IN  WellFormed(q) /\ q.pointerMap = done.pointerMap
      BY <2>1, ResizedWellFormed
    <3> QED
      BY <2>1, <3>1, <3>2
  <2>3. CASE ~(r.corner /\ r.stretched)
    <3>1. LetGo(r, place) = done
      BY <2>3, ZenonT(60) DEF LetGo
    <3> HIDE DEF WellFormed, done
    <3> QED
      BY <2>1, <3>1
  <2> QED
    BY <2>2, <2>3
<1>4. ASSUME NEW q \in ReScaled(r) PROVE WellFormed(q) /\ q.pointerMap = r.pointerMap
  BY ZenonT(60) DEF ReScaled
<1> QED
  BY <1>1, <1>2, <1>3, <1>4
\* A window that is marked or not, on the bar or not.
LEMMA MarkWellFormed ==
    ASSUME NEW r, WellFormed(r), NEW flag \in BOOLEAN
    PROVE  \A q \in {[r EXCEPT !.selectedByPointer = flag], [r EXCEPT !.onBar = flag],
                     [r EXCEPT !.selectedByPointer = ~r.selectedByPointer]} :
              WellFormed(q) /\ q.pointerMap = r.pointerMap
<1> USE DEF WellFormed, OwnSize, WindowType
<1>1. WellFormed([r EXCEPT !.selectedByPointer = flag]) /\ WellFormed([r EXCEPT !.onBar = flag])
  BY ZenonT(60)
<1>2. \A b \in BOOLEAN : WellFormed([r EXCEPT !.selectedByPointer = b])
  BY ZenonT(60)
<1>3. WellFormed([r EXCEPT !.selectedByPointer = ~r.selectedByPointer])
  <2>1. CASE r.selectedByPointer
    <3>1. (~r.selectedByPointer) = FALSE
      BY <2>1
    <3> QED
      BY <1>2, <3>1, Zenon
  <2>2. CASE ~r.selectedByPointer
    <3>1. (~r.selectedByPointer) = TRUE
      BY <2>2
    <3> QED
      BY <1>2, <3>1, Zenon
  <2> QED
    BY <2>1, <2>2
<1>4. \A q \in {[r EXCEPT !.selectedByPointer = flag], [r EXCEPT !.onBar = flag],
                [r EXCEPT !.selectedByPointer = ~r.selectedByPointer]} : q.pointerMap = r.pointerMap
  BY ZenonT(60)
<1> QED
  BY <1>1, <1>3, <1>4
-------------------------------------------------------------------------------
(* The windows by height.                                                    *)

\* Taking a window out leaves the others, each once.
LEMMA WithoutKeeps ==
    ASSUME StackInv, NEW w
    PROVE  /\ Without(w) \in Seq(Exists \ {w})
           /\ \A v \in Exists \ {w} : \E i \in 1..Len(Without(w)) : Without(w)[i] = v
           /\ \A i, j \in 1..Len(Without(w)) : Without(w)[i] = Without(w)[j] => i = j
<1> DEFINE n == Len(stack)
           I == {i \in DOMAIN stack : stack[i] = w}
           S == Exists \ {w}
<1>1. /\ n \in Nat /\ DOMAIN stack = 1..n /\ stack \in [1..n -> Exists]
      /\ \A v \in Exists : \E i \in 1..n : stack[i] = v
      /\ \A i, j \in 1..n : stack[i] = stack[j] => i = j
  BY LenProperties DEF StackInv, Exists
<1>2. CASE I = {}
  <2>1. Without(w) = stack /\ S = Exists
    BY <1>1, <1>2 DEF Without
  <2> QED
    BY <1>1, <2>1 DEF StackInv, Exists
<1>3. CASE I # {}
  <2> DEFINE k == CHOOSE i \in I : TRUE
             a == SubSeq(stack, 1, k - 1)
             b == SubSeq(stack, k + 1, n)
  <2>1. k \in 1..n /\ stack[k] = w
    BY <1>1, <1>3
  <2>2. Without(w) = a \o b
    BY <1>3 DEF Without, RemoveAt
  <2> HIDE DEF k, n, I
  <2>3. \A i \in 1..n : i # k => stack[i] \in S
    BY <1>1, <2>1
  <2>4. /\ a \in Seq(S) /\ Len(a) = k - 1
        /\ \A i \in 1 .. k - 1 : a[i] = stack[i]
    <3>1. \A i \in 1 .. k - 1 : stack[i] \in S
      BY <1>1, <2>1, <2>3
    <3>2. /\ a \in Seq(S) /\ Len(a) = (IF 1 <= k - 1 THEN k - 1 - 1 + 1 ELSE 0)
          /\ \A i \in 1 .. k - 1 - 1 + 1 : a[i] = stack[1 + i - 1]
      BY <1>1, <2>1, <3>1, SubSeqProperties
    <3> QED
      BY <1>1, <2>1, <3>2
  <2>5. /\ b \in Seq(S) /\ Len(b) = n - k
        /\ \A i \in 1 .. n - k : b[i] = stack[k + i]
    <3>1. \A i \in k + 1 .. n : stack[i] \in S
      BY <1>1, <2>1, <2>3
    <3>2. /\ b \in Seq(S) /\ Len(b) = (IF k + 1 <= n THEN n - (k + 1) + 1 ELSE 0)
          /\ \A i \in 1 .. n - (k + 1) + 1 : b[i] = stack[k + 1 + i - 1]
      BY <1>1, <2>1, <3>1, SubSeqProperties
    <3> QED
      BY <1>1, <2>1, <3>2
  <2> DEFINE q == Without(w)
  <2> HIDE DEF a, b, S, q
  <2>6. q \in Seq(S) /\ Len(q) = n - 1
    <3>1. a \o b \in Seq(S) /\ Len(a \o b) = Len(a) + Len(b)
      BY <2>4, <2>5, ConcatProperties
    <3>2. Len(a) + Len(b) = n - 1
      BY <1>1, <2>1, <2>4, <2>5
    <3> QED
      BY <2>2, <3>1, <3>2 DEF q
  <2>7. \A i \in 1 .. n - 1 : q[i] = IF i < k THEN stack[i] ELSE stack[i + 1]
    <3> SUFFICES ASSUME NEW i \in 1 .. n - 1
                 PROVE  q[i] = IF i < k THEN stack[i] ELSE stack[i + 1]
      OBVIOUS
    <3>1. q[i] = IF i <= Len(a) THEN a[i] ELSE b[i - Len(a)]
      BY <1>1, <2>1, <2>2, <2>4, <2>5, ConcatProperties DEF q
    <3>2. CASE i < k
      BY <1>1, <2>1, <2>4, <3>1, <3>2
    <3>3. CASE ~(i < k)
      <4>1. i - (k - 1) \in 1 .. n - k /\ k + (i - (k - 1)) = i + 1 /\ ~(i <= k - 1)
        BY <1>1, <2>1, <3>3
      <4> QED
        BY <2>4, <2>5, <3>1, <3>3, <4>1
    <3> QED
      BY <3>2, <3>3
  <2>8. ASSUME NEW v \in S PROVE \E i \in 1 .. n - 1 : q[i] = v
    <3>1. PICK j \in 1..n : stack[j] = v
      BY <1>1 DEF S
    <3>2. CASE j < k
      BY <1>1, <2>1, <2>7, <3>1, <3>2
    <3>3. CASE j > k
      <4>1. j - 1 \in 1 .. n - 1 /\ ~(j - 1 < k) /\ j - 1 + 1 = j
        BY <1>1, <2>1, <3>3
      <4> QED
        BY <2>7, <3>1, <4>1
    <3>4. j # k
      BY <2>1, <3>1 DEF S
    <3> QED
      BY <1>1, <2>1, <3>2, <3>3, <3>4
  <2>9. \A i, j \in 1 .. n - 1 : q[i] = q[j] => i = j
    BY <1>1, <2>1, <2>7
  <2> QED
    BY <2>6, <2>8, <2>9 DEF q, S
<1> QED
  BY <1>2, <1>3

\* Raising a window puts it on top of the others.
LEMMA RaiseKeeps ==
    ASSUME StackInv, NEW w
    PROVE  /\ Raise(w) \in Seq(Exists \cup {w})
           /\ \A v \in Exists \cup {w} : \E i \in 1..Len(Raise(w)) : Raise(w)[i] = v
           /\ \A i, j \in 1..Len(Raise(w)) : Raise(w)[i] = Raise(w)[j] => i = j
<1> DEFINE q == Without(w)
           r == Raise(w)
<1>1. /\ q \in Seq(Exists \ {w})
      /\ \A v \in Exists \ {w} : \E i \in 1..Len(q) : q[i] = v
      /\ \A i, j \in 1..Len(q) : q[i] = q[j] => i = j
  BY WithoutKeeps
<1>2. r = Append(q, w)
  BY DEF Raise
<1>3. q \in Seq(Exists \cup {w})
  BY <1>1, SeqMonotonic
<1>4. Len(q) \in Nat /\ \A i \in 1..Len(q) : q[i] # w
  BY <1>1, LenProperties, ElementOfSeq
<1> HIDE DEF q, r
<1>5. /\ r \in Seq(Exists \cup {w}) /\ Len(r) = Len(q) + 1
      /\ \A i \in 1..Len(q) : r[i] = q[i]
      /\ r[Len(q) + 1] = w
  BY <1>2, <1>3, AppendProperties
<1>6. ASSUME NEW v \in Exists \cup {w} PROVE \E i \in 1..Len(r) : r[i] = v
  BY <1>1, <1>4, <1>5, SMTT(30), ZenonT(60)
<1>7. \A i, j \in 1..Len(r) : r[i] = r[j] => i = j
  BY <1>1, <1>4, <1>5, SMTT(30), ZenonT(60)
<1> QED
  BY <1>5, <1>6, <1>7 DEF r

\* What is found under a place is a window or nothing.
LEMMA AppUnderType == ASSUME StackInv, NEW place PROVE AppUnder(place) \in Exists \cup {Nothing}
<1>1. \A i \in DOMAIN stack : stack[i] \in Exists
  BY LenProperties, ElementOfSeq DEF StackInv, Exists
<1> QED
  BY <1>1 DEF AppUnder
-------------------------------------------------------------------------------
(* Steps that keep the windows of the scene.                                 *)

\* The same windows, each well formed, and each with the pointers it heard of.
SameWindows == /\ win' \in [Exists -> WindowType]
               /\ \A w \in Exists : WellFormed(win'[w]) /\ win'[w].pointerMap = win[w].pointerMap

\* At most one window is changed, by one of the operators above.
LEMMA OneWindow ==
    ASSUME WindowInv, NEW w, NEW r, win' = [win EXCEPT ![w] = r],
           w \in Exists => WellFormed(r) /\ r.pointerMap = win[w].pointerMap
    PROVE  SameWindows
BY DEF WindowInv, SameWindows, Exists, WellFormed

LEMMA NoWindow == ASSUME WindowInv, win' = win PROVE SameWindows
BY DEF WindowInv, SameWindows, Exists, WellFormed

\* Whatever happens to pointers then, none may leave, and windows may be raised.
LEMMA SceneKeeps ==
    ASSUME IInv, SameWindows, PointerInv', Shared \subseteq Shared',
           hoverAcceptingApps' \subseteq hoverAcceptingApps,
           stack' = stack \/ \E w \in Exists : stack' = Raise(w)
    PROVE  IInv'
<1>1. DOMAIN win' = Exists
  BY DEF SameWindows
<1>2. WindowInv'
  BY <1>1 DEF SameWindows, WindowInv, WellFormed, IInv, Exists
<1>3. StackInv'
  <2>1. CASE stack' = stack
    BY <1>1, <2>1 DEF StackInv, IInv, Exists
  <2>2. ASSUME NEW w \in Exists, stack' = Raise(w) PROVE StackInv'
    <3>1. Exists \cup {w} = Exists
      OBVIOUS
    <3> QED
      BY <1>1, <2>2, <3>1, RaiseKeeps, SMTT(30), ZenonT(60) DEF StackInv, IInv, Exists
  <2> QED
    BY <2>1, <2>2
<1>4. HoverListTrue'
  BY <1>1 DEF SameWindows, HoverListTrue, IInv, Exists
<1> QED
  BY <1>2, <1>3, <1>4 DEF IInv

\* A pointer that stays what a pointer is.
LEMMA OnePointer ==
    ASSUME PointerInv, NEW p \in Shared, NEW x \in PointerType, ptr' = [ptr EXCEPT ![p] = x]
    PROVE  PointerInv' /\ Shared' = Shared
BY DEF PointerInv, Shared

LEMMA NoPointer == ASSUME PointerInv, ptr' = ptr PROVE PointerInv' /\ Shared' = Shared
BY DEF PointerInv, Shared

\* Nothing is up, and no pointer is shared.
LEMMA InitInv == Init => IInv
<1> SUFFICES ASSUME Init PROVE IInv
  OBVIOUS
<1>1. \A S : <<>> \in Seq(S) /\ <<>> \in [{} -> S] /\ DOMAIN <<>> = {} /\ Len(<<>>) = 0
  BY EmptySeq, LenProperties
<1> QED
  BY <1>1 DEF Init, IInv, WindowInv, PointerInv, StackInv, HoverListTrue

\* The menu, and the end of a window.
LEMMA WindowSteps ==
    ASSUME IInv, NEW w \in Windows, Launch(w) \/ ContextMenu(w) \/ Close(w) \/ Destroy(w)
    PROVE  IInv'
<1> USE DEF IInv
<1>1. CASE Launch(w)
  <2> USE <1>1 DEF Launch
  <2>1. PICK place \in Wall, isWindow \in BOOLEAN :
           win' = [v \in Exists \cup {w} |-> IF v = w THEN NewWindow(place, isWindow) ELSE win[v]]
    OBVIOUS
  <2>2. WellFormed(NewWindow(place, isWindow)) /\ NewWindow(place, isWindow).pointerMap = {}
    BY NewWindowWellFormed
  <2>3. DOMAIN win' = Exists \cup {w} /\ win'[w] = NewWindow(place, isWindow)
        /\ \A v \in Exists : win'[v] = win[v]
    BY <2>1
  <2>4. WindowInv'
    <3>1. \A v \in DOMAIN win' : WellFormed(win'[v]) /\ win'[v] \in WindowType
      BY <2>2, <2>3 DEF WindowInv, WellFormed, Exists
    <3>2. win' \in [DOMAIN win' -> WindowType] /\ DOMAIN win' \subseteq Windows
      BY <2>1, <3>1 DEF WindowInv, Exists
    <3> QED
      BY <3>1, <3>2 DEF WindowInv, WellFormed
  <2>5. StackInv'
    <3>1. /\ stack' \in Seq(Exists \cup {w})
          /\ \A v \in Exists \cup {w} : \E i \in 1..Len(stack') : stack'[i] = v
          /\ \A i, j \in 1..Len(stack') : stack'[i] = stack'[j] => i = j
      BY RaiseKeeps
    <3> QED
      BY <2>3, <3>1 DEF StackInv
  <2>6. HoverListTrue'
    BY <2>2, <2>3 DEF HoverListTrue, Exists, Shared
  <2> QED
    BY <2>4, <2>5, <2>6, NoPointer
<1>2. CASE ContextMenu(w)
  <2> USE <1>2 DEF ContextMenu
  <2>1. WellFormed(win[w])
    BY DEF WindowInv, Exists
  <2>2. SameWindows
    BY <2>1, StatesWellFormed, OneWindow
  <2> QED
    BY <2>2, NoPointer, SceneKeeps
<1>3. CASE Close(w)
  <2> USE <1>3 DEF Close
  <2> DEFINE r == [win[w] EXCEPT !.open = FALSE]
  <2>1. WellFormed(r) /\ r.pointerMap = win[w].pointerMap
    BY SMTT(30), ZenonT(60) DEF WindowInv, Exists, WellFormed, OwnSize, WindowType
  <2>2. SameWindows
    BY <2>1, OneWindow
  <2> QED
    BY <2>2, NoPointer, SceneKeeps
<1>4. CASE Destroy(w)
  <2> USE <1>4 DEF Destroy
  <2>1. DOMAIN win' = Exists \ {w} /\ \A v \in Exists \ {w} : win'[v] = win[v]
    OBVIOUS
  <2>2. WindowInv'
    <3>1. \A v \in DOMAIN win' : WellFormed(win'[v]) /\ win'[v] \in WindowType
      BY <2>1 DEF WindowInv, WellFormed, Exists
    <3>2. win' \in [DOMAIN win' -> WindowType] /\ DOMAIN win' \subseteq Windows
      BY <2>1, <3>1 DEF WindowInv, Exists
    <3> QED
      BY <3>1, <3>2 DEF WindowInv, WellFormed
  <2>3. StackInv'
    <3>1. /\ stack' \in Seq(Exists \ {w})
          /\ \A v \in Exists \ {w} : \E i \in 1..Len(stack') : stack'[i] = v
          /\ \A i, j \in 1..Len(stack') : stack'[i] = stack'[j] => i = j
      BY WithoutKeeps
    <3> QED
      BY <2>1, <3>1 DEF StackInv
  <2>4. HoverListTrue'
    BY <2>1 DEF HoverListTrue, Exists, Shared
  <2> QED
    BY <2>2, <2>3, <2>4, NoPointer
<1> QED
  BY <1>1, <1>2, <1>3, <1>4
-------------------------------------------------------------------------------
\* Pointers come, hover and go: hovering windows hear of all of it.
LEMMA HoverSteps ==
    ASSUME IInv, NEW p \in Pointers,
           SharePointer(p) \/ UnsharePointer(p) \/ \E place \in Places : Move(p, place)
    PROVE  IInv'
<1> USE DEF IInv
<1>1. CASE SharePointer(p)
  <2> USE <1>1 DEF SharePointer
  <2>1. NewPointer \in PointerType
    BY PlacesNat DEF NewPointer, PointerType, RemoveButton, Wall
  <2>2. DOMAIN ptr' = Shared \cup {p}
        /\ \A q \in Shared \cup {p} : ptr'[q] = IF q = p THEN NewPointer ELSE ptr[q]
    OBVIOUS
  <2>3. PointerInv' /\ Shared \subseteq Shared'
    BY <2>1, <2>2 DEF PointerInv, Shared
  <2> QED
    BY <2>3, NoWindow, SceneKeeps
<1>2. CASE UnsharePointer(p)
  <2> USE <1>2 DEF UnsharePointer
  <2>1. DOMAIN ptr' = Shared \ {p} /\ \A q \in Shared \ {p} : ptr'[q] = ptr[q]
    OBVIOUS
  <2>2. PointerInv' /\ Shared' = Shared \ {p}
    BY <2>1 DEF PointerInv, Shared
  <2>3. /\ DOMAIN win' = Exists
        /\ \A w \in Exists : win'[w] = IF w \in hoverAcceptingApps
                                       THEN [win[w] EXCEPT !.pointerMap = win[w].pointerMap \ {p}]
                                       ELSE win[w]
    OBVIOUS
  <2>4. \A w \in Exists : WellFormed(win'[w])
    BY <2>3, SMTT(30), ZenonT(60) DEF WindowInv, WellFormed, OwnSize, WindowType, Exists
  <2>5. WindowInv'
    BY <2>3, <2>4 DEF WindowInv, WellFormed, Exists
  <2>6. StackInv'
    BY <2>3 DEF StackInv, Exists
  <2>7. HoverListTrue'
    <3> SUFFICES ASSUME NEW w \in hoverAcceptingApps
                 PROVE  w \in Exists /\ win'[w].pointerMap \subseteq Shared'
      BY <2>3 DEF HoverListTrue, Exists
    <3>1. w \in Exists /\ win[w].pointerMap \subseteq Shared
      BY DEF HoverListTrue
    <3>2. win'[w].pointerMap = win[w].pointerMap \ {p}
      BY <2>3, <3>1 DEF WindowInv, WindowType, Exists
    <3> QED
      BY <2>2, <3>1, <3>2
  <2> QED
    BY <2>2, <2>5, <2>6, <2>7
<1>3. ASSUME NEW place \in Places, Move(p, place) PROVE IInv'
  <2> USE <1>3 DEF Move
  <2> DEFINE x == [ptr[p] EXCEPT !.at = place]
  <2>1. x \in PointerType
    BY DEF PointerInv, PointerType, Shared
  <2>2. PointerInv' /\ Shared' = Shared
    BY <2>1, OnePointer
  <2>3. /\ DOMAIN win' = Exists
        /\ \A w \in Exists : win'[w] = IF w \in hoverAcceptingApps
                                       THEN [win[w] EXCEPT !.pointerMap = win[w].pointerMap \cup {p}]
                                       ELSE win[w]
    OBVIOUS
  <2>4. \A w \in Exists : WellFormed(win'[w])
    BY <2>3, SMTT(30), ZenonT(60) DEF WindowInv, WellFormed, OwnSize, WindowType, Exists
  <2>5. WindowInv'
    BY <2>3, <2>4 DEF WindowInv, WellFormed, Exists
  <2>6. StackInv'
    BY <2>3 DEF StackInv, Exists
  <2>7. HoverListTrue'
    <3> SUFFICES ASSUME NEW w \in hoverAcceptingApps
                 PROVE  w \in Exists /\ win'[w].pointerMap \subseteq Shared'
      BY <2>3 DEF HoverListTrue, Exists
    <3>1. w \in Exists /\ win[w].pointerMap \subseteq Shared
      BY DEF HoverListTrue
    <3>2. win'[w].pointerMap = win[w].pointerMap \cup {p}
      BY <2>3, <3>1 DEF WindowInv, WindowType, Exists
    <3> QED
      BY <2>2, <3>1, <3>2
  <2> QED
    BY <2>2, <2>5, <2>6, <2>7
<1> QED
  BY <1>1, <1>2, <1>3

\* Presses, drags, releases, clicks and the wheel: a pointer changes the window in
\* its hand or the one below it.
LEMMA HandSteps ==
    ASSUME IInv, NEW p \in Pointers,
           \/ \E place \in Places : LeftDrag(p, place) \/ RightDrag(p, place)
           \/ \E button, btn \in {"left", "right"} : PointerPress(p, button, btn)
           \/ \E button \in {"left", "right"} : ReleaseEarly(p, button)
           \/ LeftClick(p) \/ RightClick(p) \/ DoubleClick(p) \/ Wheel(p) \/ SwallowRelease(p)
    PROVE  IInv'
<1> USE DEF IInv
<1>1. ASSUME NEW place \in Places, LeftDrag(p, place) PROVE IInv'
  <2> USE <1>1 DEF LeftDrag
  <2> DEFINE x == [ptr[p] EXCEPT !.at = place]
             w == ptr[p].basewidget
             r == Dragged(win[w], place - ptr[p].at)
  <2>1. x \in PointerType /\ ptr[p].at \in Places
    BY DEF PointerInv, PointerType, Shared
  <2>2. SameWindows
    <3>1. CASE w = Nothing
      BY <3>1, NoWindow, SMTT(30), ZenonT(60)
    <3>2. CASE w # Nothing
      <4>1. WellFormed(win[w]) /\ place - ptr[p].at \in Int
        BY <2>1, <3>2, PlacesNat DEF WindowInv, Exists
      <4>2. r.at \in Places /\ win' = [win EXCEPT ![w] = r]
        BY <3>2
      <4>3. WellFormed(r) /\ r.pointerMap = win[w].pointerMap
        BY <4>1, <4>2, HandlersWellFormed
      <4> QED
        BY <4>2, <4>3, OneWindow
    <3> QED
      BY <3>1, <3>2
  <2> QED
    BY <2>1, <2>2, OnePointer, SceneKeeps
<1>2. ASSUME NEW place \in Places, RightDrag(p, place) PROVE IInv'
  <2> USE <1>2 DEF RightDrag
  <2> DEFINE x == [ptr[p] EXCEPT !.at = place]
  <2>1. x \in PointerType
    BY SMTT(30), ZenonT(60) DEF PointerInv, PointerType, Shared
  <2> QED
    BY <2>1, NoWindow, OnePointer, SceneKeeps
<1>3. ASSUME NEW button \in {"left", "right"}, NEW btn \in {"left", "right"},
             PointerPress(p, button, btn)
      PROVE  IInv'
  <2> DEFINE w == AppUnder(ptr[p].at)
             x == [ptr[p] EXCEPT !.down = ptr[p].down \cup {button},
                                 !.pressedAt = ptr[p].at,
                                 !.basewidget = w,
                                 !.rectShown = ptr[p].rectShown \/ btn = "right"]
  <2>1. /\ p \in Shared /\ ptr' = [ptr EXCEPT ![p] = x]
        /\ hoverAcceptingApps' = hoverAcceptingApps
    BY <1>3 DEF PointerPress
  <2>2. w \in Exists \cup {Nothing} /\ Exists \subseteq Windows
    BY AppUnderType DEF WindowInv, Exists
  <2>3. \/ win' = win /\ stack' = stack
        \/ /\ w # Nothing /\ stack' = Raise(w)
           /\ \E hit \in BOOLEAN :
                win' = IF btn = "left" THEN [win EXCEPT ![w] = Gripped(win[w], hit)] ELSE win
    BY <1>3 DEF PointerPress
  <2> HIDE DEF w
  <2>4. ptr[p] \in PointerType
    BY <2>1 DEF PointerInv, Shared
  <2>5. x \in PointerType
    BY <2>2, <2>4 DEF PointerType
  <2> HIDE DEF x
  <2>6. PointerInv' /\ Shared' = Shared
    BY <2>1, <2>5, OnePointer
  <2>7. CASE win' = win /\ stack' = stack
    <3>1. SameWindows
      BY <2>7, NoWindow
    <3> QED
      BY <2>1, <2>6, <2>7, <3>1, SceneKeeps
  <2>8. ASSUME w # Nothing, stack' = Raise(w), NEW hit \in BOOLEAN,
               win' = IF btn = "left" THEN [win EXCEPT ![w] = Gripped(win[w], hit)] ELSE win
        PROVE  IInv'
    <3>1. WellFormed(win[w]) /\ w \in Exists
      BY <2>2, <2>8 DEF WindowInv, Exists
    <3>2. WellFormed(Gripped(win[w], hit)) /\ Gripped(win[w], hit).pointerMap = win[w].pointerMap
      BY <3>1, HandlersWellFormed
    <3>3. SameWindows
      BY <2>8, <3>2, NoWindow, OneWindow
    <3> QED
      BY <2>1, <2>6, <2>8, <3>1, <3>3, SceneKeeps
  <2> QED
    BY <2>3, <2>7, <2>8
<1>4. ASSUME NEW button \in {"left", "right"}, ReleaseEarly(p, button) PROVE IInv'
  <2> USE <1>4 DEF ReleaseEarly
  <2> DEFINE w == ptr[p].basewidget
             x == [ptr[p] EXCEPT !.down = ptr[p].down \ {button}]
             r == [win[w] EXCEPT !.open = FALSE]
  <2>1. x \in PointerType
    BY DEF PointerInv, PointerType, Shared
  <2>2. WellFormed(win[w])
    BY DEF WindowInv, Exists
  <2>3. SameWindows
    <3>1. WellFormed(OntoBar(win[w])) /\ OntoBar(win[w]).pointerMap = win[w].pointerMap
      BY <2>2, StatesWellFormed
    <3>2. WellFormed(r) /\ r.pointerMap = win[w].pointerMap
      BY <2>2, ZenonT(60) DEF WellFormed, OwnSize, WindowType
    <3>3. win' = [win EXCEPT ![w] = OntoBar(win[w])] \/ win' = [win EXCEPT ![w] = r]
      OBVIOUS
    <3> QED
      BY <3>1, <3>2, <3>3, OneWindow
  <2>4. hoverAcceptingApps' \subseteq hoverAcceptingApps
    OBVIOUS
  <2> QED
    BY <2>1, <2>3, <2>4, OnePointer, SceneKeeps
<1>5. CASE LeftClick(p)
  <2> USE <1>5 DEF LeftClick
  <2> DEFINE x == [ptr[p] EXCEPT !.down = ptr[p].down \ {"left"}]
  <2>1. x \in PointerType
    BY DEF PointerInv, PointerType, Shared
  <2>2. \A v \in Exists : win'[v] \in {win[v], OffBar(win[v])}
    OBVIOUS
  <2>3. \A v \in Exists : WellFormed(win'[v]) /\ win'[v].pointerMap = win[v].pointerMap
    BY <2>2, StatesWellFormed DEF WindowInv, Exists
  <2>4. DOMAIN win' = Exists
    OBVIOUS
  <2>5. SameWindows
    BY <2>3, <2>4 DEF SameWindows, WellFormed
  <2> QED
    BY <2>1, <2>5, OnePointer, SceneKeeps
<1>6. CASE RightClick(p)
  <2> USE <1>6 DEF RightClick
  <2> DEFINE w == ptr[p].basewidget
             d == ptr[p].down \ {"right"}
             r == [win[w] EXCEPT !.selectedByPointer = ~win[w].selectedByPointer]
  <2>1. CASE w = Nothing
    <3> DEFINE x == [ptr[p] EXCEPT !.down = d]
    <3>1. x \in PointerType
      BY SMTT(30), ZenonT(60) DEF PointerInv, PointerType, Shared
    <3> QED
      BY <2>1, <3>1, NoWindow, OnePointer, SceneKeeps
  <2>2. CASE w # Nothing
    <3> DEFINE list == IF win[w].selectedByPointer
                       THEN ptr[p].selected \ {w} ELSE ptr[p].selected \cup {w}
               x == [ptr[p] EXCEPT !.down = d, !.selected = list]
    <3>1. ptr' = [ptr EXCEPT ![p] = x] /\ win' = [win EXCEPT ![w] = r] /\ w \in Exists
      BY <2>2
    <3>2. list \subseteq Windows
      BY <3>1 DEF PointerInv, PointerType, Shared, WindowInv, Exists
    <3>3. x \in PointerType
      BY <3>2, SMTT(30), ZenonT(60) DEF PointerInv, PointerType, Shared
    <3>4. WellFormed(r) /\ r.pointerMap = win[w].pointerMap
      <4>1. WellFormed(win[w])
        BY <3>1 DEF WindowInv, Exists
      <4> QED
        BY <4>1, MarkWellFormed
    <3> QED
      BY <3>1, <3>3, <3>4, OneWindow, OnePointer, SceneKeeps
  <2> QED
    BY <2>1, <2>2
<1>7. CASE DoubleClick(p)
  <2> USE <1>7 DEF DoubleClick
  <2> DEFINE x == [ptr[p] EXCEPT !.down = {"left"}]
             w == AppUnder(ptr[p].at)
  <2>1. x \in PointerType
    BY DEF PointerInv, PointerType, Shared
  <2>2. win' = win \/ win' = [win EXCEPT ![w] = Maximized(win[w])]
    OBVIOUS
  <2>3. w \in Exists => WellFormed(win[w])
    BY DEF WindowInv, Exists
  <2>4. SameWindows
    BY <2>2, <2>3, StatesWellFormed, NoWindow, OneWindow
  <2> QED
    BY <2>1, <2>4, OnePointer, SceneKeeps
<1>8. CASE Wheel(p)
  <2> USE <1>8 DEF Wheel
  <2> DEFINE w == AppUnder(ptr[p].at)
  <2>1. PICK r \in ReScaled(win[w]) : win' = [win EXCEPT ![w] = r]
    OBVIOUS
  <2>2. w \in Exists => WellFormed(win[w])
    BY DEF WindowInv, Exists
  <2>3. SameWindows
    BY <2>1, <2>2, HandlersWellFormed, OneWindow
  <2> QED
    BY <2>3, NoPointer, SceneKeeps
<1>9. CASE SwallowRelease(p)
  <2> USE <1>9 DEF SwallowRelease
  <2> DEFINE x == [ptr[p] EXCEPT !.down = {}]
  <2>1. x \in PointerType
    BY DEF PointerInv, PointerType, Shared
  <2> QED
    BY <2>1, NoWindow, OnePointer, SceneKeeps
<1> QED
  BY <1>1, <1>2, <1>3, <1>4, <1>5, <1>6, <1>7, <1>8, <1>9

\* A release: the window in the hand is let go, and windows may be selected.
LEMMA ReleaseStep ==
    ASSUME IInv, NEW p \in Pointers, NEW button \in {"left", "right"}, PointerRelease(p, button)
    PROVE  IInv'
<1> USE DEF IInv
<1> DEFINE w == ptr[p].basewidget
           onLayout(r) == IF button = "left" THEN [r EXCEPT !.onBar = FALSE] ELSE r
           Freed(v, place) == IF v = w THEN LetGo(onLayout(win[v]), place) ELSE win[v]
<1>1. /\ p \in Shared /\ w \in Exists \cup {Nothing}
      /\ stack' = stack /\ hoverAcceptingApps' = hoverAcceptingApps
  BY DEF PointerRelease
<1>2. PICK list \in IF button = "right" THEN Selecting(p) ELSE {ptr[p].selected},
           place \in IF w = Nothing THEN {1} ELSE {win[w].at, ptr[p].at} :
         /\ button = "right" => list \subseteq Exists
         /\ ptr' = [ptr EXCEPT ![p].down = ptr[p].down \ {button},
                               ![p].basewidget = Nothing,
                               ![p].selected = list,
                               ![p].rectShown = ptr[p].rectShown /\ button = "left"]
         /\ win' = [v \in Exists |-> IF button = "right" /\ v \in list
                                     THEN [Freed(v, place) EXCEPT !.selectedByPointer = TRUE]
                                     ELSE Freed(v, place)]
  BY SMTT(30), ZenonT(60) DEF PointerRelease
<1>3. ptr[p] \in PointerType /\ Exists \subseteq Windows
  BY <1>1 DEF PointerInv, Shared, WindowInv, Exists
<1>4. list \subseteq Windows
  BY <1>2, <1>3 DEF PointerType
<1>5. place \in Places
  BY <1>1, <1>2, <1>3, PlacesNat, SMTT(30), ZenonT(60) DEF PointerType, WindowInv, WindowType, Exists
<1>6. PointerInv' /\ Shared' = Shared
  <2> DEFINE x == [ptr[p] EXCEPT !.down = ptr[p].down \ {button}, !.basewidget = Nothing,
                                 !.selected = list,
                                 !.rectShown = ptr[p].rectShown /\ button = "left"]
  <2>1. x \in PointerType
    BY <1>3, <1>4 DEF PointerType
  <2>2. ptr' = [ptr EXCEPT ![p] = x]
    BY <1>2
  <2> QED
    BY <1>1, <2>1, <2>2, OnePointer
<1>7. ASSUME NEW v \in Exists
      PROVE  WellFormed(Freed(v, place)) /\ Freed(v, place).pointerMap = win[v].pointerMap
  <2>1. WellFormed(win[v])
    BY DEF WindowInv, Exists
  <2>2. WellFormed(onLayout(win[v])) /\ onLayout(win[v]).pointerMap = win[v].pointerMap
    BY <2>1, MarkWellFormed
  <2> QED
    BY <1>5, <2>1, <2>2, HandlersWellFormed
<1> HIDE DEF Freed
<1>8. ASSUME NEW v \in Exists
      PROVE  WellFormed(win'[v]) /\ win'[v].pointerMap = win[v].pointerMap
  BY <1>2, <1>7, MarkWellFormed
<1>9. SameWindows
  BY <1>2, <1>8 DEF SameWindows, WellFormed
<1> QED
  BY <1>1, <1>6, <1>9, SceneKeeps

LEMMA StepInv == ASSUME IInv, [Next]_vars PROVE IInv'
<1>1. CASE UNCHANGED vars
  BY <1>1 DEF vars, IInv, WindowInv, PointerInv, StackInv, HoverListTrue, Exists, Shared
<1>2. ASSUME NEW w \in Windows, Launch(w) \/ ContextMenu(w) \/ Close(w) \/ Destroy(w) PROVE IInv'
  BY <1>2, WindowSteps
<1>3. ASSUME NEW p \in Pointers,
             SharePointer(p) \/ UnsharePointer(p) \/ PointerOperation(p) \/ SwallowRelease(p)
      PROVE  IInv'
  BY <1>3, HoverSteps, HandSteps, ReleaseStep DEF PointerOperation
<1> QED
  BY <1>1, <1>2, <1>3 DEF Next

LEMMA IInvHolds == Spec => []IInv
BY InitInv, StepInv, PTL DEF Spec
-------------------------------------------------------------------------------
\* What the scene remembers of windows and pointers is still there, however many of
\* them come and go: hoverAcceptingApps holds windows that exist, and these know of
\* shared pointers only (SN_TheScene, SN_PolygonArrowPointer's destructor).
THEOREM HoverThm == Spec => []HoverInv
<1>1. IInv => HoverInv
  <2> SUFFICES ASSUME IInv PROVE HoverInv
    OBVIOUS
  <2> USE DEF IInv
  <2>1. DOMAIN stack = 1..Len(stack)
    BY LenProperties DEF StackInv
  <2>2. \A i \in 1..Len(stack) : stack[i] \in Exists
    BY ElementOfSeq DEF StackInv, Exists
  <2>3. Range(stack) = Exists
    <3>1. \A w \in Exists : \E i \in DOMAIN stack : w = stack[i]
      BY <2>1 DEF StackInv, Exists
    <3>2. \A w : w \in Range(stack) <=> \E i \in DOMAIN stack : w = stack[i]
      BY DEF Range
    <3> QED
      BY <2>1, <2>2, <3>1, <3>2
  <2>4. IsInjective(stack)
    BY <2>1 DEF StackInv, IsInjective
  <2>5. TypeOK
    BY <2>3, <2>4 DEF TypeOK, WindowInv, PointerInv, StackInv, Exists, Shared
  <2> QED
    BY <2>5 DEF HoverInv
<1> QED
  BY <1>1, IInvHolds, PTL

\* Minimized, maximized, dropped on the bar, restored, scaled by any pointers in any
\* order, a window in its normal state has a size its users gave it: handlers save the
\* geometry in the normal state only (SN_BaseWidget).  A window that was never pressed
\* in that state is the exception: what it comes back with was never set (SN_AppInfo).
THEOREM NormalHasOwnSizeThm == Spec => []NormalHasOwnSize
<1>1. IInv => NormalHasOwnSize
  BY DEF IInv, WindowInv, WellFormed, OwnSize, NormalHasOwnSize, Exists
<1> QED
  BY <1>1, IInvHolds, PTL

\* A drop resizes only a window whose corner the last press took: what clicks and
\* drops on the bar leave in _isResizing is overwritten by the next left press.
THEOREM MoveKeepsSizeThm == Spec => MoveKeepsSize
<1> DEFINE Drop == \A p \in Shared : \A w \in Exists \cap {ptr[p].basewidget} :
                      /\ p \in DOMAIN ptr' /\ ptr'[p].basewidget = Nothing
                      /\ w \in DOMAIN win' /\ win'[w].size # win[w].size
                      => win[w].grip = "corner"
<1>1. IInv /\ [Next]_vars => [Drop]_vars
  <2> SUFFICES ASSUME IInv, Next, NEW p \in Shared, NEW w \in Exists, ptr[p].basewidget = w,
                      p \in DOMAIN ptr', ptr'[p].basewidget = Nothing,
                      w \in DOMAIN win', win'[w].size # win[w].size
               PROVE  win[w].grip = "corner"
    BY Zenon DEF vars
  <2> USE DEF IInv
  <2>1. w # Nothing /\ w \in Windows /\ ptr[p] \in PointerType /\ p \in Pointers
    BY PointersAssumption DEF WindowInv, PointerInv, Exists, Shared, Nothing
  <2>2. ptr'[p].basewidget # ptr[p].basewidget
    BY <2>1
  <2>3. ASSUME NEW v \in Windows, Launch(v) \/ ContextMenu(v) \/ Close(v) \/ Destroy(v)
        PROVE  FALSE
    BY <2>2, <2>3 DEF Launch, ContextMenu, Close, Destroy
  <2>4. ASSUME NEW q \in Pointers, SharePointer(q) \/ UnsharePointer(q) PROVE FALSE
    <3>1. CASE SharePointer(q)
      BY <2>2, <3>1 DEF SharePointer
    <3>2. CASE UnsharePointer(q)
      <4>1. p \in Shared \ {q} /\ ptr'[p] = ptr[p]
        BY <3>2 DEF UnsharePointer
      <4> QED
        BY <2>2, <4>1
    <3> QED
      BY <2>4, <3>1, <3>2
  <2>5. ASSUME NEW q \in Pointers, NEW place \in Places,
               Move(q, place) \/ LeftDrag(q, place) \/ RightDrag(q, place)
        PROVE  FALSE
    <3>1. ptr' = [ptr EXCEPT ![q].at = place]
      BY <2>5 DEF Move, LeftDrag, RightDrag
    <3> QED
      BY <2>1, <2>2, <3>1 DEF PointerInv, PointerType, Shared
  <2>6. ASSUME NEW q \in Pointers,
               \/ \E button \in {"left", "right"} : ReleaseEarly(q, button)
               \/ LeftClick(q) \/ DoubleClick(q) \/ SwallowRelease(q) \/ Wheel(q)
        PROVE  FALSE
    <3>1. ptr' = ptr \/ \E d : ptr' = [ptr EXCEPT ![q].down = d]
      BY <2>6 DEF ReleaseEarly, LeftClick, DoubleClick, SwallowRelease, Wheel
    <3> QED
      BY <2>1, <2>2, <3>1 DEF PointerInv, PointerType, Shared
  <2>7. ASSUME NEW q \in Pointers, RightClick(q) PROVE FALSE
    <3>1. \/ \E d : ptr' = [ptr EXCEPT ![q].down = d]
          \/ \E d, list : ptr' = [ptr EXCEPT ![q].down = d, ![q].selected = list]
      BY <2>7 DEF RightClick
    <3>2. ASSUME NEW d, NEW list, ptr' = [ptr EXCEPT ![q].down = d, ![q].selected = list]
          PROVE  FALSE
      <4>1. CASE p = q
        <5>1. ptr'[p] = [ptr[p] EXCEPT !.down = d, !.selected = list]
          BY <3>2, <4>1 DEF Shared
        <5> QED
          BY <2>1, <2>2, <5>1 DEF PointerType
      <4>2. CASE p # q
        BY <2>2, <3>2, <4>2
      <4> QED
        BY <4>1, <4>2
    <3>3. ASSUME NEW d, ptr' = [ptr EXCEPT ![q].down = d] PROVE FALSE
      BY <2>1, <2>2, <3>3 DEF PointerInv, PointerType, Shared
    <3> QED
      BY <3>1, <3>2, <3>3
  <2>8. ASSUME NEW q \in Pointers, NEW button \in {"left", "right"}, NEW btn \in {"left", "right"},
               PointerPress(q, button, btn)
        PROVE  FALSE
    <3> DEFINE v == AppUnder(ptr[q].at)
    <3>1. ptr' = [ptr EXCEPT ![q].down = ptr[q].down \cup {button},
                             ![q].pressedAt = ptr[q].at,
                             ![q].basewidget = v,
                             ![q].rectShown = ptr[q].rectShown \/ btn = "right"]
      BY <2>8 DEF PointerPress
    <3>2. v = Nothing => win' = win
      BY <2>8 DEF PointerPress
    <3> HIDE DEF v
    <3>3. p = q /\ v = Nothing
      BY <2>1, <2>2, <3>1 DEF PointerInv, PointerType, Shared
    <3> QED
      BY <3>2, <3>3
  <2>9. ASSUME NEW q \in Pointers, NEW button \in {"left", "right"}, PointerRelease(q, button)
        PROVE  win[w].grip = "corner"
    <3> DEFINE u == ptr[q].basewidget
               onLayout(r) == IF button = "left" THEN [r EXCEPT !.onBar = FALSE] ELSE r
               Freed(v, place) == IF v = u THEN LetGo(onLayout(win[v]), place) ELSE win[v]
    <3>1. PICK list \in IF button = "right" THEN Selecting(q) ELSE {ptr[q].selected},
               place \in IF u = Nothing THEN {1} ELSE {win[u].at, ptr[q].at} :
             /\ button = "right" => list \subseteq Exists
             /\ ptr' = [ptr EXCEPT ![q].down = ptr[q].down \ {button},
                                   ![q].basewidget = Nothing,
                                   ![q].selected = list,
                                   ![q].rectShown = ptr[q].rectShown /\ button = "left"]
             /\ win' = [v \in Exists |-> IF button = "right" /\ v \in list
                                         THEN [Freed(v, place) EXCEPT !.selectedByPointer = TRUE]
                                         ELSE Freed(v, place)]
      BY <2>9, SMTT(30), ZenonT(60) DEF PointerRelease
    <3>2. WellFormed(win[w])
      BY DEF WindowInv, Exists
    <3> DEFINE f == Freed(w, place)
    <3>3. f \in WindowType /\ (f.size # win[w].size => win[w].corner)
      <4>1. CASE w # u
        BY <3>2, <4>1 DEF WellFormed
      <4>2. CASE w = u
        <5>1. WellFormed(onLayout(win[w])) /\ onLayout(win[w]).corner = win[w].corner
              /\ onLayout(win[w]).size = win[w].size
          <6>1. WellFormed(onLayout(win[w]))
            BY <3>2, MarkWellFormed
          <6>2. win[w] \in WindowType
            BY <3>2 DEF WellFormed
          <6> QED
            BY <6>1, <6>2 DEF WindowType
        <5> HIDE DEF onLayout
        <5>2. place \in Places
          <6>1. ptr[q] \in PointerType /\ win[u] \in WindowType
            BY <2>9, <4>2 DEF PointerRelease, PointerInv, Shared, WindowInv, Exists
          <6> QED
            BY <2>1, <4>2, <6>1 DEF PointerType, WindowType
        <5>3. WellFormed(LetGo(onLayout(win[w]), place))
          BY <5>1, <5>2, HandlersWellFormed
        <5>4. LetGo(onLayout(win[w]), place).size # win[w].size => win[w].corner
          BY <5>1 DEF LetGo, WellFormed, WindowType
        <5> QED
          BY <4>2, <5>3, <5>4 DEF WellFormed
      <4> QED
        BY <4>1, <4>2
    <3>4. win'[w] = f \/ win'[w] = [f EXCEPT !.selectedByPointer = TRUE]
      BY <3>1
    <3> HIDE DEF f
    <3>5. win'[w].size = f.size
      BY <3>3, <3>4 DEF WindowType
    <3> QED
      BY <3>2, <3>3, <3>5, SMTT(30), ZenonT(60) DEF WellFormed
  <2> QED
    BY <2>3, <2>4, <2>5, <2>6, <2>7, <2>8, <2>9 DEF Next, PointerOperation
<1> QED
  BY <1>1, IInvHolds, PTL DEF Spec, MoveKeepsSize

-------------------------------------------------------------------------------
(* Functions defined by recursion                                            *)

\* A set of numbers that is not empty has a least one.
LEMMA LeastNumber ==
    ASSUME NEW T \in SUBSET Nat, T # {}
    PROVE  \E m \in T : \A k \in T : m <= k
<1>1. PICK m \in T : \A k \in T : ~(<<k, m>> \in OpToRel(<, Nat))
  BY NatLessThanWellFounded, WFMin, Zenon
<1>2. \A k \in T : ~(k < m)
  BY <1>1 DEF OpToRel
<1> QED
  BY <1>2

\* What holds of an element when it holds of all of lower rank, holds of all.
LEMMA StrongInduction ==
    ASSUME NEW D, NEW rank \in [D -> Nat],
           NEW P, \A k \in D : (\A j \in D : rank[j] < rank[k] => j \in P) => k \in P
    PROVE  D \subseteq P
<1> DEFINE T == {rank[k] : k \in D \ P}
<1> SUFFICES ASSUME T # {} PROVE FALSE
  OBVIOUS
<1>1. T \in SUBSET Nat
  OBVIOUS
<1>2. PICK m \in T : \A k \in T : m <= k
  <2> HIDE DEF T
  <2> QED
    BY <1>1, LeastNumber
<1>3. PICK k \in D \ P : m = rank[k]
  OBVIOUS
<1>4. ASSUME NEW j \in D, rank[j] < rank[k] PROVE j \in P
  <2>1. rank[j] \in Nat /\ rank[k] \in Nat
    OBVIOUS
  <2>2. ~(m <= rank[j])
    BY <1>3, <1>4, <2>1
  <2> QED
    BY <1>2, <2>2
<1> QED
  BY <1>3, <1>4

\* Each element needs others of lower rank.
Ranked(D, rank, needs) ==
    /\ rank \in [D -> Nat]
    /\ \A k \in D : \A j \in needs[k] : j \in D /\ rank[j] < rank[k]

\* The value that a function defined by recursion has, made of the values that are needed.
Made(needs, step, g, k) == step[k][[j \in needs[k] |-> g[j]]]

\* Its values are in V.
MadeIn(D, needs, V, step) == \A k \in D : \A v \in [needs[k] -> V] : step[k][v] \in V

\* A function that is defined by recursion along a rank exists.
LEMMA RankedRecursion ==
    ASSUME NEW D, NEW rank, NEW needs, Ranked(D, rank, needs),
           NEW V, NEW step, MadeIn(D, needs, V, step)
    PROVE  \E g \in [D -> V] : \A k \in D : g[k] = Made(needs, step, g, k)
<1> DEFINE Low(n) == {k \in D : rank[k] < n}
           Val(g, k) == Made(needs, step, g, k)
           Good(g, E) == g \in [E -> V] /\ \A k \in E : g[k] = Val(g, k)
           T == {n \in Nat : ~ \E g : Good(g, Low(n))}
<1>1. \A k \in D : rank[k] \in Nat /\ \A j \in needs[k] : j \in D /\ rank[j] < rank[k]
  BY DEF Ranked
<1>2. \A n, k : k \in Low(n) <=> k \in D /\ rank[k] < n
  OBVIOUS
<1>3. ASSUME NEW g, NEW h, NEW k, \A j \in needs[k] : g[j] = h[j] PROVE Val(g, k) = Val(h, k)
  <2>1. [j \in needs[k] |-> g[j]] = [j \in needs[k] |-> h[j]]
    BY <1>3
  <2> QED
    BY <2>1 DEF Made
<1>4. ASSUME NEW g, NEW k \in D, \A j \in needs[k] : g[j] \in V PROVE Val(g, k) \in V
  <2>1. [j \in needs[k] |-> g[j]] \in [needs[k] -> V]
    BY <1>4
  <2> QED
    BY <2>1 DEF Made, MadeIn
<1> HIDE DEF Low, Val
<1>5. \A n \in Nat : \A k \in Low(n) : \A j \in needs[k] : j \in Low(n)
  BY <1>1, <1>2
<1>6. \A n \in Nat : \E g : Good(g, Low(n))
  <2> SUFFICES ASSUME T # {} PROVE FALSE
    OBVIOUS
  <2>1. PICK n \in T : \A m \in T : n <= m
    <3>1. T \in SUBSET Nat
      OBVIOUS
    <3> HIDE DEF T
    <3> QED
      BY <3>1, LeastNumber
  <2>2. n \in Nat /\ ~ \E g : Good(g, Low(n))
    BY <2>1
  <2>3. n # 0
    <3> SUFFICES ASSUME n = 0 PROVE FALSE
      OBVIOUS
    <3>1. Low(0) = {}
      BY <1>1, <1>2
    <3>2. Good([k \in Low(0) |-> 0], Low(0))
      BY <3>1
    <3> QED
      BY <2>2, <3>2
  <2>4. PICK g : Good(g, Low(n - 1))
    <3>1. n - 1 \in Nat /\ ~(n <= n - 1)
      BY <2>2, <2>3
    <3>2. n - 1 \notin T
      <4> HIDE DEF T
      <4> QED
        BY <2>1, <3>1
    <3> QED
      BY <3>1, <3>2
  <2> DEFINE h == [k \in Low(n) |-> Val(g, k)]
  <2>5. \A k \in Low(n) : \A j \in needs[k] : j \in Low(n - 1) /\ j \in Low(n)
    BY <2>2, <1>1, <1>2
  <2>6. \A k \in Low(n - 1) : k \in Low(n) /\ h[k] = g[k]
    <3>1. \A k \in Low(n - 1) : k \in Low(n)
      BY <2>2, <1>1, <1>2
    <3> QED
      BY <3>1, <2>4
  <2>7. h \in [Low(n) -> V]
    <3>1. \A k \in Low(n) : k \in D /\ \A j \in needs[k] : g[j] \in V
      BY <2>4, <2>5, <1>2
    <3>2. \A k \in Low(n) : Val(g, k) \in V
      BY <3>1, <1>4
    <3> QED
      BY <3>2
  <2>8. \A k \in Low(n) : h[k] = Val(h, k)
    <3>1. \A k \in Low(n) : \A j \in needs[k] : h[j] = g[j]
      <4> HIDE DEF h
      <4> QED
        BY <2>5, <2>6
    <3>2. \A k \in Low(n) : h[k] = Val(g, k)
      OBVIOUS
    <3> HIDE DEF h
    <3> QED
      BY <3>1, <3>2, <1>3
  <2>9. Good(h, Low(n))
    <3> HIDE DEF h
    <3> QED
      BY <2>7, <2>8
  <2> QED
    BY <2>2, <2>9
<1> DEFINE pick == [n \in Nat |-> CHOOSE g : Good(g, Low(n))]
<1>7. \A n \in Nat : Good(pick[n], Low(n))
  <2> SUFFICES ASSUME NEW n \in Nat PROVE Good(pick[n], Low(n))
    OBVIOUS
  <2>1. pick[n] = CHOOSE g : Good(g, Low(n))
    OBVIOUS
  <2>2. \E g : Good(g, Low(n))
    BY <1>6
  <2> HIDE DEF pick, Good
  <2> QED
    BY <2>1, <2>2
<1> HIDE DEF pick
<1>8. \A n, m \in Nat : n <= m => \A k \in Low(n) : pick[n][k] = pick[m][k]
  <2> SUFFICES ASSUME NEW n \in Nat, NEW m \in Nat, n <= m
               PROVE  \A k \in Low(n) : pick[n][k] = pick[m][k]
    OBVIOUS
  <2> DEFINE E == Low(n)
             P == {k \in E : pick[n][k] = pick[m][k]}
             rankE == [k \in E |-> rank[k]]
  <2>1. \A k \in E : k \in Low(m)
    BY <1>1, <1>2
  <2>2. \A k \in E : pick[n][k] = Val(pick[n], k) /\ pick[m][k] = Val(pick[m], k)
    BY <2>1, <1>7
  <2>3. ASSUME NEW k \in E, \A j \in E : rankE[j] < rankE[k] => j \in P PROVE k \in P
    <3>1. \A j \in needs[k] : j \in E /\ rankE[j] < rankE[k]
      BY <1>1, <1>2, <1>5
    <3>2. \A j \in needs[k] : pick[n][j] = pick[m][j]
      <4>1. \A j \in needs[k] : j \in P
        <5> HIDE DEF P, E, rankE
        <5> QED
          BY <2>3, <3>1
      <4> QED
        BY <4>1
    <3>3. Val(pick[n], k) = Val(pick[m], k)
      BY <1>3, <3>2
    <3> QED
      BY <2>2, <3>3
  <2>4. rankE \in [E -> Nat]
    BY <1>1, <1>2
  <2>5. E \subseteq P
    <3> HIDE DEF E, P, rankE
    <3> QED
      BY <2>3, <2>4, StrongInduction
  <2> QED
    BY <2>5
<1> DEFINE f == [k \in D |-> pick[rank[k] + 1][k]]
<1>9. \A k \in D : k \in Low(rank[k] + 1) /\ rank[k] + 1 \in Nat
  BY <1>1, <1>2
<1>10. f \in [D -> V]
  BY <1>7, <1>9
<1>11. ASSUME NEW k \in D, NEW j \in needs[k] PROVE f[j] = pick[rank[k] + 1][j]
  <2>1. j \in D /\ rank[j] + 1 <= rank[k] + 1
    BY <1>1
  <2>2. f[j] = pick[rank[j] + 1][j]
    BY <2>1
  <2> HIDE DEF f
  <2> QED
    BY <2>1, <2>2, <1>8, <1>9
<1>12. \A k \in D : f[k] = Val(f, k)
  <2>1. \A k \in D : f[k] = Val(pick[rank[k] + 1], k)
    BY <1>7, <1>9
  <2> HIDE DEF f
  <2> QED
    BY <2>1, <1>3, <1>11
<1> HIDE DEF f
<1> QED
  BY <1>10, <1>12 DEF Val

\* An element that is no base has one above it, of a lower rank.
Descends(D, rank, base, up) ==
    \A k \in D : rank[k] \in Nat /\ (k \notin base => up[k] \in D /\ rank[up[k]] < rank[k])

\* What holds of the bases, and of whatever it holds of the element above, holds of all.
LEMMA RankInduction ==
    ASSUME NEW D, NEW rank, NEW base, NEW up, Descends(D, rank, base, up),
           NEW P, \A k \in D : (k \notin base => up[k] \in P) => k \in P
    PROVE  D \subseteq P
<1> DEFINE r == [k \in D |-> rank[k]]
<1>1. r \in [D -> Nat]
  BY DEF Descends
<1>2. \A k \in D : (\A j \in D : r[j] < r[k] => j \in P) => k \in P
  BY DEF Descends
<1> HIDE DEF r
<1> QED
  BY <1>1, <1>2, StrongInduction

\* The value of a function defined by recursion, from its value above.
Value(base, up, start, step, g, k) == IF k \in base THEN start[k] ELSE step[k][g[up[k]]]

\* Its values are in V.
Valued(D, base, V, start, step) ==
    \A k \in D : /\ k \in base => start[k] \in V
                 /\ k \notin base => \A v \in V : step[k][v] \in V

\* The case in which one element is needed.
LEMMA Recursion ==
    ASSUME NEW D, NEW rank, NEW base, NEW up, Descends(D, rank, base, up),
           NEW V, NEW start, NEW step, Valued(D, base, V, start, step)
    PROVE  \E g \in [D -> V] : \A k \in D : g[k] = Value(base, up, start, step, g, k)
<1> DEFINE r == [k \in D |-> rank[k]]
           needs == [k \in D |-> IF k \in base THEN {} ELSE {up[k]}]
           each == [k \in D |-> [v \in [needs[k] -> V] |-> IF k \in base THEN start[k] ELSE step[k][v[up[k]]]]]
<1>1. Ranked(D, r, needs)
  BY DEF Ranked, Descends
<1>2. MadeIn(D, needs, V, each)
  <2> SUFFICES ASSUME NEW k \in D, NEW v \in [needs[k] -> V] PROVE each[k][v] \in V
    BY DEF MadeIn
  <2>1. each[k][v] = IF k \in base THEN start[k] ELSE step[k][v[up[k]]]
    OBVIOUS
  <2>2. k \notin base => v[up[k]] \in V
    OBVIOUS
  <2> HIDE DEF each, needs
  <2> QED
    BY <2>1, <2>2 DEF Valued
<1>3. PICK g \in [D -> V] : \A k \in D : g[k] = Made(needs, each, g, k)
  <2> HIDE DEF r, needs, each
  <2> QED
    BY <1>1, <1>2, RankedRecursion
<1>4. ASSUME NEW k \in D PROVE g[k] = Value(base, up, start, step, g, k)
  <2> DEFINE v == [j \in needs[k] |-> g[j]]
  <2>1. g[k] = each[k][v]
    <3> HIDE DEF each, needs
    <3> QED
      BY <1>3 DEF Made
  <2>2. v \in [needs[k] -> V]
    BY <1>1 DEF Ranked
  <2>3. each[k][v] = IF k \in base THEN start[k] ELSE step[k][v[up[k]]]
    <3> HIDE DEF v
    <3> QED
      BY <2>2
  <2>4. k \notin base => v[up[k]] = g[up[k]]
    OBVIOUS
  <2> HIDE DEF v, each, needs
  <2> QED
    BY <2>1, <2>3, <2>4 DEF Value
<1> QED
  BY <1>4

-------------------------------------------------------------------------------
(* The layouts of a wall are a tree                                          *)

Points == [x : Int, y : Int]
Views  == [at : Int, x : Int, y : Int]
Nodes  == [parent : Nat, position : {"ROOT", "first", "second"}, x : Int, y : Int, w : Nat, h : Nat,
           bar : {"none", "horizontal", "vertical"}, line : Nat, first : Nat, second : Nat]

Walls == [layout : UNION {[D -> Nodes] : D \in SUBSET (Nat \ {0})}, window : [Window -> Views]]

\* The layouts of a wall are linked to each other as a tree.
Linked(W) ==
    /\ Root \in DOMAIN W.layout /\ W.layout[Root].parent = Nowhere
    /\ \A l \in DOMAIN W.layout \ {Root} :
          LET p == W.layout[l].parent
          IN  /\ p \in DOMAIN W.layout /\ W.layout[p].bar # "none"
              /\ l = IF W.layout[l].position = "first" THEN W.layout[p].first ELSE W.layout[p].second
    /\ \A l \in DOMAIN W.layout : W.layout[l].bar # "none" =>
          /\ {W.layout[l].first, W.layout[l].second} \subseteq DOMAIN W.layout
          /\ W.layout[l].first # W.layout[l].second
          /\ W.layout[W.layout[l].first].parent = l /\ W.layout[W.layout[l].second].parent = l

\* Windows on the wall are in leaves.
InLeaves(W) ==
    \A i \in Window : \/ W.window[i].at \in {Nowhere, MinimizeBar}
                      \/ W.window[i].at \in DOMAIN W.layout /\ W.layout[W.window[i].at].bar = "none"

\* Layouts are deeper than their parents, and none is deeper than M.
Depth(W, depth, M) ==
    /\ depth \in [DOMAIN W.layout -> 0..M]
    /\ \A l \in DOMAIN W.layout \ {Root} : depth[W.layout[l].parent] < depth[l]

IsWall(W) ==
    /\ W \in Walls
    /\ IsFiniteSet(DOMAIN W.layout)
    /\ Linked(W)
    /\ \E M, depth : M \in Nat /\ Depth(W, depth, M)

Parents(W) == [l \in DOMAIN W.layout |-> W.layout[l].parent]

\* What a wall is made of.
LEMMA WallTypes ==
    ASSUME NEW W \in Walls
    PROVE  /\ W.layout \in [DOMAIN W.layout -> Nodes]
           /\ DOMAIN W.layout \subseteq Nat \ {0}
           /\ W.window \in [Window -> Views]
           /\ W = [layout |-> W.layout, window |-> W.window]
  BY DEF Walls

\* The depth of the layouts is a rank along their parents.
LEMMA ParentsDescend ==
    ASSUME NEW W, NEW M \in Nat, NEW depth, Linked(W), Depth(W, depth, M), NEW base, Root \in base
    PROVE  Descends(DOMAIN W.layout, depth, base, Parents(W))
  BY DEF Linked, Depth, Descends, Parents

\* What holds of the root and is handed down holds of all layouts.
LEMMA FromRoot ==
    ASSUME NEW W, IsWall(W), NEW P,
           \A l \in DOMAIN W.layout : (l # Root => W.layout[l].parent \in P) => l \in P
    PROVE  DOMAIN W.layout \subseteq P
<1>1. PICK M, depth : M \in Nat /\ Depth(W, depth, M)
  BY DEF IsWall
<1>2. Descends(DOMAIN W.layout, depth, {Root}, Parents(W))
  BY <1>1, ParentsDescend DEF IsWall
<1>3. \A l \in DOMAIN W.layout : (l \notin {Root} => Parents(W)[l] \in P) => l \in P
  BY DEF Parents
<1> QED
  BY <1>2, <1>3, RankInduction

\* The recursion along the parents defines an origin for each layout: the root's is (0,0),
\* and that of any other layout is that of its parent, moved by its own position.
LEMMA OriginsTypes ==
    ASSUME NEW W, IsWall(W)
    PROVE  /\ Origins(W) \in [DOMAIN W.layout -> Points]
           /\ Origins(W)[Root] = Point(0, 0)
           /\ \A l \in DOMAIN W.layout \ {Root} :
                 Origins(W)[l] = Point(Origins(W)[W.layout[l].parent].x + W.layout[l].x,
                                       Origins(W)[W.layout[l].parent].y + W.layout[l].y)
<1> DEFINE D == DOMAIN W.layout
           Body(g) == [l \in D |-> IF l = Root THEN Point(0, 0)
                                   ELSE Point(g[W.layout[l].parent].x + W.layout[l].x,
                                              g[W.layout[l].parent].y + W.layout[l].y)]
           start == [l \in D |-> Point(0, 0)]
           step == [l \in D |-> [o \in Points |-> Point(o.x + W.layout[l].x, o.y + W.layout[l].y)]]
           c == Origins(W)
<1>1. W.layout \in [D -> Nodes] /\ Root \in D /\ \A l \in D \ {Root} : W.layout[l].parent \in D
  BY WallTypes DEF IsWall, Linked
<1>2. \A l \in D : W.layout[l].x \in Int /\ W.layout[l].y \in Int
  BY <1>1 DEF Nodes
<1>3. PICK M, depth : M \in Nat /\ Depth(W, depth, M)
  BY DEF IsWall
<1>4. Descends(D, depth, {Root}, Parents(W))
  BY <1>3, ParentsDescend DEF IsWall
<1>5. Valued(D, {Root}, Points, start, step)
  BY <1>2 DEF Valued, Points, Point
<1>6. \E g : g = Body(g)
  <2>1. PICK g \in [D -> Points] : \A k \in D : g[k] = Value({Root}, Parents(W), start, step, g, k)
    <3> HIDE DEF D, start, step
    <3> QED
      BY <1>4, <1>5, Recursion
  <2>2. \A k \in D : g[k] = IF k = Root THEN Point(0, 0)
                            ELSE Point(g[W.layout[k].parent].x + W.layout[k].x,
                                       g[W.layout[k].parent].y + W.layout[k].y)
    <3>1. \A k \in D \ {Root} : W.layout[k].parent \in D /\ g[W.layout[k].parent] \in Points
      BY <1>1, <2>1
    <3>2. \A k \in D : k # Root => g[k] = step[k][g[W.layout[k].parent]]
      BY <2>1, <1>1 DEF Value, Parents
    <3>3. \A k \in D, o \in Points : step[k][o] = Point(o.x + W.layout[k].x, o.y + W.layout[k].y)
      OBVIOUS
    <3>4. g[Root] = Point(0, 0)
      BY <2>1, <1>1 DEF Value
    <3> HIDE DEF step
    <3> QED
      BY <3>1, <3>2, <3>3, <3>4
  <2> QED
    BY <2>1, <2>2
<1>7. c = Body(c)
  <2>1. c = CHOOSE g : g = Body(g)
    BY DEF Origins
  <2> HIDE DEF c, Body
  <2> QED
    BY <1>6, <2>1
<1>8. c[Root] = Point(0, 0) /\ \A l \in D \ {Root} : c[l] = Point(c[W.layout[l].parent].x + W.layout[l].x,
                                              c[W.layout[l].parent].y + W.layout[l].y)
  <2> HIDE DEF c
  <2> QED
    BY <1>1, <1>7
<1>9. D \subseteq {l \in D : c[l] \in Points}
  <2> DEFINE P == {l \in D : c[l] \in Points}
  <2>1. \A p, q \in Int : Point(p, q) \in Points /\ Point(0, 0) \in Points
    BY DEF Point, Points
  <2>2. \A o \in Points : o.x \in Int /\ o.y \in Int
    BY DEF Points
  <2> HIDE DEF c
  <2>3. ASSUME NEW l \in D, l # Root => W.layout[l].parent \in P
        PROVE  l \in P
    <3>1. l # Root => c[W.layout[l].parent] \in Points
      BY <2>3
    <3> HIDE DEF Point
    <3> QED
      BY <1>1, <1>2, <1>8, <2>1, <2>2, <3>1
  <2>4. D \subseteq P
    <3> HIDE DEF P
    <3> QED
      BY <2>3, FromRoot
  <2> QED
    BY <2>4
<1>10. c \in [D -> Points]
  <2> HIDE DEF c
  <2> QED
    BY <1>7, <1>9
<1> QED
  BY <1>8, <1>10

Frames == [x : Int, y : Int, w : Int, h : Int]

\* The layout has the size a again.
Same(n, a) == a.w = n.w /\ a.h = n.h

\* The areas the sizes are computed with.
LEMMA AreaTypes ==
    /\ \A f \in Frames : Clipped(f) \in Rectangles
    /\ \A n \in Nodes : AreaOf(n) \in Rectangles
    /\ \A n \in Nodes, a \in Rectangles : FirstArea(n, a) \in Frames /\ SecondArea(n, a) \in Frames
    /\ Rectangles \subseteq Frames
<1>1. \A f \in Frames : Clipped(f) \in Rectangles
  <2> SUFFICES ASSUME NEW f \in Frames PROVE Clipped(f) \in Rectangles
    OBVIOUS
  <2>1. f.x \in Int /\ f.y \in Int /\ f.w \in Int /\ f.h \in Int
    BY DEF Frames
  <2>2. Bounded(f.w) \in Nat /\ Bounded(f.h) \in Nat
    BY <2>1 DEF Bounded
  <2>3. ASSUME NEW v \in Nat, NEW u \in Nat
        PROVE  [f EXCEPT !.w = v, !.h = u] \in [x : Int, y : Int, w : Nat, h : Nat]
    BY <2>1 DEF Frames
  <2> QED
    BY <2>2, <2>3 DEF Clipped, Rectangles
<1>2. \A n \in Nodes : AreaOf(n) \in Rectangles
  BY DEF Nodes, AreaOf, Rect, Rectangles
<1>3. \A n \in Nodes, a \in Rectangles : FirstArea(n, a) \in Frames /\ SecondArea(n, a) \in Frames
  <2> SUFFICES ASSUME NEW n \in Nodes, NEW a \in Rectangles
               PROVE  FirstArea(n, a) \in Frames /\ SecondArea(n, a) \in Frames
    OBVIOUS
  <2>1. n.line \in Int /\ a.w \in Int /\ a.h \in Int
    BY DEF Nodes, Rectangles
  <2> QED
    BY <2>1 DEF FirstArea, SecondArea, Rect, Frames
<1>4. Rectangles \subseteq Frames
  BY DEF Rectangles, Frames
<1> QED
  BY <1>1, <1>2, <1>3, <1>4

\* The area of a layout is what its fields say.
LEMMA AreaOfFields ==
    \A n : AreaOf(n).x = n.x /\ AreaOf(n).y = n.y /\ AreaOf(n).w = n.w /\ AreaOf(n).h = n.h
  BY DEF AreaOf, Rect

\* Clipping moves nothing and makes a size a size.
LEMMA ClippedKeeps ==
    ASSUME NEW q \in Rectangles
    PROVE  Clipped(q) = q
<1>1. q.w \in Nat /\ q.h \in Nat /\ Bounded(q.w) = q.w /\ Bounded(q.h) = q.h
  BY DEF Rectangles, Bounded
<1>2. [q EXCEPT !.w = q.w, !.h = q.h] = q
  BY DEF Rectangles
<1> QED
  BY <1>1, <1>2 DEF Clipped

\* resizeEvent() gives every layout an area: the one it is set to, what its parent hands to it,
\* or the one it has.
LEMMA ResizeTypes ==
    ASSUME NEW W, IsWall(W), NEW given, \A k \in DOMAIN given : given[k] \in Frames
    PROVE  /\ ResizeEvent(W, given) \in [DOMAIN W.layout -> Rectangles]
           /\ \A k \in DOMAIN W.layout :
                 LET n == W.layout[k]
                     p == W.layout[n.parent]
                     a == ResizeEvent(W, given)[n.parent]
                 IN  /\ k \in DOMAIN given => ResizeEvent(W, given)[k] = Clipped(given[k])
                     /\ k \notin DOMAIN given /\ (k = Root \/ Same(p, a)) => ResizeEvent(W, given)[k] = AreaOf(n)
                     /\ k \notin DOMAIN given /\ k # Root /\ ~Same(p, a) =>
                           ResizeEvent(W, given)[k] = Clipped(IF k = p.first THEN FirstArea(p, a) ELSE SecondArea(p, a))
<1> DEFINE D == DOMAIN W.layout
           base == DOMAIN given \cup {Root}
           p(k) == W.layout[W.layout[k].parent]
           Share(k, a) == IF Same(p(k), a) THEN AreaOf(W.layout[k])
                          ELSE Clipped(IF k = p(k).first THEN FirstArea(p(k), a) ELSE SecondArea(p(k), a))
           Own(k) == IF k \in DOMAIN given THEN Clipped(given[k]) ELSE AreaOf(W.layout[k])
           Body(g) == [k \in D |->
                LET n == W.layout[k]
                    q == W.layout[n.parent]
                    a == g[n.parent]
                IN  IF k \in DOMAIN given THEN Clipped(given[k])
                    ELSE IF k = Root \/ k \notin {q.first, q.second} \/ (a.w = q.w /\ a.h = q.h) THEN AreaOf(n)
                    ELSE Clipped(IF k = q.first THEN FirstArea(q, a) ELSE SecondArea(q, a))]
           start == [k \in D |-> Own(k)]
           step == [k \in D |-> [a \in Rectangles |-> Share(k, a)]]
           c == ResizeEvent(W, given)
<1>1. /\ W.layout \in [D -> Nodes] /\ Root \in D
      /\ \A l \in D \ {Root} : W.layout[l].parent \in D /\ l \in {p(l).first, p(l).second}
  BY WallTypes DEF IsWall, Linked
<1>2. \A g : \A k \in D : Body(g)[k] = IF k \in base THEN Own(k) ELSE Share(k, g[W.layout[k].parent])
  BY <1>1 DEF Same
<1>3. \A k \in D : k \in base => Own(k) \in Rectangles
  BY <1>1, AreaTypes
<1>4. \A k \in D, a \in Rectangles : k \notin base => Share(k, a) \in Rectangles
  <2> SUFFICES ASSUME NEW k \in D, NEW a \in Rectangles, k \notin base
               PROVE  Share(k, a) \in Rectangles
    OBVIOUS
  <2>1. W.layout[k] \in Nodes /\ p(k) \in Nodes
    BY <1>1
  <2> HIDE DEF p
  <2> QED
    BY <2>1, AreaTypes
<1>5. PICK M, depth : M \in Nat /\ Depth(W, depth, M)
  BY DEF IsWall
<1>6. Descends(D, depth, base, Parents(W))
  BY <1>5, ParentsDescend DEF IsWall
<1> HIDE DEF Own, Share
<1>7. Valued(D, base, Rectangles, start, step)
  BY <1>3, <1>4 DEF Valued
<1>8. PICK g : g = Body(g)
  <2>1. PICK g \in [D -> Rectangles] : \A k \in D : g[k] = Value(base, Parents(W), start, step, g, k)
    <3> HIDE DEF D, base, start, step
    <3> QED
      BY <1>6, <1>7, Recursion
  <2>2. \A k \in D : g[k] = IF k \in base THEN Own(k) ELSE Share(k, g[W.layout[k].parent])
    <3> SUFFICES ASSUME NEW k \in D
                 PROVE  g[k] = IF k \in base THEN Own(k) ELSE Share(k, g[W.layout[k].parent])
      OBVIOUS
    <3>1. k \notin base => W.layout[k].parent \in D /\ g[W.layout[k].parent] \in Rectangles
      BY <1>1, <2>1
    <3> HIDE DEF base
    <3>2. g[k] = IF k \in base THEN start[k] ELSE step[k][g[W.layout[k].parent]]
      BY <2>1 DEF Value, Parents
    <3> QED
      BY <3>1, <3>2
  <2> HIDE DEF base
  <2>3. \A k \in D : g[k] = Body(g)[k]
    <3> HIDE DEF Body
    <3> QED
      BY <1>2, <2>2
  <2>4. Body(g) = [k \in D |-> Body(g)[k]]
    OBVIOUS
  <2> HIDE DEF Body
  <2>5. g = [k \in D |-> g[k]]
    BY <2>1
  <2> QED
    BY <2>3, <2>4, <2>5
<1>9. c = Body(c)
  <2>1. c = CHOOSE h : h = Body(h)
    BY DEF ResizeEvent
  <2> HIDE DEF c, Body
  <2> QED
    BY <1>8, <2>1
<1> HIDE DEF c
<1>10. \A k \in D : c[k] = IF k \in base THEN Own(k) ELSE Share(k, c[W.layout[k].parent])
  <2> HIDE DEF Body, base
  <2>1. \A k \in D : Body(c)[k] = IF k \in base THEN Own(k) ELSE Share(k, c[W.layout[k].parent])
    BY <1>2
  <2>2. \A k : c[k] = Body(c)[k]
    BY <1>9
  <2> QED
    BY <2>1, <2>2
<1>11. D \subseteq {k \in D : c[k] \in Rectangles}
  <2> DEFINE P == {k \in D : c[k] \in Rectangles}
  <2>1. ASSUME NEW k \in D, k # Root => W.layout[k].parent \in P
        PROVE  k \in P
    <3>1. k \notin base => c[W.layout[k].parent] \in Rectangles
      BY <2>1
    <3> HIDE DEF base
    <3> QED
      BY <1>3, <1>4, <1>10, <3>1
  <2>2. D \subseteq P
    <3> HIDE DEF P
    <3> QED
      BY <2>1, FromRoot
  <2> QED
    BY <2>2
<1>12. c \in [D -> Rectangles]
  BY <1>9, <1>11
<1>13. ASSUME NEW k \in D
       PROVE  /\ k \in DOMAIN given => c[k] = Clipped(given[k])
              /\ k \notin DOMAIN given /\ (k = Root \/ Same(p(k), c[W.layout[k].parent])) => c[k] = AreaOf(W.layout[k])
              /\ k \notin DOMAIN given /\ k # Root /\ ~Same(p(k), c[W.layout[k].parent]) =>
                    c[k] = Clipped(IF k = p(k).first THEN FirstArea(p(k), c[W.layout[k].parent])
                                                     ELSE SecondArea(p(k), c[W.layout[k].parent]))
  BY <1>10 DEF Own, Share
<1> QED
  BY <1>12, <1>13 DEF c

\* Two walls have the same layouts, linked in the same way.
SameLinks(W, V) ==
    /\ DOMAIN V.layout = DOMAIN W.layout
    /\ \A k \in DOMAIN W.layout :
          /\ V.layout[k].parent = W.layout[k].parent /\ V.layout[k].position = W.layout[k].position
          /\ V.layout[k].bar = W.layout[k].bar
          /\ V.layout[k].first = W.layout[k].first /\ V.layout[k].second = W.layout[k].second

\* A wall with the same links is as well formed.
LEMMA LinksSuffice ==
    ASSUME NEW W, IsWall(W), NEW V, V \in Walls, SameLinks(W, V)
    PROVE  IsWall(V)
<1>1. Linked(W) /\ IsFiniteSet(DOMAIN W.layout)
  BY DEF IsWall
<1>2. Linked(V)
  BY <1>1 DEF SameLinks, Linked
<1>3. PICK M, depth : M \in Nat /\ Depth(W, depth, M)
  BY DEF IsWall
<1>4. Depth(V, depth, M)
  BY <1>1, <1>3 DEF Depth, SameLinks, Linked
<1> QED
  BY <1>1, <1>2, <1>3, <1>4 DEF IsWall, SameLinks

Resized(W, given) == [k \in DOMAIN W.layout |-> \/ ResizeEvent(W, given)[k].w # W.layout[k].w
                                                \/ ResizeEvent(W, given)[k].h # W.layout[k].h]

\* Setting areas changes no link, and no window's layout.
LEMMA SetRectanglesTypes ==
    ASSUME NEW W, IsWall(W), NEW given, \A k \in DOMAIN given : given[k] \in Frames
    PROVE  LET V == SetRectangles(W, given)
               a == ResizeEvent(W, given)
           IN  /\ IsWall(V) /\ SameLinks(W, V)
               /\ \A k \in DOMAIN W.layout :
                     /\ V.layout[k].x = a[k].x /\ V.layout[k].y = a[k].y
                     /\ V.layout[k].w = a[k].w /\ V.layout[k].h = a[k].h
                     /\ V.layout[k].line = AdjustBar(W.layout[k], a, Resized(W, given))
               /\ \A i \in Window : /\ V.window[i].at = W.window[i].at
                                    /\ \/ V.window[i] = W.window[i]
                                       \/ W.window[i].at \in DOMAIN W.layout /\ Resized(W, given)[W.window[i].at]
<1> DEFINE V == SetRectangles(W, given)
           D == DOMAIN W.layout
           a == ResizeEvent(W, given)
           r == Resized(W, given)
           line(k) == AdjustBar(W.layout[k], a, r)
           sized == [k \in D |-> [W.layout[k] EXCEPT !.x = a[k].x, !.y = a[k].y, !.w = a[k].w, !.h = a[k].h,
                                                     !.line = line(k)]]
           Follows(i) == LET l == W.window[i].at
                         IN  l \in D /\ W.layout[l].bar = "none" /\ r[l]
           moved == [i \in Window |-> IF Follows(i) THEN AdjustChildPos(W, sized, i) ELSE W.window[i]]
<1>1. V = [layout |-> sized, window |-> moved]
  BY DEF SetRectangles, Resized
<1>2. W.layout \in [D -> Nodes] /\ D \subseteq Nat \ {0} /\ W.window \in [Window -> Views] /\ Linked(W)
  BY WallTypes DEF IsWall
<1>3. a \in [D -> Rectangles]
  BY ResizeTypes
<1>4. \A k \in D : a[k].x \in Int /\ a[k].y \in Int /\ a[k].w \in Nat /\ a[k].h \in Nat
  BY <1>3 DEF Rectangles
<1> HIDE DEF V, a, r
<1>5. ASSUME NEW k \in D PROVE line(k) \in Nat
  <2>1. W.layout[k] \in Nodes /\ (W.layout[k].bar # "none" => W.layout[k].first \in D)
    BY <1>2 DEF Linked
  <2> QED
    BY <2>1, <1>4 DEF AdjustBar, Nodes
<1> HIDE DEF line
<1>6. ASSUME NEW k \in D
      PROVE  /\ sized[k] \in Nodes
             /\ sized[k].parent = W.layout[k].parent /\ sized[k].position = W.layout[k].position
             /\ sized[k].bar = W.layout[k].bar
             /\ sized[k].first = W.layout[k].first /\ sized[k].second = W.layout[k].second
             /\ sized[k].x = a[k].x /\ sized[k].y = a[k].y /\ sized[k].w = a[k].w /\ sized[k].h = a[k].h
             /\ sized[k].line = line(k)
  <2>1. W.layout[k] \in Nodes /\ a[k].x \in Int /\ a[k].y \in Int /\ a[k].w \in Nat /\ a[k].h \in Nat /\ line(k) \in Nat
    BY <1>2, <1>4, <1>5
  <2> QED
    BY <2>1 DEF Nodes
<1>7. sized \in [D -> Nodes]
  BY <1>6
<1> HIDE DEF sized
<1>8. ASSUME NEW i \in Window, Follows(i)
      PROVE  AdjustChildPos(W, sized, i) \in Views /\ AdjustChildPos(W, sized, i).at = W.window[i].at
  <2> DEFINE v == W.window[i]
             n == sized[v.at]
  <2>1. v \in Views /\ n.w - Side \in Int /\ n.h - Side \in Int
    <3>1. n \in Nodes /\ Side \in Int
      BY <1>7, <1>8, WallAssumption
    <3> QED
      BY <1>2, <3>1 DEF Nodes
  <2>2. AdjustChildPos(W, sized, i) \in {v, [v EXCEPT !.x = n.w - Side], [v EXCEPT !.x = 0],
                                            [v EXCEPT !.y = n.h - Side], [v EXCEPT !.y = 0]}
    BY DEF AdjustChildPos
  <2> HIDE DEF n
  <2>3. \A u \in {v, [v EXCEPT !.x = n.w - Side], [v EXCEPT !.x = 0], [v EXCEPT !.y = n.h - Side], [v EXCEPT !.y = 0]} :
           u \in Views /\ u.at = v.at
    <3> HIDE DEF v
    <3> QED
      BY <2>1 DEF Views
  <2> QED
    BY <2>2, <2>3
<1>9. /\ moved \in [Window -> Views]
      /\ \A i \in Window : moved[i].at = W.window[i].at /\ (moved[i] = W.window[i] \/ Follows(i))
  BY <1>2, <1>8
<1> HIDE DEF moved
<1>10. V \in Walls
  BY <1>1, <1>2, <1>7, <1>9 DEF Walls
<1>11. V.layout = sized /\ V.window = moved /\ DOMAIN sized = D
  BY <1>1, <1>7
<1>12. SameLinks(W, V)
  BY <1>6, <1>11 DEF SameLinks
<1>13. IsWall(V)
  BY <1>10, <1>12, LinksSuffice
<1> QED
  BY <1>6, <1>9, <1>11, <1>12, <1>13 DEF V, a, r, line

\* The bar of layout l is where its children meet.
BarMeets(n, f) == n.line = IF n.bar = "horizontal" THEN f.h ELSE f.w

MeetAt(W, l) ==
    LET n == W.layout[l]
    IN  Meet(n.bar, W.layout[n.first], W.layout[n.second]) /\ BarMeets(n, W.layout[n.first])

AllMeet(W) == \A l \in DOMAIN W.layout : W.layout[l].bar # "none" => MeetAt(W, l)

\* When the two children of a layout get areas that meet, all layouts meet their siblings.
LEMMA SetRectanglesMeet ==
    ASSUME NEW W, IsWall(W), NEW given, \A k \in DOMAIN given : given[k] \in Frames,
           NEW l \in DOMAIN W.layout, W.layout[l].bar # "none",
           DOMAIN given = {W.layout[l].first, W.layout[l].second},
           \A k \in DOMAIN W.layout \ {l} : W.layout[k].bar # "none" => MeetAt(W, k),
           Meet(W.layout[l].bar, Clipped(given[W.layout[l].first]), Clipped(given[W.layout[l].second])),
           Same(W.layout[W.layout[l].first], Clipped(given[W.layout[l].first]))
               => BarMeets(W.layout[l], Clipped(given[W.layout[l].first]))
    PROVE  AllMeet(SetRectangles(W, given))
<1> DEFINE V == SetRectangles(W, given)
           D == DOMAIN W.layout
           a == ResizeEvent(W, given)
<1>1. /\ SameLinks(W, V)
      /\ \A k \in D : /\ V.layout[k].x = a[k].x /\ V.layout[k].y = a[k].y
                      /\ V.layout[k].w = a[k].w /\ V.layout[k].h = a[k].h
                      /\ V.layout[k].line = AdjustBar(W.layout[k], a, Resized(W, given))
  BY SetRectanglesTypes
<1>2. /\ a \in [D -> Rectangles] /\ W.layout \in [D -> Nodes] /\ Linked(W) /\ D \subseteq Nat \ {0}
  BY ResizeTypes, WallTypes DEF IsWall
<1>3. \A k \in D :
         LET p == W.layout[W.layout[k].parent]
             b == a[W.layout[k].parent]
         IN  /\ k \in DOMAIN given => a[k] = Clipped(given[k])
             /\ k \notin DOMAIN given /\ (k = Root \/ Same(p, b)) => a[k] = AreaOf(W.layout[k])
             /\ k \notin DOMAIN given /\ k # Root /\ ~Same(p, b) =>
                   a[k] = Clipped(IF k = p.first THEN FirstArea(p, b) ELSE SecondArea(p, b))
  BY ResizeTypes
<1> HIDE DEF V, a
<1> SUFFICES ASSUME NEW k \in D, V.layout[k].bar # "none" PROVE MeetAt(V, k)
  BY <1>1 DEF AllMeet, SameLinks, V
<1> DEFINE n == W.layout[k]
           f == n.first
           g == n.second
           r == Resized(W, given)
<1>4. /\ V.layout[k].bar = n.bar /\ V.layout[k].first = f /\ V.layout[k].second = g /\ n.bar # "none"
      /\ V.layout[k].line = AdjustBar(n, a, r)
  BY <1>1 DEF SameLinks
<1>5. /\ f \in D /\ g \in D /\ f # g /\ W.layout[f].parent = k /\ W.layout[g].parent = k /\ f # Root /\ g # Root
      /\ n \in Nodes
  BY <1>2, <1>4 DEF Linked, Nodes, Root, Nowhere
<1>6. Meet(n.bar, V.layout[f], V.layout[g]) <=> Meet(n.bar, a[f], a[g])
  <2> HIDE DEF n, f, g
  <2> QED
    BY <1>1, <1>5 DEF Meet
<1>7. r[f] <=> ~Same(W.layout[f], a[f])
  <2> HIDE DEF n, f, g
  <2> QED
    BY <1>5 DEF Resized, Same, a
<1>8. AdjustBar(n, a, r) = IF Same(W.layout[f], a[f]) THEN n.line ELSE IF n.bar = "horizontal" THEN a[f].h ELSE a[f].w
  BY <1>4, <1>7 DEF AdjustBar
<1>9. BarMeets(V.layout[k], V.layout[f])
        <=> AdjustBar(n, a, r) = IF n.bar = "horizontal" THEN a[f].h ELSE a[f].w
  BY <1>1, <1>4, <1>5 DEF BarMeets
<1>10. SUFFICES /\ Meet(n.bar, a[f], a[g])
                /\ Same(W.layout[f], a[f]) => BarMeets(n, a[f])
  <2> HIDE DEF n, f, g, r
  <2> QED
    BY <1>4, <1>6, <1>8, <1>9 DEF MeetAt, BarMeets
<1>11. CASE k = l
  BY <1>3, <1>5, <1>11
<1>12. CASE k # l
  <2>1. f \notin DOMAIN given /\ g \notin DOMAIN given
    BY <1>2, <1>5, <1>12 DEF Linked
  <2>2. MeetAt(W, k)
    BY <1>4, <1>12
  <2>3. CASE Same(n, a[k])
    <3>1. a[f] = AreaOf(W.layout[f]) /\ a[g] = AreaOf(W.layout[g])
      BY <1>3, <1>5, <2>1, <2>3
    <3>2. \A m : AreaOf(m).x = m.x /\ AreaOf(m).y = m.y /\ AreaOf(m).w = m.w /\ AreaOf(m).h = m.h
      BY DEF AreaOf, Rect
    <3>3. Meet(n.bar, W.layout[f], W.layout[g]) /\ BarMeets(n, W.layout[f])
      BY <2>2 DEF MeetAt
    <3> HIDE DEF n, f, g
    <3> QED
      BY <3>1, <3>2, <3>3 DEF Meet, BarMeets
  <2>4. CASE ~Same(n, a[k])
    <3>1. a[f] = Clipped(FirstArea(n, a[k])) /\ a[g] = Clipped(SecondArea(n, a[k]))
      BY <1>3, <1>5, <2>1, <2>4
    <3>2. n.line \in Nat /\ a[k].w \in Nat /\ a[k].h \in Nat
      BY <1>2, <1>5 DEF Nodes, Rectangles
    <3>3. Bounded(n.line) = n.line /\ Bounded(a[k].w) = a[k].w /\ Bounded(a[k].h) = a[k].h
      BY <3>2 DEF Bounded
    <3>4. \A x, y, w, h : /\ Clipped(Rect(x, y, w, h)).x = x /\ Clipped(Rect(x, y, w, h)).y = y
                          /\ Clipped(Rect(x, y, w, h)).w = Bounded(w) /\ Clipped(Rect(x, y, w, h)).h = Bounded(h)
      BY DEF Clipped, Rect
    <3>5. /\ a[f].x = 0 /\ a[f].y = 0
          /\ n.bar = "horizontal" => a[f].h = n.line /\ a[g].x = 0 /\ a[g].y = n.line
          /\ n.bar # "horizontal" => a[f].w = n.line /\ a[g].y = 0 /\ a[g].x = n.line
      <4> HIDE DEF n, f, g
      <4> QED
        BY <3>1, <3>3, <3>4 DEF FirstArea, SecondArea
    <3> QED
      BY <3>5 DEF Meet, BarMeets
  <2> QED
    BY <2>3, <2>4
<1> QED
  BY <1>11, <1>12

\* There is an unused number among the first n + 1.
LEMMA UnusedIsNew ==
    ASSUME NEW used, IsFiniteSet(used)
    PROVE  Cardinality(used) \in Nat /\ Unused(used) \in 1..Cardinality(used) + 1 /\ Unused(used) \notin used
<1>1. Cardinality(used) \in Nat
  BY FS_CardinalityType
<1>2. \E n \in 1..Cardinality(used) + 1 : n \notin used
  <2> SUFFICES ASSUME 1..Cardinality(used) + 1 \subseteq used PROVE FALSE
    OBVIOUS
  <2>1. Cardinality(1..Cardinality(used) + 1) = Cardinality(used) + 1
    BY <1>1, FS_Interval
  <2>2. Cardinality(1..Cardinality(used) + 1) <= Cardinality(used)
    BY FS_Subset
  <2> QED
    BY <1>1, <2>1, <2>2
<1> QED
  BY <1>1, <1>2 DEF Unused

\* Two new layouts below a leaf.
With(W, l, bar, f, s) ==
    [W EXCEPT !.layout = [k \in DOMAIN W.layout \cup {f, s} |->
        CASE k = f -> NewLayout(l, "first")
          [] k = s -> NewLayout(l, "second")
          [] k = l -> [W.layout[l] EXCEPT !.bar = bar, !.line = 0, !.first = f, !.second = s]
          [] OTHER -> W.layout[k]]]

\* A leaf with a bar and two new leaves below it: a wall whose layouts are a tree.
LEMMA WithTypes ==
    ASSUME NEW W, IsWall(W), NEW l \in DOMAIN W.layout, W.layout[l].bar = "none",
           NEW bar \in {"horizontal", "vertical"},
           NEW f \in Nat \ {0}, NEW s \in Nat \ {0}, f # s, f \notin DOMAIN W.layout, s \notin DOMAIN W.layout
    PROVE  LET U == With(W, l, bar, f, s)
           IN  /\ IsWall(U)
               /\ DOMAIN U.layout = DOMAIN W.layout \cup {f, s}
               /\ \A k \in DOMAIN W.layout \ {l} : U.layout[k] = W.layout[k]
               /\ U.layout[l].bar = bar /\ U.layout[l].first = f /\ U.layout[l].second = s /\ U.layout[l].line = 0
               /\ \A k \in DOMAIN W.layout : /\ U.layout[k].parent = W.layout[k].parent
                                             /\ U.layout[k].x = W.layout[k].x /\ U.layout[k].y = W.layout[k].y
                                             /\ U.layout[k].w = W.layout[k].w /\ U.layout[k].h = W.layout[k].h
               /\ \A k \in {f, s} : U.layout[k].bar = "none" /\ U.layout[k].w = 0 /\ U.layout[k].h = 0
               /\ U.window = W.window
<1> DEFINE U == With(W, l, bar, f, s)
           D == DOMAIN W.layout
<1>1. /\ W.layout \in [D -> Nodes] /\ D \subseteq Nat \ {0} /\ W.window \in [Window -> Views]
      /\ W = [layout |-> W.layout, window |-> W.window] /\ Linked(W) /\ IsFiniteSet(D)
  BY WallTypes DEF IsWall
<1>2. /\ DOMAIN U.layout = D \cup {f, s}
      /\ \A k \in D \ {l} : U.layout[k] = W.layout[k]
      /\ U.layout[l] = [W.layout[l] EXCEPT !.bar = bar, !.line = 0, !.first = f, !.second = s]
      /\ U.layout[f] = NewLayout(l, "first") /\ U.layout[s] = NewLayout(l, "second")
      /\ U.window = W.window
      /\ U = [layout |-> U.layout, window |-> U.window]
      /\ U.layout = [k \in DOMAIN U.layout |-> U.layout[k]]
  BY <1>1 DEF With
<1> HIDE DEF U
<1>3. U.layout[l] \in Nodes /\ U.layout[f] \in Nodes /\ U.layout[s] \in Nodes
  <2>1. l \in Nat /\ W.layout[l] \in Nodes
    BY <1>1
  <2>2. U.layout[l] \in Nodes
    <3>1. [W.layout[l] EXCEPT !.bar = bar, !.line = 0, !.first = f, !.second = s] \in Nodes
      BY <2>1 DEF Nodes
    <3> QED
      BY <1>2, <3>1
  <2>3. NewLayout(l, "first") \in Nodes /\ NewLayout(l, "second") \in Nodes
    BY <2>1 DEF NewLayout, Nodes, Nowhere
  <2> QED
    BY <1>2, <2>2, <2>3
<1>4. U.layout \in [D \cup {f, s} -> Nodes]
  <2>1. \A k \in D \cup {f, s} : U.layout[k] \in Nodes
    BY <1>1, <1>2, <1>3
  <2> QED
    BY <1>2, <2>1
<1>5. U \in Walls
  BY <1>1, <1>2, <1>4 DEF Walls
<1>6. IsFiniteSet(D \cup {f, s})
  <2>1. IsFiniteSet((D \cup {f}) \cup {s})
    BY <1>1, FS_AddElement
  <2>2. D \cup {f, s} = (D \cup {f}) \cup {s}
    OBVIOUS
  <2> QED
    BY <2>1, <2>2
<1>7. /\ U.layout[l].bar = bar /\ U.layout[l].first = f /\ U.layout[l].second = s
      /\ U.layout[l].parent = W.layout[l].parent /\ U.layout[l].position = W.layout[l].position
      /\ U.layout[f].bar = "none" /\ U.layout[f].parent = l /\ U.layout[f].position = "first"
      /\ U.layout[s].bar = "none" /\ U.layout[s].parent = l /\ U.layout[s].position = "second"
  BY <1>1, <1>2 DEF NewLayout, Nodes
<1>8. Linked(U)
  <2>1. Root \in DOMAIN U.layout /\ U.layout[Root].parent = Nowhere
    <3>1. Root \in D /\ W.layout[Root].parent = Nowhere
      BY <1>1 DEF Linked
    <3> QED
      BY <1>2, <1>7, <3>1
  <2>2. ASSUME NEW k \in DOMAIN U.layout \ {Root}
        PROVE  LET p == U.layout[k].parent
               IN  /\ p \in DOMAIN U.layout /\ U.layout[p].bar # "none"
                   /\ k = IF U.layout[k].position = "first" THEN U.layout[p].first ELSE U.layout[p].second
    <3>1. CASE k \in {f, s}
      <4>1. U.layout[k].parent = l /\ l \in DOMAIN U.layout /\ U.layout[l].bar # "none"
        BY <1>2, <1>7, <3>1
      <4>2. k = IF U.layout[k].position = "first" THEN f ELSE s
        BY <1>7, <3>1
      <4> QED
        BY <1>7, <4>1, <4>2
    <3>2. CASE k \in D
      <4>1. U.layout[k].parent = W.layout[k].parent /\ U.layout[k].position = W.layout[k].position
        BY <1>2, <1>7, <3>2
      <4>2. /\ W.layout[k].parent \in D \ {l} /\ W.layout[W.layout[k].parent].bar # "none"
            /\ k = IF W.layout[k].position = "first" THEN W.layout[W.layout[k].parent].first
                                                     ELSE W.layout[W.layout[k].parent].second
        <5>1. k \in D \ {Root}
          BY <3>2
        <5> QED
          BY <1>1, <5>1 DEF Linked
      <4>3. U.layout[W.layout[k].parent] = W.layout[W.layout[k].parent]
        BY <1>2, <4>2
      <4> QED
        BY <1>2, <4>1, <4>2, <4>3
    <3> QED
      BY <1>2, <3>1, <3>2
  <2>3. ASSUME NEW k \in DOMAIN U.layout, U.layout[k].bar # "none"
        PROVE  /\ {U.layout[k].first, U.layout[k].second} \subseteq DOMAIN U.layout
               /\ U.layout[k].first # U.layout[k].second
               /\ U.layout[U.layout[k].first].parent = k /\ U.layout[U.layout[k].second].parent = k
    <3>1. CASE k = l
      BY <1>2, <1>7, <3>1
    <3>2. CASE k \in D \ {l}
      <4>1. U.layout[k] = W.layout[k]
        BY <1>2, <3>2
      <4>2. \A j \in D : U.layout[j].parent = W.layout[j].parent
        BY <1>2, <1>7
      <4> QED
        BY <1>1, <1>2, <2>3, <3>2, <4>1, <4>2 DEF Linked
    <3> QED
      BY <1>2, <1>7, <2>3, <3>1, <3>2
  <2> QED
    BY <2>1, <2>2, <2>3 DEF Linked
<1>9. PICK M, depth : M \in Nat /\ Depth(W, depth, M)
  BY DEF IsWall
<1>10. Depth(U, [k \in D \cup {f, s} |-> IF k \in D THEN depth[k] ELSE depth[l] + 1], M + 1)
  <2> DEFINE deeper == [k \in D \cup {f, s} |-> IF k \in D THEN depth[k] ELSE depth[l] + 1]
  <2>1. depth \in [D -> 0..M] /\ \A k \in D \ {Root} : depth[W.layout[k].parent] < depth[k]
    BY <1>9 DEF Depth
  <2>2. deeper \in [D \cup {f, s} -> 0..M + 1]
    BY <1>9, <2>1
  <2>3. ASSUME NEW k \in D \cup {f, s}, k # Root PROVE deeper[U.layout[k].parent] < deeper[k]
    <3>1. CASE k \in D
      <4>1. U.layout[k].parent = W.layout[k].parent
        BY <1>2, <1>7, <3>1
      <4>2. W.layout[k].parent \in D
        BY <1>1, <2>3, <3>1 DEF Linked
      <4> QED
        BY <2>1, <2>3, <3>1, <4>1, <4>2
    <3>2. CASE k \notin D
      BY <1>7, <1>9, <2>1, <3>2
    <3> QED
      BY <3>1, <3>2
  <2> QED
    BY <1>2, <2>2, <2>3 DEF Depth
<1>11. IsWall(U)
  <2>1. M + 1 \in Nat
    BY <1>9
  <2> QED
    BY <1>2, <1>5, <1>6, <1>8, <1>10, <2>1 DEF IsWall
<1>12. /\ U.layout[l].line = 0
       /\ U.layout[l].x = W.layout[l].x /\ U.layout[l].y = W.layout[l].y
       /\ U.layout[l].w = W.layout[l].w /\ U.layout[l].h = W.layout[l].h
       /\ \A k \in {f, s} : U.layout[k].bar = "none" /\ U.layout[k].w = 0 /\ U.layout[k].h = 0
  BY <1>1, <1>2 DEF NewLayout, Nodes
<1> QED
  BY <1>2, <1>7, <1>11, <1>12 DEF U

\* Layouts that are linked as before and placed in their parents as before are where
\* they were on the screen.
LEMMA OriginsKept ==
    ASSUME NEW W, IsWall(W), NEW V, IsWall(V),
           NEW K, K \subseteq DOMAIN W.layout, K \subseteq DOMAIN V.layout,
           \A k \in K \ {Root} : /\ V.layout[k].parent = W.layout[k].parent /\ W.layout[k].parent \in K
                                 /\ V.layout[k].x = W.layout[k].x /\ V.layout[k].y = W.layout[k].y
    PROVE  \A k \in K : Origins(V)[k] = Origins(W)[k]
<1> DEFINE P == {k \in DOMAIN W.layout : k \in K => Origins(V)[k] = Origins(W)[k]}
<1>1. ASSUME NEW k \in DOMAIN W.layout, k # Root => W.layout[k].parent \in P
      PROVE  k \in P
  <2>1. CASE k = Root
    BY <2>1, OriginsTypes
  <2>2. CASE k \in K \ {Root}
    <3>1. Origins(V)[W.layout[k].parent] = Origins(W)[W.layout[k].parent]
      BY <1>1, <2>2
    <3>2. Origins(W)[k] = Point(Origins(W)[W.layout[k].parent].x + W.layout[k].x,
                                Origins(W)[W.layout[k].parent].y + W.layout[k].y)
      BY <2>2, OriginsTypes
    <3>3. Origins(V)[k] = Point(Origins(V)[V.layout[k].parent].x + V.layout[k].x,
                                Origins(V)[V.layout[k].parent].y + V.layout[k].y)
      BY <2>2, OriginsTypes
    <3> QED
      BY <2>2, <3>1, <3>2, <3>3
  <2>3. CASE k \notin K
    BY <2>3
  <2> QED
    BY <2>1, <2>2, <2>3
<1>2. DOMAIN W.layout \subseteq P
  <2> HIDE DEF P
  <2> QED
    BY <1>1, FromRoot
<1> QED
  BY <1>2

\* Where a window is put on the screen, there it is.
LEMMA InTypes ==
    ASSUME NEW W, IsWall(W), NEW l \in DOMAIN W.layout \cup {MinimizeBar}
    PROVE  /\ Origin(W, l) \in Points
           /\ \A p \in Points : /\ In(W, l, p) \in Views
                                /\ In(W, l, p).at = l
                                /\ Point(Origin(W, l).x + In(W, l, p).x, Origin(W, l).y + In(W, l, p).y) = p
           /\ \A v \in Views : Point(Origin(W, l).x + v.x, Origin(W, l).y + v.y) \in Points
<1>1. DOMAIN W.layout \subseteq Nat
  BY WallTypes DEF IsWall
<1>2. Origin(W, l) \in Points /\ l \in Int
  BY <1>1, OriginsTypes, WallAssumption DEF Origin, Point, Points, MinimizeBar
<1> QED
  BY <1>2 DEF In, Point, Points, Views

\* A window on the wall is at a place on the screen.
LEMMA ScenePosTypes ==
    ASSUME NEW W, IsWall(W), NEW i \in Window, W.window[i].at \in DOMAIN W.layout \cup {MinimizeBar}
    PROVE  ScenePos(W, i) \in Points
<1>1. W.window[i] \in Views
  BY WallTypes DEF IsWall
<1> QED
  BY <1>1, InTypes DEF ScenePos

\* What splitting does to the other layouts and to the windows.
LEMMA SplitTypes ==
    ASSUME NEW W, IsWall(W), InLeaves(W), NEW l \in DOMAIN W.layout, W.layout[l].bar = "none",
           NEW bar \in {"horizontal", "vertical"},
           NEW f \in Nat \ {0}, NEW s \in Nat \ {0}, f # s, f \notin DOMAIN W.layout, s \notin DOMAIN W.layout,
           NEW first \in Rectangles, NEW second \in Rectangles
    PROVE  LET V == Split(W, l, bar, f, s, first, second)
           IN  /\ IsWall(V)
               /\ DOMAIN V.layout = DOMAIN W.layout \cup {f, s}
               /\ V.layout[l].bar # "none" /\ V.layout[l].first = f /\ V.layout[l].second = s
               /\ V.layout[f].bar = "none" /\ V.layout[s].bar = "none"
               /\ \A k \in DOMAIN W.layout \ {l} : V.layout[k].bar = W.layout[k].bar
               /\ V.window = W.window
               /\ \A k \in DOMAIN W.layout : /\ Origins(V)[k] = Origins(W)[k]
                                             /\ V.layout[k].w = W.layout[k].w /\ V.layout[k].h = W.layout[k].h
               /\ V.layout[f].parent = l /\ AreaOf(V.layout[f]) = first
               /\ V.layout[s].parent = l /\ AreaOf(V.layout[s]) = second
               /\ AllMeet(W) /\ Meet(bar, first, second) => AllMeet(V)
<1> DEFINE D == DOMAIN W.layout
           U == With(W, l, bar, f, s)
           given == Areas(f, s, first, second)
           V == SetRectangles(U, given)
           a == ResizeEvent(U, given)
           r == Resized(U, given)
<1>1. Split(W, l, bar, f, s, first, second) = V
  BY DEF Split, With
<1>2. /\ IsWall(U)
      /\ DOMAIN U.layout = D \cup {f, s}
      /\ \A k \in D \ {l} : U.layout[k] = W.layout[k]
      /\ U.layout[l].bar = bar /\ U.layout[l].first = f /\ U.layout[l].second = s /\ U.layout[l].line = 0
      /\ \A k \in D : /\ U.layout[k].parent = W.layout[k].parent
                      /\ U.layout[k].x = W.layout[k].x /\ U.layout[k].y = W.layout[k].y
                      /\ U.layout[k].w = W.layout[k].w /\ U.layout[k].h = W.layout[k].h
      /\ \A k \in {f, s} : U.layout[k].bar = "none" /\ U.layout[k].w = 0 /\ U.layout[k].h = 0
      /\ U.window = W.window
  BY WithTypes
<1>3. DOMAIN given = {f, s} /\ given[f] = first /\ given[s] = second
  BY DEF Areas
<1>4. \A k \in DOMAIN given : given[k] \in Frames
  BY <1>3, AreaTypes
<1> HIDE DEF U, given
<1>5. W.layout \in [D -> Nodes] /\ Linked(W) /\ D \subseteq Nat \ {0} /\ W.window \in [Window -> Views]
  BY WallTypes DEF IsWall
<1>6. ASSUME NEW k \in D PROVE a[k] = AreaOf(U.layout[k])
  <2> DEFINE P == {j \in D \cup {f, s} : j \in D => a[j] = AreaOf(U.layout[j])}
  <2>1. ASSUME NEW j \in D \cup {f, s}, j # Root => U.layout[j].parent \in P
        PROVE  j \in P
    <3>1. CASE j = Root
      BY <1>2, <1>3, <1>4, <3>1, ResizeTypes
    <3>2. CASE j \in D \ {Root}
      <4>1. U.layout[j].parent \in D
        BY <1>2, <1>5, <3>2 DEF Linked
      <4>2. a[U.layout[j].parent] = AreaOf(U.layout[U.layout[j].parent])
        BY <2>1, <3>2, <4>1
      <4>3. Same(U.layout[U.layout[j].parent], a[U.layout[j].parent])
        BY <4>2 DEF Same, AreaOf, Rect
      <4> QED
        BY <1>2, <1>3, <1>4, <3>2, <4>3, ResizeTypes
    <3>3. CASE j \notin D
      BY <3>3
    <3> QED
      BY <3>1, <3>2, <3>3
  <2>2. DOMAIN U.layout \subseteq P
    <3> HIDE DEF P
    <3> QED
      BY <1>2, <2>1, FromRoot
  <2> QED
    BY <1>2, <2>2
<1>7. /\ IsWall(V) /\ SameLinks(U, V)
      /\ \A k \in DOMAIN U.layout : /\ V.layout[k].x = a[k].x /\ V.layout[k].y = a[k].y
                                    /\ V.layout[k].w = a[k].w /\ V.layout[k].h = a[k].h
      /\ \A i \in Window : \/ V.window[i] = U.window[i]
                           \/ U.window[i].at \in DOMAIN U.layout /\ r[U.window[i].at]
  BY <1>2, <1>4, SetRectanglesTypes
<1>8. a[f] = first /\ a[s] = second
  <2>1. Clipped(first) = first /\ Clipped(second) = second
    BY ClippedKeeps
  <2> QED
    BY <1>2, <1>3, <1>4, <2>1, ResizeTypes
<1>9. U.layout[f].parent = l /\ U.layout[s].parent = l
  BY <1>2 DEF IsWall, Linked
<1> HIDE DEF a, V
<1>10. \A k \in D : ~r[k]
  <2> SUFFICES ASSUME NEW k \in D PROVE ~r[k]
    OBVIOUS
  <2>1. a[k].w = U.layout[k].w /\ a[k].h = U.layout[k].h
    BY <1>6, AreaOfFields
  <2> QED
    BY <1>2, <2>1 DEF Resized, a
<1>11. V.window = W.window
  <2>1. \A i \in Window : W.window[i].at \in DOMAIN U.layout => W.window[i].at \in D
    <3> SUFFICES ASSUME NEW i \in Window, W.window[i].at \notin D PROVE W.window[i].at \notin D \cup {f, s}
      BY <1>2
    <3>1. W.window[i].at \in {Nowhere, MinimizeBar}
      BY DEF InLeaves
    <3> QED
      BY <3>1 DEF Nowhere, MinimizeBar
  <2>2. \A i \in Window : V.window[i] = W.window[i]
    BY <1>2, <1>7, <1>10, <2>1
  <2>3. V.window \in [Window -> Views]
    BY <1>7, WallTypes DEF IsWall
  <2> QED
    BY <1>5, <2>2, <2>3
<1>12. \A k \in D : /\ V.layout[k].x = W.layout[k].x /\ V.layout[k].y = W.layout[k].y
                     /\ V.layout[k].w = W.layout[k].w /\ V.layout[k].h = W.layout[k].h
  BY <1>2, <1>6, <1>7, AreaOfFields
<1>13. /\ DOMAIN V.layout = D \cup {f, s}
       /\ V.layout[l].bar # "none" /\ V.layout[l].first = f /\ V.layout[l].second = s
       /\ V.layout[f].bar = "none" /\ V.layout[s].bar = "none"
       /\ \A k \in D \ {l} : V.layout[k].bar = W.layout[k].bar
       /\ \A k \in D : V.layout[k].parent = W.layout[k].parent
  <2>1. U.layout[f].bar = "none" /\ U.layout[s].bar = "none"
    BY <1>2
  <2>2. \A k \in DOMAIN U.layout : /\ V.layout[k].parent = U.layout[k].parent /\ V.layout[k].bar = U.layout[k].bar
                                   /\ V.layout[k].first = U.layout[k].first /\ V.layout[k].second = U.layout[k].second
    BY <1>7 DEF SameLinks
  <2>3. DOMAIN V.layout = DOMAIN U.layout
    BY <1>7 DEF SameLinks
  <2>4. \A k \in DOMAIN U.layout \ {f, s} : k \in D
    BY <1>2
  <2> QED
    BY <1>2, <2>1, <2>2, <2>3, <2>4
<1>14. \A k \in D : Origins(V)[k] = Origins(W)[k]
  <2>1. \A k \in D \ {Root} : W.layout[k].parent \in D
    BY <1>5 DEF Linked
  <2> QED
    BY <1>7, <1>12, <1>13, <2>1, OriginsKept
<1>15. ASSUME AllMeet(W), Meet(bar, first, second) PROVE AllMeet(V)
  <2>1. \A q \in Rectangles : Clipped(q) = q
    BY ClippedKeeps
  <2>2. ASSUME NEW k \in DOMAIN U.layout \ {l}, U.layout[k].bar # "none"
        PROVE  MeetAt(U, k)
    <3>1. k \in D \ {l}
      BY <1>2, <2>2
    <3>2. U.layout[k] = W.layout[k] /\ W.layout[k].first \in D /\ W.layout[k].second \in D
      BY <1>2, <1>5, <2>2, <3>1 DEF Linked
    <3>3. MeetAt(W, k)
      BY <1>15, <2>2, <3>1, <3>2 DEF AllMeet
    <3> QED
      BY <1>2, <3>1, <3>2, <3>3 DEF MeetAt, Meet, BarMeets
  <2>3. Same(U.layout[f], first) => BarMeets(U.layout[l], first)
    <3>1. U.layout[f].w = 0 /\ U.layout[f].h = 0
      BY <1>2
    <3> QED
      BY <1>2, <3>1 DEF Same, BarMeets
  <2>4. l \in DOMAIN U.layout /\ U.layout[l].bar # "none" /\ DOMAIN given = {U.layout[l].first, U.layout[l].second}
    BY <1>2, <1>3
  <2>5. Clipped(given[U.layout[l].first]) = first /\ Clipped(given[U.layout[l].second]) = second
    BY <1>2, <1>3, <2>1
  <2>6. Meet(U.layout[l].bar, first, second)
    BY <1>2, <1>15
  <2>7. Same(U.layout[U.layout[l].first], first) => BarMeets(U.layout[l], first)
    BY <1>2, <2>3
  <2> QED
    BY <1>2, <1>4, <2>2, <2>4, <2>5, <2>6, <2>7, SetRectanglesMeet DEF V
<1>16. ASSUME NEW k \in {f, s}, NEW q \in Rectangles, a[k] = q PROVE V.layout[k].parent = l /\ AreaOf(V.layout[k]) = q
  <2>1. V.layout[k].parent = l
    BY <1>2, <1>7, <1>9 DEF SameLinks
  <2>2. V.layout[k].x = q.x /\ V.layout[k].y = q.y /\ V.layout[k].w = q.w /\ V.layout[k].h = q.h
    BY <1>2, <1>7, <1>16
  <2>3. q = Rect(q.x, q.y, q.w, q.h)
    BY DEF Rect, Rectangles
  <2> QED
    BY <2>1, <2>2, <2>3 DEF AreaOf
<1>17. /\ V.layout[f].parent = l /\ AreaOf(V.layout[f]) = first
       /\ V.layout[s].parent = l /\ AreaOf(V.layout[s]) = second
  BY <1>8, <1>16
<1> QED
  BY <1>1, <1>7, <1>11, <1>12, <1>13, <1>14, <1>15, <1>17

\* Origins are those of the layouts, whatever the windows do.
LEMMA OriginOfLayouts ==
    ASSUME NEW W, NEW V, V.layout = W.layout, NEW l
    PROVE  Origin(V, l) = Origin(W, l)
  BY DEF Origin, Origins

\* Other windows on the same layouts.
LEMMA OtherWindows ==
    ASSUME NEW W, IsWall(W), NEW V, V = [layout |-> W.layout, window |-> V.window], V.window \in [Window -> Views]
    PROVE  IsWall(V) /\ V.layout = W.layout
<1>1. V.layout = W.layout /\ V \in Walls
  <2>1. W.layout \in [DOMAIN W.layout -> Nodes] /\ DOMAIN W.layout \subseteq Nat \ {0}
    BY WallTypes DEF IsWall
  <2> QED
    BY <2>1 DEF Walls
<1>2. SameLinks(W, V)
  BY <1>1 DEF SameLinks
<1> QED
  BY <1>1, <1>2, LinksSuffice

\* Windows of the layout that is split are in one of its children, and no other is moved.
LEMMA HandDownTypes ==
    ASSUME NEW W, IsWall(W), NEW l \in DOMAIN W.layout, W.layout[l].bar # "none",
           NEW f \in DOMAIN W.layout, NEW s \in DOMAIN W.layout,
           W.layout[f].bar = "none", W.layout[s].bar = "none",
           \A i \in Window : \/ W.window[i].at \in {Nowhere, MinimizeBar, l}
                             \/ W.window[i].at \in DOMAIN W.layout /\ W.layout[W.window[i].at].bar = "none"
    PROVE  LET V == HandDown(W, l, f, s)
           IN  /\ IsWall(V) /\ InLeaves(V) /\ V.layout = W.layout
               /\ \A i \in Window : W.window[i].at # l => V.window[i] = W.window[i]
               /\ \A i \in Window : W.window[i].at = l =>
                     V.window[i].at \in DOMAIN W.layout /\ ScenePos(V, i) = ScenePos(W, i)
<1> DEFINE V == HandDown(W, l, f, s)
           Child(i) == IF Surrounds(W, f, Centre(ScenePos(W, i))) THEN f ELSE s
           given == [i \in Window |-> IF W.window[i].at # l THEN W.window[i] ELSE In(W, Child(i), ScenePos(W, i))]
<1>1. W.window \in [Window -> Views] /\ W = [layout |-> W.layout, window |-> W.window]
  BY WallTypes DEF IsWall
<1>2. V.window = given /\ V = [layout |-> W.layout, window |-> given]
  BY <1>1 DEF HandDown
<1> HIDE DEF V
<1>3. ASSUME NEW i \in Window, W.window[i].at = l
      PROVE  /\ In(W, Child(i), ScenePos(W, i)) \in Views
             /\ In(W, Child(i), ScenePos(W, i)).at = Child(i)
             /\ Point(Origin(W, Child(i)).x + In(W, Child(i), ScenePos(W, i)).x,
                      Origin(W, Child(i)).y + In(W, Child(i), ScenePos(W, i)).y) = ScenePos(W, i)
  <2>1. ScenePos(W, i) \in Points
    BY <1>3, ScenePosTypes
  <2>2. Child(i) \in DOMAIN W.layout
    OBVIOUS
  <2> HIDE DEF Child
  <2> QED
    BY <2>1, <2>2, InTypes
<1>4. \A i \in Window : Child(i) \in {f, s}
  OBVIOUS
<1> HIDE DEF Child
<1>5. given \in [Window -> Views]
  BY <1>1, <1>3
<1>6. IsWall(V) /\ V.layout = W.layout
  BY <1>2, <1>5, OtherWindows
<1>7. \A i \in Window : /\ W.window[i].at # l => V.window[i] = W.window[i]
                        /\ W.window[i].at = l => V.window[i] = In(W, Child(i), ScenePos(W, i))
  BY <1>2
<1>8. InLeaves(V)
  BY <1>3, <1>4, <1>6, <1>7 DEF InLeaves
<1>9. ASSUME NEW i \in Window, W.window[i].at = l
      PROVE  V.window[i].at \in DOMAIN W.layout /\ ScenePos(V, i) = ScenePos(W, i)
  <2>1. V.window[i].at = Child(i)
    BY <1>3, <1>7, <1>9
  <2>2. Origin(V, Child(i)) = Origin(W, Child(i))
    BY <1>6, OriginOfLayouts
  <2>3. ScenePos(V, i) = Point(Origin(W, Child(i)).x + V.window[i].x, Origin(W, Child(i)).y + V.window[i].y)
    BY <2>1, <2>2 DEF ScenePos
  <2>4. V.window[i] = In(W, Child(i), ScenePos(W, i))
    BY <1>7, <1>9
  <2> QED
    BY <1>3, <1>4, <1>9, <2>1, <2>3, <2>4
<1> QED
  BY <1>6, <1>7, <1>8, <1>9 DEF V

\* The extent of a child of l with area r.
Within(W, l, r) == [at |-> Point(Origin(W, l).x + r.x, Origin(W, l).y + r.y), w |-> r.w, h |-> r.h]

\* A child begins where its parent begins, moved by its own position.
LEMMA ExtentOfChild ==
    ASSUME NEW W, IsWall(W), NEW k \in DOMAIN W.layout \ {Root}
    PROVE  Extent(W, k) = Within(W, W.layout[k].parent, AreaOf(W.layout[k]))
<1>1. W.layout[k].parent \in DOMAIN W.layout /\ DOMAIN W.layout \subseteq Nat
  BY WallTypes DEF IsWall, Linked
<1>2. k # MinimizeBar /\ W.layout[k].parent # MinimizeBar
  BY <1>1 DEF MinimizeBar
<1>3. Origins(W)[k] = Point(Origins(W)[W.layout[k].parent].x + W.layout[k].x,
                            Origins(W)[W.layout[k].parent].y + W.layout[k].y)
  BY OriginsTypes
<1>4. Origin(W, k) = Point(Origin(W, W.layout[k].parent).x + W.layout[k].x,
                           Origin(W, W.layout[k].parent).y + W.layout[k].y)
  BY <1>2, <1>3 DEF Origin
<1> QED
  BY <1>4, AreaOfFields DEF Extent, Within

\* The root layout has the size it had.
SameRoot(W, V) == V.layout[Root].w = W.layout[Root].w /\ V.layout[Root].h = W.layout[Root].h

\* V is the wall W with leaf l split.
Created(W, V, l) ==
    LET f == V.layout[l].first
        s == V.layout[l].second
    IN  /\ IsWall(V) /\ InLeaves(V)
        /\ f # s /\ f \notin DOMAIN W.layout /\ s \notin DOMAIN W.layout
        /\ {f, s} \subseteq 1..Cardinality(DOMAIN W.layout) + 2
        /\ DOMAIN V.layout = DOMAIN W.layout \cup {f, s}
        /\ V.layout[l].bar # "none" /\ V.layout[f].bar = "none" /\ V.layout[s].bar = "none"
        /\ \A k \in DOMAIN W.layout \ {l} : V.layout[k].bar = W.layout[k].bar
        /\ \A k \in DOMAIN W.layout : Extent(V, k) = Extent(W, k)
        /\ \A i \in Window : W.window[i].at # l => V.window[i] = W.window[i]
        /\ \A i \in Window : W.window[i].at \notin DOMAIN W.layout => V.window[i] = W.window[i]
        /\ \A i \in Window : W.window[i].at \in DOMAIN W.layout =>
              V.window[i].at \in DOMAIN V.layout /\ ScenePos(V, i) = ScenePos(W, i)

\* createChildPartitions() keeps the tree, and every window at its place on the screen.
LEMMA CreateTypes ==
    ASSUME NEW W, IsWall(W), InLeaves(W), NEW l \in DOMAIN W.layout, W.layout[l].bar = "none",
           NEW bar \in {"horizontal", "vertical"}, NEW first \in Rectangles, NEW second \in Rectangles
    PROVE  /\ Created(W, CreateChildPartitions(W, l, bar, first, second), l)
           /\ LET V == CreateChildPartitions(W, l, bar, first, second)
              IN  /\ Extent(V, V.layout[l].first) = Within(W, l, first)
                  /\ Extent(V, V.layout[l].second) = Within(W, l, second)
           /\ AllMeet(W) /\ Meet(bar, first, second) => AllMeet(CreateChildPartitions(W, l, bar, first, second))
<1> DEFINE D == DOMAIN W.layout
           f == Unused(D)
           s == Unused(D \cup {f})
           U == Split(W, l, bar, f, s, first, second)
           V == HandDown(U, l, f, s)
<1>1. CreateChildPartitions(W, l, bar, first, second) = V
  BY DEF CreateChildPartitions
<1>2. IsFiniteSet(D) /\ IsFiniteSet(D \cup {f}) /\ D \subseteq Nat \ {0}
  BY FS_AddElement, WallTypes DEF IsWall
<1>3. Cardinality(D) \in Nat /\ f \in 1..Cardinality(D) + 1 /\ f \notin D
  BY <1>2, UnusedIsNew
<1>4. s \in 1..Cardinality(D) + 2 /\ s \notin D /\ s # f
  <2>1. Cardinality(D \cup {f}) = Cardinality(D) + 1
    BY <1>2, <1>3, FS_AddElement
  <2>2. s \in 1..Cardinality(D) + 1 + 1 /\ s \notin D \cup {f}
    BY <1>2, <2>1, UnusedIsNew
  <2> QED
    BY <1>3, <2>2
<1> HIDE DEF f, s
<1>5. /\ IsWall(U)
      /\ DOMAIN U.layout = D \cup {f, s}
      /\ U.layout[l].bar # "none" /\ U.layout[l].first = f /\ U.layout[l].second = s
      /\ U.layout[f].bar = "none" /\ U.layout[s].bar = "none"
      /\ \A k \in D \ {l} : U.layout[k].bar = W.layout[k].bar
      /\ U.window = W.window
      /\ \A k \in D : /\ Origins(U)[k] = Origins(W)[k]
                      /\ U.layout[k].w = W.layout[k].w /\ U.layout[k].h = W.layout[k].h
      /\ U.layout[f].parent = l /\ AreaOf(U.layout[f]) = first
      /\ U.layout[s].parent = l /\ AreaOf(U.layout[s]) = second
      /\ AllMeet(W) /\ Meet(bar, first, second) => AllMeet(U)
  <2>1. f \in Nat \ {0} /\ s \in Nat \ {0}
    BY <1>3, <1>4
  <2> HIDE DEF D
  <2> QED
    BY <1>3, <1>4, <2>1, SplitTypes DEF D
<1> HIDE DEF U
<1>6. \A i \in Window : \/ U.window[i].at \in {Nowhere, MinimizeBar, l}
                        \/ U.window[i].at \in DOMAIN U.layout /\ U.layout[U.window[i].at].bar = "none"
  BY <1>5 DEF InLeaves
<1>7. /\ IsWall(V) /\ InLeaves(V) /\ V.layout = U.layout
      /\ \A i \in Window : U.window[i].at # l => V.window[i] = U.window[i]
      /\ \A i \in Window : U.window[i].at = l => V.window[i].at \in DOMAIN U.layout /\ ScenePos(V, i) = ScenePos(U, i)
  <2>1. /\ IsWall(U) /\ l \in DOMAIN U.layout /\ U.layout[l].bar # "none"
        /\ f \in DOMAIN U.layout /\ s \in DOMAIN U.layout /\ U.layout[f].bar = "none" /\ U.layout[s].bar = "none"
    BY <1>5
  <2> QED
    BY <1>6, <2>1, HandDownTypes
<1> HIDE DEF V
<1>8. ASSUME NEW i \in Window, W.window[i].at \in D
      PROVE  V.window[i].at \in DOMAIN V.layout /\ ScenePos(V, i) = ScenePos(W, i)
  <2>1. W.window[i].at # MinimizeBar
    BY <1>2, <1>8 DEF MinimizeBar
  <2>2. Origin(U, W.window[i].at) = Origin(W, W.window[i].at)
    BY <1>5, <1>8, <2>1 DEF Origin
  <2>3. ScenePos(U, i) = ScenePos(W, i)
    BY <1>5, <2>2 DEF ScenePos
  <2>4. CASE W.window[i].at = l
    BY <1>5, <1>7, <2>3, <2>4
  <2>5. CASE W.window[i].at # l
    <3>1. V.window[i] = W.window[i]
      BY <1>5, <1>7, <2>5
    <3>2. Origin(V, W.window[i].at) = Origin(U, W.window[i].at)
      BY <1>7, OriginOfLayouts
    <3> QED
      BY <1>5, <1>7, <1>8, <2>3, <3>1, <3>2 DEF ScenePos
  <2> QED
    BY <2>4, <2>5
<1>9. AllMeet(U) => AllMeet(V)
  BY <1>7 DEF AllMeet, MeetAt
<1>10. {f, s} \subseteq 1..Cardinality(D) + 2
  BY <1>3, <1>4
<1>11. \A i \in Window : W.window[i].at \notin D => V.window[i] = W.window[i]
  BY <1>5, <1>7
<1>12. V.layout[l].first = f /\ V.layout[l].second = s
  BY <1>5, <1>7
<1>13. /\ IsWall(V) /\ InLeaves(V)
       /\ f # s /\ f \notin D /\ s \notin D
       /\ DOMAIN V.layout = D \cup {f, s}
       /\ V.layout[f].bar = "none" /\ V.layout[s].bar = "none"
       /\ \A k \in D \ {l} : V.layout[k].bar = W.layout[k].bar
       /\ AllMeet(W) /\ Meet(bar, first, second) => AllMeet(V)
  BY <1>3, <1>4, <1>5, <1>7, <1>9
<1>14. ASSUME NEW k \in D PROVE Extent(V, k) = Extent(W, k)
  <2>1. k # MinimizeBar
    BY <1>2 DEF MinimizeBar
  <2>2. Origin(U, k) = Origin(W, k) /\ Origin(V, k) = Origin(U, k)
    BY <1>5, <1>7, <2>1, OriginOfLayouts DEF Origin
  <2> QED
    BY <1>5, <1>7, <2>2 DEF Extent
<1>15. Root \in D /\ Root # f /\ Root # s
  BY <1>3, <1>4 DEF IsWall, Linked
<1>16. ASSUME NEW k \in {f, s}, NEW q, AreaOf(U.layout[k]) = q, U.layout[k].parent = l
       PROVE  Extent(V, k) = Within(W, l, q)
  <2>1. k \in DOMAIN V.layout \ {Root}
    BY <1>5, <1>7, <1>15
  <2>2. Extent(V, k) = Within(V, l, q)
    BY <1>7, <1>16, <2>1, ExtentOfChild
  <2>3. Origin(V, l) = Origin(W, l)
    BY <1>14 DEF Extent
  <2> QED
    BY <2>2, <2>3 DEF Within
<1>17. Extent(V, f) = Within(W, l, first) /\ Extent(V, s) = Within(W, l, second)
  BY <1>5, <1>16
<1>18. V.layout[l].bar # "none" /\ \A i \in Window : W.window[i].at # l => V.window[i] = W.window[i]
  BY <1>5, <1>7
<1>19. Created(W, V, l)
  BY <1>8, <1>10, <1>11, <1>12, <1>13, <1>14, <1>18 DEF Created
<1> QED
  BY <1>1, <1>12, <1>13, <1>19, <1>17

\* What is reached from l is the least set that is closed.
LEMMA ReachTypes ==
    ASSUME NEW next, NEW l \in DOMAIN next, \A j \in DOMAIN next : next[j] \subseteq DOMAIN next
    PROVE  /\ Reach(next, l) \subseteq DOMAIN next
           /\ l \in Reach(next, l)
           /\ \A j \in Reach(next, l) : next[j] \subseteq Reach(next, l)
           /\ \A S \in SUBSET DOMAIN next : l \in S /\ (\A j \in S : next[j] \subseteq S) => Reach(next, l) \subseteq S
<1>1. /\ Reach(next, l) \subseteq DOMAIN next
      /\ l \in Reach(next, l)
      /\ \A S \in SUBSET DOMAIN next : l \in S /\ (\A j \in S : next[j] \subseteq S) => Reach(next, l) \subseteq S
  BY DEF Reach
<1>2. ASSUME NEW j \in Reach(next, l), NEW k \in next[j] PROVE k \in Reach(next, l)
  <2>1. k \in DOMAIN next
    BY <1>1
  <2>2. ASSUME NEW S \in SUBSET DOMAIN next, l \in S, \A m \in S : next[m] \subseteq S PROVE k \in S
    BY <1>1, <2>2
  <2> QED
    BY <2>1, <2>2 DEF Reach
<1> QED
  BY <1>1, <1>2

\* What is below l is the least set with l that has the children of its layouts.
LEMMA BelowTypes ==
    ASSUME NEW W, NEW l \in DOMAIN W.layout
    PROVE  /\ Below(W, l) \subseteq DOMAIN W.layout
           /\ l \in Below(W, l)
           /\ \A k \in DOMAIN W.layout : W.layout[k].parent \in Below(W, l) => k \in Below(W, l)
           /\ \A S \in SUBSET DOMAIN W.layout :
                 l \in S /\ (\A k \in DOMAIN W.layout : W.layout[k].parent \in S => k \in S) => Below(W, l) \subseteq S
<1> DEFINE D == DOMAIN W.layout
           next == [j \in D |-> {k \in D : W.layout[k].parent = j}]
<1>1. Below(W, l) = Reach(next, l)
  BY DEF Below
<1>2. DOMAIN next = D /\ \A j, k \in D : k \in next[j] <=> W.layout[k].parent = j
  OBVIOUS
<1>3. \A j \in D : next[j] \subseteq D
  OBVIOUS
<1> HIDE DEF next
<1>4. /\ Reach(next, l) \subseteq D
      /\ l \in Reach(next, l)
      /\ \A j \in Reach(next, l) : next[j] \subseteq Reach(next, l)
      /\ \A S \in SUBSET D : l \in S /\ (\A j \in S : next[j] \subseteq S) => Reach(next, l) \subseteq S
  BY <1>2, <1>3, ReachTypes
<1>5. ASSUME NEW k \in D, W.layout[k].parent \in Below(W, l) PROVE k \in Below(W, l)
  BY <1>1, <1>2, <1>4, <1>5
<1>6. ASSUME NEW S \in SUBSET D, l \in S, \A k \in D : W.layout[k].parent \in S => k \in S
      PROVE  Below(W, l) \subseteq S
  <2>1. \A j \in S : next[j] \subseteq S
    BY <1>2, <1>3, <1>6
  <2> QED
    BY <1>1, <1>4, <1>6, <2>1
<1> QED
  BY <1>1, <1>4, <1>5, <1>6

\* Nothing above a layout is below it.
LEMMA BelowIsDeeper ==
    ASSUME NEW W, IsWall(W), NEW l \in DOMAIN W.layout, NEW c \in DOMAIN W.layout, W.layout[c].parent = l
    PROVE  /\ l \notin Below(W, c) /\ Root \notin Below(W, c)
           /\ \A k \in Below(W, c) : k = c \/ W.layout[k].parent \in Below(W, c)
<1>1. PICK M, depth : M \in Nat /\ Depth(W, depth, M)
  BY DEF IsWall
<1>2. Linked(W) /\ DOMAIN W.layout \subseteq Nat \ {0}
  BY WallTypes DEF IsWall
<1>3. c # Root
  BY <1>2 DEF Linked, Nowhere
<1> DEFINE S == {k \in DOMAIN W.layout \ {Root} : depth[k] > depth[l]}
           T == {k \in Below(W, c) : k = c \/ W.layout[k].parent \in Below(W, c)}
<1>4. c \in S
  BY <1>1, <1>3 DEF Depth
<1>5. ASSUME NEW k \in DOMAIN W.layout, W.layout[k].parent \in S PROVE k \in S
  <2>1. k # Root
    BY <1>2, <1>5 DEF Linked, Nowhere
  <2>2. /\ depth[W.layout[k].parent] < depth[k] /\ depth[l] < depth[W.layout[k].parent]
        /\ depth[l] \in Nat /\ depth[k] \in Nat /\ depth[W.layout[k].parent] \in Nat
    BY <1>1, <1>5, <2>1 DEF Depth
  <2> QED
    BY <2>1, <2>2
<1>6. Below(W, c) \subseteq S
  <2>1. S \in SUBSET DOMAIN W.layout
    OBVIOUS
  <2> HIDE DEF S
  <2> QED
    BY <1>4, <1>5, <2>1, BelowTypes
<1>7. l \notin S /\ Root \notin S
  BY <1>1 DEF Depth
<1>8. Below(W, c) \subseteq T
  <2>1. T \in SUBSET DOMAIN W.layout /\ c \in T
    BY BelowTypes
  <2>2. \A k \in DOMAIN W.layout : W.layout[k].parent \in T => k \in T
    BY BelowTypes
  <2> HIDE DEF T
  <2> QED
    BY <2>1, <2>2, BelowTypes
<1> QED
  BY <1>6, <1>7, <1>8

\* The windows of all leaves below a layout are found through its children.
LEMMA LeavesTypes ==
    ASSUME NEW W, IsWall(W), NEW l \in DOMAIN W.layout, W.layout[l].bar # "none",
           NEW c \in {W.layout[l].first, W.layout[l].second}, NEW k \in Below(W, c), W.layout[k].bar = "none"
    PROVE  k \in Leaves(W, l)
<1> DEFINE D == DOMAIN W.layout
           children == [j \in D |-> IF W.layout[j].bar = "none" THEN {} ELSE {W.layout[j].first, W.layout[j].second}]
           R == Reach(children, l)
<1>1. Linked(W) /\ D \subseteq Nat \ {0}
  BY WallTypes DEF IsWall
<1>2. Leaves(W, l) = {j \in R : W.layout[j].bar = "none"}
  BY DEF Leaves
<1>3. /\ DOMAIN children = D
      /\ \A j \in D : W.layout[j].bar # "none" => children[j] = {W.layout[j].first, W.layout[j].second}
      /\ \A j \in D : children[j] \subseteq D
  BY <1>1 DEF Linked
<1> HIDE DEF children
<1>4. R \subseteq D /\ l \in R /\ \A j \in R : children[j] \subseteq R
  BY <1>3, ReachTypes
<1> HIDE DEF R
<1>5. c \in D /\ c \in R
  BY <1>1, <1>3, <1>4 DEF Linked
<1>6. ASSUME NEW j \in D, W.layout[j].parent \in R PROVE j \in R
  <2>1. j \in D \ {Root}
    BY <1>1, <1>4, <1>6 DEF Linked, Nowhere
  <2>2. j \in children[W.layout[j].parent]
    BY <1>1, <1>3, <2>1 DEF Linked
  <2> QED
    BY <1>4, <1>6, <2>2
<1>7. Below(W, c) \subseteq R
  BY <1>4, <1>5, <1>6, BelowTypes
<1> QED
  BY <1>2, <1>7

\* deleteChildPartitions() keeps the tree: no window is lost with the layouts that are deleted,
\* and each keeps its place on the screen.
LEMMA DeleteTypes ==
    ASSUME NEW W, IsWall(W), InLeaves(W), NEW l \in DOMAIN W.layout, W.layout[l].bar # "none"
    PROVE  LET V == DeleteChildPartitions(W, l)
           IN  /\ IsWall(V) /\ InLeaves(V)
               /\ DOMAIN V.layout \subseteq DOMAIN W.layout
               /\ \A i \in Window : W.window[i].at \notin DOMAIN W.layout => V.window[i] = W.window[i]
               /\ \A i \in Window : W.window[i].at \in DOMAIN W.layout =>
                     V.window[i].at \in DOMAIN V.layout /\ ScenePos(V, i) = ScenePos(W, i)
               /\ AllMeet(W) => AllMeet(V)
               /\ SameRoot(W, V)
<1> DEFINE D == DOMAIN W.layout
           n == W.layout[l]
           lost == Below(W, n.first) \cup Below(W, n.second)
           kept == D \ lost
           L == [[k \in kept |-> W.layout[k]] EXCEPT ![l].bar = "none", ![l].line = 0,
                        ![l].first = Nowhere, ![l].second = Nowhere]
           X == [i \in Window |->
                        IF W.window[i].at \in Leaves(W, l) THEN In(W, l, ScenePos(W, i))
                        ELSE IF W.window[i].at \in lost THEN Absent
                        ELSE W.window[i]]
           V == DeleteChildPartitions(W, l)
<1>1. V = [layout |-> L, window |-> X]
  BY DEF DeleteChildPartitions
<1>2. /\ W.layout \in [D -> Nodes] /\ D \subseteq Nat \ {0} /\ W.window \in [Window -> Views]
      /\ Linked(W) /\ IsFiniteSet(D)
  BY WallTypes DEF IsWall
<1>3. /\ n.first \in D /\ n.second \in D /\ W.layout[n.first].parent = l /\ W.layout[n.second].parent = l
  BY <1>2 DEF Linked
<1> HIDE DEF V
<1>4. /\ l \in kept /\ Root \in kept
      /\ \A k \in D : W.layout[k].parent \in lost => k \in lost
      /\ \A k \in lost : k \in {n.first, n.second} \/ W.layout[k].parent \in lost
      /\ n.first \in lost /\ n.second \in lost
  <2>1. l \notin lost /\ Root \notin lost
    BY <1>3, BelowIsDeeper
  <2>2. Root \in D
    BY <1>2 DEF Linked
  <2>3. \A k \in D : W.layout[k].parent \in lost => k \in lost
    BY <1>3, BelowTypes
  <2>4. \A k \in lost : k \in {n.first, n.second} \/ W.layout[k].parent \in lost
    BY <1>3, BelowIsDeeper
  <2>5. n.first \in lost /\ n.second \in lost
    BY <1>3, BelowTypes
  <2> QED
    BY <2>1, <2>2, <2>3, <2>4, <2>5
<1>5. \A k \in lost : W.layout[k].bar = "none" => k \in Leaves(W, l)
  BY LeavesTypes
<1>6. \A k \in Leaves(W, l) : k \in D /\ W.layout[k].bar = "none"
  BY DEF Leaves, Reach
<1> HIDE DEF lost
<1>7. /\ DOMAIN L = kept
      /\ \A k \in kept \ {l} : L[k] = W.layout[k]
      /\ L[l] = [n EXCEPT !.bar = "none", !.line = 0, !.first = Nowhere, !.second = Nowhere]
      /\ L = [k \in kept |-> L[k]]
  BY <1>2, <1>4
<1> HIDE DEF L
<1>8. /\ L[l] \in Nodes /\ L[l].bar = "none"
      /\ \A k \in kept : /\ L[k].parent = W.layout[k].parent /\ L[k].position = W.layout[k].position
                         /\ L[k].x = W.layout[k].x /\ L[k].y = W.layout[k].y
                         /\ L[k].w = W.layout[k].w /\ L[k].h = W.layout[k].h
  <2>1. n \in Nodes
    BY <1>2
  <2>2. /\ L[l] \in Nodes /\ L[l].bar = "none"
        /\ L[l].parent = n.parent /\ L[l].position = n.position /\ L[l].x = n.x /\ L[l].y = n.y
        /\ L[l].w = n.w /\ L[l].h = n.h
    <3> HIDE DEF n
    <3> DEFINE leaf == [n EXCEPT !.bar = "none", !.line = 0, !.first = 0, !.second = 0]
    <3>1. L[l] = leaf
      BY <1>7 DEF Nowhere
    <3>2. /\ leaf \in Nodes /\ leaf.bar = "none"
          /\ leaf.parent = n.parent /\ leaf.position = n.position /\ leaf.x = n.x /\ leaf.y = n.y
          /\ leaf.w = n.w /\ leaf.h = n.h
      BY <2>1 DEF Nodes
    <3> QED
      BY <3>1, <3>2
  <2> QED
    BY <1>7, <2>2
<1>9. ASSUME NEW k \in kept \ {Root} PROVE W.layout[k].parent \in kept
  BY <1>2, <1>4 DEF Linked
<1>10. ASSUME NEW k \in kept \ {l}, W.layout[k].bar # "none"
       PROVE  W.layout[k].first \in kept /\ W.layout[k].second \in kept
  <2> DEFINE f == W.layout[k].first
             s == W.layout[k].second
  <2>1. f \in D /\ s \in D /\ W.layout[f].parent = k /\ W.layout[s].parent = k
    BY <1>2, <1>10 DEF Linked
  <2>2. \A c \in lost : W.layout[c].parent # k
    BY <1>3, <1>4, <1>10
  <2> QED
    BY <2>1, <2>2
<1>11. L \in [kept -> Nodes]
  <2>1. \A k \in kept : L[k] \in Nodes
    BY <1>2, <1>7, <1>8
  <2> QED
    BY <1>7, <2>1
<1>12. ASSUME NEW i \in Window
       PROVE  /\ W.window[i].at \in Leaves(W, l) =>
                    /\ In(W, l, ScenePos(W, i)) \in Views /\ In(W, l, ScenePos(W, i)).at = l
                    /\ Point(Origin(W, l).x + In(W, l, ScenePos(W, i)).x,
                             Origin(W, l).y + In(W, l, ScenePos(W, i)).y) = ScenePos(W, i)
              /\ W.window[i].at \notin Leaves(W, l) => W.window[i].at \notin lost
              /\ W.window[i].at # l
              /\ X[i] = IF W.window[i].at \in Leaves(W, l) THEN In(W, l, ScenePos(W, i)) ELSE W.window[i]
  <2>1. ASSUME W.window[i].at \in Leaves(W, l)
        PROVE  /\ In(W, l, ScenePos(W, i)) \in Views /\ In(W, l, ScenePos(W, i)).at = l
               /\ Point(Origin(W, l).x + In(W, l, ScenePos(W, i)).x,
                        Origin(W, l).y + In(W, l, ScenePos(W, i)).y) = ScenePos(W, i)
    <3>1. ScenePos(W, i) \in Points
      BY <1>6, <2>1, ScenePosTypes
    <3> QED
      BY <3>1, InTypes
  <2>2. W.window[i].at \in D => W.layout[W.window[i].at].bar = "none"
    BY <1>2 DEF InLeaves, Nowhere, MinimizeBar
  <2>3. lost \subseteq D
    BY <1>3, BelowTypes DEF lost
  <2>4. W.window[i].at \notin Leaves(W, l) => W.window[i].at \notin lost
    BY <1>5, <2>2, <2>3
  <2>5. W.window[i].at # l
    BY <2>2
  <2> QED
    BY <2>1, <2>4, <2>5
<1>13. X \in [Window -> Views]
  BY <1>2, <1>12
<1>14. /\ V.layout = L /\ V.window = X /\ DOMAIN V.layout = kept
       /\ V = [layout |-> L, window |-> X]
  BY <1>1, <1>7
<1> HIDE DEF X
<1>15. V \in Walls
  <2>1. kept \in SUBSET (Nat \ {0})
    BY <1>2
  <2> QED
    BY <1>11, <1>13, <1>14, <2>1 DEF Walls
<1>16. Linked(V)
  <2>1. Root \in kept /\ L[Root].parent = Nowhere
    BY <1>2, <1>4, <1>8 DEF Linked
  <2>2. ASSUME NEW k \in kept \ {Root}
        PROVE  LET p == L[k].parent
               IN  /\ p \in kept /\ L[p].bar # "none"
                   /\ k = IF L[k].position = "first" THEN L[p].first ELSE L[p].second
    <3> DEFINE p == W.layout[k].parent
    <3>1. L[k].parent = p /\ L[k].position = W.layout[k].position /\ p \in kept
      BY <1>8, <1>9
    <3>2. /\ W.layout[p].bar # "none"
          /\ k = IF W.layout[k].position = "first" THEN W.layout[p].first ELSE W.layout[p].second
      BY <1>2 DEF Linked
    <3>3. p # l
      BY <1>4, <3>2
    <3> QED
      BY <1>7, <3>1, <3>2, <3>3
  <2>3. ASSUME NEW k \in kept, L[k].bar # "none"
        PROVE  /\ {L[k].first, L[k].second} \subseteq kept
               /\ L[k].first # L[k].second
               /\ L[L[k].first].parent = k /\ L[L[k].second].parent = k
    <3>1. k # l /\ L[k] = W.layout[k]
      BY <1>7, <1>8, <2>3
    <3>2. W.layout[k].first \in kept /\ W.layout[k].second \in kept
      BY <1>10, <2>3, <3>1
    <3> QED
      BY <1>2, <1>8, <2>3, <3>1, <3>2 DEF Linked
  <2> QED
    BY <1>14, <2>1, <2>2, <2>3 DEF Linked
<1>17. IsWall(V)
  <2>1. IsFiniteSet(kept)
    BY <1>2, FS_Subset
  <2>2. PICK M, depth : M \in Nat /\ Depth(W, depth, M)
    BY DEF IsWall
  <2>3. Depth(V, [k \in kept |-> depth[k]], M)
    BY <1>8, <1>9, <1>14, <2>2 DEF Depth
  <2> QED
    BY <1>14, <1>15, <1>16, <2>1, <2>2, <2>3 DEF IsWall
<1>18. InLeaves(V)
  <2> SUFFICES ASSUME NEW i \in Window
               PROVE  X[i].at \in {Nowhere, MinimizeBar} \/ (X[i].at \in kept /\ L[X[i].at].bar = "none")
    BY <1>14 DEF InLeaves
  <2>1. CASE W.window[i].at \in Leaves(W, l)
    BY <1>4, <1>8, <1>12, <2>1
  <2>2. CASE W.window[i].at \notin Leaves(W, l)
    <3>1. X[i] = W.window[i] /\ W.window[i].at \notin lost /\ W.window[i].at # l
      BY <1>12, <2>2
    <3>2. CASE W.window[i].at \in {Nowhere, MinimizeBar}
      BY <3>1, <3>2
    <3>3. CASE W.window[i].at \in D /\ W.layout[W.window[i].at].bar = "none"
      BY <1>7, <3>1, <3>3
    <3> QED
      BY <3>2, <3>3 DEF InLeaves
  <2> QED
    BY <2>1, <2>2
<1>19. \A k \in kept : Origins(V)[k] = Origins(W)[k]
  <2>1. kept \subseteq D /\ kept \subseteq DOMAIN V.layout
    BY <1>14
  <2>2. \A k \in kept \ {Root} : /\ V.layout[k].parent = W.layout[k].parent /\ W.layout[k].parent \in kept
                                 /\ V.layout[k].x = W.layout[k].x /\ V.layout[k].y = W.layout[k].y
    BY <1>8, <1>9, <1>14
  <2> HIDE DEF kept
  <2> QED
    BY <1>17, <2>1, <2>2, OriginsKept
<1>20. ASSUME NEW i \in Window, W.window[i].at \in D
       PROVE  V.window[i].at \in kept /\ ScenePos(V, i) = ScenePos(W, i)
  <2>1. \A k \in kept : Origin(V, k) = Origin(W, k)
    BY <1>2, <1>19 DEF Origin, MinimizeBar
  <2>2. CASE W.window[i].at \in Leaves(W, l)
    <3>1. V.window[i] = In(W, l, ScenePos(W, i)) /\ V.window[i].at = l
      BY <1>12, <1>14, <2>2
    <3>2. ScenePos(V, i) = Point(Origin(W, l).x + V.window[i].x, Origin(W, l).y + V.window[i].y)
      BY <1>4, <2>1, <3>1 DEF ScenePos
    <3> QED
      BY <1>4, <1>12, <2>2, <3>1, <3>2
  <2>3. CASE W.window[i].at \notin Leaves(W, l)
    <3>1. V.window[i] = W.window[i] /\ W.window[i].at \in kept
      BY <1>12, <1>14, <1>20, <2>3
    <3> QED
      BY <2>1, <3>1 DEF ScenePos
  <2> QED
    BY <2>2, <2>3
<1>21. ASSUME AllMeet(W) PROVE AllMeet(V)
  <2> SUFFICES ASSUME NEW k \in kept, L[k].bar # "none" PROVE MeetAt(V, k)
    BY <1>14 DEF AllMeet
  <2>1. k # l /\ L[k] = W.layout[k]
    BY <1>7, <1>8
  <2>2. W.layout[k].first \in kept /\ W.layout[k].second \in kept
    BY <1>10, <2>1
  <2>3. MeetAt(W, k)
    BY <1>21, <2>1 DEF AllMeet
  <2> QED
    BY <1>8, <1>14, <2>1, <2>2, <2>3 DEF MeetAt, Meet, BarMeets
<1>22. \A i \in Window : W.window[i].at \notin D => V.window[i] = W.window[i]
  BY <1>6, <1>12, <1>14
<1>23. kept \subseteq D
  OBVIOUS
<1>24. SameRoot(W, V)
  BY <1>2, <1>4, <1>7, <1>8, <1>14 DEF SameRoot
<1> QED
  BY <1>14, <1>17, <1>18, <1>20, <1>21, <1>22, <1>23, <1>24 DEF V

\* A window is taken by a leaf.
LEMMA TakerTypes ==
    ASSUME NEW W, IsWall(W), NEW l \in DOMAIN W.layout, NEW c
    PROVE  Taker(W, l, c) \in DOMAIN W.layout /\ W.layout[Taker(W, l, c)].bar = "none"
<1> DEFINE D == DOMAIN W.layout
           base == {k \in D : W.layout[k].bar = "none"}
           down == [k \in D |-> IF Surrounds(W, W.layout[k].first, c) THEN W.layout[k].first ELSE W.layout[k].second]
           start == [k \in D |-> k]
           step == [k \in D |-> [v \in base |-> v]]
           Body(g) == [k \in D |-> LET n == W.layout[k]
                                   IN  IF n.bar = "none" THEN k
                                       ELSE g[IF Surrounds(W, n.first, c) THEN n.first ELSE n.second]]
           t == CHOOSE g : g = Body(g)
<1>1. Taker(W, l, c) = t[l]
  BY DEF Taker
<1>2. Linked(W) /\ D \subseteq Nat \ {0}
  BY WallTypes DEF IsWall
<1>3. PICK M, depth : M \in Nat /\ Depth(W, depth, M)
  BY DEF IsWall
<1>4. \A k \in D : k \notin base => /\ down[k] \in D /\ down[k] # Root /\ W.layout[down[k]].parent = k
  BY <1>2 DEF Linked, Nowhere
<1> DEFINE rank == [k \in D |-> M - depth[k]]
<1>5. Descends(D, rank, base, down)
  <2>1. \A k \in D : rank[k] \in Nat
    BY <1>3 DEF Depth
  <2>2. ASSUME NEW k \in D, k \notin base PROVE rank[down[k]] < rank[k]
    <3>1. down[k] \in D /\ depth[k] < depth[down[k]]
      BY <1>3, <1>4, <2>2 DEF Depth
    <3>2. depth[k] \in Nat /\ depth[down[k]] \in Nat
      BY <1>3, <3>1 DEF Depth
    <3> HIDE DEF down
    <3> QED
      BY <1>3, <3>1, <3>2
  <2> HIDE DEF rank, down, base
  <2> QED
    BY <1>4, <2>1, <2>2 DEF Descends
<1>6. Valued(D, base, base, start, step)
  BY DEF Valued
<1>7. \A g : \A k \in D : Body(g)[k] = IF k \in base THEN k ELSE g[down[k]]
  OBVIOUS
<1>8. \E g : g = Body(g)
  <2>1. PICK g \in [D -> base] : \A k \in D : g[k] = Value(base, down, start, step, g, k)
    <3> HIDE DEF D, base, down, start, step, rank
    <3> QED
      BY <1>5, <1>6, Recursion
  <2>2. \A k \in D : g[k] = IF k \in base THEN k ELSE g[down[k]]
    <3> SUFFICES ASSUME NEW k \in D PROVE g[k] = IF k \in base THEN k ELSE g[down[k]]
      OBVIOUS
    <3>1. k \notin base => g[down[k]] \in base
      BY <1>4, <2>1
    <3> HIDE DEF base, down
    <3> QED
      BY <2>1, <3>1 DEF Value
  <2>3. Body(g) = [k \in D |-> Body(g)[k]] /\ g = [k \in D |-> g[k]]
    BY <2>1
  <2>4. \A k \in D : g[k] = Body(g)[k]
    BY <1>7, <2>2
  <2> HIDE DEF Body
  <2> QED
    BY <2>3, <2>4
<1>9. t = Body(t)
  <2> HIDE DEF Body
  <2> QED
    BY <1>8
<1> HIDE DEF t
<1>10. \A k \in D : t[k] = IF k \in base THEN k ELSE t[down[k]]
  <2>1. \A k \in D : Body(t)[k] = IF k \in base THEN k ELSE t[down[k]]
    BY <1>7
  <2>2. \A k : t[k] = Body(t)[k]
    BY <1>9
  <2> HIDE DEF Body, base, down
  <2> QED
    BY <2>1, <2>2
<1> DEFINE P == {k \in D : t[k] \in base}
<1>11. D \subseteq P
  <2>1. \A k \in D : (k \notin base => down[k] \in P) => k \in P
    <3> HIDE DEF down
    <3> QED
      BY <1>10
  <2> HIDE DEF P, base, down, rank
  <2> QED
    BY <1>5, <2>1, RankInduction
<1> QED
  BY <1>1, <1>11

\* A window that is put into a leaf is there, and the others stay.
LEMMA PutTypes ==
    ASSUME NEW W, IsWall(W), InLeaves(W), NEW i \in Window,
           NEW l \in DOMAIN W.layout, W.layout[l].bar = "none", NEW p \in Points
    PROVE  LET V == [W EXCEPT !.window[i] = In(W, l, p)]
           IN  /\ IsWall(V) /\ InLeaves(V) /\ V.layout = W.layout
               /\ V.window = [W.window EXCEPT ![i] = In(W, l, p)]
               /\ V.window[i].at = l
               /\ \A j \in Window \ {i} : V.window[j] = W.window[j] /\ ScenePos(V, j) = ScenePos(W, j)
<1> DEFINE V == [W EXCEPT !.window[i] = In(W, l, p)]
<1>1. W.window \in [Window -> Views] /\ W = [layout |-> W.layout, window |-> W.window]
  BY WallTypes DEF IsWall
<1>2. In(W, l, p) \in Views /\ In(W, l, p).at = l
  BY InTypes
<1>3. V.window = [W.window EXCEPT ![i] = In(W, l, p)] /\ V = [layout |-> W.layout, window |-> V.window]
  BY <1>1
<1> HIDE DEF V
<1>4. V.window \in [Window -> Views] /\ V.window[i].at = l /\ \A j \in Window \ {i} : V.window[j] = W.window[j]
  BY <1>1, <1>2, <1>3
<1>5. IsWall(V) /\ V.layout = W.layout
  BY <1>3, <1>4, OtherWindows
<1>6. InLeaves(V)
  BY <1>4, <1>5 DEF InLeaves
<1>7. \A j \in Window \ {i} : ScenePos(V, j) = ScenePos(W, j)
  BY <1>4, <1>5, OriginOfLayouts DEF ScenePos
<1> QED
  BY <1>3, <1>4, <1>5, <1>6, <1>7 DEF V

\* A bar that is moved keeps the tree, and the areas on its two sides meet.
LEMMA MoveTypes ==
    ASSUME NEW W, IsWall(W), InLeaves(W), NEW l \in DOMAIN W.layout, W.layout[l].bar # "none", NEW d \in Int
    PROVE  LET V == MoveBar(W, l, d)
           IN  /\ IsWall(V) /\ InLeaves(V) /\ DOMAIN V.layout = DOMAIN W.layout
               /\ \A i \in Window : V.window[i].at = W.window[i].at
               /\ AllMeet(W) /\ W.layout[l].line + d >= 0 => AllMeet(V)
               /\ SameRoot(W, V)
<1> DEFINE D == DOMAIN W.layout
           n == W.layout[l]
           f == W.layout[n.first]
           g == W.layout[n.second]
           given == IF n.bar = "horizontal"
                    THEN Areas(n.first, n.second, Rect(f.x, f.y, f.w, f.h + d), Rect(g.x, g.y + d, g.w, g.h - d))
                    ELSE Areas(n.first, n.second, Rect(f.x, f.y, f.w + d, f.h), Rect(g.x + d, g.y, g.w - d, g.h))
           V == SetRectangles(W, given)
<1>1. MoveBar(W, l, d) = V
  BY DEF MoveBar
<1>2. W.layout \in [D -> Nodes] /\ D \subseteq Nat \ {0} /\ Linked(W)
  BY WallTypes DEF IsWall
<1>3. n \in Nodes /\ f \in Nodes /\ g \in Nodes /\ n.first \in D /\ n.second \in D /\ n.first # n.second
  BY <1>2 DEF Linked
<1>4. /\ f.x \in Int /\ f.y \in Int /\ f.w \in Nat /\ f.h \in Nat
      /\ g.x \in Int /\ g.y \in Int /\ g.w \in Nat /\ g.h \in Nat /\ n.line \in Nat
  BY <1>3 DEF Nodes
<1> HIDE DEF f, g
<1>5. /\ DOMAIN given = {n.first, n.second}
      /\ n.bar = "horizontal" => /\ given[n.first] = Rect(f.x, f.y, f.w, f.h + d)
                                 /\ given[n.second] = Rect(g.x, g.y + d, g.w, g.h - d)
      /\ n.bar # "horizontal" => /\ given[n.first] = Rect(f.x, f.y, f.w + d, f.h)
                                 /\ given[n.second] = Rect(g.x + d, g.y, g.w - d, g.h)
  BY <1>3 DEF Areas
<1> HIDE DEF given
<1>6. \A x, y, w, h \in Int : Rect(x, y, w, h) \in Frames
  BY DEF Rect, Frames
<1>7. \A k \in DOMAIN given : given[k] \in Frames
  <2>1. /\ f.h + d \in Int /\ g.y + d \in Int /\ g.h - d \in Int
        /\ f.w + d \in Int /\ g.x + d \in Int /\ g.w - d \in Int
        /\ f.w \in Int /\ f.h \in Int /\ g.w \in Int /\ g.h \in Int
    BY <1>4
  <2> SUFFICES given[n.first] \in Frames /\ given[n.second] \in Frames
    BY <1>5
  <2> HIDE DEF n
  <2>2. CASE n.bar = "horizontal"
    BY <1>4, <1>5, <1>6, <2>1, <2>2
  <2>3. CASE n.bar # "horizontal"
    BY <1>4, <1>5, <1>6, <2>1, <2>3
  <2> QED
    BY <2>2, <2>3
<1>8. /\ IsWall(V) /\ SameLinks(W, V)
      /\ \A i \in Window : V.window[i].at = W.window[i].at
  BY <1>7, SetRectanglesTypes
<1>9. InLeaves(V) /\ DOMAIN V.layout = D
  BY <1>8 DEF InLeaves, SameLinks
<1>10. ASSUME AllMeet(W), n.line + d >= 0 PROVE AllMeet(V)
  <2>1. Meet(n.bar, f, g) /\ BarMeets(n, f)
    BY <1>10 DEF AllMeet, MeetAt, f, g
  <2> DEFINE first == Clipped(given[n.first])
             second == Clipped(given[n.second])
  <2>2. /\ first.x = 0 /\ first.y = 0
        /\ n.bar = "horizontal" => first.h = n.line + d /\ second.x = 0 /\ second.y = n.line + d
        /\ n.bar # "horizontal" => first.w = n.line + d /\ second.y = 0 /\ second.x = n.line + d
        /\ Same(f, first) => d = 0
    <3>1. /\ n.bar = "horizontal" => /\ first = Clipped(Rect(f.x, f.y, f.w, f.h + d))
                                     /\ second = Clipped(Rect(g.x, g.y + d, g.w, g.h - d))
          /\ n.bar # "horizontal" => /\ first = Clipped(Rect(f.x, f.y, f.w + d, f.h))
                                     /\ second = Clipped(Rect(g.x + d, g.y, g.w - d, g.h))
      BY <1>5
    <3>2. \A x, y, w, h : /\ Clipped(Rect(x, y, w, h)).x = x /\ Clipped(Rect(x, y, w, h)).y = y
                          /\ Clipped(Rect(x, y, w, h)).w = Bounded(w) /\ Clipped(Rect(x, y, w, h)).h = Bounded(h)
      BY DEF Rect, Clipped
    <3>3. Bounded(n.line + d) = n.line + d
      BY <1>4, <1>10 DEF Bounded
    <3> HIDE DEF n, first, second
    <3>4. CASE n.bar = "horizontal"
      <4>1. f.x = 0 /\ f.y = 0 /\ g.x = 0 /\ g.y = f.h /\ f.h = n.line
        BY <2>1, <3>4 DEF Meet, BarMeets
      <4> QED
        BY <1>4, <3>1, <3>2, <3>3, <3>4, <4>1 DEF Same
    <3>5. CASE n.bar # "horizontal"
      <4>1. f.x = 0 /\ f.y = 0 /\ g.y = 0 /\ g.x = f.w /\ f.w = n.line
        BY <2>1, <3>5 DEF Meet, BarMeets
      <4> QED
        BY <1>4, <3>1, <3>2, <3>3, <3>5, <4>1 DEF Same
    <3> QED
      BY <3>4, <3>5
  <2>3. Meet(n.bar, first, second)
    <3> HIDE DEF n, first, second
    <3> QED
      BY <2>2 DEF Meet
  <2>4. Same(f, first) => BarMeets(n, first)
    <3> HIDE DEF n, first, second
    <3> QED
      BY <1>4, <2>2 DEF BarMeets
  <2>5. \A k \in D \ {l} : W.layout[k].bar # "none" => MeetAt(W, k)
    BY <1>10 DEF AllMeet
  <2> QED
    BY <1>5, <1>7, <2>3, <2>4, <2>5, SetRectanglesMeet DEF f
<1>11. SameRoot(W, V)
  <2>1. Root \in D /\ Root \notin DOMAIN given
    BY <1>2, <1>5 DEF Linked, Nowhere
  <2>2. ResizeEvent(W, given)[Root] = AreaOf(W.layout[Root])
    BY <1>7, <2>1, ResizeTypes
  <2>3. /\ V.layout[Root].w = ResizeEvent(W, given)[Root].w
        /\ V.layout[Root].h = ResizeEvent(W, given)[Root].h
    BY <1>7, <2>1, SetRectanglesTypes
  <2> QED
    BY <2>2, <2>3, AreaOfFields DEF SameRoot
<1> QED
  BY <1>1, <1>8, <1>9, <1>10, <1>11

\* The layouts that wait for their entries are different leaves.
Waiting(W, todo) ==
    /\ todo \in Seq(Nat)
    /\ \A j \in 1..Len(todo) : todo[j] \in DOMAIN W.layout /\ W.layout[todo[j]].bar = "none"
    /\ \A j, k \in 1..Len(todo) : todo[j] = todo[k] => j = k

LoadStates == {v \in [wall : Walls, todo : Seq(Nat)] :
                  IsWall(v.wall) /\ InLeaves(v.wall) /\ Waiting(v.wall, v.todo)}

\* What an entry does to the windows: the window it names is put or closed, others stay.
Keeps(W, V, e) ==
    /\ SameRoot(W, V)
    /\ \A i \in Window :
           /\ V.window[i].at = MinimizeBar => W.window[i].at = MinimizeBar
           /\ W.window[i].at \in DOMAIN W.layout =>
                 \/ V.window[i].at \in DOMAIN V.layout /\ ScenePos(V, i) = ScenePos(W, i)
                 \/ V.window[i].at = Nowhere /\ e.header = "ITEM" /\ e.window = i
           /\ W.window[i].at = Nowhere /\ V.window[i].at # Nowhere => e.header = "ITEM" /\ e.window = i

\* The first of the layouts that wait is a leaf and none of the others.
LEMMA TailTypes ==
    ASSUME NEW W, NEW todo, Waiting(W, todo), todo # <<>>
    PROVE  /\ Head(todo) \in DOMAIN W.layout /\ W.layout[Head(todo)].bar = "none"
           /\ Waiting(W, Tail(todo))
           /\ \A j \in 1..Len(Tail(todo)) : Tail(todo)[j] # Head(todo)
<1>1. /\ todo \in Seq(Nat) /\ Len(todo) \in Nat \ {0} /\ Head(todo) = todo[1]
      /\ Tail(todo) \in Seq(Nat) /\ Len(Tail(todo)) = Len(todo) - 1
      /\ \A j \in 1..Len(Tail(todo)) : Tail(todo)[j] = todo[j + 1]
  BY HeadTailProperties, EmptySeq DEF Waiting
<1>2. \A j \in 1..Len(Tail(todo)) : j + 1 \in 1..Len(todo) /\ j + 1 # 1
  BY <1>1
<1>3. 1 \in 1..Len(todo)
  BY <1>1
<1>4. ASSUME NEW j \in 1..Len(Tail(todo)), NEW k \in 1..Len(Tail(todo)), Tail(todo)[j] = Tail(todo)[k]
      PROVE  j = k
  <2>1. j + 1 = k + 1
    BY <1>1, <1>2, <1>4 DEF Waiting
  <2> QED
    BY <2>1
<1> QED
  BY <1>1, <1>2, <1>3, <1>4 DEF Waiting

\* A leaf is split: its children wait in its place.
LEMMA SplitWaiting ==
    ASSUME NEW W, NEW V, NEW todo, Waiting(W, todo), todo # <<>>,
           NEW f \in DOMAIN V.layout, NEW s \in DOMAIN V.layout, f \in Nat, s \in Nat,
           f # s, f \notin DOMAIN W.layout, s \notin DOMAIN W.layout,
           V.layout[f].bar = "none", V.layout[s].bar = "none",
           \A k \in DOMAIN W.layout \ {Head(todo)} : k \in DOMAIN V.layout /\ V.layout[k].bar = W.layout[k].bar
    PROVE  Waiting(V, <<f, s>> \o Tail(todo))
<1> DEFINE t == Tail(todo)
           q == <<f, s>> \o t
<1>1. /\ Waiting(W, t) /\ \A j \in 1..Len(t) : t[j] # Head(todo)
  BY TailTypes
<1> HIDE DEF t
<1>2. t \in Seq(Nat) /\ Len(t) \in Nat
  BY <1>1, LenProperties DEF Waiting
<1>3. <<f, s>> \in Seq(Nat) /\ Len(<<f, s>>) = 2
  OBVIOUS
<1>4. /\ q \in Seq(Nat) /\ Len(q) = Len(t) + 2
      /\ \A j \in 1..Len(t) + 2 : q[j] = IF j <= 2 THEN <<f, s>>[j] ELSE t[j - 2]
  BY <1>2, <1>3, ConcatProperties
<1> HIDE DEF q
<1>5. q[1] = f /\ q[2] = s
  BY <1>2, <1>4
<1>6. \A j \in 1..Len(q) : j = 1 \/ j = 2 \/ (j - 2 \in 1..Len(t) /\ q[j] = t[j - 2])
  BY <1>2, <1>4
<1>7. \A j \in 1..Len(t) : t[j] \in DOMAIN W.layout /\ W.layout[t[j]].bar = "none" /\ t[j] # Head(todo)
  BY <1>1 DEF Waiting
<1>8. \A j \in 1..Len(q) : q[j] \in DOMAIN V.layout /\ V.layout[q[j]].bar = "none"
  <2>1. \A j \in 1..Len(t) : t[j] \in DOMAIN V.layout /\ V.layout[t[j]].bar = "none"
    BY <1>7
  <2> QED
    BY <1>5, <1>6, <2>1
<1>9. ASSUME NEW j \in 1..Len(q), NEW k \in 1..Len(q), q[j] = q[k] PROVE j = k
  <2>1. ASSUME j \notin {1, 2}, k \notin {1, 2} PROVE j = k
    <3>1. j - 2 \in 1..Len(t) /\ k - 2 \in 1..Len(t) /\ t[j - 2] = t[k - 2]
      BY <1>6, <1>9, <2>1
    <3>2. j - 2 = k - 2
      BY <1>1, <3>1 DEF Waiting
    <3> QED
      BY <1>2, <1>4, <3>2
  <2> QED
    BY <1>5, <1>6, <1>7, <1>9, <2>1
<1> QED
  <2>1. Waiting(V, q)
    BY <1>4, <1>8, <1>9 DEF Waiting
  <2> QED
    BY <2>1 DEF q, t

\* A window that is closed is gone, and the others stay.
LEMMA CloseTypes ==
    ASSUME NEW W, IsWall(W), InLeaves(W), NEW i \in Window
    PROVE  LET V == [W EXCEPT !.window[i] = Absent]
           IN  /\ IsWall(V) /\ InLeaves(V) /\ V.layout = W.layout
               /\ V.window = [W.window EXCEPT ![i] = Absent]
               /\ V.window[i].at = Nowhere
               /\ \A j \in Window \ {i} : V.window[j] = W.window[j] /\ ScenePos(V, j) = ScenePos(W, j)
<1> DEFINE V == [W EXCEPT !.window[i] = Absent]
<1>1. W.window \in [Window -> Views] /\ W = [layout |-> W.layout, window |-> W.window]
  BY WallTypes DEF IsWall
<1>2. Absent \in Views /\ Absent.at = Nowhere
  BY DEF Absent, Views, Nowhere
<1>3. V.window = [W.window EXCEPT ![i] = Absent] /\ V = [layout |-> W.layout, window |-> V.window]
  BY <1>1
<1> HIDE DEF V
<1>4. V.window \in [Window -> Views] /\ V.window[i].at = Nowhere /\ \A j \in Window \ {i} : V.window[j] = W.window[j]
  BY <1>1, <1>2, <1>3
<1>5. IsWall(V) /\ V.layout = W.layout
  BY <1>3, <1>4, OtherWindows
<1>6. InLeaves(V)
  BY <1>4, <1>5 DEF InLeaves
<1>7. \A j \in Window \ {i} : ScenePos(V, j) = ScenePos(W, j)
  BY <1>4, <1>5, OriginOfLayouts DEF ScenePos
<1> QED
  BY <1>3, <1>4, <1>5, <1>6, <1>7 DEF V

\* What entries are made of.
LEMMA EntryTypes ==
    ASSUME NEW e \in Entries
    PROVE  /\ e.header = "LAYOUT" => e.bar \in {"horizontal", "vertical"} /\ e.first \in Rectangles /\ e.second \in Rectangles
           /\ e.header = "ITEM" => e.window \in Window /\ e.pos \in Points
  BY DEF Entries, Points

\* An entry for a window keeps the tree.
LEMMA LoadItemTypes ==
    ASSUME NEW W, IsWall(W), InLeaves(W), NEW l \in DOMAIN W.layout, W.layout[l].bar = "none",
           NEW e \in Entries, e.header = "ITEM"
    PROVE  LET V == LoadItem(W, l, e)
           IN  IsWall(V) /\ InLeaves(V) /\ V.layout = W.layout /\ Keeps(W, V, e)
<1> DEFINE i == e.window
           V == LoadItem(W, l, e)
<1>1. i \in Window /\ e.pos \in Points
  BY EntryTypes
<1>2. DOMAIN W.layout \subseteq Nat \ {0}
  BY WallTypes DEF IsWall
<1> HIDE DEF i
<1>3. CASE W.window[i].at # Nowhere
  <2>1. V = [W EXCEPT !.window[i] = Absent]
    BY <1>3 DEF LoadItem, i
  <2> HIDE DEF V
  <2>2. /\ IsWall(V) /\ InLeaves(V) /\ V.layout = W.layout
        /\ V.window[i].at = Nowhere
        /\ \A j \in Window \ {i} : V.window[j] = W.window[j] /\ ScenePos(V, j) = ScenePos(W, j)
    BY <1>1, <2>1, CloseTypes
  <2>3. Keeps(W, V, e)
    BY <1>1, <2>2 DEF Keeps, SameRoot, i, Nowhere, MinimizeBar
  <2> QED
    BY <2>2, <2>3 DEF V
<1>4. CASE W.window[i].at = Nowhere /\ i \in Web
  <2>1. V = W
    BY <1>4 DEF LoadItem, i
  <2> HIDE DEF V
  <2>2. Keeps(W, V, e)
    BY <2>1 DEF Keeps, SameRoot
  <2> QED
    BY <2>1, <2>2 DEF V
<1>5. CASE W.window[i].at = Nowhere /\ i \notin Web
  <2>1. V = [W EXCEPT !.window[i] = In(W, l, e.pos)]
    BY <1>5 DEF LoadItem, i
  <2> HIDE DEF V
  <2>2. /\ IsWall(V) /\ InLeaves(V) /\ V.layout = W.layout
        /\ V.window[i].at = l
        /\ \A j \in Window \ {i} : V.window[j] = W.window[j] /\ ScenePos(V, j) = ScenePos(W, j)
    BY <1>1, <2>1, PutTypes
  <2>3. Keeps(W, V, e)
    <3>1. l # MinimizeBar /\ Nowhere \notin DOMAIN W.layout
      BY <1>2 DEF MinimizeBar, Nowhere
    <3> QED
      BY <1>1, <1>5, <2>2, <3>1 DEF Keeps, SameRoot, i
  <2> QED
    BY <2>2, <2>3 DEF V
<1> QED
  BY <1>3, <1>4, <1>5

\* Each entry of a session keeps the tree, the layouts that wait are leaves, and areas meet.
LEMMA LoadEntryTypes ==
    ASSUME NEW v \in LoadStates, NEW e \in Entries
    PROVE  /\ LoadEntry(v, e) \in LoadStates
           /\ Keeps(v.wall, LoadEntry(v, e).wall, e)
           /\ AllMeet(v.wall) /\ (e.header = "LAYOUT" => Meet(e.bar, e.first, e.second))
                 => AllMeet(LoadEntry(v, e).wall)
<1> DEFINE W == v.wall
           l == Head(v.todo)
           u == LoadEntry(v, e)
<1>1. /\ v = [wall |-> W, todo |-> v.todo] /\ W \in Walls /\ v.todo \in Seq(Nat)
      /\ IsWall(W) /\ InLeaves(W) /\ Waiting(W, v.todo)
  BY DEF LoadStates
<1>2. Keeps(W, W, e)
  BY DEF Keeps, SameRoot
<1>3. CASE v.todo = <<>>
  <2>1. u = v
    BY <1>3 DEF LoadEntry
  <2> QED
    BY <1>2, <2>1
<1>4. ASSUME v.todo # <<>>
      PROVE  /\ l \in DOMAIN W.layout /\ W.layout[l].bar = "none"
             /\ Waiting(W, Tail(v.todo))
  BY <1>1, <1>4, TailTypes
<1>5. CASE v.todo # <<>> /\ e.header = "LAYOUT"
  <2> DEFINE V == CreateChildPartitions(W, l, e.bar, e.first, e.second)
             f == V.layout[l].first
             s == V.layout[l].second
  <2>1. u = [wall |-> V, todo |-> <<f, s>> \o Tail(v.todo)]
    BY <1>5 DEF LoadEntry
  <2>2. e.bar \in {"horizontal", "vertical"} /\ e.first \in Rectangles /\ e.second \in Rectangles
    BY <1>5, EntryTypes
  <2>3. Created(W, V, l) /\ (AllMeet(W) /\ Meet(e.bar, e.first, e.second) => AllMeet(V))
    <3>1. IsWall(W) /\ InLeaves(W) /\ l \in DOMAIN W.layout /\ W.layout[l].bar = "none"
      BY <1>1, <1>4, <1>5
    <3> HIDE DEF W, l, u
    <3> QED
      BY <2>2, <3>1, CreateTypes
  <2> HIDE DEF V, u
  <2>4. V \in Walls /\ DOMAIN V.layout \subseteq Nat \ {0}
    BY <2>3, WallTypes DEF IsWall, Created
  <2>5. f \in DOMAIN V.layout /\ s \in DOMAIN V.layout /\ f \in Nat /\ s \in Nat
    BY <2>3, <2>4 DEF Created
  <2> HIDE DEF f, s
  <2>6. \A k \in DOMAIN W.layout \ {l} : k \in DOMAIN V.layout /\ V.layout[k].bar = W.layout[k].bar
    BY <2>3 DEF Created
  <2>7. Waiting(V, <<f, s>> \o Tail(v.todo))
    <3>1. /\ f # s /\ f \notin DOMAIN W.layout /\ s \notin DOMAIN W.layout
          /\ V.layout[f].bar = "none" /\ V.layout[s].bar = "none"
      BY <2>3 DEF Created, f, s
    <3> QED
      BY <1>1, <1>5, <2>5, <2>6, <3>1, SplitWaiting
  <2>8. <<f, s>> \o Tail(v.todo) \in Seq(Nat)
    BY <2>7 DEF Waiting
  <2>9. u \in LoadStates /\ u.wall = V
    BY <2>1, <2>3, <2>4, <2>7, <2>8 DEF LoadStates, Created
  <2>10. Keeps(W, V, e)
    <3>1. MinimizeBar \notin DOMAIN V.layout /\ Nowhere \notin DOMAIN V.layout
      BY <2>4 DEF MinimizeBar, Nowhere
    <3>2. Extent(V, Root) = Extent(W, Root)
      BY <1>1, <2>3 DEF Created, IsWall, Linked
    <3>3. SameRoot(W, V)
      BY <3>2 DEF SameRoot, Extent
    <3>4. \A i \in Window :
             /\ V.window[i].at = MinimizeBar => W.window[i].at = MinimizeBar
             /\ W.window[i].at \in DOMAIN W.layout => V.window[i].at \in DOMAIN V.layout /\ ScenePos(V, i) = ScenePos(W, i)
             /\ W.window[i].at = Nowhere => V.window[i].at = Nowhere
      <4>1. Nowhere \notin DOMAIN W.layout
        BY <1>1, WallTypes DEF Nowhere
      <4> QED
        BY <2>3, <3>1, <4>1 DEF Created
    <3> QED
      BY <3>3, <3>4 DEF Keeps
  <2>11. AllMeet(W) /\ (e.header = "LAYOUT" => Meet(e.bar, e.first, e.second)) => AllMeet(V)
    BY <1>5, <2>3
  <2> QED
    BY <2>9, <2>10, <2>11 DEF u
<1>6. CASE v.todo # <<>> /\ e.header = "ITEM"
  <2> DEFINE V == LoadItem(W, l, e)
  <2>1. u = [wall |-> V, todo |-> v.todo]
    BY <1>1, <1>6 DEF LoadEntry
  <2>2. IsWall(V) /\ InLeaves(V) /\ V.layout = W.layout /\ Keeps(W, V, e)
    <3> HIDE DEF W, l
    <3> QED
      BY <1>1, <1>4, <1>6, LoadItemTypes
  <2> HIDE DEF V, u
  <2>3. Waiting(V, v.todo) /\ V \in Walls
    BY <1>1, <2>2 DEF Waiting, IsWall
  <2>4. u \in LoadStates /\ u.wall = V
    BY <1>1, <2>1, <2>2, <2>3 DEF LoadStates
  <2>5. AllMeet(W) => AllMeet(V)
    BY <2>2 DEF AllMeet, MeetAt
  <2> QED
    BY <2>2, <2>4, <2>5 DEF u
<1>7. CASE v.todo # <<>> /\ e.header # "LAYOUT" /\ e.header # "ITEM"
  <2>1. u = [wall |-> W, todo |-> Tail(v.todo)]
    BY <1>1, <1>7 DEF LoadEntry
  <2> HIDE DEF u
  <2>2. Waiting(W, Tail(v.todo)) /\ Tail(v.todo) \in Seq(Nat)
    BY <1>4, <1>7 DEF Waiting
  <2>3. u \in LoadStates /\ u.wall = W
    BY <1>1, <2>1, <2>2 DEF LoadStates
  <2> QED
    BY <1>2, <2>3 DEF u
<1> QED
  BY <1>3, <1>5, <1>6, <1>7

-------------------------------------------------------------------------------
(* Sessions                                                                  *)

\* What a session has done to the windows when n of its entries are read.
Loaded(W, V, s, n) ==
    \A i \in Window :
        /\ V.window[i].at = MinimizeBar => W.window[i].at = MinimizeBar
        /\ W.window[i].at \in DOMAIN W.layout =>
              \/ V.window[i].at \in DOMAIN V.layout /\ ScenePos(V, i) = ScenePos(W, i)
              \/ V.window[i].at = Nowhere /\ \E m \in 1..n : s[m].header = "ITEM" /\ s[m].window = i

\* One entry more: as no window has two, what an entry has closed stays closed.
LEMMA LoadedNext ==
    ASSUME NEW W, NEW V, NEW X, NEW s \in Sessions, NEW n \in 1..Len(s),
           Loaded(W, V, s, n - 1), Keeps(V, X, s[n])
    PROVE  Loaded(W, X, s, n)
<1>1. Len(s) \in Nat /\ \A j, k \in 1..Len(s) : s[j].header = "ITEM" /\ s[k].header = "ITEM" /\ s[j].window = s[k].window
                                                 => j = k
  BY SessionsAssumption, LenProperties
<1> SUFFICES ASSUME NEW i \in Window
             PROVE  /\ X.window[i].at = MinimizeBar => W.window[i].at = MinimizeBar
                    /\ W.window[i].at \in DOMAIN W.layout =>
                         \/ X.window[i].at \in DOMAIN X.layout /\ ScenePos(X, i) = ScenePos(W, i)
                         \/ X.window[i].at = Nowhere /\ \E m \in 1..n : s[m].header = "ITEM" /\ s[m].window = i
  BY DEF Loaded
<1>2. X.window[i].at = MinimizeBar => W.window[i].at = MinimizeBar
  BY DEF Loaded, Keeps
<1>3. n - 1 \in Nat /\ n \in 1..n /\ \A m \in 1..(n - 1) : m \in 1..n /\ m \in 1..Len(s) /\ m # n
  BY <1>1
<1>4. CASE /\ W.window[i].at \in DOMAIN W.layout
           /\ V.window[i].at \in DOMAIN V.layout /\ ScenePos(V, i) = ScenePos(W, i)
  BY <1>2, <1>3, <1>4 DEF Keeps
<1>5. ASSUME W.window[i].at \in DOMAIN W.layout, V.window[i].at = Nowhere,
             NEW m \in 1..(n - 1), s[m].header = "ITEM", s[m].window = i
      PROVE  X.window[i].at = Nowhere /\ m \in 1..n
  <2>1. ~(s[n].header = "ITEM" /\ s[n].window = i)
    BY <1>1, <1>3, <1>5
  <2> QED
    BY <1>3, <1>5, <2>1 DEF Keeps
<1> QED
  BY <1>2, <1>4, <1>5 DEF Loaded

\* f has the states of the loader that reads the entries of s, from v on.
ReadBy(s, v, f) ==
    /\ f \in [0..Len(s) -> LoadStates] /\ f[0] = v
    /\ \A n \in 1..Len(s) : f[n] = LoadEntry(f[n - 1], s[n])

\* The root waits for a session.
Start(W) == [wall |-> W, todo |-> <<Root>>]

\* A leaf at the root can wait for a session.
LEMMA StartTypes ==
    ASSUME NEW W, IsWall(W), InLeaves(W), W.layout[Root].bar = "none"
    PROVE  Start(W) \in LoadStates
<1>1. W \in Walls /\ Root \in DOMAIN W.layout
  BY DEF IsWall, Linked
<1>2. <<Root>> \in Seq(Nat) /\ Waiting(W, <<Root>>)
  BY <1>1 DEF Waiting, Root
<1> QED
  BY <1>1, <1>2 DEF LoadStates, Start

\* What LoadSession defines by recursion are the states of such a loader.
LEMMA LoadSessionReads ==
    ASSUME NEW W, IsWall(W), InLeaves(W), W.layout[Root].bar = "none", NEW s \in Seq(Entries)
    PROVE  \E f : ReadBy(s, Start(W), f) /\ LoadSession(s, W, Root) = f[Len(s)].wall
<1> DEFINE N == Len(s)
           v0 == [wall |-> W, todo |-> <<Root>>]
           D == 0..N
           rank == [n \in D |-> n]
           up == [n \in D |-> n - 1]
           start == [n \in D |-> v0]
           step == [n \in D |-> [v \in LoadStates |-> LoadEntry(v, s[n])]]
           Body(g) == [n \in D |-> IF n = 0 THEN v0 ELSE LoadEntry(g[n - 1], s[n])]
           t == CHOOSE g : g = Body(g)
<1>1. LoadSession(s, W, Root) = t[N].wall
  BY DEF LoadSession
<1>2. N \in Nat /\ \A n \in 1..N : s[n] \in Entries
  BY LenProperties, ElementOfSeq
<1>3. v0 \in LoadStates /\ v0 = Start(W)
  BY StartTypes DEF Start
<1> HIDE DEF v0
<1>4. Descends(D, rank, {0}, up)
  BY <1>2 DEF Descends
<1>5. Valued(D, {0}, LoadStates, start, step)
  <2>1. \A n \in D : n \notin {0} => n \in 1..N
    BY <1>2
  <2> HIDE DEF D, N
  <2>2. \A n \in D : n \notin {0} => \A v \in LoadStates : step[n][v] \in LoadStates
    BY <1>2, <2>1, LoadEntryTypes
  <2> QED
    BY <1>3, <2>2 DEF Valued
<1>6. PICK g \in [D -> LoadStates] : \A n \in D : g[n] = Value({0}, up, start, step, g, n)
  <2> HIDE DEF D, rank, up, start, step
  <2> QED
    BY <1>4, <1>5, Recursion
<1>7. \A n \in D : n # 0 => n - 1 \in D
  BY <1>2
<1>8. g = Body(g)
  <2>1. \A n \in D : g[n] = IF n = 0 THEN v0 ELSE LoadEntry(g[n - 1], s[n])
    <3> HIDE DEF D
    <3> QED
      BY <1>6, <1>7 DEF Value
  <2> HIDE DEF D
  <2> QED
    BY <1>6, <2>1
<1>9. t = Body(t)
  <2> HIDE DEF Body
  <2> QED
    BY <1>8
<1> HIDE DEF t
<1>10. \A n \in D : t[n] = IF n = 0 THEN v0 ELSE LoadEntry(t[n - 1], s[n])
  <2> HIDE DEF D
  <2> QED
    BY <1>9
<1> DEFINE P == {n \in D : t[n] \in LoadStates}
<1>11. ASSUME NEW n \in D, n \notin {0} => up[n] \in P PROVE n \in P
  <2>1. CASE n = 0
    <3> HIDE DEF D
    <3> QED
      BY <1>3, <1>10, <2>1
  <2>2. CASE n # 0
    <3>1. n \in 1..N /\ n - 1 \in P
      BY <1>2, <1>11, <2>2
    <3>2. t[n - 1] \in LoadStates /\ s[n] \in Entries
      BY <1>2, <3>1
    <3>3. t[n] = LoadEntry(t[n - 1], s[n])
      <4> HIDE DEF D
      <4> QED
        BY <1>10, <2>2
    <3> QED
      BY <3>2, <3>3, LoadEntryTypes
  <2> QED
    BY <2>1, <2>2
<1>12. D \subseteq P
  <2> HIDE DEF D, P, rank, up
  <2> QED
    BY <1>4, <1>11, RankInduction
<1>13. t \in [0..Len(s) -> LoadStates]
  <2>1. t \in [D -> LoadStates]
    <3>1. \A n \in D : t[n] \in LoadStates
      BY <1>12
    <3>2. t = [n \in D |-> t[n]]
      BY <1>9
    <3> HIDE DEF D
    <3> QED
      BY <3>1, <3>2
  <2> QED
    BY <2>1
<1>14. t[0] = Start(W) /\ \A n \in 1..Len(s) : t[n] = LoadEntry(t[n - 1], s[n])
  <2>1. 0 \in D /\ \A n \in 1..N : n \in D /\ n # 0
    BY <1>2
  <2> HIDE DEF D
  <2> QED
    BY <1>3, <1>10, <2>1
<1> HIDE DEF D, N
<1> QED
  BY <1>1, <1>13, <1>14 DEF ReadBy, N

\* A session that is loaded onto a wall without partitions.
LEMMA LoadTypes ==
    ASSUME NEW W, IsWall(W), InLeaves(W), W.layout[Root].bar = "none", NEW s \in Sessions
    PROVE  /\ IsWall(LoadSession(s, W, Root)) /\ InLeaves(LoadSession(s, W, Root))
           /\ Loaded(W, LoadSession(s, W, Root), s, Len(s))
           /\ SameRoot(W, LoadSession(s, W, Root))
           /\ AllMeet(W) => AllMeet(LoadSession(s, W, Root))
<1> DEFINE N == Len(s)
           D == 0..N
           rank == [n \in D |-> n]
           up == [n \in D |-> n - 1]
<1>1. /\ s \in Seq(Entries) /\ N \in Nat
      /\ \A n \in 1..N : s[n] \in Entries /\ (s[n].header = "LAYOUT" => Meet(s[n].bar, s[n].first, s[n].second))
  BY SessionsAssumption, LenProperties, ElementOfSeq
<1>2. PICK t : ReadBy(s, Start(W), t) /\ LoadSession(s, W, Root) = t[N].wall
  BY <1>1, LoadSessionReads
<1>3. Descends(D, rank, {0}, up)
  BY <1>1 DEF Descends
<1> DEFINE Good(n) == /\ t[n] \in LoadStates
                      /\ Loaded(W, t[n].wall, s, n)
                      /\ SameRoot(W, t[n].wall)
                      /\ AllMeet(W) => AllMeet(t[n].wall)
           P == {n \in D : Good(n)}
<1>4. ASSUME NEW n \in D, n \notin {0} => up[n] \in P PROVE n \in P
  <2>1. CASE n = 0
    <3>1. t[n] \in LoadStates /\ t[n].wall = W
      BY <1>2, <2>1, StartTypes DEF ReadBy, Start
    <3>2. Loaded(W, W, s, n)
      <4>1. DOMAIN W.layout \subseteq Nat
        BY WallTypes DEF IsWall
      <4> QED
        BY DEF Loaded
    <3> HIDE DEF D
    <3> QED
      BY <3>1, <3>2 DEF SameRoot
  <2>2. CASE n # 0
    <3>1. n - 1 \in D /\ n \in 1..N
      BY <1>1, <2>2
    <3>2. Good(n - 1)
      <4>1. up[n] = n - 1
        OBVIOUS
      <4>2. n - 1 \in P
        <5> HIDE DEF P, up, D
        <5> QED
          BY <1>4, <2>2, <4>1
      <4> HIDE DEF Good, D
      <4> QED
        BY <4>2
    <3>3. t[n] = LoadEntry(t[n - 1], s[n])
      BY <1>2, <3>1 DEF ReadBy
    <3> DEFINE v == t[n - 1]
    <3>4. /\ v \in LoadStates /\ Loaded(W, v.wall, s, n - 1) /\ SameRoot(W, v.wall)
          /\ AllMeet(W) => AllMeet(v.wall)
      BY <3>2
    <3> HIDE DEF v
    <3>5. s[n] \in Entries /\ (s[n].header = "LAYOUT" => Meet(s[n].bar, s[n].first, s[n].second))
      BY <1>1, <3>1
    <3>6. /\ LoadEntry(v, s[n]) \in LoadStates
          /\ Keeps(v.wall, LoadEntry(v, s[n]).wall, s[n])
          /\ AllMeet(v.wall) => AllMeet(LoadEntry(v, s[n]).wall)
      BY <3>4, <3>5, LoadEntryTypes
    <3>7. t[n] = LoadEntry(v, s[n])
      BY <3>3 DEF v
    <3>8. Loaded(W, t[n].wall, s, n)
      BY <3>1, <3>4, <3>6, <3>7, LoadedNext
    <3>9. SameRoot(W, t[n].wall)
      BY <3>4, <3>6, <3>7 DEF Keeps, SameRoot
    <3> HIDE DEF D
    <3> QED
      BY <3>4, <3>6, <3>7, <3>8, <3>9
  <2> QED
    BY <2>1, <2>2
<1>5. D \subseteq P
  <2> HIDE DEF D, P, rank, up
  <2> QED
    BY <1>3, <1>4, RankInduction
<1>6. Good(N)
  <2>1. N \in D
    BY <1>1
  <2> HIDE DEF D, N, Good
  <2> QED
    BY <1>5, <2>1
<1> QED
  BY <1>2, <1>6 DEF LoadStates

-------------------------------------------------------------------------------
(* The wall's invariant                                                      *)

\* The windows are where the layouts and the minimize bar are, ...
WindowsInv ==
    /\ held \subseteq Window /\ minimized \subseteq Window
    /\ \A i \in held \cup minimized : window[i].at # Nowhere
    /\ \A i \in Window : window[i].at = MinimizeBar => i \in minimized
    /\ recent \in [Window -> Points]

\* the root layout is as large as the wall, ...
RootFills(W) == W.layout[Root].w = WallWidth /\ W.layout[Root].h = WallHeight

\* ... and the layouts are a tree of leaves with windows, whose bars are where the first
\* child ends and the second begins.
LayoutInv ==
    /\ IsWall(Scene) /\ InLeaves(Scene) /\ AllMeet(Scene) /\ RootFills(Scene)
    /\ DOMAIN layout \subseteq 1..MaxLayouts
    /\ WindowsInv

\* A wall W that a step makes of the scene.
Step(W) == IsWall(W) /\ InLeaves(W) /\ AllMeet(W) /\ RootFills(W) /\ DOMAIN W.layout \subseteq 1..MaxLayouts

\* The scene is what the variables say.
LEMMA SceneFields == Scene.layout = layout /\ Scene.window = window
  BY DEF Scene

\* A wall whose layouts are a tree, with windows that are where they should be, is all it takes.
LEMMA StepSuffices ==
    ASSUME NEW W, Step(W), Becomes(W), WindowsInv'
    PROVE  LayoutInv'
<1>1. W = [layout |-> W.layout, window |-> W.window]
  BY WallTypes DEF Step, IsWall
<1>2. Scene' = W /\ layout' = W.layout
  BY <1>1 DEF Scene, Becomes
<1> QED
  BY <1>2 DEF Step, LayoutInv

\* The wall as it is started.
LEMMA EmptyTypes == Step(EmptyWall)
<1> DEFINE n == [NewLayout(Nowhere, "ROOT") EXCEPT !.w = WallWidth, !.h = WallHeight]
           L == [l \in {Root} |-> n]
           X == [i \in Window |-> Absent]
<1>1. EmptyWall = [layout |-> L, window |-> X]
  BY DEF EmptyWall
<1>2. n \in Nodes /\ n.parent = Nowhere /\ n.bar = "none" /\ n.w = WallWidth /\ n.h = WallHeight
  <2>1. WallWidth \in Nat /\ WallHeight \in Nat
    BY WallAssumption
  <2> DEFINE m == NewLayout(Nowhere, "ROOT")
  <2>2. m \in Nodes /\ m.parent = Nowhere /\ m.bar = "none"
    BY DEF NewLayout, Nodes, Nowhere
  <2> HIDE DEF m
  <2> QED
    BY <2>1, <2>2 DEF Nodes, n, m
<1> HIDE DEF n
<1>3. L \in [{Root} -> Nodes] /\ {Root} \in SUBSET (Nat \ {0}) /\ DOMAIN L = {Root} /\ L[Root] = n
  BY <1>2 DEF Root
<1>4. Absent \in Views /\ Absent.at = Nowhere
  BY DEF Absent, Views, Nowhere
<1>5. X \in [Window -> Views] /\ \A i \in Window : X[i].at = Nowhere
  BY <1>4
<1> HIDE DEF L, X
<1> DEFINE E == EmptyWall
<1>6. E \in Walls /\ E.layout = L /\ E.window = X
  BY <1>1, <1>3, <1>5 DEF Walls
<1> HIDE DEF E
<1>7. IsFiniteSet(DOMAIN E.layout)
  <2>1. IsFiniteSet({Root})
    BY FS_Singleton
  <2> QED
    BY <1>3, <1>6, <2>1
<1>8. Linked(E)
  BY <1>2, <1>3, <1>6 DEF Linked
<1>9. \E M, depth : M \in Nat /\ Depth(E, depth, M)
  <2>1. Depth(E, [l \in {Root} |-> 0], 0)
    BY <1>3, <1>6 DEF Depth
  <2> QED
    BY <2>1
<1>10. InLeaves(E)
  BY <1>5, <1>6 DEF InLeaves
<1>11. AllMeet(E)
  BY <1>2, <1>3, <1>6 DEF AllMeet
<1>12. DOMAIN E.layout \subseteq 1..MaxLayouts
  BY <1>3, <1>6, WallAssumption DEF Root
<1>13. RootFills(E)
  BY <1>2, <1>3, <1>6 DEF RootFills
<1> QED
  BY <1>6, <1>7, <1>8, <1>9, <1>10, <1>11, <1>12, <1>13 DEF Step, IsWall, E

\* Initially the wall has one layout and no window.
LEMMA LayoutInitInv == LayoutInit => LayoutInv
<1> SUFFICES ASSUME LayoutInit PROVE LayoutInv
  OBVIOUS
<1>1. EmptyWall = [layout |-> EmptyWall.layout, window |-> EmptyWall.window]
  BY DEF EmptyWall
<1>2. Scene = EmptyWall
  BY <1>1 DEF LayoutInit, Scene
<1>3. \A i \in Window : window[i].at = Nowhere
  BY DEF LayoutInit, EmptyWall, Absent
<1>4. Point(0, 0) \in Points
  BY DEF Point, Points
<1>5. WindowsInv
  BY <1>3, <1>4 DEF WindowsInv, LayoutInit, Nowhere, MinimizeBar
<1> QED
  BY <1>2, <1>5, EmptyTypes, SceneFields DEF LayoutInv, Step

\* Forgetting keeps the type of recent, and what minimized windows have there.
LEMMA ForgetTypes ==
    ASSUME NEW closed, Forget(closed), recent \in [Window -> Points]
    PROVE  /\ recent' \in [Window -> Points]
           /\ \A i \in Window : i \in minimized' /\ i \notin closed => recent'[i] = recent[i]
<1>1. Point(0, 0) \in Points
  BY DEF Point, Points
<1> QED
  BY <1>1 DEF Forget

\* A window is put into the leaf at some place.
LEMMA AddItemTypes ==
    ASSUME LayoutInv, NEW i \in Window, NEW c, NEW p \in Points
    PROVE  LET V == AddItem(Scene, i, c, p)
           IN  /\ Step(V) /\ V.layout = layout
               /\ V.window[i].at \notin {Nowhere, MinimizeBar}
               /\ \A j \in Window \ {i} : V.window[j] = window[j]
<1> DEFINE V == AddItem(Scene, i, c, p)
           l == Taker(Scene, Root, Centre(c))
<1>1. V = [Scene EXCEPT !.window[i] = In(Scene, l, p)]
  BY DEF AddItem
<1>2. IsWall(Scene) /\ InLeaves(Scene) /\ Root \in DOMAIN Scene.layout
  BY DEF LayoutInv, IsWall, Linked
<1>3. l \in DOMAIN Scene.layout /\ Scene.layout[l].bar = "none"
  BY <1>2, TakerTypes
<1> HIDE DEF V, l
<1>4. /\ IsWall(V) /\ InLeaves(V) /\ V.layout = Scene.layout
      /\ V.window[i].at = l
      /\ \A j \in Window \ {i} : V.window[j] = Scene.window[j]
  BY <1>1, <1>2, <1>3, PutTypes
<1>5. l \notin {Nowhere, MinimizeBar}
  BY <1>2, <1>3, WallTypes DEF IsWall, Nowhere, MinimizeBar
<1>6. AllMeet(V) /\ RootFills(V) /\ DOMAIN V.layout \subseteq 1..MaxLayouts
  BY <1>4, SceneFields DEF LayoutInv, AllMeet, MeetAt, RootFills
<1> QED
  BY <1>4, <1>5, <1>6, SceneFields DEF Step, V

\* Where windows are on the screen.
LEMMA PlaceTypes ==
    ASSUME LayoutInv, NEW i \in Window, window[i].at # Nowhere
    PROVE  ScenePos(Scene, i) \in Points /\ window[i].at \in DOMAIN layout \cup {MinimizeBar}
<1>1. window[i].at \in DOMAIN layout \cup {MinimizeBar}
  BY SceneFields DEF LayoutInv, InLeaves
<1> QED
  BY <1>1, SceneFields, ScenePosTypes DEF LayoutInv

\* Another view of a window that stays where it is, or goes to the minimize bar or away.
LEMMA ViewTypes ==
    ASSUME LayoutInv, NEW i \in Window, NEW v \in Views,
           v.at \in {window[i].at, Nowhere, MinimizeBar}
    PROVE  LET V == [layout |-> layout, window |-> [window EXCEPT ![i] = v]]
           IN  /\ Step(V) /\ V.window[i] = v
               /\ \A j \in Window \ {i} : V.window[j] = window[j]
<1> DEFINE V == [layout |-> layout, window |-> [window EXCEPT ![i] = v]]
<1>1. /\ IsWall(Scene) /\ InLeaves(Scene) /\ AllMeet(Scene) /\ window \in [Window -> Views]
      /\ DOMAIN layout \subseteq 1..MaxLayouts
  BY SceneFields, WallTypes DEF LayoutInv, IsWall
<1>2. V.layout = Scene.layout /\ V.window = [window EXCEPT ![i] = v]
  BY SceneFields
<1>3. V = [layout |-> Scene.layout, window |-> V.window]
  BY SceneFields
<1> HIDE DEF V
<1>4. V.window \in [Window -> Views] /\ V.window[i] = v /\ \A j \in Window \ {i} : V.window[j] = window[j]
  BY <1>1, <1>2
<1>5. IsWall(V)
  BY <1>1, <1>3, <1>4, OtherWindows
<1>6. InLeaves(V)
  BY <1>1, <1>2, <1>4, SceneFields DEF InLeaves
<1>7. AllMeet(V) /\ RootFills(V)
  BY <1>1, <1>2 DEF AllMeet, MeetAt, RootFills, LayoutInv
<1> QED
  BY <1>1, <1>2, <1>4, <1>5, <1>6, <1>7, SceneFields DEF Step, V

\* Nothing happens.
LEMMA StutterInv ==
    ASSUME LayoutInv, UNCHANGED layoutVars PROVE LayoutInv'
<1>1. Scene' = Scene
  BY DEF Scene, layoutVars
<1> QED
  BY <1>1 DEF LayoutInv, WindowsInv, layoutVars

\* Every step but the loading of a session keeps the invariant.
LEMMA WindowStepsKeep ==
    ASSUME LayoutInv, NEW i \in Window,
           Press(i) \/ Release(i) \/ CloseWindow(i) \/ Restore(i)
             \/ (\E p \in Positions : AddItemOnTheLayout(i, p) \/ Drag(i, p) \/ Minimize(i, p))
    PROVE  LayoutInv'
<1>1. WindowsInv /\ window \in [Window -> Views]
  BY SceneFields, WallTypes DEF LayoutInv, IsWall
<1>2. Positions \subseteq Points
  BY PositionsAssumption DEF Points
<1>3. CASE Press(i)
  <2>1. window[i].at # Nowhere /\ UNCHANGED <<layout, window, minimized>> /\ held' = held \cup {i}
    BY <1>3 DEF Press
  <2>2. ScenePos(Scene, i) \in Points
    BY <2>1, PlaceTypes
  <2>3. recent' \in [Window -> Points]
    BY <1>1, <1>3, <2>2 DEF Press, WindowsInv
  <2>4. WindowsInv'
    BY <1>1, <2>1, <2>3 DEF WindowsInv
  <2>5. Scene' = Scene
    BY <2>1 DEF Scene
  <2> QED
    BY <2>1, <2>4, <2>5 DEF LayoutInv
<1>4. CASE Release(i)
  <2> DEFINE V == AddItem(Scene, i, ScenePos(Scene, i), ScenePos(Scene, i))
  <2>1. i \in held /\ Becomes(V) /\ held' = held \ {i} /\ minimized' = minimized /\ Forget({})
    BY <1>4 DEF Release
  <2>2. ScenePos(Scene, i) \in Points
    BY <1>1, <2>1, PlaceTypes DEF WindowsInv
  <2>3. Step(V) /\ V.window[i].at \notin {Nowhere, MinimizeBar} /\ \A j \in Window \ {i} : V.window[j] = window[j]
    BY <2>2, AddItemTypes
  <2> HIDE DEF V
  <2>4. WindowsInv'
    BY <1>1, <2>1, <2>3, ForgetTypes DEF WindowsInv, Becomes
  <2> QED
    BY <2>1, <2>3, <2>4, StepSuffices
<1>5. CASE CloseWindow(i)
  <2> DEFINE V == [layout |-> layout, window |-> [window EXCEPT ![i] = Absent]]
  <2>1. /\ window' = [window EXCEPT ![i] = Absent] /\ layout' = layout
        /\ minimized' = minimized \ {i} /\ held' = held \ {i} /\ Forget({i})
    BY <1>5 DEF CloseWindow
  <2>2. Absent \in Views /\ Absent.at = Nowhere
    BY DEF Absent, Views, Nowhere
  <2>3. Step(V) /\ V.window[i] = Absent /\ \A j \in Window \ {i} : V.window[j] = window[j]
    BY <2>2, ViewTypes
  <2>4. Becomes(V)
    BY <2>1 DEF Becomes
  <2> HIDE DEF V
  <2>5. WindowsInv'
    BY <1>1, <2>1, <2>2, <2>3, <2>4, ForgetTypes DEF WindowsInv, Becomes, Nowhere, MinimizeBar
  <2> QED
    BY <2>3, <2>4, <2>5, StepSuffices
<1>6. CASE Restore(i)
  <2> DEFINE V == AddItem(Scene, i, ScenePos(Scene, i), recent[i])
  <2>1. Becomes(V) /\ held' = held /\ minimized' = minimized \ {i} /\ Forget({})
    BY <1>6 DEF Restore
  <2>2. recent[i] \in Points
    BY <1>1 DEF WindowsInv
  <2>3. Step(V) /\ V.window[i].at \notin {Nowhere, MinimizeBar} /\ \A j \in Window \ {i} : V.window[j] = window[j]
    BY <2>2, AddItemTypes
  <2> HIDE DEF V
  <2>4. WindowsInv'
    BY <1>1, <2>1, <2>3, ForgetTypes DEF WindowsInv, Becomes
  <2> QED
    BY <2>1, <2>3, <2>4, StepSuffices
<1>7. ASSUME NEW p \in Positions, AddItemOnTheLayout(i, p) PROVE LayoutInv'
  <2> DEFINE V == AddItem(Scene, i, Point(0, 0), p)
  <2>1. window[i].at = Nowhere /\ Becomes(V) /\ UNCHANGED <<minimized, held, recent>>
    BY <1>7 DEF AddItemOnTheLayout
  <2>2. Step(V) /\ V.window[i].at \notin {Nowhere, MinimizeBar} /\ \A j \in Window \ {i} : V.window[j] = window[j]
    BY <1>2, AddItemTypes
  <2> HIDE DEF V
  <2>3. WindowsInv'
    BY <1>1, <2>1, <2>2 DEF WindowsInv, Becomes
  <2> QED
    BY <2>1, <2>2, <2>3, StepSuffices
<1>8. ASSUME NEW p \in Positions, Drag(i, p) PROVE LayoutInv'
  <2> DEFINE v == In(Scene, window[i].at, p)
             V == [layout |-> layout, window |-> [window EXCEPT ![i] = v]]
  <2>1. i \in held /\ window' = [window EXCEPT ![i] = v] /\ UNCHANGED <<layout, minimized, held, recent>>
    BY <1>8 DEF Drag
  <2>2. v \in Views /\ v.at = window[i].at
    <3>1. window[i].at \in DOMAIN Scene.layout \cup {MinimizeBar}
      BY <1>1, <2>1, PlaceTypes, SceneFields DEF WindowsInv
    <3>2. IsWall(Scene) /\ p \in Points
      BY <1>2 DEF LayoutInv
    <3> QED
      BY <3>1, <3>2, InTypes
  <2>3. Becomes(V)
    BY <2>1 DEF Becomes
  <2> HIDE DEF v
  <2>4. Step(V) /\ V.window[i] = v /\ \A j \in Window \ {i} : V.window[j] = window[j]
    BY <2>2, ViewTypes
  <2> HIDE DEF V
  <2>5. WindowsInv'
    BY <1>1, <2>1, <2>2, <2>3, <2>4 DEF WindowsInv, Becomes
  <2> QED
    BY <2>3, <2>4, <2>5, StepSuffices
<1>9. ASSUME NEW p \in Positions, Minimize(i, p) PROVE LayoutInv'
  <2> DEFINE v == [at |-> MinimizeBar, x |-> p.x, y |-> 0]
             V == [layout |-> layout, window |-> [window EXCEPT ![i] = v]]
  <2>1. /\ i \in held /\ window' = [window EXCEPT ![i] = v] /\ UNCHANGED <<layout, recent>>
        /\ minimized' = minimized \cup {i} /\ held' = held \ {i}
    BY <1>9 DEF Minimize
  <2>2. v \in Views /\ v.at = MinimizeBar
    BY <1>2 DEF Points, Views, MinimizeBar
  <2>3. Becomes(V)
    BY <2>1 DEF Becomes
  <2> HIDE DEF v
  <2>4. Step(V) /\ V.window[i] = v /\ \A j \in Window \ {i} : V.window[j] = window[j]
    BY <2>2, ViewTypes
  <2> HIDE DEF V
  <2>5. WindowsInv'
    BY <1>1, <2>1, <2>2, <2>3, <2>4 DEF WindowsInv, Becomes, Nowhere, MinimizeBar
  <2> QED
    BY <2>3, <2>4, <2>5, StepSuffices
<1> QED
  BY <1>3, <1>4, <1>5, <1>6, <1>7, <1>8, <1>9

\* A step that keeps the windows' layouts, or moves windows between layouts.
LEMMA WindowsFollow ==
    ASSUME LayoutInv, NEW W, Step(W), Becomes(W), UNCHANGED <<minimized, held, recent>>,
           \A i \in Window : /\ window[i].at \notin DOMAIN layout => W.window[i].at = window[i].at
                             /\ window[i].at \in DOMAIN layout => W.window[i].at \in DOMAIN W.layout
    PROVE  LayoutInv'
<1>1. Nowhere \notin DOMAIN W.layout /\ MinimizeBar \notin DOMAIN W.layout
  BY WallTypes DEF Step, IsWall, Nowhere, MinimizeBar
<1>2. WindowsInv'
  BY <1>1, PlaceTypes DEF LayoutInv, WindowsInv, Becomes, Nowhere, MinimizeBar
<1> QED
  BY <1>2, StepSuffices

\* The halves of a layout meet.
LEMMA HalvesTypes ==
    ASSUME NEW n \in Nodes, NEW bar \in {"horizontal", "vertical"}
    PROVE  /\ Halves(n, bar)[1] \in Rectangles /\ Halves(n, bar)[2] \in Rectangles
           /\ Meet(bar, Halves(n, bar)[1], Halves(n, bar)[2])
<1>1. n.w \in Nat /\ n.h \in Nat
  BY DEF Nodes
<1>2. n.w \div 2 \in Nat /\ n.h \div 2 \in Nat
  BY <1>1
<1>3. CASE bar = "horizontal"
  BY <1>1, <1>2, <1>3 DEF Halves, Rect, Rectangles, Meet
<1>4. CASE bar = "vertical"
  BY <1>1, <1>2, <1>4 DEF Halves, Rect, Rectangles, Meet
<1> QED
  BY <1>3, <1>4

\* What the two buttons of a layout do to the scene.
LEMMA CreateBarTypes ==
    ASSUME LayoutInv, NEW l \in DOMAIN layout, NEW bar \in {"horizontal", "vertical"}, CreateBar(l, bar)
    PROVE  \E W : /\ Step(W) /\ Becomes(W) /\ UNCHANGED <<minimized, held, recent>>
                  /\ ~(DOMAIN W.layout \subseteq DOMAIN layout)
                  /\ \A i \in Window : /\ window[i].at \notin DOMAIN layout => W.window[i] = window[i]
                                       /\ window[i].at \in DOMAIN layout =>
                                             /\ W.window[i].at \in DOMAIN W.layout
                                             /\ ScenePos(W, i) = ScenePos(Scene, i)
<1> DEFINE first == Halves(layout[l], bar)[1]
           second == Halves(layout[l], bar)[2]
           W == CreateChildPartitions(Scene, l, bar, first, second)
<1>1. /\ layout[l].bar = "none" /\ Cardinality(DOMAIN layout) + 2 <= MaxLayouts /\ Becomes(W)
      /\ UNCHANGED <<minimized, held, recent>>
  BY DEF CreateBar
<1>2. /\ IsWall(Scene) /\ InLeaves(Scene) /\ AllMeet(Scene) /\ DOMAIN layout \subseteq 1..MaxLayouts
      /\ layout \in [DOMAIN layout -> Nodes] /\ IsFiniteSet(DOMAIN layout)
  BY SceneFields, WallTypes DEF LayoutInv, IsWall
<1>3. first \in Rectangles /\ second \in Rectangles /\ Meet(bar, first, second)
  BY <1>2, HalvesTypes
<1> HIDE DEF first, second
<1>4. Created(Scene, W, l) /\ AllMeet(W)
  BY <1>1, <1>2, <1>3, SceneFields, CreateTypes
<1> HIDE DEF W
<1> DEFINE f == W.layout[l].first
           s == W.layout[l].second
<1>5. /\ IsWall(W) /\ InLeaves(W) /\ DOMAIN W.layout = DOMAIN layout \cup {f, s} /\ f \notin DOMAIN layout
      /\ {f, s} \subseteq 1..Cardinality(DOMAIN layout) + 2
  BY <1>4, SceneFields DEF Created
<1> HIDE DEF f, s
<1>6. DOMAIN W.layout \subseteq 1..MaxLayouts
  <2>1. Cardinality(DOMAIN layout) \in Nat /\ MaxLayouts \in Nat
    BY <1>2, FS_CardinalityType, WallAssumption
  <2>2. {f, s} \subseteq 1..MaxLayouts
    BY <1>1, <1>5, <2>1
  <2> QED
    BY <1>2, <1>5, <2>2
<1>7. \A i \in Window : /\ window[i].at \notin DOMAIN layout => W.window[i] = window[i]
                        /\ window[i].at \in DOMAIN layout =>
                              /\ W.window[i].at \in DOMAIN W.layout
                              /\ ScenePos(W, i) = ScenePos(Scene, i)
  BY <1>4, SceneFields DEF Created
<1>8. RootFills(W)
  <2>1. Extent(W, Root) = Extent(Scene, Root)
    BY <1>2, <1>4 DEF Created, IsWall, Linked
  <2> QED
    BY <2>1 DEF LayoutInv, RootFills, Extent
<1> QED
  BY <1>1, <1>4, <1>5, <1>6, <1>7, <1>8 DEF Step

\* Removing a partition keeps the tree and the places of the windows.
LEMMA RemoveBarTypes ==
    ASSUME LayoutInv, NEW l \in DOMAIN layout, RemoveBar(l)
    PROVE  \E W : /\ Step(W) /\ Becomes(W) /\ UNCHANGED <<minimized, held, recent>>
                  /\ \A i \in Window : /\ window[i].at \notin DOMAIN layout => W.window[i] = window[i]
                                       /\ window[i].at \in DOMAIN layout =>
                                             /\ W.window[i].at \in DOMAIN W.layout
                                             /\ ScenePos(W, i) = ScenePos(Scene, i)
<1> DEFINE W == DeleteChildPartitions(Scene, l)
<1>1. layout[l].bar # "none" /\ Becomes(W) /\ UNCHANGED <<minimized, held, recent>>
  BY DEF RemoveBar
<1>2. /\ IsWall(Scene) /\ InLeaves(Scene) /\ AllMeet(Scene) /\ DOMAIN layout \subseteq 1..MaxLayouts
  BY DEF LayoutInv
<1>3. /\ IsWall(W) /\ InLeaves(W) /\ AllMeet(W) /\ SameRoot(Scene, W)
      /\ DOMAIN W.layout \subseteq DOMAIN layout
      /\ \A i \in Window : window[i].at \notin DOMAIN layout => W.window[i] = window[i]
      /\ \A i \in Window : window[i].at \in DOMAIN layout =>
            W.window[i].at \in DOMAIN W.layout /\ ScenePos(W, i) = ScenePos(Scene, i)
  BY <1>1, <1>2, SceneFields, DeleteTypes
<1> HIDE DEF W
<1>4. RootFills(W)
  BY <1>3 DEF LayoutInv, SameRoot, RootFills
<1> QED
  BY <1>1, <1>2, <1>3, <1>4 DEF Step

\* Dragging a bar keeps the layouts and the windows in each.
LEMMA DragBarTypes ==
    ASSUME LayoutInv, NEW l \in DOMAIN layout, NEW d \in Steps, DragBar(l, d)
    PROVE  \E W : /\ Step(W) /\ Becomes(W) /\ UNCHANGED <<minimized, held, recent>>
                  /\ DOMAIN W.layout = DOMAIN layout
                  /\ \A i \in Window : W.window[i].at = window[i].at
<1> DEFINE W == MoveBar(Scene, l, d)
<1>1. /\ layout[l].bar # "none" /\ layout[l].line + d >= 0 /\ Becomes(W)
      /\ UNCHANGED <<minimized, held, recent>>
  BY DEF DragBar
<1>2. /\ IsWall(Scene) /\ InLeaves(Scene) /\ AllMeet(Scene) /\ DOMAIN layout \subseteq 1..MaxLayouts
  BY DEF LayoutInv
<1>3. d \in Int
  BY PositionsAssumption
<1>4. /\ IsWall(W) /\ InLeaves(W) /\ AllMeet(W) /\ SameRoot(Scene, W)
      /\ DOMAIN W.layout = DOMAIN layout
      /\ \A i \in Window : W.window[i].at = window[i].at
  BY <1>1, <1>2, <1>3, SceneFields, MoveTypes
<1> HIDE DEF W
<1>5. RootFills(W)
  BY <1>4 DEF LayoutInv, SameRoot, RootFills
<1> QED
  BY <1>1, <1>2, <1>4, <1>5 DEF Step

\* A root without a bar is the only layout.
LEMMA RootAlone ==
    ASSUME NEW W, IsWall(W), W.layout[Root].bar = "none"
    PROVE  DOMAIN W.layout = {Root}
<1>1. Linked(W)
  BY DEF IsWall
<1>2. \A l \in DOMAIN W.layout : (l # Root => W.layout[l].parent \in {Root}) => l \in {Root}
  BY <1>1 DEF Linked
<1>3. DOMAIN W.layout \subseteq {Root}
  BY <1>2, FromRoot
<1> QED
  BY <1>1, <1>3 DEF Linked

\* A session is loaded.
LEMMA LoadSteps ==
    ASSUME LayoutInv, ~Reloads, NEW s \in Sessions, Load(s)
    PROVE  /\ LayoutInv'
           /\ DOMAIN layout' \subseteq DOMAIN layout => DOMAIN layout' = DOMAIN layout
           /\ \A i \in Window : OnLayout(i) /\ OnLayout(i)' => ScenePos(Scene, i)' = ScenePos(Scene, i)
<1> DEFINE W == LoadSession(s, Scene, Root)
<1>1. /\ layout[Root].bar = "none" /\ DOMAIN W.layout \subseteq 1..MaxLayouts /\ Becomes(W)
      /\ held' = {i \in held : W.window[i].at # Nowhere}
      /\ minimized' = {i \in minimized : W.window[i].at # Nowhere}
      /\ Forget({i \in Window : W.window[i].at = Nowhere})
  BY DEF Load
<1>2. IsWall(Scene) /\ InLeaves(Scene) /\ AllMeet(Scene) /\ WindowsInv
  BY DEF LayoutInv
<1>3. IsWall(W) /\ InLeaves(W) /\ AllMeet(W) /\ SameRoot(Scene, W) /\ Loaded(Scene, W, s, Len(s))
  BY <1>1, <1>2, SceneFields, LoadTypes
<1> HIDE DEF W
<1>4. \A i \in Window : W.window[i].at = MinimizeBar => window[i].at = MinimizeBar
  BY <1>3, SceneFields DEF Loaded
<1>5. WindowsInv'
  <2>1. recent' \in [Window -> Points]
    BY <1>1, <1>2, ForgetTypes DEF WindowsInv
  <2> QED
    BY <1>1, <1>2, <1>4, <2>1 DEF WindowsInv, Becomes, Nowhere, MinimizeBar
<1>6. RootFills(W)
  BY <1>3 DEF LayoutInv, SameRoot, RootFills
<1>7. LayoutInv'
  BY <1>1, <1>3, <1>5, <1>6, StepSuffices DEF Step
<1>8. DOMAIN layout = {Root} /\ Root \in DOMAIN layout'
  <2>1. Root \in DOMAIN W.layout
    BY <1>3 DEF IsWall, Linked
  <2> QED
    BY <1>1, <1>2, <2>1, RootAlone, SceneFields DEF Becomes
<1>9. ASSUME NEW i \in Window, OnLayout(i), OnLayout(i)' PROVE ScenePos(Scene, i)' = ScenePos(Scene, i)
  <2>1. Scene' = W
    <3>1. W = [layout |-> W.layout, window |-> W.window]
      BY <1>3, WallTypes DEF IsWall
    <3> QED
      BY <1>1, <3>1 DEF Scene, Becomes
  <2>2. window[i].at \in DOMAIN layout /\ W.window[i].at # Nowhere
    BY <1>1, <1>9, PlaceTypes DEF OnLayout, Becomes
  <2>3. ScenePos(W, i) = ScenePos(Scene, i)
    BY <1>3, <2>2, SceneFields DEF Loaded
  <2>4. ScenePos(Scene, i)' = ScenePos(W, i)
    BY <2>1 DEF ScenePos, Origin, Origins
  <2> QED
    BY <2>3, <2>4
<1> QED
  BY <1>7, <1>8, <1>9

\* Whatever users do next.
LEMMA LayoutInductive ==
    ASSUME LayoutInv, ~Reloads, [LayoutNext]_layoutVars PROVE LayoutInv'
<1>1. CASE UNCHANGED layoutVars
  BY <1>1, StutterInv
<1>2. ASSUME NEW i \in Window,
             Press(i) \/ Release(i) \/ CloseWindow(i) \/ Restore(i)
               \/ (\E p \in Positions : AddItemOnTheLayout(i, p) \/ Drag(i, p) \/ Minimize(i, p))
      PROVE  LayoutInv'
  BY <1>2, WindowStepsKeep
<1>3. ASSUME NEW l \in DOMAIN layout, RemoveBar(l) PROVE LayoutInv'
  <2>1. PICK W : /\ Step(W) /\ Becomes(W) /\ UNCHANGED <<minimized, held, recent>>
                 /\ \A i \in Window : /\ window[i].at \notin DOMAIN layout => W.window[i] = window[i]
                                      /\ window[i].at \in DOMAIN layout => W.window[i].at \in DOMAIN W.layout
    BY <1>3, RemoveBarTypes
  <2> QED
    BY <2>1, WindowsFollow
<1>4. ASSUME NEW l \in DOMAIN layout, NEW bar \in {"horizontal", "vertical"}, CreateBar(l, bar) PROVE LayoutInv'
  <2>1. PICK W : /\ Step(W) /\ Becomes(W) /\ UNCHANGED <<minimized, held, recent>>
                 /\ \A i \in Window : /\ window[i].at \notin DOMAIN layout => W.window[i] = window[i]
                                      /\ window[i].at \in DOMAIN layout => W.window[i].at \in DOMAIN W.layout
    BY <1>4, CreateBarTypes
  <2> QED
    BY <2>1, WindowsFollow
<1>5. ASSUME NEW l \in DOMAIN layout, NEW d \in Steps, DragBar(l, d) PROVE LayoutInv'
  <2>1. PICK W : /\ Step(W) /\ Becomes(W) /\ UNCHANGED <<minimized, held, recent>>
                 /\ DOMAIN W.layout = DOMAIN layout
                 /\ \A i \in Window : W.window[i].at = window[i].at
    BY <1>5, DragBarTypes
  <2> QED
    BY <2>1, WindowsFollow
<1>6. ASSUME NEW s \in Sessions, Load(s) PROVE LayoutInv'
  BY <1>6, LoadSteps
<1> QED
  BY <1>1, <1>2, <1>3, <1>4, <1>5, <1>6 DEF LayoutNext

\* While sessions are loaded onto a wall without partitions only (loadSession() does not
\* remove those that are there), the invariant holds: the layouts are linked as a tree by
\* first, second and parent, and every window on the wall is in a leaf.
THEOREM LayoutsStayInv == ~Reloads => (LayoutSpec => []LayoutInv)
<1> SUFFICES ASSUME ~Reloads PROVE LayoutSpec => []LayoutInv
  OBVIOUS
<1>1. LayoutInit => LayoutInv
  BY LayoutInitInv
<1>2. LayoutInv /\ [LayoutNext]_layoutVars => LayoutInv'
  BY LayoutInductive
<1> QED
  BY <1>1, <1>2, PTL DEF LayoutSpec

\* All layouts are below the root.
LEMMA BelowTheRoot ==
    ASSUME NEW W, IsWall(W) PROVE Below(W, Root) = DOMAIN W.layout
<1> DEFINE P == Below(W, Root)
<1>1. Root \in DOMAIN W.layout
  BY DEF IsWall, Linked
<1>2. /\ P \subseteq DOMAIN W.layout /\ Root \in P
      /\ \A k \in DOMAIN W.layout : W.layout[k].parent \in P => k \in P
  BY <1>1, BelowTypes
<1> HIDE DEF P
<1>3. \A l \in DOMAIN W.layout : (l # Root => W.layout[l].parent \in P) => l \in P
  BY <1>2
<1>4. DOMAIN W.layout \subseteq P
  BY <1>3, FromRoot
<1> QED
  BY <1>2, <1>4 DEF P

\* The inductive invariant says what TreeInv says.
LEMMA InvIsTree == LayoutInv => TreeInv
<1> SUFFICES ASSUME LayoutInv PROVE TreeInv
  OBVIOUS
<1>1. IsWall(Scene) /\ Linked(Scene) /\ InLeaves(Scene) /\ WindowsInv /\ DOMAIN layout \subseteq 1..MaxLayouts
  BY DEF LayoutInv, IsWall
<1>2. layout \in [DOMAIN layout -> Nodes] /\ DOMAIN layout \subseteq Nat \ {0}
  BY <1>1, WallTypes, SceneFields DEF IsWall
<1>3. LayoutTypes
  <2>1. \A l \in DOMAIN layout :
          /\ {layout[l].w, layout[l].h, layout[l].line} \subseteq Nat
          /\ {layout[l].x, layout[l].y} \subseteq Int
          /\ layout[l].bar \in {"none", "horizontal", "vertical"}
    <3> TAKE l \in DOMAIN layout
    <3>1. layout[l] \in Nodes
      BY <1>2
    <3> QED
      BY <3>1 DEF Nodes
  <2>2. \A i \in Window : window[i].at \in {Nowhere, MinimizeBar} \cup DOMAIN layout
    BY <1>1, SceneFields DEF InLeaves
  <2>3. Root \in DOMAIN layout
    BY <1>1, SceneFields DEF Linked
  <2>4. held \cup minimized \subseteq {i \in Window : window[i].at # Nowhere}
    BY <1>1 DEF WindowsInv
  <2>5. {i \in Window : window[i].at = MinimizeBar} \subseteq minimized /\ DOMAIN recent = Window
    BY <1>1 DEF WindowsInv
  <2> QED
    BY <1>1, <2>1, <2>2, <2>3, <2>4, <2>5 DEF LayoutTypes
<1>4. IsTree
  <2>1. Below(Scene, Root) = DOMAIN layout
    BY <1>1, BelowTheRoot, SceneFields
  <2>2. \A i \in Window : OnLayout(i) => layout[window[i].at].bar = "none"
    BY <1>1, SceneFields DEF InLeaves, OnLayout
  <2> QED
    BY <1>1, <2>1, <2>2, SceneFields DEF Linked, IsTree
<1> QED
  BY <1>3, <1>4 DEF TreeInv

\* createChildPartitions(), deleteChildPartitions() and loadSession() keep the layouts a
\* tree whose leaves alone hold windows, and all of it can be reached from the root.
THEOREM LayoutsAreATree == ~Reloads => (LayoutSpec => []TreeInv)
<1>1. LayoutInv => TreeInv
  BY InvIsTree
<1> QED
  BY <1>1, LayoutsStayInv, PTL

\* The inductive invariant says what SiblingsMeet says.
LEMMA InvMeets == LayoutInv => SiblingsMeet
<1> SUFFICES ASSUME LayoutInv, NEW l \in DOMAIN layout, layout[l].bar # "none"
             PROVE  LET n == layout[l]
                        f == layout[n.first]
                        g == layout[n.second]
                    IN  /\ f.x = 0 /\ f.y = 0
                        /\ IF n.bar = "horizontal" THEN f.h = n.line /\ g.y = n.line /\ g.x = 0
                                                   ELSE f.w = n.line /\ g.x = n.line /\ g.y = 0
  BY DEF SiblingsMeet
<1>1. MeetAt(Scene, l)
  BY SceneFields DEF LayoutInv, AllMeet
<1> QED
  BY <1>1, SceneFields DEF MeetAt, Meet, BarMeets

\* However layouts are resized, split and dragged, the bar of each is where its first child
\* ends and its second begins.
THEOREM SiblingsStayNext == ~Reloads => (LayoutSpec => []SiblingsMeet)
<1>1. LayoutInv => SiblingsMeet
  BY InvMeets
<1> QED
  BY <1>1, LayoutsStayInv, PTL

\* What WindowsStay says of a step.
Stays == DOMAIN layout' # DOMAIN layout =>
            \A i \in Window : /\ OnLayout(i) /\ OnLayout(i)' => ScenePos(Scene, i)' = ScenePos(Scene, i)
                              /\ OnLayout(i) /\ DOMAIN layout' \subseteq DOMAIN layout => OnLayout(i)'

\* A step that keeps every window of a layout in some layout at its place.
LEMMA StepStays ==
    ASSUME LayoutInv, NEW W, Step(W), Becomes(W),
           \A i \in Window : window[i].at \in DOMAIN layout =>
                W.window[i].at \in DOMAIN W.layout /\ ScenePos(W, i) = ScenePos(Scene, i)
    PROVE  Stays
<1>1. Scene' = W
  <2>1. W = [layout |-> W.layout, window |-> W.window]
    BY WallTypes DEF Step, IsWall
  <2> QED
    BY <2>1 DEF Scene, Becomes
<1>2. ASSUME NEW i \in Window PROVE ScenePos(Scene, i)' = ScenePos(W, i)
  BY <1>1
<1>3. Nowhere \notin DOMAIN W.layout /\ MinimizeBar \notin DOMAIN W.layout
  BY WallTypes DEF Step, IsWall, Nowhere, MinimizeBar
<1>4. \A i \in Window : OnLayout(i) => window[i].at \in DOMAIN layout
  BY PlaceTypes DEF OnLayout
<1> QED
  BY <1>2, <1>3, <1>4 DEF Stays, OnLayout, Becomes

\* No step moves a window when it changes the layouts.
LEMMA EachStepStays ==
    ASSUME LayoutInv, ~Reloads, [LayoutNext]_layoutVars PROVE Stays
<1>1. CASE UNCHANGED layoutVars
  BY <1>1 DEF Stays, layoutVars
<1>2. ASSUME NEW i \in Window,
             Press(i) \/ Release(i) \/ CloseWindow(i) \/ Restore(i)
               \/ (\E p \in Positions : AddItemOnTheLayout(i, p) \/ Drag(i, p) \/ Minimize(i, p))
      PROVE  Stays
  <2>1. \A c, p : AddItem(Scene, i, c, p).layout = layout
    BY DEF AddItem, Scene
  <2>2. layout' = layout
    BY <1>2, <2>1 DEF Press, Release, CloseWindow, Restore, AddItemOnTheLayout, Drag, Minimize, Becomes
  <2> QED
    BY <2>2 DEF Stays
<1>3. ASSUME NEW l \in DOMAIN layout, RemoveBar(l) PROVE Stays
  <2>1. PICK W : /\ Step(W) /\ Becomes(W)
                 /\ \A i \in Window : window[i].at \in DOMAIN layout =>
                       W.window[i].at \in DOMAIN W.layout /\ ScenePos(W, i) = ScenePos(Scene, i)
    BY <1>3, RemoveBarTypes
  <2> QED
    BY <2>1, StepStays
<1>4. ASSUME NEW l \in DOMAIN layout, NEW bar \in {"horizontal", "vertical"}, CreateBar(l, bar) PROVE Stays
  <2>1. PICK W : /\ Step(W) /\ Becomes(W)
                 /\ \A i \in Window : window[i].at \in DOMAIN layout =>
                       W.window[i].at \in DOMAIN W.layout /\ ScenePos(W, i) = ScenePos(Scene, i)
    BY <1>4, CreateBarTypes
  <2> QED
    BY <2>1, StepStays
<1>5. ASSUME NEW l \in DOMAIN layout, NEW d \in Steps, DragBar(l, d) PROVE Stays
  <2>1. PICK W : Becomes(W) /\ DOMAIN W.layout = DOMAIN layout
    BY <1>5, DragBarTypes
  <2> QED
    BY <2>1 DEF Stays, Becomes
<1>6. ASSUME NEW s \in Sessions, Load(s) PROVE Stays
  BY <1>6, LoadSteps DEF Stays
<1> QED
  BY <1>1, <1>2, <1>3, <1>4, <1>5, <1>6 DEF LayoutNext

\* What IconKeepsPlace says of a step.
KeepsPlace == \A i \in minimized : i \in minimized' => recent'[i] = recent[i]

\* No step changes the place of a window that is minimized and stays so.
LEMMA EachStepKeepsPlace ==
    ASSUME LayoutInv, [LayoutNext]_layoutVars PROVE KeepsPlace
<1>1. minimized \subseteq Window /\ recent \in [Window -> Points]
  BY DEF LayoutInv, WindowsInv
<1>2. CASE UNCHANGED recent
  BY <1>2 DEF KeepsPlace
<1>3. ASSUME NEW i \in Window, Press(i) PROVE KeepsPlace
  BY <1>1, <1>3 DEF Press, KeepsPlace
<1>4. ASSUME NEW i \in Window, Release(i) PROVE KeepsPlace
  <2>1. Forget({})
    BY <1>4 DEF Release
  <2> QED
    BY <1>1, <2>1, ForgetTypes DEF KeepsPlace
<1>5. ASSUME NEW i \in Window, CloseWindow(i) PROVE KeepsPlace
  <2>1. Forget({i}) /\ minimized' = minimized \ {i}
    BY <1>5 DEF CloseWindow
  <2>2. \A j \in Window : j \in minimized' /\ j \notin {i} => recent'[j] = recent[j]
    BY <1>1, <2>1, ForgetTypes
  <2> QED
    BY <1>1, <2>1, <2>2 DEF KeepsPlace
<1>6. ASSUME NEW i \in Window, Restore(i) PROVE KeepsPlace
  <2>1. Forget({})
    BY <1>6 DEF Restore
  <2> QED
    BY <1>1, <2>1, ForgetTypes DEF KeepsPlace
<1>7. ASSUME NEW s \in Sessions, Load(s) PROVE KeepsPlace
  <2> DEFINE closed == {i \in Window : LoadSession(s, Scene, Root).window[i].at = Nowhere}
  <2>1. Forget(closed) /\ \A i \in minimized' : i \in minimized /\ i \notin closed
    BY <1>7 DEF Load
  <2> HIDE DEF closed
  <2>2. \A j \in Window : j \in minimized' /\ j \notin closed => recent'[j] = recent[j]
    BY <1>1, <2>1, ForgetTypes
  <2> QED
    BY <1>1, <2>1, <2>2 DEF KeepsPlace
<1>8. CASE UNCHANGED layoutVars
  BY <1>2, <1>8 DEF layoutVars
<1> QED
  BY <1>2, <1>3, <1>4, <1>5, <1>6, <1>7, <1>8
     DEF LayoutNext, AddItemOnTheLayout, Drag, Minimize, RemoveBar, CreateBar, DragBar

\* Windows keep their places on the screen when layouts are split and merged, none is lost
\* with the layouts that are deleted, and a minimized window keeps the place that
\* restoreWidget() puts it back to.
THEOREM WindowsKeepPlaces == ~Reloads => (LayoutSpec => PlacesKept)
<1> SUFFICES ASSUME ~Reloads PROVE LayoutSpec => PlacesKept
  OBVIOUS
<1>1. LayoutSpec => []LayoutInv
  BY LayoutsStayInv
<1>2. LayoutInv /\ [LayoutNext]_layoutVars => [Stays]_layoutVars /\ [KeepsPlace]_layoutVars
  BY EachStepStays, EachStepKeepsPlace
<1>3. LayoutSpec => [][Stays]_layoutVars /\ [][KeepsPlace]_layoutVars
  BY <1>1, <1>2, PTL DEF LayoutSpec
<1> QED
  BY <1>3 DEF PlacesKept, WindowsStay, IconKeepsPlace, Stays, KeepsPlace

-------------------------------------------------------------------------------
(* Sessions that are saved                                                   *)

\* Reading the entries of s, the loader gets from v to u.
Reads(s, v, u) == \E f : ReadBy(s, v, f) /\ f[Len(s)] = u

\* The loader has a state before and after.
LEMMA ReadsTypes ==
    ASSUME NEW s \in Seq(Entries), NEW v, NEW u, Reads(s, v, u)
    PROVE  v \in LoadStates /\ u \in LoadStates
<1>1. PICK f : ReadBy(s, v, f) /\ f[Len(s)] = u
  BY DEF Reads
<1>2. 0 \in 0..Len(s) /\ Len(s) \in 0..Len(s)
  BY LenProperties
<1> QED
  BY <1>1, <1>2 DEF ReadBy

\* Without an entry nothing happens.
LEMMA ReadsNone ==
    ASSUME NEW v \in LoadStates PROVE Reads(<<>>, v, v)
<1> DEFINE f == [n \in 0..0 |-> v]
<1>1. Len(<<>>) = 0
  OBVIOUS
<1>2. f \in [0..0 -> LoadStates] /\ f[0] = v
  OBVIOUS
<1> HIDE DEF f
<1>3. ReadBy(<<>>, v, f)
  BY <1>1, <1>2 DEF ReadBy
<1> QED
  BY <1>1, <1>2, <1>3 DEF Reads

\* One entry is read.
LEMMA ReadsOne ==
    ASSUME NEW v \in LoadStates, NEW e \in Entries PROVE Reads(<<e>>, v, LoadEntry(v, e))
<1> DEFINE u == LoadEntry(v, e)
           f == [n \in 0..1 |-> IF n = 0 THEN v ELSE u]
<1>1. Len(<<e>>) = 1 /\ <<e>>[1] = e
  OBVIOUS
<1>2. u \in LoadStates
  BY LoadEntryTypes
<1>3. f \in [0..1 -> LoadStates] /\ f[0] = v /\ f[1] = u
  BY <1>2
<1> HIDE DEF f
<1>4. \A n \in 1..1 : f[n] = LoadEntry(f[n - 1], <<e>>[n])
  <2> SUFFICES ASSUME NEW n \in 1..1 PROVE f[n] = LoadEntry(f[n - 1], <<e>>[n])
    OBVIOUS
  <2>1. n = 1 /\ n - 1 = 0
    OBVIOUS
  <2> QED
    BY <1>1, <1>3, <2>1
<1>5. ReadBy(<<e>>, v, f)
  BY <1>1, <1>3, <1>4 DEF ReadBy
<1> QED
  BY <1>1, <1>3, <1>5 DEF Reads

\* The loader that reads two sessions in a row goes on where the first one ended.
LEMMA ReadsBoth ==
    ASSUME NEW s \in Seq(Entries), NEW r \in Seq(Entries), NEW v, NEW u, NEW w, Reads(s, v, u), Reads(r, u, w)
    PROVE  Reads(s \o r, v, w)
<1>1. PICK f : ReadBy(s, v, f) /\ f[Len(s)] = u
  BY DEF Reads
<1>2. PICK g : ReadBy(r, u, g) /\ g[Len(r)] = w
  BY DEF Reads
<1> DEFINE q == s \o r
           M == Len(s)
           N == Len(r)
           h == [n \in 0..M + N |-> IF n <= M THEN f[n] ELSE g[n - M]]
<1>3. M \in Nat /\ N \in Nat
  BY LenProperties
<1>4. Len(q) = M + N /\ \A n \in 1..M + N : q[n] = IF n <= M THEN s[n] ELSE r[n - M]
  BY <1>3, ConcatProperties
<1> HIDE DEF q
<1>5. /\ f \in [0..M -> LoadStates] /\ f[0] = v /\ f[M] = u
      /\ \A n \in 1..M : f[n] = LoadEntry(f[n - 1], s[n])
      /\ g \in [0..N -> LoadStates] /\ g[0] = u /\ g[N] = w
      /\ \A n \in 1..N : g[n] = LoadEntry(g[n - 1], r[n])
  BY <1>1, <1>2 DEF ReadBy
<1> HIDE DEF M, N
<1>6. \A n \in 0..M + N : (n <= M => n \in 0..M) /\ (~(n <= M) => n - M \in 1..N)
  BY <1>3
<1>7. \A n \in 0..M + N : h[n] = IF n <= M THEN f[n] ELSE g[n - M]
  OBVIOUS
<1>8. h \in [0..M + N -> LoadStates]
  <2>1. \A n \in 1..N : n \in 0..N
    BY <1>3
  <2>2. \A n \in 0..M + N : (IF n <= M THEN f[n] ELSE g[n - M]) \in LoadStates
    BY <1>5, <1>6, <2>1
  <2> QED
    BY <2>2
<1> HIDE DEF h
<1>9. h[0] = v
  BY <1>3, <1>5, <1>7
<1>10. h[M + N] = w
  <2>1. CASE N = 0
    BY <1>3, <1>5, <1>7, <2>1
  <2>2. CASE N # 0
    <3>1. M + N \in 0..M + N /\ ~(M + N <= M) /\ (M + N) - M = N
      BY <1>3, <2>2
    <3> QED
      BY <1>5, <1>7, <3>1
  <2> QED
    BY <2>1, <2>2
<1>11. ASSUME NEW n \in 1..M + N PROVE h[n] = LoadEntry(h[n - 1], q[n])
  <2>1. n \in 0..M + N /\ n - 1 \in 0..M + N
    BY <1>3
  <2>2. CASE n <= M
    <3>1. n \in 1..M /\ n - 1 <= M
      BY <1>3, <2>2
    <3> QED
      BY <1>4, <1>5, <1>7, <2>1, <2>2, <3>1
  <2>3. CASE ~(n <= M)
    <3>1. n - M \in 1..N /\ h[n] = g[n - M] /\ q[n] = r[n - M]
      BY <1>4, <1>6, <1>7, <2>1, <2>3
    <3>2. h[n - 1] = g[(n - M) - 1]
      <4>1. CASE n - 1 <= M
        <5>1. n - 1 = M /\ (n - M) - 1 = 0
          BY <1>3, <2>3, <4>1
        <5> QED
          BY <1>5, <1>7, <2>1, <4>1, <5>1
      <4>2. CASE ~(n - 1 <= M)
        <5>1. (n - 1) - M = (n - M) - 1
          BY <1>3
        <5> QED
          BY <1>7, <2>1, <4>2, <5>1
      <4> QED
        BY <4>1, <4>2
    <3> QED
      BY <1>5, <3>1, <3>2
  <2> QED
    BY <2>2, <2>3
<1>12. ReadBy(q, v, h)
  BY <1>4, <1>8, <1>9, <1>11 DEF ReadBy
<1> QED
  BY <1>4, <1>10, <1>12 DEF Reads, q

\* LoadSession() ends where such a loader ends.
LEMMA ReadsSession ==
    ASSUME NEW W, IsWall(W), InLeaves(W), W.layout[Root].bar = "none", NEW s \in Seq(Entries),
           NEW u, Reads(s, Start(W), u)
    PROVE  LoadSession(s, W, Root) = u.wall
<1>1. PICK f : ReadBy(s, Start(W), f) /\ LoadSession(s, W, Root) = f[Len(s)].wall
  BY LoadSessionReads
<1>2. PICK g : ReadBy(s, Start(W), g) /\ g[Len(s)] = u
  BY DEF Reads
<1> DEFINE N == Len(s)
           D == 0..N
           rank == [n \in D |-> n]
           up == [n \in D |-> n - 1]
           P == {n \in D : f[n] = g[n]}
<1>3. N \in Nat
  BY LenProperties
<1>4. Descends(D, rank, {0}, up)
  BY <1>3 DEF Descends
<1>5. ASSUME NEW n \in D, n \notin {0} => up[n] \in P PROVE n \in P
  <2>1. CASE n = 0
    BY <1>1, <1>2, <2>1 DEF ReadBy
  <2>2. CASE n # 0
    <3>1. n \in 1..N /\ f[n - 1] = g[n - 1]
      BY <1>3, <1>5, <2>2
    <3> QED
      BY <1>1, <1>2, <3>1 DEF ReadBy
  <2> QED
    BY <2>1, <2>2
<1>6. D \subseteq P
  <2> HIDE DEF D, P, rank, up
  <2> QED
    BY <1>4, <1>5, RankInduction
<1>7. f[N] = g[N]
  BY <1>3, <1>6
<1> QED
  BY <1>1, <1>2, <1>7

\* The entry of a window.
LEMMA ItemEntryTypes ==
    ASSUME NEW W, IsWall(W), NEW l \in DOMAIN W.layout, NEW i \in Inside(W, l)
    PROVE  ItemEntry(W, i) \in Seq(Entries) /\ ScenePos(W, i) \in Points
<1>1. i \in Window /\ W.window[i].at = l
  BY DEF Inside
<1>2. ScenePos(W, i) \in Points
  BY <1>1, ScenePosTypes
<1>3. [header |-> "ITEM", window |-> i, pos |-> ScenePos(W, i)] \in Entries
  BY <1>1, <1>2 DEF Entries, Points
<1>4. [header |-> "URL"] \in Entries
  BY DEF Entries
<1>5. <<[header |-> "ITEM", window |-> i, pos |-> ScenePos(W, i)]>> \in Seq(Entries)
  BY <1>3
<1>6. (IF i \in Web THEN <<[header |-> "URL"]>> ELSE <<>>) \in Seq(Entries)
  BY <1>4
<1> QED
  BY <1>2, <1>5, <1>6, ConcatProperties DEF ItemEntry

\* The entries of some windows of l: one is written, then the others.
OneByOne(W, l, g) ==
    /\ g \in [SUBSET Inside(W, l) -> Seq(Entries)]
    /\ g[{}] = <<>>
    /\ \A rest \in SUBSET Inside(W, l) : rest # {} =>
          \E i \in rest : g[rest] = ItemEntry(W, i) \o g[rest \ {i}]

\* The windows of a layout are written one by one.
LEMMA ItemEntriesTypes ==
    ASSUME NEW W, IsWall(W), NEW l \in DOMAIN W.layout
    PROVE  \E g : OneByOne(W, l, g) /\ ItemEntries(W, l) = g[Inside(W, l)]
<1> DEFINE I == Inside(W, l)
           D == SUBSET I
           V == Seq(Entries)
           one == [rest \in D |-> CHOOSE k \in rest : TRUE]
           rank == [rest \in D |-> Cardinality(rest)]
           up == [rest \in D |-> rest \ {one[rest]}]
           start == [rest \in D |-> <<>>]
           step == [rest \in D |-> [v \in V |-> ItemEntry(W, one[rest]) \o v]]
           Body(g) == [rest \in D |-> IF rest = {} THEN <<>>
                                      ELSE LET i == CHOOSE k \in rest : TRUE
                                           IN  ItemEntry(W, i) \o g[rest \ {i}]]
           t == CHOOSE g : g = Body(g)
<1>1. ItemEntries(W, l) = t[I]
  BY DEF ItemEntries
<1>2. I \subseteq Window /\ \A rest \in D : IsFiniteSet(rest)
  BY WindowAssumption, FS_Subset DEF Inside
<1>3. \A rest \in D : rest # {} => one[rest] \in rest
  OBVIOUS
<1>4. Descends(D, rank, {{}}, up)
  <2> SUFFICES ASSUME NEW rest \in D
               PROVE  /\ Cardinality(rest) \in Nat
                      /\ rest # {} => up[rest] \in D /\ Cardinality(up[rest]) < Cardinality(rest)
    BY DEF Descends
  <2>1. Cardinality(rest) \in Nat
    BY <1>2, FS_CardinalityType
  <2>2. ASSUME rest # {} PROVE Cardinality(rest \ {one[rest]}) < Cardinality(rest)
    <3>1. one[rest] \in rest
      BY <1>3, <2>2
    <3> HIDE DEF one
    <3>2. Cardinality(rest \ {one[rest]}) = Cardinality(rest) - 1
      BY <1>2, <3>1, FS_RemoveElement
    <3> QED
      BY <2>1, <3>2
  <2> QED
    BY <2>1, <2>2
<1>5. Valued(D, {{}}, V, start, step)
  <2>1. <<>> \in V
    OBVIOUS
  <2>2. ASSUME NEW rest \in D, rest # {}, NEW v \in V PROVE ItemEntry(W, one[rest]) \o v \in V
    <3>1. one[rest] \in I
      BY <1>3, <2>2
    <3>2. ItemEntry(W, one[rest]) \in Seq(Entries)
      BY <3>1, ItemEntryTypes
    <3> HIDE DEF one
    <3> QED
      BY <3>2, ConcatProperties
  <2> HIDE DEF V, one, D
  <2> QED
    BY <2>1, <2>2 DEF Valued
<1>6. PICK g \in [D -> V] : \A rest \in D : g[rest] = Value({{}}, up, start, step, g, rest)
  <2> HIDE DEF D, rank, up, start, step, V
  <2> QED
    BY <1>4, <1>5, Recursion
<1>7. \A rest \in D : rest # {} => up[rest] \in D
  BY <1>4 DEF Descends
<1>8. \A rest \in D : g[rest] = IF rest = {} THEN <<>> ELSE ItemEntry(W, one[rest]) \o g[up[rest]]
  <2> HIDE DEF one, up, D, V
  <2> QED
    BY <1>6, <1>7 DEF Value
<1>9. ASSUME NEW h, NEW rest \in D
      PROVE  Body(h)[rest] = IF rest = {} THEN <<>> ELSE ItemEntry(W, one[rest]) \o h[up[rest]]
  <2>1. one[rest] = CHOOSE k \in rest : TRUE
    OBVIOUS
  <2>2. up[rest] = rest \ {one[rest]}
    OBVIOUS
  <2>3. Body(h)[rest] = IF rest = {} THEN <<>>
                        ELSE ItemEntry(W, CHOOSE k \in rest : TRUE) \o h[rest \ {CHOOSE k \in rest : TRUE}]
    <3> HIDE DEF D, one, up
    <3> QED
      OBVIOUS
  <2> HIDE DEF D, one, up, Body
  <2> QED
    BY <2>1, <2>2, <2>3
<1>10. g = Body(g)
  <2>1. \A rest \in D : Body(g)[rest] = IF rest = {} THEN <<>> ELSE ItemEntry(W, one[rest]) \o g[up[rest]]
    <3> HIDE DEF D, one, up, Body
    <3> QED
      BY <1>9
  <2>2. DOMAIN g = D /\ Body(g) = [rest \in D |-> Body(g)[rest]] /\ g = [rest \in D |-> g[rest]]
    OBVIOUS
  <2>3. \A rest \in D : g[rest] = Body(g)[rest]
    <3> HIDE DEF D, one, up, Body
    <3> QED
      BY <1>8, <2>1
  <2> HIDE DEF D, Body
  <2> QED
    BY <2>2, <2>3
<1>11. t = Body(t)
  <2> HIDE DEF Body
  <2> QED
    BY <1>10
<1> HIDE DEF t
<1>12. \A rest \in D : t[rest] = IF rest = {} THEN <<>> ELSE ItemEntry(W, one[rest]) \o t[up[rest]]
  <2>1. \A rest \in D : Body(t)[rest] = IF rest = {} THEN <<>> ELSE ItemEntry(W, one[rest]) \o t[up[rest]]
    <3> HIDE DEF D, one, up, Body
    <3> QED
      BY <1>9
  <2> HIDE DEF Body, D, one, up
  <2> QED
    BY <1>11, <2>1
<1> DEFINE P == {rest \in D : t[rest] \in V}
<1>13. ASSUME NEW rest \in D, rest \notin {{}} => up[rest] \in P PROVE rest \in P
  <2>1. CASE rest = {}
    <3>1. t[rest] = <<>>
      <4> HIDE DEF D, one, up
      <4> QED
        BY <1>12, <2>1
    <3>2. t[rest] \in V
      BY <3>1
    <3> HIDE DEF D, V
    <3> QED
      BY <3>2
  <2>2. CASE rest # {}
    <3>1. t[rest] = ItemEntry(W, one[rest]) \o t[up[rest]]
      <4> HIDE DEF D, one, up
      <4> QED
        BY <1>12, <2>2
    <3>2. t[up[rest]] \in V
      <4> HIDE DEF D, one, up
      <4> QED
        BY <1>13, <2>2
    <3>3. one[rest] \in I
      BY <1>3, <2>2
    <3>4. ItemEntry(W, one[rest]) \in Seq(Entries)
      BY <3>3, ItemEntryTypes
    <3> HIDE DEF one, up
    <3>5. t[rest] \in V
      BY <3>1, <3>2, <3>4, ConcatProperties
    <3> QED
      BY <3>5
  <2> QED
    BY <2>1, <2>2
<1>14. D \subseteq P
  <2> HIDE DEF D, P, rank, up
  <2> QED
    BY <1>4, <1>13, RankInduction
<1>15. t \in [D -> V]
  <2>1. t = [rest \in D |-> t[rest]]
    BY <1>11
  <2>2. \A rest \in D : t[rest] \in V
    BY <1>14
  <2> HIDE DEF D, V
  <2> QED
    BY <2>1, <2>2
<1>16. t[{}] = <<>>
  BY <1>12
<1>17. \A rest \in D : rest # {} => \E i \in rest : t[rest] = ItemEntry(W, i) \o t[rest \ {i}]
  <2> SUFFICES ASSUME NEW rest \in D, rest # {} PROVE \E i \in rest : t[rest] = ItemEntry(W, i) \o t[rest \ {i}]
    OBVIOUS
  <2>1. t[rest] = ItemEntry(W, one[rest]) \o t[up[rest]]
    <3> HIDE DEF D, one, up
    <3> QED
      BY <1>12
  <2>2. up[rest] = rest \ {one[rest]}
    OBVIOUS
  <2>3. one[rest] \in rest
    BY <1>3
  <2> HIDE DEF one, up
  <2> QED
    BY <2>1, <2>2, <2>3
<1>18. OneByOne(W, l, t)
  <2> HIDE DEF one, up
  <2> QED
    BY <1>15, <1>16, <1>17 DEF OneByOne
<1> QED
  BY <1>1, <1>18

\* The entry of a layout with a bar.
LEMMA LayoutEntryTypes ==
    ASSUME NEW W, IsWall(W), NEW l \in DOMAIN W.layout, W.layout[l].bar # "none"
    PROVE  LayoutEntry(W, W.layout[l]) \in Entries
<1>1. /\ W.layout[l].first \in DOMAIN W.layout /\ W.layout[l].second \in DOMAIN W.layout
      /\ W.layout \in [DOMAIN W.layout -> Nodes]
  BY WallTypes DEF IsWall, Linked
<1>2. /\ AreaOf(W.layout[W.layout[l].first]) \in Rectangles
      /\ AreaOf(W.layout[W.layout[l].second]) \in Rectangles
  BY <1>1, AreaTypes
<1>3. W.layout[l].bar \in {"horizontal", "vertical"}
  BY <1>1 DEF Nodes
<1> QED
  BY <1>2, <1>3 DEF LayoutEntry, Entries

\* A leaf is saved with its windows, another layout with those of its children.
SavedAs(W, k, g) ==
    IF W.layout[k].bar = "none" THEN ItemEntries(W, k) \o <<[header |-> "RETURN"]>>
    ELSE <<LayoutEntry(W, W.layout[k])>> \o g[W.layout[k].first] \o g[W.layout[k].second]

\* The recursion along the children defines what is saved of each layout.
LEMMA SaveSessionTypes ==
    ASSUME NEW W, IsWall(W)
    PROVE  \E g \in [DOMAIN W.layout -> Seq(Entries)] :
              /\ \A k \in DOMAIN W.layout : g[k] = SavedAs(W, k, g)
              /\ \A k \in DOMAIN W.layout : SaveSession(W, k) = g[k]
<1>1. PICK M, depth : M \in Nat /\ Depth(W, depth, M)
  BY DEF IsWall
<1> DEFINE D == DOMAIN W.layout
           V == Seq(Entries)
           rank == [k \in D |-> M - depth[k]]
           needs == [k \in D |-> IF W.layout[k].bar = "none" THEN {} ELSE {W.layout[k].first, W.layout[k].second}]
           step == [k \in D |-> [v \in [needs[k] -> V] |-> SavedAs(W, k, v)]]
           Body(g) == [k \in D |-> LET n == W.layout[k]
                                   IN  IF n.bar = "none" THEN ItemEntries(W, k) \o <<[header |-> "RETURN"]>>
                                       ELSE <<LayoutEntry(W, n)>> \o g[n.first] \o g[n.second]]
           t == CHOOSE g : g = Body(g)
<1>2. \A k : SaveSession(W, k) = t[k]
  BY DEF SaveSession
<1>3. Ranked(D, rank, needs)
  <2>1. \A k \in D : depth[k] \in 0..M
    BY <1>1 DEF Depth
  <2>2. rank \in [D -> Nat]
    BY <1>1, <2>1
  <2>3. ASSUME NEW k \in D, NEW j \in needs[k] PROVE j \in D /\ rank[j] < rank[k]
    <3>1. W.layout[k].bar # "none" /\ j \in {W.layout[k].first, W.layout[k].second}
      BY <2>3
    <3>2. j \in D /\ W.layout[j].parent = k
      BY <3>1 DEF IsWall, Linked
    <3>3. j # Root
      BY <3>2, WallTypes DEF IsWall, Linked, Nowhere
    <3>4. depth[k] < depth[j]
      BY <1>1, <3>2, <3>3 DEF Depth
    <3> QED
      BY <1>1, <2>1, <3>2, <3>4
  <2> HIDE DEF rank, needs
  <2> QED
    BY <2>2, <2>3 DEF Ranked
<1>4. ASSUME NEW k \in D, W.layout[k].bar = "none" PROVE ItemEntries(W, k) \o <<[header |-> "RETURN"]>> \in V
  <2>1. PICK g : OneByOne(W, k, g) /\ ItemEntries(W, k) = g[Inside(W, k)]
    BY ItemEntriesTypes
  <2>2. ItemEntries(W, k) \in Seq(Entries)
    BY <2>1 DEF OneByOne
  <2>3. <<[header |-> "RETURN"]>> \in Seq(Entries)
    <3>1. [header |-> "RETURN"] \in Entries
      BY DEF Entries
    <3> QED
      BY <3>1
  <2> QED
    BY <2>2, <2>3, ConcatProperties
<1>5. ASSUME NEW k \in D, W.layout[k].bar # "none", NEW a \in V, NEW b \in V
      PROVE  <<LayoutEntry(W, W.layout[k])>> \o a \o b \in V
  <2>1. LayoutEntry(W, W.layout[k]) \in Entries
    BY <1>5, LayoutEntryTypes
  <2>2. <<LayoutEntry(W, W.layout[k])>> \in Seq(Entries)
    BY <2>1
  <2> QED
    BY <2>2, ConcatProperties
<1>6. MadeIn(D, needs, V, step)
  <2> SUFFICES ASSUME NEW k \in D, NEW v \in [needs[k] -> V] PROVE step[k][v] \in V
    BY DEF MadeIn
  <2>1. step[k][v] = SavedAs(W, k, v)
    OBVIOUS
  <2>2. W.layout[k].bar # "none" => v[W.layout[k].first] \in V /\ v[W.layout[k].second] \in V
    OBVIOUS
  <2> HIDE DEF step, needs, V, D
  <2> QED
    BY <1>4, <1>5, <2>1, <2>2 DEF SavedAs
<1>7. PICK g \in [D -> V] : \A k \in D : g[k] = Made(needs, step, g, k)
  <2> HIDE DEF D, rank, needs, V, step
  <2> QED
    BY <1>3, <1>6, RankedRecursion
<1>8. \A k \in D : g[k] = SavedAs(W, k, g)
  <2> SUFFICES ASSUME NEW k \in D PROVE g[k] = SavedAs(W, k, g)
    OBVIOUS
  <2> DEFINE v == [j \in needs[k] |-> g[j]]
  <2>1. v \in [needs[k] -> V]
    BY <1>3 DEF Ranked
  <2>2. step[k][v] = SavedAs(W, k, v)
    <3> HIDE DEF v
    <3> QED
      BY <2>1
  <2>3. g[k] = step[k][v]
    <3> HIDE DEF step, needs
    <3> QED
      BY <1>7 DEF Made
  <2>4. W.layout[k].bar # "none" =>
           v[W.layout[k].first] = g[W.layout[k].first] /\ v[W.layout[k].second] = g[W.layout[k].second]
    OBVIOUS
  <2> HIDE DEF v, step, needs
  <2> QED
    BY <2>2, <2>3, <2>4 DEF SavedAs
<1>9. \A h : Body(h) = [k \in D |-> SavedAs(W, k, h)]
  BY DEF SavedAs
<1>10. g = Body(g)
  <2>1. g = [k \in D |-> g[k]]
    OBVIOUS
  <2> HIDE DEF Body, D
  <2> QED
    BY <1>8, <1>9, <2>1
<1>11. t = Body(t)
  <2> HIDE DEF Body
  <2> QED
    BY <1>10
<1> HIDE DEF t
<1>12. \A k \in D : t[k] = SavedAs(W, k, t)
  <2> HIDE DEF Body
  <2>1. t = [k \in D |-> SavedAs(W, k, t)]
    BY <1>9, <1>11
  <2> HIDE DEF D
  <2> QED
    BY <2>1
<1> DEFINE P == {k \in D : t[k] \in V}
<1>13. ASSUME NEW k \in D, \A j \in D : rank[j] < rank[k] => j \in P PROVE k \in P
  <2>1. \A j \in needs[k] : t[j] \in V
    <3>1. \A j \in needs[k] : j \in P
      <4> HIDE DEF P, D, rank, needs
      <4> QED
        BY <1>3, <1>13 DEF Ranked
    <3> QED
      BY <3>1
  <2>2. W.layout[k].bar # "none" => t[W.layout[k].first] \in V /\ t[W.layout[k].second] \in V
    BY <2>1
  <2>3. t[k] \in V
    <3> HIDE DEF D, V, needs
    <3> QED
      BY <1>4, <1>5, <1>12, <2>2 DEF SavedAs
  <2> QED
    BY <2>3
<1>14. D \subseteq P
  <2>1. rank \in [D -> Nat]
    BY <1>3 DEF Ranked
  <2> HIDE DEF D, P, rank
  <2> QED
    BY <1>13, <2>1, StrongInduction
<1>15. t \in [D -> V]
  <2>1. t = [k \in D |-> SavedAs(W, k, t)]
    <3> HIDE DEF Body
    <3> QED
      BY <1>9, <1>11
  <2>2. \A k \in D : SavedAs(W, k, t) \in V
    <3> HIDE DEF V, D
    <3>1. \A k \in D : t[k] \in V
      BY <1>14
    <3> QED
      BY <1>12, <3>1
  <2> HIDE DEF D, V
  <2> QED
    BY <2>1, <2>2
<1> HIDE DEF V, D
<1> QED
  BY <1>2, <1>12, <1>15 DEF D, V

\* The layouts below l are l itself and those below its children.
LEMMA BelowParts ==
    ASSUME NEW W, IsWall(W), NEW l \in DOMAIN W.layout, W.layout[l].bar # "none"
    PROVE  LET a == W.layout[l].first
               b == W.layout[l].second
           IN  /\ Below(W, l) = {l} \cup Below(W, a) \cup Below(W, b)
               /\ Below(W, a) \cap Below(W, b) = {}
               /\ l \notin Below(W, a) /\ l \notin Below(W, b)
<1> DEFINE D == DOMAIN W.layout
           a == W.layout[l].first
           b == W.layout[l].second
           A == Below(W, a)
           B == Below(W, b)
           T == {l} \cup A \cup B
           S == B \ A
<1>1. Linked(W) /\ D \subseteq Nat \ {0}
  BY WallTypes DEF IsWall
<1>2. a \in D /\ b \in D /\ a # b /\ W.layout[a].parent = l /\ W.layout[b].parent = l
  BY <1>1 DEF Linked
<1>3. /\ l \notin A /\ \A k \in A : k = a \/ W.layout[k].parent \in A
      /\ l \notin B
  BY <1>2, BelowIsDeeper
<1>4. /\ A \subseteq D /\ a \in A /\ (\A k \in D : W.layout[k].parent \in A => k \in A)
      /\ B \subseteq D /\ b \in B /\ (\A k \in D : W.layout[k].parent \in B => k \in B)
  BY <1>2, BelowTypes
<1>5. \A k \in D : W.layout[k].parent = l => k = a \/ k = b
  <2> SUFFICES ASSUME NEW k \in D, W.layout[k].parent = l PROVE k = a \/ k = b
    OBVIOUS
  <2>1. k # Root
    BY <1>1 DEF Linked, Nowhere
  <2> QED
    BY <1>1, <2>1 DEF Linked
<1> HIDE DEF A, B, a, b
<1>6. Below(W, l) \subseteq T
  <2>1. T \in SUBSET D /\ l \in T
    BY <1>4
  <2>2. \A k \in D : W.layout[k].parent \in T => k \in T
    BY <1>4, <1>5
  <2> HIDE DEF T
  <2> QED
    BY <2>1, <2>2, BelowTypes DEF D
<1>7. /\ l \in Below(W, l) /\ Below(W, l) \subseteq D
      /\ \A k \in D : W.layout[k].parent \in Below(W, l) => k \in Below(W, l)
  BY BelowTypes
<1>8. a \in Below(W, l) /\ b \in Below(W, l)
  BY <1>2, <1>7
<1>9. A \subseteq Below(W, l)
  BY <1>2, <1>7, <1>8, BelowTypes DEF A
<1>10. B \subseteq Below(W, l)
  BY <1>2, <1>7, <1>8, BelowTypes DEF B
<1>11. B \subseteq S
  <2>1. S \in SUBSET D
    BY <1>4
  <2>2. b \in S
    BY <1>2, <1>3, <1>4
  <2>3. \A k \in D : W.layout[k].parent \in S => k \in S
    BY <1>2, <1>3, <1>4
  <2> HIDE DEF S
  <2> QED
    BY <1>2, <2>1, <2>2, <2>3, BelowTypes DEF B
<1>12. A \cap B = {}
  BY <1>11
<1>13. Below(W, l) = T
  BY <1>6, <1>7, <1>9, <1>10
<1> QED
  BY <1>3, <1>12, <1>13 DEF A, B, a, b

\* There is nothing below a leaf.
LEMMA BelowLeaf ==
    ASSUME NEW W, IsWall(W), NEW l \in DOMAIN W.layout, W.layout[l].bar = "none"
    PROVE  Below(W, l) = {l}
<1>1. \A k \in DOMAIN W.layout : W.layout[k].parent # l
  <2>1. Linked(W) /\ DOMAIN W.layout \subseteq Nat \ {0}
    BY WallTypes DEF IsWall
  <2> SUFFICES ASSUME NEW k \in DOMAIN W.layout, W.layout[k].parent = l PROVE FALSE
    OBVIOUS
  <2>2. k # Root
    BY <2>1 DEF Linked, Nowhere
  <2> QED
    BY <2>1, <2>2 DEF Linked
<1>2. {l} \in SUBSET DOMAIN W.layout /\ \A k \in DOMAIN W.layout : W.layout[k].parent \in {l} => k \in {l}
  BY <1>1
<1>3. Below(W, l) \subseteq {l}
  BY <1>2, BelowTypes
<1> QED
  BY <1>3, BelowTypes

\* All leaves are reached from the root.
LEMMA LeavesOfRoot ==
    ASSUME NEW W, IsWall(W)
    PROVE  Leaves(W, Root) = {k \in DOMAIN W.layout : W.layout[k].bar = "none"}
<1> DEFINE D == DOMAIN W.layout
           children == [j \in D |-> IF W.layout[j].bar = "none" THEN {} ELSE {W.layout[j].first, W.layout[j].second}]
           R == Reach(children, Root)
<1>1. Linked(W) /\ Root \in D
  BY DEF IsWall, Linked
<1>2. Leaves(W, Root) = {j \in R : W.layout[j].bar = "none"}
  BY DEF Leaves
<1>3. /\ DOMAIN children = D
      /\ \A j \in D : W.layout[j].bar # "none" => children[j] = {W.layout[j].first, W.layout[j].second}
      /\ \A j \in D : children[j] \subseteq D
  BY <1>1 DEF Linked
<1> HIDE DEF children
<1>4. R \subseteq D /\ Root \in R /\ \A j \in R : children[j] \subseteq R
  BY <1>1, <1>3, ReachTypes
<1> HIDE DEF R
<1>5. ASSUME NEW k \in D, k # Root => W.layout[k].parent \in R PROVE k \in R
  <2>1. CASE k = Root
    BY <1>4, <2>1
  <2>2. CASE k # Root
    <3>1. k \in children[W.layout[k].parent]
      BY <1>1, <1>3, <2>2 DEF Linked
    <3> QED
      BY <1>4, <1>5, <2>2, <3>1
  <2> QED
    BY <2>1, <2>2
<1>6. D \subseteq R
  BY <1>5, FromRoot
<1> QED
  BY <1>2, <1>4, <1>6

\* The windows in rest are put into layout k of V, where they are in S.
Placed(S, V, k, X, rest) ==
    /\ X.layout = V.layout
    /\ \A i \in rest : X.window[i].at = k /\ ScenePos(X, i) = ScenePos(S, i)
    /\ \A i \in Window \ rest : X.window[i] = V.window[i]

\* The entry of a window puts it where it was saved ...
LEMMA ItemPlaced ==
    ASSUME NEW S, IsWall(S), Web = {}, NEW l \in DOMAIN S.layout, NEW i \in Inside(S, l),
           NEW v \in LoadStates, v.todo # <<>>, v.wall.window[i].at = Nowhere
    PROVE  \E X : /\ Reads(ItemEntry(S, i), v, [wall |-> X, todo |-> v.todo])
                  /\ Placed(S, v.wall, Head(v.todo), X, {i})
<1> DEFINE V == v.wall
           k == Head(v.todo)
           p == ScenePos(S, i)
           e == [header |-> "ITEM", window |-> i, pos |-> p]
           X == [V EXCEPT !.window[i] = In(V, k, p)]
           u == [wall |-> X, todo |-> v.todo]
<1>1. i \in Window /\ p \in Points
  BY ItemEntryTypes DEF Inside
<1>2. e \in Entries
  BY <1>1 DEF Entries, Points
<1>3. e.header = "ITEM" /\ e.window = i /\ e.pos = p
  OBVIOUS
<1>4. ItemEntry(S, i) = <<e>>
  <2>1. ItemEntry(S, i) = <<e>> \o <<>>
    BY DEF ItemEntry
  <2>2. <<e>> \o <<>> = <<e>>
    <3> <<e>> \in Seq(Entries)
      BY <1>2
    <3> HIDE DEF e
    <3> QED
      BY ConcatEmptySeq
  <2> QED
    BY <2>1, <2>2
<1> HIDE DEF e
<1>5. /\ v = [wall |-> V, todo |-> v.todo] /\ IsWall(V) /\ InLeaves(V) /\ Waiting(V, v.todo)
  BY DEF LoadStates
<1>6. k \in DOMAIN V.layout /\ V.layout[k].bar = "none"
  BY <1>5, TailTypes
<1>7. LoadItem(V, k, e) = X
  BY <1>1, <1>3 DEF LoadItem
<1>8. LoadEntry(v, e) = u
  <2>1. LoadEntry(v, e) = [v EXCEPT !.wall = LoadItem(@, k, e)]
    BY <1>3 DEF LoadEntry
  <2>2. [v EXCEPT !.wall = X] = [wall |-> X, todo |-> v.todo]
    <3> HIDE DEF X
    <3> QED
      BY <1>5
  <2> QED
    BY <1>7, <2>1, <2>2
<1>9. Reads(<<e>>, v, u)
  BY <1>2, <1>8, ReadsOne
<1>10. /\ IsWall(X) /\ X.layout = V.layout
       /\ X.window = [V.window EXCEPT ![i] = In(V, k, p)]
       /\ X.window[i].at = k
       /\ \A j \in Window \ {i} : X.window[j] = V.window[j]
  <2>1. X = [V EXCEPT !.window[i] = In(V, k, p)]
    OBVIOUS
  <2>2. IsWall(V) /\ InLeaves(V)
    BY <1>5
  <2> HIDE DEF X, V, k, p, u
  <2>3. IsWall(X) /\ X.layout = V.layout
    <3>1. LET Y == [V EXCEPT !.window[i] = In(V, k, p)] IN IsWall(Y) /\ Y.layout = V.layout
      <4>1. /\ IsWall(V) /\ InLeaves(V) /\ i \in Window /\ p \in Points
            /\ k \in DOMAIN V.layout /\ V.layout[k].bar = "none"
        BY <1>1, <1>6, <2>2
      <4> QED
        BY ONLY <4>1, PutTypes
    <3> QED
      BY <2>1, <3>1
  <2>4. X.window = [V.window EXCEPT ![i] = In(V, k, p)]
    BY <1>5, <2>1, WallTypes DEF IsWall
  <2>5. V.window \in [Window -> Views]
    BY <2>2, WallTypes DEF IsWall
  <2>6. X.window[i].at = k /\ \A j \in Window \ {i} : X.window[j] = V.window[j]
    BY <1>1, <2>4, <2>5 DEF In
  <2> QED
    BY <2>3, <2>4, <2>6
<1> HIDE DEF X
<1>11. ScenePos(X, i) = p
  <2>1. X.window[i] = In(V, k, p)
    <3>1. V.window \in [Window -> Views]
      BY <1>5, WallTypes DEF IsWall
    <3> QED
      BY <1>1, <1>10, <3>1
  <2>2. Origin(X, k) = Origin(V, k)
    BY <1>10, OriginOfLayouts
  <2>3. Point(Origin(V, k).x + In(V, k, p).x, Origin(V, k).y + In(V, k, p).y) = p
    BY <1>1, <1>5, <1>6, InTypes
  <2> QED
    BY <1>10, <2>1, <2>2, <2>3 DEF ScenePos
<1>12. Placed(S, V, k, X, {i})
  BY <1>10, <1>11 DEF Placed
<1> QED
  BY <1>4, <1>9, <1>12

\* ... and so do those of all windows of a layout.
LEMMA ItemsPlaced ==
    ASSUME NEW S, IsWall(S), Web = {}, NEW l \in DOMAIN S.layout, NEW g, OneByOne(S, l, g)
    PROVE  \A rest \in SUBSET Inside(S, l) : \A v \in LoadStates :
              v.todo # <<>> /\ (\A i \in rest : v.wall.window[i].at = Nowhere)
                 => \E X : /\ Reads(g[rest], v, [wall |-> X, todo |-> v.todo])
                           /\ Placed(S, v.wall, Head(v.todo), X, rest)
<1> DEFINE I == Inside(S, l)
           D == SUBSET I
           rank == [rest \in D |-> Cardinality(rest)]
           Result(rest, v) == \E X : /\ Reads(g[rest], v, [wall |-> X, todo |-> v.todo])
                                     /\ Placed(S, v.wall, Head(v.todo), X, rest)
           P == {rest \in D : \A v \in LoadStates :
                    v.todo # <<>> /\ (\A i \in rest : v.wall.window[i].at = Nowhere) => Result(rest, v)}
<1>1. I \subseteq Window /\ \A rest \in D : IsFiniteSet(rest) /\ Cardinality(rest) \in Nat
  BY WindowAssumption, FS_Subset, FS_CardinalityType DEF Inside
<1>2. rank \in [D -> Nat]
  BY <1>1
<1>3. ASSUME NEW rest \in D, \A r \in D : rank[r] < rank[rest] => r \in P PROVE rest \in P
  <2> SUFFICES ASSUME NEW v \in LoadStates, v.todo # <<>>, \A i \in rest : v.wall.window[i].at = Nowhere
               PROVE  Result(rest, v)
    OBVIOUS
  <2>1. CASE rest = {}
    <3>1. g[rest] = <<>>
      BY <2>1 DEF OneByOne
    <3>2. v = [wall |-> v.wall, todo |-> v.todo]
      BY DEF LoadStates
    <3>3. Reads(<<>>, v, v)
      BY ReadsNone
    <3>4. Placed(S, v.wall, Head(v.todo), v.wall, {})
      BY DEF Placed
    <3> QED
      BY <2>1, <3>1, <3>2, <3>3, <3>4
  <2>2. CASE rest # {}
    <3>1. PICK i \in rest : g[rest] = ItemEntry(S, i) \o g[rest \ {i}]
      BY <2>2 DEF OneByOne
    <3> DEFINE r == rest \ {i}
    <3>2. r \in D /\ r \in P
      <4>1. Cardinality(r) = Cardinality(rest) - 1
        BY <1>1, FS_RemoveElement
      <4>2. rank[r] < rank[rest] /\ r \in D
        BY <1>1, <4>1
      <4> HIDE DEF P, rank, D
      <4> QED
        BY <1>3, <4>2
    <3>3. i \in I /\ i \in Window /\ v.wall.window[i].at = Nowhere
      BY <1>1
    <3>4. PICK Y : /\ Reads(ItemEntry(S, i), v, [wall |-> Y, todo |-> v.todo])
                   /\ Placed(S, v.wall, Head(v.todo), Y, {i})
      BY <3>3, ItemPlaced
    <3> DEFINE u == [wall |-> Y, todo |-> v.todo]
    <3>5. ItemEntry(S, i) \in Seq(Entries) /\ g[r] \in Seq(Entries)
      BY <3>2, <3>3, ItemEntryTypes DEF OneByOne
    <3>6. u \in LoadStates /\ u.wall = Y /\ u.todo = v.todo
      BY <3>4, <3>5, ReadsTypes
    <3> HIDE DEF u
    <3>7. \A j \in r : u.wall.window[j].at = Nowhere
      BY <1>1, <3>4, <3>6 DEF Placed
    <3>8. PICK X : /\ Reads(g[r], u, [wall |-> X, todo |-> u.todo])
                   /\ Placed(S, u.wall, Head(u.todo), X, r)
      <4>1. Result(r, u)
        <5> HIDE DEF Result, r, D
        <5> QED
          BY <3>2, <3>6, <3>7
      <4> QED
        BY <4>1
    <3>9. Reads(g[rest], v, [wall |-> X, todo |-> v.todo])
      <4>1. Reads(ItemEntry(S, i), v, u)
        BY <3>4 DEF u
      <4>2. Reads(ItemEntry(S, i) \o g[r], v, [wall |-> X, todo |-> u.todo])
        BY <3>5, <3>8, <4>1, ReadsBoth
      <4> QED
        BY <3>1, <3>6, <4>2
    <3>10. Placed(S, v.wall, Head(v.todo), X, rest)
      <4>1. X.layout = v.wall.layout
        BY <3>4, <3>6, <3>8 DEF Placed
      <4>2. X.window[i] = Y.window[i]
        BY <3>3, <3>6, <3>8 DEF Placed
      <4>3. ScenePos(X, i) = ScenePos(Y, i)
        <5>1. Origin(X, Y.window[i].at) = Origin(Y, Y.window[i].at)
          BY <3>6, <3>8, OriginOfLayouts DEF Placed
        <5> QED
          BY <4>2, <5>1 DEF ScenePos
      <4>4. X.window[i].at = Head(v.todo) /\ ScenePos(X, i) = ScenePos(S, i)
        BY <3>4, <4>2, <4>3 DEF Placed
      <4>5. \A j \in rest : X.window[j].at = Head(v.todo) /\ ScenePos(X, j) = ScenePos(S, j)
        BY <3>6, <3>8, <4>4 DEF Placed
      <4>6. \A j \in Window \ rest : X.window[j] = v.wall.window[j]
        BY <3>4, <3>6, <3>8 DEF Placed
      <4> QED
        BY <4>1, <4>5, <4>6 DEF Placed
    <3> QED
      BY <3>9, <3>10
  <2> QED
    BY <2>1, <2>2
<1>4. D \subseteq P
  <2> HIDE DEF D, P, rank
  <2> QED
    BY <1>2, <1>3, StrongInduction
<1> QED
  BY <1>4

\* Layout k of V can take what is in and below layout l of S.
Fits(S, l, V, k) ==
    /\ Extent(V, k) = Extent(S, l)
    /\ \A i \in Window : V.window[i].at # k
    /\ \A i \in Window : S.window[i].at \in Below(S, l) => V.window[i].at = Nowhere

\* X is V with what is in and below layout l of S in its layout k; p[a] is the layout that
\* stands for a.
Grown(S, l, V, k, X, p) ==
    /\ DOMAIN X.layout = DOMAIN V.layout \cup {p[a] : a \in Below(S, l)}
    /\ p[l] = k
    /\ \A a \in Below(S, l) : a = l \/ p[a] \notin DOMAIN V.layout
    /\ \A a, b \in Below(S, l) : p[a] = p[b] => a = b
    /\ \A a \in Below(S, l) : /\ X.layout[p[a]].bar = "none" <=> S.layout[a].bar = "none"
                              /\ Extent(X, p[a]) = Extent(S, a)
    /\ \A j \in DOMAIN V.layout \ {k} : X.layout[j].bar = V.layout[j].bar /\ Extent(X, j) = Extent(V, j)
    /\ \A i \in Window : S.window[i].at \in Below(S, l) =>
          X.window[i].at = p[S.window[i].at] /\ ScenePos(X, i) = ScenePos(S, i)
    /\ \A i \in Window : S.window[i].at \notin Below(S, l) => X.window[i] = V.window[i]

\* A window whose layout has the same extent is at the same place.
LEMMA SameScenePos ==
    ASSUME NEW X, NEW Y, NEW i, X.window[i] = Y.window[i], Extent(X, Y.window[i].at) = Extent(Y, Y.window[i].at)
    PROVE  ScenePos(X, i) = ScenePos(Y, i)
<1>1. Origin(X, Y.window[i].at) = Origin(Y, Y.window[i].at)
  BY DEF Extent
<1> QED
  BY <1>1 DEF ScenePos

\* A leaf and its windows.
LEMMA GrownLeaf ==
    ASSUME NEW S, IsWall(S), Web = {}, NEW l \in DOMAIN S.layout, S.layout[l].bar = "none",
           NEW v \in LoadStates, v.todo # <<>>, Fits(S, l, v.wall, Head(v.todo))
    PROVE  \E X, p : /\ Reads(ItemEntries(S, l) \o <<[header |-> "RETURN"]>>, v,
                              [wall |-> X, todo |-> Tail(v.todo)])
                     /\ Grown(S, l, v.wall, Head(v.todo), X, p)
<1> DEFINE V == v.wall
           k == Head(v.todo)
           e == [header |-> "RETURN"]
           p == [a \in {l} |-> k]
<1>1. PICK g : OneByOne(S, l, g) /\ ItemEntries(S, l) = g[Inside(S, l)]
  BY ItemEntriesTypes
<1>2. Below(S, l) = {l}
  BY BelowLeaf
<1>3. \A i \in Inside(S, l) : i \in Window /\ V.window[i].at = Nowhere
  BY <1>2 DEF Inside, Fits
<1>4. PICK X : /\ Reads(g[Inside(S, l)], v, [wall |-> X, todo |-> v.todo])
               /\ Placed(S, V, k, X, Inside(S, l))
  <2>1. Inside(S, l) \in SUBSET Inside(S, l)
    OBVIOUS
  <2> QED
    BY <1>1, <1>3, <2>1, ItemsPlaced
<1> DEFINE u == [wall |-> X, todo |-> v.todo]
           w == [wall |-> X, todo |-> Tail(v.todo)]
<1>5. ItemEntries(S, l) \in Seq(Entries) /\ Reads(ItemEntries(S, l), v, u)
  BY <1>1, <1>4 DEF OneByOne
<1>6. u \in LoadStates
  BY <1>5, ReadsTypes
<1>7. e \in Entries
  BY DEF Entries
<1>8. LoadEntry(u, e) = w
  BY DEF LoadEntry
<1>9. Reads(<<e>>, u, w)
  <2> HIDE DEF u, w, e
  <2> QED
    BY <1>6, <1>7, <1>8, ReadsOne
<1>10. Reads(ItemEntries(S, l) \o <<e>>, v, w)
  <2>1. <<e>> \in Seq(Entries)
    BY <1>7
  <2> HIDE DEF u, w, e
  <2> QED
    BY <1>5, <1>9, <2>1, ReadsBoth
<1>11. X.layout = V.layout
  BY <1>4 DEF Placed
<1>12. \A j : Extent(X, j) = Extent(V, j)
  BY <1>11, OriginOfLayouts DEF Extent
<1>13. k \in DOMAIN V.layout /\ V.layout[k].bar = "none"
  BY TailTypes DEF LoadStates
<1>14. p[l] = k /\ {p[a] : a \in {l}} = {k}
  OBVIOUS
<1> HIDE DEF p, k, V
<1>15. \A i \in Window : /\ S.window[i].at \in {l} => X.window[i].at = p[S.window[i].at] /\ ScenePos(X, i) = ScenePos(S, i)
                         /\ S.window[i].at \notin {l} => X.window[i] = V.window[i]
  BY <1>4, <1>14 DEF Placed, Inside
<1>16. Extent(V, k) = Extent(S, l)
  BY DEF Fits, V, k
<1>17. Grown(S, l, V, k, X, p)
  BY <1>2, <1>11, <1>12, <1>13, <1>14, <1>15, <1>16 DEF Grown
<1> HIDE DEF w, e
<1>18. Reads(ItemEntries(S, l) \o <<[header |-> "RETURN"]>>, v, [wall |-> X, todo |-> Tail(v.todo)])
  BY <1>10 DEF w, e
<1> QED
  BY <1>17, <1>18 DEF V, k

\* U is V with layout k split for the children a and b of layout l of S.
Halved(S, l, a, b, V, k, U, f, s) ==
    /\ l \in DOMAIN S.layout /\ S.layout[l].bar # "none" /\ a = S.layout[l].first /\ b = S.layout[l].second
    /\ k \in DOMAIN V.layout /\ Extent(V, k) = Extent(S, l)
    /\ f # s /\ f \notin DOMAIN V.layout /\ s \notin DOMAIN V.layout
    /\ DOMAIN U.layout = DOMAIN V.layout \cup {f, s}
    /\ U.layout[k].bar # "none"
    /\ \A j \in DOMAIN V.layout \ {k} : U.layout[j].bar = V.layout[j].bar
    /\ \A j \in DOMAIN V.layout : Extent(U, j) = Extent(V, j)
    /\ \A i \in Window : U.window[i] = V.window[i]

\* A layout whose two children have grown.
LEMMA GrownBar ==
    ASSUME NEW S, IsWall(S), InLeaves(S), NEW l, NEW a, NEW b,
           NEW V, NEW k, NEW U, NEW f, NEW s, Halved(S, l, a, b, V, k, U, f, s),
           NEW X, NEW p, Grown(S, a, U, f, X, p), NEW Y, NEW q, Grown(S, b, X, s, Y, q)
    PROVE  \E r : Grown(S, l, V, k, Y, r)
<1> DEFINE A == Below(S, a)
           B == Below(S, b)
           r == [c \in Below(S, l) |-> IF c = l THEN k ELSE IF c \in A THEN p[c] ELSE q[c]]
<1>1. l \in DOMAIN S.layout /\ S.layout[l].bar # "none" /\ a = S.layout[l].first /\ b = S.layout[l].second
  BY DEF Halved
<1>2. /\ k \in DOMAIN V.layout /\ Extent(V, k) = Extent(S, l)
      /\ f # s /\ f \notin DOMAIN V.layout /\ s \notin DOMAIN V.layout
      /\ DOMAIN U.layout = DOMAIN V.layout \cup {f, s}
      /\ U.layout[k].bar # "none"
      /\ \A j \in DOMAIN V.layout \ {k} : U.layout[j].bar = V.layout[j].bar
      /\ \A j \in DOMAIN V.layout : Extent(U, j) = Extent(V, j)
      /\ \A i \in Window : U.window[i] = V.window[i]
  BY DEF Halved
<1>3. /\ Below(S, l) = {l} \cup A \cup B
      /\ A \cap B = {} /\ l \notin A /\ l \notin B
  <2>1. A = Below(S, S.layout[l].first) /\ B = Below(S, S.layout[l].second)
    BY <1>1
  <2> HIDE DEF A, B
  <2> QED
    BY <1>1, <2>1, BelowParts
<1>4. a \in A /\ b \in B
  <2>1. a \in DOMAIN S.layout /\ b \in DOMAIN S.layout
    BY <1>1 DEF IsWall, Linked
  <2> QED
    BY <2>1, BelowTypes
<1>5. /\ r[l] = k
      /\ \A c \in A : r[c] = p[c]
      /\ \A c \in B : r[c] = q[c]
  BY <1>3
<1>6. {r[c] : c \in Below(S, l)} = {k} \cup {p[c] : c \in A} \cup {q[c] : c \in B}
  <2> HIDE DEF r, A, B
  <2> QED
    BY <1>3, <1>5
<1> HIDE DEF r
<1>7. /\ DOMAIN X.layout = DOMAIN U.layout \cup {p[c] : c \in A}
      /\ p[a] = f
      /\ \A c \in A : c = a \/ p[c] \notin DOMAIN U.layout
      /\ \A c, d \in A : p[c] = p[d] => c = d
      /\ \A c \in A : (X.layout[p[c]].bar = "none" <=> S.layout[c].bar = "none") /\ Extent(X, p[c]) = Extent(S, c)
      /\ \A j \in DOMAIN U.layout \ {f} : X.layout[j].bar = U.layout[j].bar /\ Extent(X, j) = Extent(U, j)
      /\ \A i \in Window : S.window[i].at \in A => X.window[i].at = p[S.window[i].at] /\ ScenePos(X, i) = ScenePos(S, i)
      /\ \A i \in Window : S.window[i].at \notin A => X.window[i] = U.window[i]
  BY DEF Grown
<1>8. /\ DOMAIN Y.layout = DOMAIN X.layout \cup {q[c] : c \in B}
      /\ q[b] = s
      /\ \A c \in B : c = b \/ q[c] \notin DOMAIN X.layout
      /\ \A c, d \in B : q[c] = q[d] => c = d
      /\ \A c \in B : (Y.layout[q[c]].bar = "none" <=> S.layout[c].bar = "none") /\ Extent(Y, q[c]) = Extent(S, c)
      /\ \A j \in DOMAIN X.layout \ {s} : Y.layout[j].bar = X.layout[j].bar /\ Extent(Y, j) = Extent(X, j)
      /\ \A i \in Window : S.window[i].at \in B => Y.window[i].at = q[S.window[i].at] /\ ScenePos(Y, i) = ScenePos(S, i)
      /\ \A i \in Window : S.window[i].at \notin B => Y.window[i] = X.window[i]
  BY DEF Grown
<1> HIDE DEF A, B
<1>9. DOMAIN Y.layout = DOMAIN V.layout \cup {r[c] : c \in Below(S, l)}
  <2> DEFINE PA == {p[c] : c \in A}
             QB == {q[c] : c \in B}
  <2>1. f \in PA /\ s \in QB
    BY <1>4, <1>7, <1>8
  <2>2. /\ DOMAIN Y.layout = DOMAIN X.layout \cup QB /\ DOMAIN X.layout = DOMAIN U.layout \cup PA
        /\ {r[c] : c \in Below(S, l)} = {k} \cup PA \cup QB
    BY <1>6, <1>7, <1>8
  <2> HIDE DEF PA, QB
  <2> QED
    BY <1>2, <2>1, <2>2
<1>10. \A c \in A : p[c] \in DOMAIN X.layout /\ p[c] # s /\ p[c] \notin DOMAIN V.layout
  BY <1>7, <1>2
<1>11. \A c \in B : q[c] \notin DOMAIN V.layout /\ \A d \in A : q[c] # p[d]
  BY <1>7, <1>8, <1>10, <1>2
<1>12. \A c \in Below(S, l) : c = l \/ r[c] \notin DOMAIN V.layout
  BY <1>3, <1>5, <1>10, <1>11
<1>13. \A c, d \in Below(S, l) : r[c] = r[d] => c = d
  BY <1>3, <1>5, <1>7, <1>8, <1>10, <1>11, <1>2
<1>14. \A j \in DOMAIN V.layout : j \in DOMAIN U.layout \ {f} /\ j \in DOMAIN X.layout \ {s}
  BY <1>7, <1>2
<1>15. \A j \in DOMAIN V.layout : Y.layout[j].bar = U.layout[j].bar /\ Extent(Y, j) = Extent(V, j)
  BY <1>7, <1>8, <1>14, <1>2
<1>16. \A c \in A : (Y.layout[p[c]].bar = "none" <=> S.layout[c].bar = "none") /\ Extent(Y, p[c]) = Extent(S, c)
  BY <1>7, <1>8, <1>10
<1>17. \A c \in Below(S, l) : /\ Y.layout[r[c]].bar = "none" <=> S.layout[c].bar = "none"
                              /\ Extent(Y, r[c]) = Extent(S, c)
  BY <1>3, <1>5, <1>8, <1>15, <1>16, <1>2, <1>1
<1>18. ASSUME NEW i \in Window, S.window[i].at \in Below(S, l)
       PROVE  Y.window[i].at = r[S.window[i].at] /\ ScenePos(Y, i) = ScenePos(S, i)
  <2>1. CASE S.window[i].at \in B
    BY <1>5, <1>8, <2>1
  <2>2. CASE S.window[i].at \in A
    <3>1. Y.window[i] = X.window[i] /\ X.window[i].at = p[S.window[i].at] /\ ScenePos(X, i) = ScenePos(S, i)
      BY <1>3, <1>7, <1>8, <2>2
    <3>2. Extent(Y, X.window[i].at) = Extent(X, X.window[i].at)
      BY <1>8, <1>10, <2>2, <3>1
    <3> QED
      BY <1>5, <2>2, <3>1, <3>2, SameScenePos
  <2>3. S.window[i].at # l
    BY <1>1, WallTypes DEF IsWall, InLeaves, Nowhere, MinimizeBar
  <2> QED
    BY <1>3, <1>18, <2>1, <2>2, <2>3
<1>19. \A i \in Window : S.window[i].at \notin Below(S, l) => Y.window[i] = V.window[i]
  BY <1>3, <1>7, <1>8, <1>2
<1>20. \A j \in DOMAIN V.layout \ {k} : Y.layout[j].bar = V.layout[j].bar /\ Extent(Y, j) = Extent(V, j)
  BY <1>15, <1>2
<1>21. Grown(S, l, V, k, Y, r)
  BY <1>5, <1>9, <1>12, <1>13, <1>17, <1>18, <1>19, <1>20 DEF Grown
<1> QED
  BY <1>21

\* The entries bring layout l of S into the layout that is next.
BringsBack(S, l, s, v) ==
    \E X, p : /\ Reads(s, v, [wall |-> X, todo |-> Tail(v.todo)])
              /\ Grown(S, l, v.wall, Head(v.todo), X, p)

\* After the first of two children comes the second, and then the rest.
LEMMA NextOfTwo ==
    ASSUME NEW f \in Nat, NEW s \in Nat, NEW q \in Seq(Nat)
    PROVE  /\ Head(<<f, s>> \o q) = f /\ Tail(<<f, s>> \o q) = <<s>> \o q /\ <<f, s>> \o q # <<>>
           /\ Head(<<s>> \o q) = s /\ Tail(<<s>> \o q) = q /\ <<s>> \o q # <<>>
<1>1. Len(q) \in Nat /\ <<f, s>> \in Seq(Nat) /\ <<s>> \in Seq(Nat) /\ Len(<<f, s>>) = 2 /\ Len(<<s>>) = 1
  BY LenProperties
<1> DEFINE t == <<f, s>> \o q
           r == <<s>> \o q
<1>2. /\ t \in Seq(Nat) /\ Len(t) = Len(q) + 2
      /\ \A j \in 1..Len(q) + 2 : t[j] = IF j <= 2 THEN <<f, s>>[j] ELSE q[j - 2]
  BY <1>1, ConcatProperties
<1>3. /\ r \in Seq(Nat) /\ Len(r) = Len(q) + 1
      /\ \A j \in 1..Len(q) + 1 : r[j] = IF j <= 1 THEN <<s>>[j] ELSE q[j - 1]
  BY <1>1, ConcatProperties
<1> HIDE DEF t, r
<1>4. t[1] = f /\ t[2] = s /\ r[1] = s
  BY <1>1, <1>2, <1>3
<1>5. t # <<>> /\ r # <<>>
  BY <1>1, <1>2, <1>3
<1>6. /\ Head(t) = t[1] /\ Tail(t) \in Seq(Nat) /\ Len(Tail(t)) = Len(t) - 1
      /\ \A j \in 1..Len(Tail(t)) : Tail(t)[j] = t[j + 1]
  BY <1>2, <1>5, HeadTailProperties
<1>7. /\ Head(r) = r[1] /\ Tail(r) \in Seq(Nat) /\ Len(Tail(r)) = Len(r) - 1
      /\ \A j \in 1..Len(Tail(r)) : Tail(r)[j] = r[j + 1]
  BY <1>3, <1>5, HeadTailProperties
<1>8. Tail(t) = r
  <2>1. Len(Tail(t)) = Len(r)
    BY <1>1, <1>2, <1>3, <1>6
  <2>2. \A j \in 1..Len(r) : Tail(t)[j] = r[j]
    <3> SUFFICES ASSUME NEW j \in 1..Len(r) PROVE Tail(t)[j] = r[j]
      OBVIOUS
    <3>1. j \in 1..Len(q) + 1 /\ j + 1 \in 1..Len(q) + 2 /\ Tail(t)[j] = t[j + 1]
      BY <1>1, <1>3, <1>6, <2>1
    <3>2. CASE j = 1
      <4>1. j + 1 = 2
        BY <3>2
      <4> QED
        BY <1>4, <3>1, <3>2, <4>1
    <3>3. CASE j # 1
      <4>1. ~(j + 1 <= 2) /\ ~(j <= 1) /\ (j + 1) - 2 = j - 1
        BY <3>1, <3>3
      <4> QED
        BY <1>2, <1>3, <3>1, <4>1
    <3> QED
      BY <3>2, <3>3
  <2> QED
    BY <1>3, <1>6, <2>1, <2>2, SeqEqual
<1>9. Tail(r) = q
  <2>1. Len(Tail(r)) = Len(q)
    BY <1>1, <1>3, <1>7
  <2>2. \A j \in 1..Len(q) : Tail(r)[j] = q[j]
    <3> SUFFICES ASSUME NEW j \in 1..Len(q) PROVE Tail(r)[j] = q[j]
      OBVIOUS
    <3>1. j + 1 \in 1..Len(q) + 1 /\ Tail(r)[j] = r[j + 1] /\ ~(j + 1 <= 1) /\ (j + 1) - 1 = j
      BY <1>1, <1>7, <2>1
    <3> QED
      BY <1>3, <3>1
  <2> QED
    BY <1>7, <2>1, <2>2, SeqEqual
<1> QED
  BY <1>4, <1>5, <1>6, <1>7, <1>8, <1>9 DEF t, r

\* A bar is put, then its two children are restored.
LEMMA RestoredBar ==
    ASSUME NEW S, IsWall(S), InLeaves(S), NEW l \in DOMAIN S.layout, S.layout[l].bar # "none",
           NEW a, a = S.layout[l].first, NEW b, b = S.layout[l].second,
           NEW s1 \in Seq(Entries), NEW s2 \in Seq(Entries),
           \A u \in LoadStates : u.todo # <<>> /\ Fits(S, a, u.wall, Head(u.todo)) => BringsBack(S, a, s1, u),
           \A u \in LoadStates : u.todo # <<>> /\ Fits(S, b, u.wall, Head(u.todo)) => BringsBack(S, b, s2, u),
           NEW v \in LoadStates, v.todo # <<>>, Fits(S, l, v.wall, Head(v.todo))
    PROVE  BringsBack(S, l, <<LayoutEntry(S, S.layout[l])>> \o s1 \o s2, v)
<1> DEFINE V == v.wall
           k == Head(v.todo)
           t == Tail(v.todo)
           e == LayoutEntry(S, S.layout[l])
           U == CreateChildPartitions(V, k, e.bar, e.first, e.second)
           f == U.layout[k].first
           s == U.layout[k].second
           u == [wall |-> U, todo |-> <<f, s>> \o t]
<1>1. e \in Entries /\ e.header = "LAYOUT" /\ e.first = AreaOf(S.layout[a]) /\ e.second = AreaOf(S.layout[b])
  BY LayoutEntryTypes DEF LayoutEntry
<1>2. e.bar \in {"horizontal", "vertical"} /\ e.first \in Rectangles /\ e.second \in Rectangles
  <2> HIDE DEF e
  <2> QED
    BY <1>1, EntryTypes
<1> HIDE DEF e
<1>3. IsWall(V) /\ InLeaves(V) /\ k \in DOMAIN V.layout /\ V.layout[k].bar = "none" /\ t \in Seq(Nat)
  BY TailTypes DEF LoadStates, Waiting
<1>4. DOMAIN V.layout \subseteq Nat \ {0} /\ DOMAIN S.layout \subseteq Nat \ {0}
  BY <1>3, WallTypes DEF IsWall
<1>5. LoadEntry(v, e) = u
  BY <1>1 DEF LoadEntry
<1>6. /\ Created(V, U, k)
      /\ Extent(U, f) = Within(V, k, e.first) /\ Extent(U, s) = Within(V, k, e.second)
  <2> HIDE DEF V, k
  <2> QED
    BY <1>2, <1>3, CreateTypes
<1>7. u \in LoadStates /\ Reads(<<e>>, v, u)
  <2> HIDE DEF u
  <2> QED
    BY <1>1, <1>5, ReadsOne, LoadEntryTypes
<1> HIDE DEF U, V, k, t
<1>8. /\ IsWall(U) /\ InLeaves(U)
      /\ f # s /\ f \notin DOMAIN V.layout /\ s \notin DOMAIN V.layout
      /\ DOMAIN U.layout = DOMAIN V.layout \cup {f, s}
      /\ U.layout[k].bar # "none"
      /\ \A j \in DOMAIN V.layout \ {k} : U.layout[j].bar = V.layout[j].bar
      /\ \A j \in DOMAIN V.layout : Extent(U, j) = Extent(V, j)
  BY <1>6 DEF Created
<1>9. Extent(V, k) = Extent(S, l) /\ \A i \in Window : V.window[i].at # k
  BY DEF Fits, V, k
<1>10. \A i \in Window : U.window[i] = V.window[i]
  BY <1>6, <1>9 DEF Created
<1>11. f \in Nat \ {0} /\ s \in Nat \ {0}
  BY <1>8, WallTypes DEF IsWall
<1> HIDE DEF f, s
<1>12. /\ u.wall = U /\ Head(u.todo) = f /\ u.todo # <<>> /\ Tail(u.todo) = <<s>> \o t
       /\ Head(<<s>> \o t) = s /\ Tail(<<s>> \o t) = t /\ <<s>> \o t # <<>>
  BY <1>3, <1>11, NextOfTwo
<1> HIDE DEF u
<1>13. /\ a \in DOMAIN S.layout /\ b \in DOMAIN S.layout /\ a # Root /\ b # Root
       /\ S.layout[a].parent = l /\ S.layout[b].parent = l
  BY <1>4 DEF IsWall, Linked, Nowhere
<1>14. Extent(U, f) = Extent(S, a) /\ Extent(U, s) = Extent(S, b)
  <2>1. Extent(S, a) = Within(S, l, e.first) /\ Extent(S, b) = Within(S, l, e.second)
    BY <1>1, <1>13, ExtentOfChild
  <2>2. Origin(V, k) = Origin(S, l)
    BY <1>9 DEF Extent
  <2> QED
    BY <1>6, <2>1, <2>2 DEF Within, f, s
<1>15. \A i \in Window : V.window[i].at # f /\ V.window[i].at # s
  BY <1>3, <1>8, <1>11 DEF InLeaves, Nowhere, MinimizeBar
<1>16. /\ Below(S, l) = {l} \cup Below(S, a) \cup Below(S, b)
       /\ Below(S, a) \cap Below(S, b) = {}
  BY BelowParts
<1>17. \A i \in Window : S.window[i].at \in Below(S, l) => V.window[i].at = Nowhere
  BY DEF Fits, V, k
<1>18. Fits(S, a, U, f)
  BY <1>10, <1>14, <1>15, <1>16, <1>17 DEF Fits
<1>19. PICK X, p : /\ Reads(s1, u, [wall |-> X, todo |-> <<s>> \o t])
                   /\ Grown(S, a, U, f, X, p)
  <2>1. BringsBack(S, a, s1, u)
    BY <1>7, <1>12, <1>18
  <2> QED
    BY <1>12, <2>1 DEF BringsBack
<1> DEFINE w == [wall |-> X, todo |-> <<s>> \o t]
<1>20. w \in LoadStates /\ Reads(s1, u, w) /\ w.wall = X /\ w.todo = <<s>> \o t
  BY <1>19, ReadsTypes
<1> HIDE DEF w
<1>21. Fits(S, b, X, s)
  <2>1. Extent(X, s) = Extent(S, b)
    BY <1>8, <1>14, <1>19 DEF Grown
  <2>2. ASSUME NEW i \in Window PROVE X.window[i].at # s
    <3>1. CASE S.window[i].at \in Below(S, a)
      <4>1. X.window[i].at = p[S.window[i].at]
        BY <1>19, <3>1 DEF Grown
      <4>2. p[S.window[i].at] = f \/ p[S.window[i].at] \notin DOMAIN U.layout
        BY <1>19, <3>1 DEF Grown
      <4> QED
        BY <1>8, <4>1, <4>2
    <3>2. CASE S.window[i].at \notin Below(S, a)
      BY <1>10, <1>15, <1>19, <3>2 DEF Grown
    <3> QED
      BY <3>1, <3>2
  <2>3. ASSUME NEW i \in Window, S.window[i].at \in Below(S, b) PROVE X.window[i].at = Nowhere
    BY <1>10, <1>16, <1>17, <1>19, <2>3 DEF Grown
  <2> QED
    BY <2>1, <2>2, <2>3 DEF Fits
<1>22. PICK Y, q : /\ Reads(s2, w, [wall |-> Y, todo |-> t])
                   /\ Grown(S, b, X, s, Y, q)
  <2>1. BringsBack(S, b, s2, w)
    BY <1>12, <1>20, <1>21
  <2> QED
    BY <1>12, <1>20, <2>1 DEF BringsBack
<1> DEFINE z == [wall |-> Y, todo |-> t]
<1>23. PICK r : Grown(S, l, V, k, Y, r)
  <2>1. Grown(S, a, U, f, X, p) /\ Grown(S, b, X, s, Y, q)
    BY <1>19, <1>22
  <2>2. Halved(S, l, a, b, V, k, U, f, s)
    BY <1>3, <1>8, <1>9, <1>10 DEF Halved
  <2> QED
    BY <2>1, <2>2, GrownBar
<1>24. Reads(<<e>> \o s1 \o s2, v, z)
  <2>1. <<e>> \in Seq(Entries)
    BY <1>1
  <2>2. Reads(s2, w, z)
    BY <1>22
  <2> HIDE DEF z
  <2>3. Reads(<<e>> \o s1, v, w)
    BY <1>7, <1>20, <2>1, ReadsBoth
  <2>4. <<e>> \o s1 \in Seq(Entries)
    BY <2>1, ConcatProperties
  <2> QED
    BY <2>2, <2>3, <2>4, ReadsBoth
<1>25. Reads(<<LayoutEntry(S, S.layout[l])>> \o s1 \o s2, v, [wall |-> Y, todo |-> Tail(v.todo)])
  BY <1>24 DEF e, t
<1>26. Grown(S, l, v.wall, Head(v.todo), Y, r)
  BY <1>23 DEF V, k
<1> QED
  BY <1>25, <1>26 DEF BringsBack

\* By induction on the depth of a layout: what is saved of it is restored.
LEMMA SavedIsRestored ==
    ASSUME NEW S, IsWall(S), InLeaves(S), Web = {}, NEW l \in DOMAIN S.layout,
           NEW v \in LoadStates, v.todo # <<>>, Fits(S, l, v.wall, Head(v.todo))
    PROVE  SaveSession(S, l) \in Seq(Entries) /\ BringsBack(S, l, SaveSession(S, l), v)
<1>1. PICK g \in [DOMAIN S.layout -> Seq(Entries)] :
         /\ \A k \in DOMAIN S.layout : g[k] = SavedAs(S, k, g)
         /\ \A k \in DOMAIN S.layout : SaveSession(S, k) = g[k]
  BY SaveSessionTypes
<1>2. PICK M, depth : M \in Nat /\ Depth(S, depth, M)
  BY DEF IsWall
<1> DEFINE D == DOMAIN S.layout
           rank == [k \in D |-> M - depth[k]]
           P == {k \in D : \A u \in LoadStates :
                    u.todo # <<>> /\ Fits(S, k, u.wall, Head(u.todo)) => BringsBack(S, k, g[k], u)}
<1>3. \A k \in D : depth[k] \in 0..M
  BY <1>2 DEF Depth
<1>4. rank \in [D -> Nat]
  BY <1>2, <1>3
<1>5. ASSUME NEW k \in D, \A j \in D : rank[j] < rank[k] => j \in P PROVE k \in P
  <2> SUFFICES ASSUME NEW u \in LoadStates, u.todo # <<>>, Fits(S, k, u.wall, Head(u.todo))
               PROVE  BringsBack(S, k, g[k], u)
    OBVIOUS
  <2>1. g[k] = SavedAs(S, k, g)
    BY <1>1
  <2>2. CASE S.layout[k].bar = "none"
    <3>1. g[k] = ItemEntries(S, k) \o <<[header |-> "RETURN"]>>
      BY <2>1, <2>2 DEF SavedAs
    <3>2. BringsBack(S, k, ItemEntries(S, k) \o <<[header |-> "RETURN"]>>, u)
      BY <2>2, GrownLeaf DEF BringsBack
    <3> QED
      BY <3>1, <3>2
  <2>3. CASE S.layout[k].bar # "none"
    <3> DEFINE a == S.layout[k].first
               b == S.layout[k].second
    <3>1. g[k] = <<LayoutEntry(S, S.layout[k])>> \o g[a] \o g[b]
      BY <2>1, <2>3 DEF SavedAs
    <3>2. a \in D /\ b \in D /\ S.layout[a].parent = k /\ S.layout[b].parent = k
      BY <2>3 DEF IsWall, Linked
    <3>3. a # Root /\ b # Root
      BY <3>2, WallTypes DEF IsWall, Linked, Nowhere
    <3>4. depth[k] < depth[a] /\ depth[k] < depth[b]
      BY <1>2, <3>2, <3>3 DEF Depth
    <3>5. rank[a] < rank[k] /\ rank[b] < rank[k]
      BY <1>2, <1>3, <3>2, <3>4
    <3>6. a \in P /\ b \in P
      <4> HIDE DEF P, rank, D, a, b
      <4> QED
        BY <1>5, <3>2, <3>5
    <3>7. /\ \A w \in LoadStates : w.todo # <<>> /\ Fits(S, a, w.wall, Head(w.todo)) => BringsBack(S, a, g[a], w)
          /\ \A w \in LoadStates : w.todo # <<>> /\ Fits(S, b, w.wall, Head(w.todo)) => BringsBack(S, b, g[b], w)
      BY <3>6
    <3>8. g[a] \in Seq(Entries) /\ g[b] \in Seq(Entries)
      BY <1>1, <3>2
    <3>9. a = S.layout[k].first /\ b = S.layout[k].second
      OBVIOUS
    <3> HIDE DEF a, b, P, rank
    <3>10. BringsBack(S, k, <<LayoutEntry(S, S.layout[k])>> \o g[a] \o g[b], u)
      BY <2>3, <3>7, <3>8, <3>9, RestoredBar
    <3> QED
      BY <3>1, <3>10
  <2> QED
    BY <2>2, <2>3
<1>6. D \subseteq P
  <2> HIDE DEF D, P, rank
  <2> QED
    BY <1>4, <1>5, StrongInduction
<1>7. l \in P /\ SaveSession(S, l) = g[l] /\ g[l] \in Seq(Entries)
  <2> HIDE DEF P
  <2> QED
    BY <1>1, <1>6
<1> QED
  BY <1>7

\* The root layout of the empty wall takes a wall that has its size.
LEMMA EmptyWallFits ==
    ASSUME NEW S, IsWall(S), RootFills(S)
    PROVE  /\ Start(EmptyWall) \in LoadStates /\ Start(EmptyWall).todo # <<>> /\ Head(Start(EmptyWall).todo) = Root
           /\ Fits(S, Root, EmptyWall, Root)
<1>1. Step(EmptyWall) /\ \A i \in Window : EmptyWall.window[i].at = Nowhere
  BY EmptyTypes DEF EmptyWall, Absent
<1>2. EmptyWall.layout[Root].bar = "none"
  BY DEF EmptyWall, NewLayout
<1> DEFINE E == EmptyWall
<1> HIDE DEF E
<1>3. Start(E) \in LoadStates
  BY <1>1, <1>2, StartTypes DEF Step, E
<1>4. Start(E).todo # <<>> /\ Head(Start(E).todo) = Root
  BY DEF Start
<1>5. Extent(E, Root) = Extent(S, Root)
  <2>1. Root # MinimizeBar /\ Root \in DOMAIN E.layout /\ Root \in DOMAIN S.layout
    BY <1>1 DEF Root, MinimizeBar, Step, IsWall, Linked, E
  <2>2. Origin(E, Root) = Point(0, 0) /\ Origin(S, Root) = Point(0, 0)
    BY <1>1, <2>1, OriginsTypes DEF Origin, Step, E
  <2> QED
    BY <1>1, <2>2 DEF Extent, RootFills, Step, E
<1>6. Fits(S, Root, E, Root)
  BY <1>1, <1>5 DEF Fits, E, Nowhere, Root
<1> QED
  BY <1>3, <1>4, <1>6 DEF E

\* A wall that has grown from the empty wall looks like S.
LEMMA GrownLooksTheSame ==
    ASSUME NEW S, IsWall(S), InLeaves(S), NEW X, IsWall(X), NEW p, Grown(S, Root, EmptyWall, Root, X, p)
    PROVE  Picture(X) = Picture(S)
<1> DEFINE D == DOMAIN S.layout
<1>1. Below(S, Root) = D /\ Root \in D
  BY BelowTheRoot DEF IsWall, Linked
<1>2. DOMAIN EmptyWall.layout = {Root} /\ \A i \in Window : EmptyWall.window[i].at = Nowhere
  BY DEF EmptyWall, Absent
<1>3. /\ DOMAIN X.layout = {Root} \cup {p[a] : a \in D}
      /\ p[Root] = Root
      /\ \A a, b \in D : p[a] = p[b] => a = b
      /\ \A a \in D : (X.layout[p[a]].bar = "none" <=> S.layout[a].bar = "none") /\ Extent(X, p[a]) = Extent(S, a)
      /\ \A i \in Window : S.window[i].at \in D => X.window[i].at = p[S.window[i].at] /\ ScenePos(X, i) = ScenePos(S, i)
      /\ \A i \in Window : S.window[i].at \notin D => X.window[i] = EmptyWall.window[i]
  BY <1>1, <1>2 DEF Grown
<1>4. DOMAIN X.layout = {p[a] : a \in D}
  BY <1>1, <1>3
<1>5. Nowhere \notin DOMAIN X.layout
  BY WallTypes DEF IsWall, Nowhere
<1>6. ASSUME NEW a \in D PROVE Pane(X, p[a]) = Pane(S, a)
  <2>1. ASSUME NEW i \in Window PROVE X.window[i].at = p[a] <=> S.window[i].at = a
    <3>1. CASE S.window[i].at \in D
      BY <1>3, <3>1
    <3>2. CASE S.window[i].at \notin D
      BY <1>2, <1>3, <1>4, <1>5, <3>2
    <3> QED
      BY <3>1, <3>2
  <2>2. Inside(X, p[a]) = Inside(S, a)
    BY <2>1 DEF Inside
  <2>3. \A i \in Inside(S, a) : ScenePos(X, i) = ScenePos(S, i)
    BY <1>3 DEF Inside
  <2>4. {<<i, ScenePos(X, i)>> : i \in Inside(X, p[a])} = {<<i, ScenePos(S, i)>> : i \in Inside(S, a)}
    BY <2>2, <2>3
  <2> QED
    BY <1>3, <2>4 DEF Pane
<1>7. /\ Leaves(X, Root) = {k \in DOMAIN X.layout : X.layout[k].bar = "none"}
      /\ Leaves(S, Root) = {a \in D : S.layout[a].bar = "none"}
  BY LeavesOfRoot
<1>8. Leaves(X, Root) = {p[a] : a \in Leaves(S, Root)}
  BY <1>3, <1>4, <1>7
<1>9. Picture(X) = {Pane(X, p[a]) : a \in Leaves(S, Root)}
  <2> HIDE DEF D
  <2> QED
    BY <1>8 DEF Picture
<1>10. Leaves(S, Root) \subseteq D
  BY <1>7
<1> QED
  BY <1>6, <1>9, <1>10 DEF Picture

\* So a wall that is saved is restored.
LEMMA InvRestores == LayoutInv /\ Web = {} => SessionRestores
<1> SUFFICES ASSUME LayoutInv, Web = {} PROVE SessionRestores
  OBVIOUS
<1> DEFINE S == Scene
           s == SaveSession(S, Root)
           v == Start(EmptyWall)
<1>1. IsWall(S) /\ InLeaves(S) /\ RootFills(S) /\ Root \in DOMAIN S.layout
  BY DEF LayoutInv, IsWall, Linked
<1>2. v \in LoadStates /\ v.todo # <<>> /\ Head(v.todo) = Root /\ Fits(S, Root, EmptyWall, Root)
  BY <1>1, EmptyWallFits
<1>3. v.wall = EmptyWall
  BY DEF Start
<1> HIDE DEF S, v
<1>4. s \in Seq(Entries) /\ BringsBack(S, Root, s, v)
  BY <1>1, <1>2, <1>3, SavedIsRestored
<1> HIDE DEF s
<1>5. PICK X, p : /\ Reads(s, v, [wall |-> X, todo |-> Tail(v.todo)])
                  /\ Grown(S, Root, EmptyWall, Root, X, p)
  BY <1>2, <1>3, <1>4 DEF BringsBack
<1> DEFINE u == [wall |-> X, todo |-> Tail(v.todo)]
<1>6. u \in LoadStates /\ u.wall = X
  BY <1>4, <1>5, ReadsTypes
<1> HIDE DEF u
<1>7. IsWall(X)
  BY <1>6 DEF LoadStates
<1>8. LoadSession(s, EmptyWall, Root) = X
  <2>1. IsWall(EmptyWall) /\ InLeaves(EmptyWall) /\ EmptyWall.layout[Root].bar = "none"
    <3>1. EmptyWall.layout[Root].bar = "none"
      BY DEF EmptyWall, NewLayout
    <3> QED
      BY <3>1, EmptyTypes DEF Step
  <2>2. Reads(s, Start(EmptyWall), u)
    BY <1>5 DEF u, v
  <2> QED
    BY <1>4, <1>6, <2>1, <2>2, ReadsSession
<1>9. Picture(X) = Picture(S)
  BY <1>1, <1>5, <1>7, GrownLooksTheSame
<1> QED
  BY <1>8, <1>9 DEF SessionRestores, s, S

\* What saveSession() writes of any wall that users can make, loadSession() restores on an
\* empty wall: the same areas, and in each the same windows at their places.  No window may
\* show a web page: those are saved with an address that is not read back.
THEOREM SessionsAreRestored == ~Reloads /\ Web = {} => (LayoutSpec => []SessionRestores)
<1> SUFFICES ASSUME ~Reloads, Web = {} PROVE LayoutSpec => []SessionRestores
  OBVIOUS
<1>1. LayoutInv => SessionRestores
  BY InvRestores
<1>2. LayoutSpec => []LayoutInv
  BY LayoutsStayInv
<1> QED
  BY <1>1, <1>2, PTL
===============================================================================
