------------------------------ MODULE FileTransfer ------------------------------
(***************************************************************************)
(* Sending media files from a SAGENext pointer (uiclient) to the wall.     *)
(* Every drop of files runs sendFilesToWall() in a thread of its own; it   *)
(* writes a header and the file to the data socket and then waits on a     *)
(* semaphore until the wall reported, over the message channel, that the   *)
(* file _fileBeingSent has arrived.  On the wall the GUI thread accepts a  *)
(* data connection and starts a SN_FileServerThread for it, which reads    *)
(* headers and files and posts what happens to the GUI thread: the report, *)
(* the file for the launcher, the file for the media list.                 *)
(*                                                                         *)
(* A file is cut into the chunks of one recv() each; chunk is the unit of  *)
(* the wire, of the progress reports and of a loss of the connection.  A   *)
(* modal progress dialog does not keep the user from dropping more files:  *)
(* its Cancel button is connected to nothing.  Downloads are left out: no  *)
(* client asks for one (REQUEST_FILEINFO is only sent from a comment).     *)
(***************************************************************************)
EXTENDS MediaBrowser

CONSTANTS
    Sender,         \* the threads that drops of files start
    FilesPerDrop,
    Urls,           \* the files that are web addresses: a header without content
    Chunks,         \* chunks of a file
    OpenFails,      \* the wall may be unable to open a file for writing
    DiskFills,      \* or to write all of it
    Leaves,         \* a data connection may break
    Mixes,          \* the user drops files, or connects anew, while others are being sent
    MaxConnections  \* how often the client connects to the wall (a bound)

ASSUME CountsAssumption == {FilesPerDrop, Chunks, MaxConnections} \subseteq Nat \ {0}
ASSUME TransferChoicesAssumption == {OpenFails, DiskFills, Leaves, Mixes} \subseteq BOOLEAN

File == Sender \X (1..FilesPerDrop)
Connection == 1..MaxConnections

ASSUME UrlsAssumption == Urls \subseteq File /\ File \ Urls \subseteq Media

NoFile == <<>>

VARIABLES
    cpc,            \* where each sending thread is
    item,           \* the file of its drop it is at
    via,            \* the connection it sent that file over (history)
    semaphore,      \* _fileTransferSemaphore
    fileBeingSent,  \* the name in _fileBeingSent
    gui,            \* "loops", or "waits" on the semaphore
    events,         \* what the client's GUI thread is to handle, oldest first
    conn,           \* the client's connection (each gets a new uiclientid)
    msgUp,          \* its message channel is up
    link,           \* the data connections: "none", "up", "closed" or "broken"
    wire,           \* written to each data socket and not read yet
    spc,            \* where the wall's thread for each connection is
    receiving,      \* the file of the last header
    counted,        \* the chunks of it that _recvFile() counted
    arrived,        \* the chunks of it that really arrived
    posted,         \* the slots the wall's GUI thread is to run, oldest first
    launched,       \* the files given to the launcher, in order
    unstored        \* the files of which the disk took nothing or a part (history)

clientVars == <<cpc, item, via, semaphore, fileBeingSent, gui, conn, msgUp>>
serverVars == <<spc, receiving, counted, arrived>>
wallVars   == <<launched, unstored, browserVars>>
transferVars == <<clientVars, serverVars, wallVars, events, posted, link, wire>>

Header(f)      == [kind |-> "header", file |-> f]
Chunk(f)       == [kind |-> "chunk", file |-> f]
Begins(f)      == [kind |-> "begins", file |-> f, bytes |-> 0]
Report(f, n)   == [kind |-> "report", file |-> f, bytes |-> n]
Progress(c, f, n) == [kind |-> "progress", conn |-> c, file |-> f, bytes |-> n]
Launch(c, f, w)   == [kind |-> "launch", conn |-> c, file |-> f, whole |-> w]
Add(c, f)         == [kind |-> "add", conn |-> c, file |-> f]
Finished(c)       == [kind |-> "finished", conn |-> c]

Cancelled == -1

TransferInit ==
    /\ cpc = [s \in Sender |-> "idle"]
    /\ item = [s \in Sender |-> 1]
    /\ via = [s \in Sender |-> 1]
    /\ semaphore = 0
    /\ fileBeingSent = NoFile
    /\ gui = "loops"
    /\ events = <<>> /\ posted = <<>> /\ launched = <<>>
    /\ unstored = {}
    /\ conn = 1
    /\ msgUp = TRUE
    /\ link = [c \in Connection |-> IF c = 1 THEN "up" ELSE "none"]
    /\ wire = [c \in Connection |-> <<>>]
    /\ spc = [c \in Connection |-> IF c = 1 THEN "header" ELSE "none"]
    /\ receiving = [c \in Connection |-> NoFile]
    /\ counted = [c \in Connection |-> 0]
    /\ arrived = [c \in Connection |-> 0]
    /\ BrowserInit

-------------------------------------------------------------------------------
(* The client: one thread per drop, and its GUI thread                       *)

\* A thread sends, or goes on when the wall has answered.  A thread whose connection is
\* gone waits for good, unless the report of a later file releases it.
Sending == \E s \in Sender : \/ cpc[s] \in {"begin", "content"}
                             \/ cpc[s] = "wait" /\ (via[s] = conn \/ semaphore > 0)

\* runSendFileThread(): checks the socket and starts a thread.
Drop(s) == /\ gui = "loops"
           /\ cpc[s] = "idle"
           /\ link[conn] = "up"
           /\ Mixes \/ ~Sending
           /\ cpc' = [cpc EXCEPT ![s] = "begin"]
           /\ UNCHANGED <<item, via, semaphore, fileBeingSent, gui, conn, msgUp, serverVars,
                          wallVars, events, posted, link, wire>>

\* readLocalFiles(): files chosen in a dialog are sent by the GUI thread itself.  It waits
\* on the semaphore that only readMessage(), which it would have to run, releases; what it
\* wrote stays in the socket's buffer.
OpenFiles == /\ gui = "loops"
             /\ msgUp /\ link[conn] = "up"
             /\ ~Sending /\ semaphore = 0
             /\ gui' = "waits"
             /\ UNCHANGED <<cpc, item, via, semaphore, fileBeingSent, conn, msgUp, serverVars,
                            wallVars, events, posted, link, wire>>

\* What is written to a connection that is gone is lost.
Write(tokens) == wire' = IF link[conn] = "up" THEN [wire EXCEPT ![conn] = @ \o tokens] ELSE wire

NextItem(s) == /\ item' = [item EXCEPT ![s] = item[s] + 1]
               /\ cpc' = [cpc EXCEPT ![s] = IF item[s] < FilesPerDrop THEN "begin" ELSE "done"]

SendUrl(s) == /\ gui = "loops"
              /\ cpc[s] = "begin"
              /\ <<s, item[s]>> \in Urls
              /\ Write(<<Header(<<s, item[s]>>)>>)
              /\ NextItem(s)
              /\ UNCHANGED <<via, semaphore, fileBeingSent, gui, conn, msgUp, serverVars, wallVars,
                             events, posted, link>>

\* fileSendingBegins() is queued to the GUI thread, the header is written.
SendHeader(s) == /\ gui = "loops"
                 /\ cpc[s] = "begin"
                 /\ <<s, item[s]>> \notin Urls
                 /\ events' = Append(events, Begins(<<s, item[s]>>))
                 /\ Write(<<Header(<<s, item[s]>>)>>)
                 /\ via' = [via EXCEPT ![s] = conn]
                 /\ cpc' = [cpc EXCEPT ![s] = "content"]
                 /\ UNCHANGED <<item, semaphore, fileBeingSent, gui, conn, msgUp, serverVars,
                                wallVars, posted, link>>

SendContent(s) == /\ gui = "loops"
                  /\ cpc[s] = "content"
                  /\ Write([i \in 1..Chunks |-> Chunk(<<s, item[s]>>)])
                  /\ cpc' = [cpc EXCEPT ![s] = "wait"]
                  /\ UNCHANGED <<item, via, semaphore, fileBeingSent, gui, conn, msgUp, serverVars,
                                 wallVars, events, posted, link>>

Acquire(s) == /\ cpc[s] = "wait"
              /\ semaphore > 0
              /\ semaphore' = semaphore - 1
              /\ NextItem(s)
              /\ UNCHANGED <<via, fileBeingSent, gui, conn, msgUp, serverVars, wallVars, events,
                             posted, link, wire>>

FileSendingBegins == /\ gui = "loops"
                     /\ events # <<>> /\ Head(events).kind = "begins"
                     /\ fileBeingSent' = Head(events).file
                     /\ events' = Tail(events)
                     /\ UNCHANGED <<cpc, item, via, semaphore, gui, conn, msgUp, serverVars,
                                    wallVars, posted, link, wire>>

\* Mutant: the report of a cancelled file is not understood.
ReleaseOnLastOnly ==
    /\ gui = "loops"
    /\ events # <<>> /\ Head(events).kind = "report"
    /\ semaphore' = IF Head(events).file = fileBeingSent /\ Head(events).bytes = Chunks
                    THEN semaphore + 1 ELSE semaphore
    /\ events' = Tail(events)
    /\ UNCHANGED <<cpc, item, via, fileBeingSent, gui, conn, msgUp, serverVars, wallVars, posted,
                   link, wire>>

\* readMessage() on FILESERVER_RECVING_FILE.
ReadReport ==
    /\ gui = "loops"
    /\ events # <<>> /\ Head(events).kind = "report"
    /\ LET r == Head(events)
       IN  semaphore' = IF r.file = fileBeingSent /\ (r.bytes = Chunks \/ r.bytes <= 0)
                        THEN semaphore + 1 ELSE semaphore
    /\ events' = Tail(events)
    /\ UNCHANGED <<cpc, item, via, fileBeingSent, gui, conn, msgUp, serverVars, wallVars, posted,
                   link, wire>>

\* on_actionNew_Connection_triggered(): both sockets are closed, what was written is still
\* sent; the events that are queued are handled, messages of the wall are not read any more.
Disconnect ==
    /\ gui = "loops"
    /\ msgUp
    /\ Mixes \/ \A s \in Sender : cpc[s] # "content"
    /\ msgUp' = FALSE
    /\ link' = [link EXCEPT ![conn] = IF @ = "up" THEN "closed" ELSE @]
    /\ LET begun == SelectSeq(events, LAMBDA e : e.kind = "begins")
       IN  fileBeingSent' = IF begun = <<>> THEN fileBeingSent ELSE Last(begun).file
    /\ events' = <<>>
    /\ UNCHANGED <<cpc, item, via, semaphore, gui, conn, serverVars, wallVars, posted, wire>>

\* readMessage() on ACK_FROM_WALL: the data socket is connected, the id is written to it.
Connect ==
    /\ gui = "loops"
    /\ ~msgUp
    /\ conn < MaxConnections
    /\ conn' = conn + 1
    /\ msgUp' = TRUE
    /\ link' = [link EXCEPT ![conn'] = "up"]
    /\ spc' = [spc EXCEPT ![conn'] = "accept"]
    /\ UNCHANGED <<cpc, item, via, semaphore, fileBeingSent, gui, receiving, counted, arrived,
                   wallVars, events, posted, wire>>

\* The connection breaks: what is on its way is lost from some chunk on, and that
\* chunk may arrive in part (a part of a header is enough to be read as one).
Break == /\ Leaves
         /\ link[conn] = "up"
         /\ link' = [link EXCEPT ![conn] = "broken"]
         /\ LET w == wire[conn]
            IN  \E n \in 0..Len(w) :
               \/ wire' = [wire EXCEPT ![conn] = SubSeq(w, 1, n)]
               \/ /\ n < Len(w) /\ w[n + 1].kind = "chunk"
                  /\ wire' = [wire EXCEPT ![conn] =
                                 Append(SubSeq(w, 1, n), [kind |-> "part", file |-> w[n + 1].file])]
         /\ UNCHANGED <<clientVars, serverVars, wallVars, events, posted>>

-------------------------------------------------------------------------------
(* The wall: SN_FileServerThread::run and _recvFile of each connection       *)

\* A web address is given to the launcher and the media list at once, a file is opened first.
RecvHeader(c) ==
    /\ spc[c] = "header"
    /\ wire[c] # <<>> /\ Head(wire[c]).kind = "header"
    /\ wire' = [wire EXCEPT ![c] = Tail(@)]
    /\ LET f == Head(wire[c]).file
       IN  /\ receiving' = [receiving EXCEPT ![c] = f]
           /\ IF f \in Urls
              THEN posted' = posted \o <<Launch(c, f, TRUE), Add(c, f)>> /\ UNCHANGED spc
              ELSE spc' = [spc EXCEPT ![c] = "open"] /\ UNCHANGED posted
    /\ UNCHANGED <<clientVars, wallVars, events, link, counted, arrived>>

\* The bytes of a file where a header is expected: what follows is arbitrary, the
\* model of this connection stops here.
RecvGarbage(c) ==
    /\ spc[c] = "header"
    /\ wire[c] # <<>> /\ Head(wire[c]).kind # "header"
    /\ spc' = [spc EXCEPT ![c] = "garbled"]
    /\ UNCHANGED <<clientVars, wallVars, events, posted, link, wire, receiving, counted, arrived>>

\* run() returns, finished() is posted.
Disconnected(c) ==
    /\ spc[c] = "header"
    /\ wire[c] = <<>> /\ link[c] # "up"
    /\ spc' = [spc EXCEPT ![c] = "finished"]
    /\ posted' = Append(posted, Finished(c))
    /\ UNCHANGED <<clientVars, wallVars, events, link, wire, receiving, counted, arrived>>

\* Without the file _recvFile() returns and leaves its content in the socket.
OpenFile(c) ==
    /\ spc[c] = "open"
    /\ \/ spc' = [spc EXCEPT ![c] = "content"]
       \/ OpenFails /\ spc' = [spc EXCEPT ![c] = "header"]
    /\ counted' = [counted EXCEPT ![c] = 0]
    /\ arrived' = [arrived EXCEPT ![c] = 0]
    /\ UNCHANGED <<clientVars, wallVars, events, posted, link, wire, receiving>>

\* Mutant: the last chunk is not received.
RecvChunkEarly(c) ==
    /\ spc[c] = "content"
    /\ wire[c] # <<>>
    /\ wire' = [wire EXCEPT ![c] = Tail(@)]
    /\ counted' = [counted EXCEPT ![c] = @ + 1]
    /\ arrived' = [arrived EXCEPT ![c] = IF Head(wire[c]) = Chunk(receiving[c]) THEN @ + 1 ELSE @]
    /\ posted' = Append(posted, Progress(c, receiving[c], counted'[c]))
    /\ spc' = [spc EXCEPT ![c] = IF counted'[c] >= Chunks - 1 THEN "store" ELSE "content"]
    /\ UNCHANGED <<clientVars, wallVars, events, link, receiving>>

\* Whatever comes next is taken for a whole chunk of this file and reported.
RecvChunk(c) ==
    /\ spc[c] = "content"
    /\ wire[c] # <<>>
    /\ wire' = [wire EXCEPT ![c] = Tail(@)]
    /\ counted' = [counted EXCEPT ![c] = @ + 1]
    /\ arrived' = [arrived EXCEPT ![c] = IF Head(wire[c]) = Chunk(receiving[c]) THEN @ + 1 ELSE @]
    /\ posted' = Append(posted, Progress(c, receiving[c], counted'[c]))
    /\ spc' = [spc EXCEPT ![c] = IF counted'[c] = Chunks THEN "store" ELSE "content"]
    /\ UNCHANGED <<clientVars, wallVars, events, link, receiving>>

\* recv() fails: the file is reported as cancelled.
RecvFails(c) ==
    /\ spc[c] = "content"
    /\ wire[c] = <<>> /\ link[c] # "up"
    /\ posted' = Append(posted, Progress(c, receiving[c], Cancelled))
    /\ spc' = [spc EXCEPT ![c] = "header"]
    /\ UNCHANGED <<clientVars, wallVars, events, link, wire, receiving, counted, arrived>>

\* fileReceived() is connected to the launcher and to the media list.
FileReceived(c, whole) == posted' = posted \o <<Launch(c, receiving[c], whole), Add(c, receiving[c])>>

\* The buffer is written to the file; nobody asks how much of it was.  Without any of it
\* _recvFile() returns, although the last report said that the file has arrived; with a
\* part of it fileReceived() is emitted as with the whole.
Store(c) ==
    /\ spc[c] = "store"
    /\ \/ FileReceived(c, arrived[c] = Chunks) /\ UNCHANGED unstored
       \/ /\ DiskFills
          /\ unstored' = unstored \cup {receiving[c]}
          /\ FileReceived(c, FALSE) \/ UNCHANGED posted
    /\ spc' = [spc EXCEPT ![c] = "header"]
    /\ UNCHANGED <<clientVars, launched, browserVars, events, link, wire, receiving, counted, arrived>>

-------------------------------------------------------------------------------
(* The wall's GUI thread: SN_FileServer and the receivers of fileReceived()  *)

\* incomingConnection(): reads the id of the client, which it waits for, connects the
\* signals of a new thread and starts it.
IncomingConnection(c) ==
    /\ spc[c] = "accept"
    /\ spc' = [spc EXCEPT ![c] = "header"]
    /\ UNCHANGED <<clientVars, wallVars, events, posted, link, wire, receiving, counted, arrived>>

Runs(kind) == posted # <<>> /\ Head(posted).kind = kind /\ posted' = Tail(posted)

\* sendRecvProgress() and sendMsgToUiClient(): a client that is gone is told nothing.
SendRecvProgress ==
    /\ Runs("progress")
    /\ LET p == Head(posted)
       IN  events' = IF p.conn = conn /\ msgUp THEN Append(events, Report(p.file, p.bytes)) ELSE events
    /\ UNCHANGED <<clientVars, serverVars, wallVars, link, wire>>

LaunchReceived ==
    /\ Runs("launch")
    /\ launched' = Append(launched, Head(posted))
    /\ UNCHANGED <<clientVars, serverVars, unstored, browserVars, events, link, wire>>

\* Mutant: the media list is not told.
AddNothing == Runs("add") /\ UNCHANGED <<clientVars, serverVars, wallVars, events, link, wire>>

AddReceived ==
    /\ Runs("add")
    /\ AddNewMedia(Head(posted).file)
    /\ UNCHANGED <<clientVars, serverVars, launched, unstored, windowVars, events, link, wire>>

\* Every thread of the map that is finished is deleted and leaves the map; what it has
\* posted stays posted.
ThreadFinished ==
    /\ Runs("finished")
    /\ spc' = [c \in Connection |-> IF spc[c] = "finished" THEN "deleted" ELSE spc[c]]
    /\ UNCHANGED <<clientVars, wallVars, events, link, wire, receiving, counted, arrived>>

UseBrowser == BrowserNext /\ UNCHANGED <<clientVars, serverVars, launched, unstored, events, posted,
                                        link, wire>>

-------------------------------------------------------------------------------
SenderStep(s) == SendUrl(s) \/ SendHeader(s) \/ SendContent(s) \/ Acquire(s)

ClientGui == FileSendingBegins \/ ReadReport

Server(c) == \/ RecvHeader(c) \/ RecvGarbage(c) \/ Disconnected(c) \/ OpenFile(c) \/ RecvChunk(c)
             \/ RecvFails(c) \/ Store(c)

WallGui == \/ \E c \in Connection : IncomingConnection(c)
           \/ SendRecvProgress \/ LaunchReceived \/ AddReceived \/ ThreadFinished

TransferNext ==
    \/ \E s \in Sender : Drop(s) \/ SenderStep(s)
    \/ ClientGui \/ OpenFiles \/ Disconnect \/ Connect \/ Break
    \/ \E c \in Connection : Server(c)
    \/ WallGui \/ UseBrowser

\* All threads run; nobody has to drop or open files, to connect or to browse, and no
\* connection has to break.
TransferSpec ==
    /\ TransferInit /\ [][TransferNext]_transferVars
    /\ \A s \in Sender : WF_transferVars(SenderStep(s))
    /\ \A c \in Connection : WF_transferVars(Server(c))
    /\ WF_transferVars(ClientGui)
    /\ WF_transferVars(WallGui)

-------------------------------------------------------------------------------
\* Unless its connection breaks or the disk is full, what the launcher is given is whole:
\* no byte of another file or of a header ends up in it.
WholeUnlessBroken ==
    \A i \in DOMAIN launched : \/ launched[i].whole
                               \/ link[launched[i].conn] = "broken"
                               \/ launched[i].file \in unstored

\* The files of one drop that come over one connection are launched in their order, none twice.
LaunchedInOrder ==
    \A i, j \in DOMAIN launched :
        LET f == launched[i].file
            g == launched[j].file
        IN  i < j /\ f[1] = g[1] /\ launched[i].conn = launched[j].conn => f[2] < g[2]

\* A sending thread goes on only when the wall has read everything sent to it, also when it
\* goes on because of a report that another thread had waited for.
WaitsForWall == \A s \in Sender :
    cpc[s] = "begin" /\ item[s] > 1 /\ <<s, item[s] - 1>> \notin Urls
        => link[conn] # "up" \/ (wire[conn] = <<>> /\ spc[conn] # "content")

\* A thread that finished is going to be deleted.
ThreadsLeave == \A c \in Connection : spc[c] = "finished" =>
    \E i \in DOMAIN posted : posted[i] = Finished(c)

\* What reaches the launcher is what was dropped, file by file, the client never runs ahead
\* of the wall, and no thread of the wall is forgotten.
LaunchesRight == WholeUnlessBroken /\ LaunchedInOrder /\ WaitsForWall /\ ThreadsLeave

\* A thread that waits while the wall receives goes on, unless its user connects anew or
\* opens a file by the dialog: the last report, or the report that the file was cancelled,
\* is never missed.
SenderGoesOn == \A s \in Sender :
    (cpc[s] = "wait" /\ via[s] = conn /\ spc[conn] = "content")
        ~> (cpc[s] # "wait" \/ ~msgUp \/ gui = "waits")

\* Every file the wall began to receive is launched and listed unless its connection goes
\* or the disk does not take it, of which the client is not told.
EveryFileLaunched == \A f \in File \ Urls :
    (\E c \in Connection : spc[c] = "content" /\ receiving[c] = f)
        ~> \/ \E c \in Connection : receiving[c] = f /\ link[c] # "up"
           \/ f \in unstored
           \/ f \in mediaList /\ \E i \in DOMAIN launched : launched[i].file = f
===============================================================================
