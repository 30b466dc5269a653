---------------------------- MODULE PythonClient ----------------------------
(***************************************************************************)
(* The connection manager of client_python/network_manager.py under its    *)
(* window (main.py).  A click on Connect starts a thread that connects and *)
(* that starts the receive thread of the session; Disconnect runs on the   *)
(* thread of the window.  They share the manager's fields, and self.socket *)
(* is read anew at every use: "cur" is the session whose socket it holds.  *)
(* authenticated and is_admin are always set together: "admin".  What the  *)
(* threads may do between two reads of the shared fields is a step.        *)
(*                                                                         *)
(* A chunk that recv returns is taken for one message, and only its start  *)
(* is looked at, though it may hold several: a message is its first word.  *)
(* Messages are far smaller than a segment: none is split.                 *)
(*                                                                         *)
(* External: TCP, Python's sockets and Tk.  A blocked recv is not woken by *)
(* the close of its socket: it ends with data, or with its timeout of 10   *)
(* seconds, or with an error once it looks at the socket again.            *)
(***************************************************************************)
EXTENDS Integers, Sequences

CONSTANTS
  MaxSessions,  \* bound of the model: clicks on Connect
  MaxMessages   \* bound of the model: messages of the server in all

ASSUME ClientAssumption == MaxSessions \in Nat /\ MaxMessages \in Nat

Sessions == 1 .. MaxSessions   \* in the order of the clicks
NoSession == 0

VARIABLES
  cur,         \* the session of self.socket
  connected,   \* the flag of that name
  admin,       \* authenticated and is_admin
  running,     \* the flag of that name
  ui,          \* the place of the window's thread
  offersConnect, \* the Connect button is enabled, and Disconnect is not
  con,         \* place of each connect thread
  rcv,         \* place and locals of each receive thread
  link,        \* each session's connection, as TCP and the server leave it
  arrived,     \* messages received on it and not yet read
  messages,    \* number of messages the server has sent
  granted,     \* history: the server sent AUTH_SUCCESS on the current session
  overlap      \* history: a socket was made beside another session

manager == <<cur, connected, admin, running>>
window == <<ui, offersConnect>>
threads == <<con, rcv>>
server == <<messages, granted>>
vars == <<manager, window, threads, link, arrived, server, overlap>>

Messages == {"DATA", "AUTH_SUCCESS", "AUTH_FAILED"}
NoThread == [pc |-> "none", from |-> NoSession, text |-> "DATA"]

(* A thread that may still change what the sessions share. *)
Busy(k) == con[k] \in {"connect", "clear rights"} \/ rcv[k].pc # "none"

(* A socket object that nothing refers to any more, neither the manager nor *)
(* a recv under way, is closed by Python.  A closed socket holds no data.   *)
Used(s) == s = cur \/ \E k \in Sessions : rcv[k].pc = "read" /\ rcv[k].from = s

Sockets(l, a) ==
  /\ link' = [s \in Sessions |-> IF l[s] = "new" \/ Used(s)' THEN l[s] ELSE "closed"]
  /\ arrived' = [s \in Sessions |-> IF link'[s] = "closed" THEN <<>> ELSE a[s]]

-----------------------------------------------------------------------------
Init ==
  /\ cur = NoSession
  /\ connected = FALSE
  /\ admin = FALSE
  /\ running = TRUE
  /\ ui = "idle"
  /\ offersConnect = TRUE
  /\ con = [k \in Sessions |-> "none"]
  /\ rcv = [k \in Sessions |-> NoThread]
  /\ link = [s \in Sessions |-> "new"]
  /\ arrived = [s \in Sessions |-> <<>>]
  /\ messages = 0
  /\ granted = FALSE
  /\ overlap = FALSE

-----------------------------------------------------------------------------
(* The connect threads. *)

ConAt(k, pc) == con[k] = pc
ConGoes(k, pc) == con' = [con EXCEPT ![k] = pc]

(* The button stays enabled until the thread has connected, so a second     *)
(* click starts a second thread.                                            *)
ClickConnect(k) ==
  /\ ui = "idle"
  /\ offersConnect
  /\ ConAt(k, "none") /\ link[k] = "new"
  /\ \A j \in 1 .. k - 1 : ~ (ConAt(j, "none") /\ link[j] = "new")
  /\ ConGoes(k, "create")
  /\ UNCHANGED <<manager, window, rcv, link, arrived, server, overlap>>

CreateSocket(k) ==
  /\ ConAt(k, "create")
  /\ cur' = k
  /\ granted' = FALSE
  /\ ConGoes(k, "connect")
  /\ overlap' = (overlap \/ connected \/ \E j \in Sessions \ {k} : Busy(j))
  /\ UNCHANGED <<connected, admin, running, window, rcv, messages>>
  /\ Sockets([link EXCEPT ![k] = "created"], arrived)

(* self.socket.connect on the socket that is current now, and the flag.     *)
(* The rights may still be those of a session before: a late AUTH_SUCCESS   *)
(* may have been handled after its disconnect.                              *)
Connect(k) ==
  /\ ConAt(k, "connect")
  /\ link[cur] = "created"
  /\ link' = [link EXCEPT ![cur] = "open"]
  /\ connected' = TRUE
  /\ ConGoes(k, "clear rights")
  /\ UNCHANGED <<cur, admin, running, window, rcv, arrived, server, overlap>>

(* Mutant: the rights of the session before are kept. *)
StartKeepsRights(k) ==
  /\ ConAt(k, "clear rights")
  /\ rcv' = [rcv EXCEPT ![k].pc = "check"]
  /\ ConGoes(k, "read flag")
  /\ UNCHANGED <<manager, window, link, arrived, server, overlap>>

(* The rights are cleared and the receive thread is started.  (What another *)
(* thread does between the two comes to the same after them.)               *)
StartReceiver(k) ==
  /\ ConAt(k, "clear rights")
  /\ admin' = FALSE
  /\ rcv' = [rcv EXCEPT ![k].pc = "check"]
  /\ ConGoes(k, "read flag")
  /\ UNCHANGED <<cur, connected, running, window, link, arrived, server, overlap>>

(* The server does not answer, or another thread has connected or closed    *)
(* the socket.                                                              *)
ConnectFails(k) ==
  /\ ConAt(k, "connect")
  /\ ConGoes(k, "posted")
  /\ UNCHANGED <<manager, window, rcv, link, arrived, server, overlap>>

(* on_connected updates the buttons from this thread: the flag is read, and *)
(* what it was is shown when Tk gets to it.                                 *)
ReadFlag(k) ==
  /\ ConAt(k, "read flag")
  /\ ConGoes(k, IF connected THEN "show connected" ELSE "show disconnected")
  /\ UNCHANGED <<manager, window, rcv, link, arrived, server, overlap>>

ShowFlag(k) ==
  /\ ui = "idle"
  /\ con[k] \in {"show connected", "show disconnected"}
  /\ offersConnect' = ConAt(k, "show disconnected")
  /\ ConGoes(k, "posted")
  /\ UNCHANGED <<manager, ui, rcv, link, arrived, server, overlap>>

ConnectThread(k) ==
  CreateSocket(k) \/ Connect(k) \/ ConnectFails(k) \/ StartReceiver(k)
  \/ ReadFlag(k) \/ ShowFlag(k)

-----------------------------------------------------------------------------
(* The thread of the window. *)

(* _on_connect_result, which the connect thread has posted. *)
ConnectResult(k) ==
  /\ ui = "idle"
  /\ ConAt(k, "posted")
  /\ offersConnect' = ~ connected
  /\ ConGoes(k, "none")
  /\ UNCHANGED <<manager, ui, rcv, link, arrived, server, overlap>>

(* The test, the request, and the flags: what another thread does to the    *)
(* rights between the two assignments, the second undoes.                   *)
ClickDisconnect ==
  /\ ui = "idle"
  /\ ~ offersConnect
  /\ connected' = FALSE
  /\ admin' = (~ connected /\ admin)
  /\ ui' = IF connected THEN "close" ELSE "update"
  /\ UNCHANGED <<cur, running, offersConnect, threads, link, arrived, server,
                 overlap>>

(* running, and socket.close on whatever socket is current, which discards  *)
(* what was not read.  (The flag is only looked at together with connected, *)
(* which is cleared already or was set again by a connect thread before     *)
(* either.)                                                                 *)
CloseSocket ==
  /\ ui = "close"
  /\ running' = FALSE
  /\ ui' = "update"
  /\ UNCHANGED <<cur, connected, admin, offersConnect, threads, server, overlap>>
  /\ Sockets([link EXCEPT ![cur] = "closed"], arrived)

(* Mutant: the buttons are left to the thread that notices the close. *)
UpdateLater ==
  /\ ui = "update"
  /\ ui' = "idle"
  /\ UNCHANGED <<manager, offersConnect, threads, link, arrived, server, overlap>>

(* on_disconnected, and the same again in _disconnect. *)
Update ==
  /\ ui = "update"
  /\ offersConnect' = ~ connected
  /\ ui' = "idle"
  /\ UNCHANGED <<manager, threads, link, arrived, server, overlap>>

-----------------------------------------------------------------------------
(* A receive thread. *)

At(k, pc) == rcv[k].pc = pc
Ends(k) == rcv' = [rcv EXCEPT ![k] = NoThread]

(* The loop's condition, and the call of recv on the current socket.  (Only *)
(* a whole disconnect and connect between the two would tell them apart.)   *)
Check(k) ==
  /\ At(k, "check")
  /\ IF connected /\ running THEN rcv' = [rcv EXCEPT ![k].pc = "read", ![k].from = cur]
                             ELSE Ends(k)
  /\ UNCHANGED <<manager, window, con, link, arrived, server, overlap>>

(* What has arrived when recv looks, and its first word. *)
Receive(k) ==
  /\ At(k, "read")
  /\ LET s == rcv[k].from
     IN  \E n \in 1 .. Len(arrived[s]) :
           /\ rcv' = [rcv EXCEPT ![k] = [pc |-> "handle", from |-> NoSession,
                                         text |-> Head(arrived[s])]]
           /\ UNCHANGED <<manager, window, con, server, overlap>>
           /\ Sockets(link, [arrived EXCEPT ![s] = SubSeq(@, n + 1, Len(@))])

(* Mutant: a timeout is an error like any other. *)
TimeoutEnds(k) ==
  /\ At(k, "read")
  /\ link[rcv[k].from] \in {"open", "closed"} /\ arrived[rcv[k].from] = <<>>
  /\ Ends(k)
  /\ UNCHANGED <<manager, window, con, server, overlap>>
  /\ Sockets(link, arrived)

(* Ten seconds without data, or ten seconds since before the close. *)
Timeout(k) ==
  /\ At(k, "read")
  /\ link[rcv[k].from] \in {"open", "closed"} /\ arrived[rcv[k].from] = <<>>
  /\ rcv' = [rcv EXCEPT ![k].pc = "check", ![k].from = NoSession]
  /\ UNCHANGED <<manager, window, con, server, overlap>>
  /\ Sockets(link, arrived)

(* Mutants: empty data is not told from a timeout; or from a message. *)
ReadEndQuietly(k) ==
  /\ At(k, "read")
  /\ link[rcv[k].from] = "ended" /\ arrived[rcv[k].from] = <<>>
  /\ rcv' = [rcv EXCEPT ![k].pc = "check", ![k].from = NoSession]
  /\ UNCHANGED <<manager, window, con, server, overlap>>
  /\ Sockets(link, arrived)

ReadEndAsMessage(k) ==
  /\ At(k, "read")
  /\ link[rcv[k].from] = "ended" /\ arrived[rcv[k].from] = <<>>
  /\ rcv' = [rcv EXCEPT ![k] = [pc |-> "handle", from |-> NoSession, text |-> ""]]
  /\ UNCHANGED <<manager, window, con, server, overlap>>
  /\ Sockets(link, arrived)

(* Empty data after the server's close: the user is told.  The flag stays.  *)
ReadEnd(k) ==
  /\ At(k, "read")
  /\ link[rcv[k].from] = "ended" /\ arrived[rcv[k].from] = <<>>
  /\ rcv' = [rcv EXCEPT ![k].pc = "report"]
  /\ UNCHANGED <<manager, window, con, server, overlap>>
  /\ Sockets(link, arrived)

(* A reset, or a socket that is closed or not connected: the user is told   *)
(* while there is a session.                                                *)
ReadFails(k) ==
  /\ At(k, "read")
  /\ link[rcv[k].from] \in {"reset", "closed", "created"}
  /\ IF connected THEN rcv' = [rcv EXCEPT ![k].pc = "report"] ELSE Ends(k)
  /\ UNCHANGED <<manager, window, con, server, overlap>>
  /\ Sockets(link, arrived)

(* on_error, until the user closes the box; then the thread ends. *)
Report(k) ==
  /\ At(k, "report")
  /\ Ends(k)
  /\ UNCHANGED <<manager, window, con, link, arrived, server, overlap>>

NewRights(text) ==
  text = "AUTH_SUCCESS" \/ (admin /\ text # "AUTH_FAILED")

(* _process_server_message, with no look at the connection. *)
Handle(k) ==
  /\ At(k, "handle")
  /\ admin' = NewRights(rcv[k].text)
  /\ rcv' = [rcv EXCEPT ![k] = [NoThread EXCEPT !.pc = "check"]]
  /\ UNCHANGED <<cur, connected, running, window, con, link, arrived, server,
                 overlap>>

Receiver(k) ==
  Check(k) \/ Receive(k) \/ Timeout(k) \/ ReadEnd(k) \/ ReadFails(k)
  \/ Report(k) \/ Handle(k)

-----------------------------------------------------------------------------
(* The server, as a client sees it. *)

Sends(s, message) ==
  /\ link[s] = "open"
  /\ messages < MaxMessages
  /\ messages' = messages + 1
  /\ arrived' = [arrived EXCEPT ![s] = Append(@, message)]
  /\ UNCHANGED <<manager, window, threads, link, overlap>>

(* A click on the button and the server's answer: the click itself changes  *)
(* nothing here, and that an answer comes later is that it is read later.   *)
Authenticate ==
  /\ connected
  /\ \/ Sends(cur, "AUTH_SUCCESS") /\ granted' = TRUE
     \/ Sends(cur, "AUTH_FAILED") /\ UNCHANGED granted

SendData(s) ==
  /\ Sends(s, "DATA")
  /\ UNCHANGED granted

(* Its close or a reset. *)
Leave(s) ==
  /\ link[s] = "open"
  /\ \E l \in {"ended", "reset"} : link' = [link EXCEPT ![s] = l]
  /\ UNCHANGED <<manager, window, threads, arrived, server, overlap>>

-----------------------------------------------------------------------------
WindowThread ==
  \/ CloseSocket \/ Update
  \/ \E k \in Sessions : ConnectResult(k)
User == Authenticate \/ ClickDisconnect \/ \E k \in Sessions : ClickConnect(k)
Server(s) == SendData(s) \/ Leave(s)

Next ==
  \/ User
  \/ WindowThread
  \/ \E k \in Sessions : ConnectThread(k) \/ Receiver(k) \/ Server(k)

Spec == Init /\ [][Next]_vars

(* Fairness: every thread runs when it can, which for those that put up a   *)
(* message box means that the user closes it.  Nothing is assumed of the    *)
(* user's other clicks or of the server.                                    *)
FairSpec ==
  /\ Spec
  /\ WF_vars(WindowThread)
  /\ \A k \in Sessions : WF_vars(ConnectThread(k)) /\ WF_vars(Receiver(k))

-----------------------------------------------------------------------------
(* The type invariant. *)
TypeOK ==
  /\ cur \in Sessions \cup {NoSession}
  /\ connected \in BOOLEAN /\ admin \in BOOLEAN /\ running \in BOOLEAN
  /\ ui \in {"idle", "close", "update"}
  /\ offersConnect \in BOOLEAN
  /\ con \in [Sessions -> {"none", "create", "connect", "clear rights",
                           "read flag", "show connected", "show disconnected", "posted"}]
  /\ rcv \in [Sessions -> [pc : {"none", "check", "read", "handle", "report"},
                           from : Sessions \cup {NoSession}, text : Messages]]
  /\ link \in [Sessions -> {"new", "created", "open", "ended", "reset", "closed"}]
  /\ arrived \in [Sessions -> Seq(Messages)]
  /\ messages \in 0 .. MaxMessages
  /\ granted \in BOOLEAN
  /\ overlap \in BOOLEAN

(* As long as no socket was made while another session was connected or had *)
(* a thread, the client takes itself for an administrator only on a session *)
(* on which the server has said so, though a late AUTH_SUCCESS may be       *)
(* handled after the disconnect: it is at most for the moment between the   *)
(* assignments of network_manager.py:43 and 45, in which the connect thread *)
(* of the session has yet to clear the rights of the one before.            *)
OwnRights ==
  ~ overlap /\ connected /\ admin => granted \/ ConAt(cur, "clear rights")

(* In the first session, that is until the user disconnects, what arrives   *)
(* is read, whatever timeouts come before it and however many threads a     *)
(* second click has started.  (A new socket holds nothing and is not open.) *)
FirstSessionHears ==
  (connected /\ running /\ arrived[cur] # <<>>)
    ~> (~ connected \/ ~ running \/ link[cur] # "open" \/ arrived[cur] = <<>>)

(* Likewise the user is told when the server ends the session that a thread *)
(* listens to.                                                              *)
Listens(k) == At(k, "read") /\ rcv[k].from = cur
Left == {"ended", "reset"}

EndIsTold ==
  (running /\ connected /\ link[cur] \in Left /\ \E k \in Sessions : Listens(k))
    ~> (~ running \/ ~ connected \/ link[cur] \notin Left
          \/ \E k \in Sessions : At(k, "report") /\ rcv[k].from = cur)

(* Whoever ends the session, and if a connect fails, the window offers to   *)
(* connect again.                                                           *)
MayConnectAgain == ~ connected ~> (connected \/ offersConnect)

-----------------------------------------------------------------------------
(* What the documents say and the code does not do. *)

(* network_manager.py:165, "Hilo para recibir mensajes del servidor": what  *)
(* arrives in a session is read, in whichever session.  disconnect clears   *)
(* running and nothing sets it again, so the receive thread of every later  *)
(* session ends at once.                                                    *)
EverySessionHears ==
  (connected /\ arrived[cur] # <<>>)
    ~> (~ connected \/ link[cur] # "open" \/ arrived[cur] = <<>>)
=============================================================================
