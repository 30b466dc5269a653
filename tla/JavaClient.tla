----------------------------- MODULE JavaClient -----------------------------
(***************************************************************************)
(* The connection manager of client_java/NetworkManager.java under its     *)
(* window (Main.java): the user's clicks run on Swing's event thread, each *)
(* session starts a receive thread of its own, and all of them share the   *)
(* manager's fields.                                                       *)
(*                                                                         *)
(* socket, in and out are assigned together and read anew at every use, so *)
(* they are one field, "cur", the session they belong to.  authenticated   *)
(* and isAdmin are always set together: "admin".  What the threads may do  *)
(* between two reads of the shared fields is a step.                       *)
(*                                                                         *)
(* A message of the server is a sequence of lines, ended by an empty one.  *)
(* Only its first line is looked at; the header lines that follow DATA are *)
(* left out.                                                               *)
(*                                                                         *)
(* External: TCP, java.io and the server.  A closed or reset socket makes  *)
(* readLine throw, though lines that are already buffered may come first;  *)
(* after the server's close it returns null.  Swing runs what invokeLater  *)
(* posts after the clicks that are already queued.                         *)
(***************************************************************************)
EXTENDS Integers, Sequences

CONSTANTS
  MaxSessions,  \* bound of the model: connections the client opens
  MaxMessages   \* bound of the model: messages of the server in all

ASSUME ClientAssumption == MaxSessions \in Nat /\ MaxMessages \in Nat

Sessions == 1 .. MaxSessions   \* in the order in which they are opened
NoSession == 0

VARIABLES
  cur,         \* the session of socket, in and out
  connected,   \* the flag of that name
  admin,       \* authenticated and isAdmin
  ui,          \* the event thread's place
  offersConnect, \* the Connect button is enabled, and Disconnect is not
  posted,      \* an update of the buttons waits in the event queue
  rcv,         \* place and locals of each receive thread
  link,        \* each session's connection, as TCP and the server leave it
  lines,       \* lines received on it and not yet read
  asked,       \* an AUTH was sent on it and not yet answered
  messages,    \* number of messages the server has sent
  granted,     \* history: sessions on which the server sent AUTH_SUCCESS
  overlap      \* history: a session was opened beside a running receive thread

manager == <<cur, connected, admin>>
window == <<ui, offersConnect, posted>>
server == <<link, lines, asked, messages, granted>>
vars == <<manager, window, rcv, server, overlap>>

Empty == ""
Telemetry == <<"DATA", Empty>>
Success == <<"AUTH_SUCCESS", Empty>>
Failure == <<"AUTH_FAILED", Empty>>
Lines == {"DATA", "AUTH_SUCCESS", "AUTH_FAILED", Empty}

NoThread == [pc |-> "none", from |-> NoSession, text |-> <<>>]
Running(r) == rcv[r].pc # "none"

-----------------------------------------------------------------------------
Init ==
  /\ cur = NoSession
  /\ connected = FALSE
  /\ admin = FALSE
  /\ ui = "idle"
  /\ offersConnect = TRUE
  /\ posted = FALSE
  /\ rcv = [r \in Sessions |-> NoThread]
  /\ link = [s \in Sessions |-> "new"]
  /\ lines = [s \in Sessions |-> <<>>]
  /\ asked = [s \in Sessions |-> FALSE]
  /\ messages = 0
  /\ granted = {}
  /\ overlap = FALSE

-----------------------------------------------------------------------------
(* The event thread: connect. *)

(* The button stays enabled until the posted update runs, so a second click *)
(* opens a second session while the first is connected.  (When the server   *)
(* cannot be reached nothing changes.)                                      *)
Open ==
  /\ ui = "idle"
  /\ offersConnect
  /\ cur < MaxSessions
  /\ cur' = cur + 1
  /\ link' = [link EXCEPT ![cur + 1] = "open"]
  /\ ui' = "connecting"
  /\ overlap' = (overlap \/ \E r \in Sessions : Running(r))
  /\ UNCHANGED <<connected, admin, offersConnect, posted, rcv, lines, asked,
                 messages, granted>>

Started == [NoThread EXCEPT !.pc = "check"]

(* Mutant: the rights of the session before are kept. *)
EstablishKeepsRights ==
  /\ ui = "connecting"
  /\ connected' = TRUE
  /\ rcv' = [rcv EXCEPT ![cur] = Started]
  /\ posted' = TRUE
  /\ ui' = "idle"
  /\ UNCHANGED <<cur, admin, offersConnect, server, overlap>>

(* Flags, receive thread, listener.onConnected. *)
Establish ==
  /\ ui = "connecting"
  /\ connected' = TRUE
  /\ admin' = FALSE
  /\ rcv' = [rcv EXCEPT ![cur] = Started]
  /\ posted' = TRUE
  /\ ui' = "idle"
  /\ UNCHANGED <<cur, offersConnect, server, overlap>>

(* Main.updateConnectionStatus, posted with invokeLater. *)
UpdateStatus ==
  /\ ui = "idle"
  /\ posted
  /\ posted' = FALSE
  /\ offersConnect' = ~ connected
  /\ UNCHANGED <<manager, ui, rcv, server, overlap>>

(* Bound of the model: one AUTH at a time.  (Other requests change nothing  *)
(* here: they only make the server send.)                                   *)
Authenticate ==
  /\ ui = "idle"
  /\ ~ offersConnect
  /\ connected
  /\ ~ asked[cur]
  /\ asked' = [asked EXCEPT ![cur] = TRUE]
  /\ UNCHANGED <<manager, window, rcv, link, lines, messages, granted, overlap>>

-----------------------------------------------------------------------------
(* disconnect, called by the event thread for a click and by a receive      *)
(* thread after an error.                                                   *)

ClearFlags ==
  /\ connected' = FALSE
  /\ admin' = FALSE
  /\ UNCHANGED cur

(* Mutant: the listener is not told. *)
CloseSocketQuietly ==
  /\ link' = [link EXCEPT ![cur] = "closed"]
  /\ UNCHANGED posted

(* socket.close on whatever socket is current, listener.onDisconnected. *)
CloseSocket ==
  /\ link' = [link EXCEPT ![cur] = "closed"]
  /\ posted' = TRUE

(* The test of the flag and the clearing are one step here: what a receive  *)
(* thread does between them, the clearing undoes.                           *)
ClickDisconnect ==
  /\ ui = "idle"
  /\ ~ offersConnect
  /\ connected
  /\ ClearFlags
  /\ ui' = "closing"
  /\ UNCHANGED <<offersConnect, posted, rcv, server, overlap>>

UserCloses ==
  /\ ui = "closing"
  /\ CloseSocket
  /\ ui' = "idle"
  /\ UNCHANGED <<manager, offersConnect, rcv, lines, asked, messages, granted, overlap>>

-----------------------------------------------------------------------------
(* A receive thread. *)

At(r, pc) == rcv[r].pc = pc
Goes(r, pc) == rcv' = [rcv EXCEPT ![r].pc = pc]
Ends(r) == rcv' = [rcv EXCEPT ![r] = NoThread]

(* The loop's condition: without a connection the thread ends silently,     *)
(* otherwise it calls readLine on the reader that is current now.  (Only a  *)
(* whole disconnect and connect between the two would tell them apart, and  *)
(* the thread would read the new session then as it does when it comes      *)
(* after them.)                                                             *)
Check(r) ==
  /\ At(r, "check")
  /\ IF connected THEN rcv' = [rcv EXCEPT ![r].pc = "read", ![r].from = cur]
                  ELSE Ends(r)
  /\ UNCHANGED <<manager, window, server, overlap>>

ReadLine(r) ==
  /\ At(r, "read")
  /\ LET s == rcv[r].from
     IN  /\ lines[s] # <<>>
         /\ lines' = [lines EXCEPT ![s] = Tail(@)]
         /\ rcv' = IF Head(lines[s]) = Empty
                   THEN [rcv EXCEPT ![r].pc = "handle", ![r].from = NoSession]
                   ELSE [rcv EXCEPT ![r].pc = "check", ![r].from = NoSession,
                                    ![r].text = Append(@, Head(lines[s]))]
  /\ UNCHANGED <<manager, window, link, asked, messages, granted, overlap>>

(* Mutant: null is collected as if it were a line. *)
ReadEndCollects(r) ==
  /\ At(r, "read")
  /\ link[rcv[r].from] = "ended" /\ lines[rcv[r].from] = <<>>
  /\ rcv' = [rcv EXCEPT ![r].pc = "check", ![r].from = NoSession,
                        ![r].text = Append(@, "null")]
  /\ UNCHANGED <<manager, window, server, overlap>>

(* null after the server's close: the thread ends, and nobody is told. *)
ReadEnd(r) ==
  /\ At(r, "read")
  /\ link[rcv[r].from] = "ended" /\ lines[rcv[r].from] = <<>>
  /\ Ends(r)
  /\ UNCHANGED <<manager, window, server, overlap>>

ReadFails(r) ==
  /\ At(r, "read")
  /\ link[rcv[r].from] \in {"reset", "closed"}
  /\ rcv' = [rcv EXCEPT ![r] = [NoThread EXCEPT !.pc = "failed"]]
  /\ UNCHANGED <<manager, window, server, overlap>>

StartsWith(text, verb) == text # <<>> /\ Head(text) = verb

NewRights(text) ==
  IF StartsWith(text, "AUTH_SUCCESS") THEN TRUE
  ELSE admin /\ ~ StartsWith(text, "AUTH_FAILED")

(* Mutants: the collected lines are kept for the next message; the thread   *)
(* ends after a refusal.                                                    *)
HandleKeepsText(r) ==
  /\ At(r, "handle")
  /\ admin' = NewRights(rcv[r].text)
  /\ Goes(r, "check")
  /\ UNCHANGED <<cur, connected, window, server, overlap>>

HandleEndsAtRefusal(r) ==
  /\ At(r, "handle")
  /\ admin' = NewRights(rcv[r].text)
  /\ IF StartsWith(rcv[r].text, "AUTH_FAILED")
     THEN Ends(r)
     ELSE rcv' = [rcv EXCEPT ![r].pc = "check", ![r].text = <<>>]
  /\ UNCHANGED <<cur, connected, window, server, overlap>>

(* processServerMessage, with no look at the connection. *)
Handle(r) ==
  /\ At(r, "handle")
  /\ admin' = NewRights(rcv[r].text)
  /\ rcv' = [rcv EXCEPT ![r].pc = "check", ![r].text = <<>>]
  /\ UNCHANGED <<cur, connected, window, server, overlap>>

(* Mutant: an error ends the thread and nothing else. *)
FailsSilently(r) ==
  /\ At(r, "failed")
  /\ Ends(r)
  /\ UNCHANGED <<manager, window, server, overlap>>

(* The error is that of the thread's own session, the flag is the           *)
(* manager's: it may belong to a later session.  disconnect tests it once   *)
(* more, with nothing changed in between: one test stands for both, and the *)
(* clearing may follow a disconnect of the user.                            *)
Failed(r) ==
  /\ At(r, "failed")
  /\ IF connected THEN Goes(r, "clearing") ELSE Ends(r)
  /\ UNCHANGED <<manager, window, server, overlap>>

ThreadClears(r) ==
  /\ At(r, "clearing")
  /\ ClearFlags
  /\ Goes(r, "closing")
  /\ UNCHANGED <<window, server, overlap>>

ThreadCloses(r) ==
  /\ At(r, "closing")
  /\ CloseSocket
  /\ Ends(r)
  /\ UNCHANGED <<manager, ui, offersConnect, lines, asked, messages, granted, overlap>>

Receiver(r) ==
  \/ Check(r)
  \/ ReadLine(r)
  \/ ReadEnd(r)
  \/ ReadFails(r)
  \/ Handle(r)
  \/ Failed(r)
  \/ ThreadClears(r)
  \/ ThreadCloses(r)

-----------------------------------------------------------------------------
(* The server, as a client sees it. *)

Answer(s) ==
  /\ link[s] = "open"
  /\ messages < MaxMessages
  /\ messages' = messages + 1
  /\ asked[s]
  /\ asked' = [asked EXCEPT ![s] = FALSE]
  /\ \/ /\ lines' = [lines EXCEPT ![s] = @ \o Success]
        /\ granted' = granted \cup {s}
     \/ /\ lines' = [lines EXCEPT ![s] = @ \o Failure]
        /\ UNCHANGED granted
  /\ UNCHANGED <<manager, window, rcv, link, overlap>>

SendData(s) ==
  /\ link[s] = "open"
  /\ messages < MaxMessages
  /\ messages' = messages + 1
  /\ lines' = [lines EXCEPT ![s] = @ \o Telemetry]
  /\ UNCHANGED <<manager, window, rcv, link, asked, granted, overlap>>

(* Its close (a full table, the end of the process) or a reset. *)
Leave(s) ==
  /\ link[s] = "open"
  /\ \E l \in {"ended", "reset"} : link' = [link EXCEPT ![s] = l]
  /\ UNCHANGED <<manager, window, rcv, lines, asked, messages, granted, overlap>>

-----------------------------------------------------------------------------
(* What the event thread has begun it goes on with. *)
EventThread == Establish \/ UpdateStatus \/ UserCloses
User == Open \/ Authenticate \/ ClickDisconnect
Server(s) == Answer(s) \/ SendData(s) \/ Leave(s)

Next ==
  \/ User
  \/ EventThread
  \/ \E s \in Sessions : Receiver(s) \/ Server(s)

Spec == Init /\ [][Next]_vars

(* Fairness: both kinds of threads run when they can.  Nothing is assumed   *)
(* of the user or of the server.                                            *)
FairSpec ==
  /\ Spec
  /\ WF_vars(EventThread)
  /\ \A r \in Sessions : WF_vars(Receiver(r))

-----------------------------------------------------------------------------
(* The type invariant. *)
TypeOK ==
  /\ cur \in Sessions \cup {NoSession}
  /\ connected \in BOOLEAN /\ admin \in BOOLEAN
  /\ ui \in {"idle", "connecting", "closing"}
  /\ offersConnect \in BOOLEAN /\ posted \in BOOLEAN
  /\ rcv \in [Sessions -> [pc : {"none", "check", "read", "handle",
                                 "failed", "clearing", "closing"},
                           from : Sessions \cup {NoSession}, text : Seq(Lines)]]
  /\ link \in [Sessions -> {"new", "open", "ended", "reset", "closed"}]
  /\ lines \in [Sessions -> Seq(Lines)]
  /\ asked \in [Sessions -> BOOLEAN]
  /\ messages \in 0 .. MaxMessages
  /\ granted \subseteq Sessions
  /\ overlap \in BOOLEAN

(* As long as no session was opened beside a receive thread that still ran, *)
(* the client takes itself for an administrator only on a session on which  *)
(* the server has said so, though a late AUTH_SUCCESS may be handled after  *)
(* the disconnect.                                                          *)
OwnRights == ~ overlap /\ connected /\ admin => cur \in granted

(* Under the same condition a receive thread never mixes the lines of two   *)
(* messages: what it has collected is the start of one.                     *)
FramesIntact ==
  ~ overlap => \A r \in Sessions :
                 rcv[r].text \in {<<>>, <<"DATA">>, <<"AUTH_SUCCESS">>,
                                  <<"AUTH_FAILED">>}

(* What arrives on the current session is read, or the session ends.        *)
LinesAreRead ==
  \A s \in Sessions :
    (cur = s /\ connected /\ lines[s] # <<>>)
      ~> (lines[s] = <<>> \/ ~ connected \/ cur # s)

(* A reset of the current session is noticed: the manager disconnects.      *)
ResetIsNoticed ==
  \A s \in Sessions :
    (cur = s /\ connected /\ link[s] = "reset") ~> (~ connected \/ cur # s)

(* Whoever ends the session, the window offers to connect again.            *)
MayConnectAgain == ~ connected ~> (connected \/ offersConnect)
=============================================================================
