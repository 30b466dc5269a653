------------------------- MODULE PythonClientProofs -------------------------
(***************************************************************************)
(* Proofs about PythonClient, for any number of sessions and messages: its *)
(* types, and that as long as sessions do not overlap the rights are those *)
(* that the server gave on the current one.                                *)
(***************************************************************************)
EXTENDS PythonClient, TLAPS

-----------------------------------------------------------------------------
(* The inductive invariant. *)

(* A session whose socket does not exist yet holds nothing, and nobody but  *)
(* the thread that is to make the socket has to do with it.                 *)
Unmade ==
  \A k \in Sessions :
    /\ link[k] = "new" => /\ k # cur /\ arrived[k] = <<>>
                          /\ rcv[k].pc = "none" /\ con[k] \in {"none", "create"}
    /\ ConAt(k, "create") => link[k] = "new"
    /\ ConAt(k, "connect") \/ ConAt(k, "clear rights") => At(k, "none")

(* Before the first socket nothing is connected or about to be. *)
Begun ==
  cur = NoSession => ~ connected /\ \A k \in Sessions : con[k] \in {"none", "create"}

Reading == \A k \in Sessions : At(k, "read") => rcv[k].from \in Sessions

General == TypeOK /\ Unmade /\ Begun /\ Reading

Holds(q, message) == \E i \in 1 .. Len(q) : q[i] = message

(* Without an overlap: only the threads of the current session change what  *)
(* the sessions share; *)
Alone ==
  \A k \in Sessions :
    /\ Busy(k) => k = cur
    /\ At(k, "read") => rcv[k].from = k

(* and what has arrived on it, or was read from it, the server sent in it.  *)
Known ==
  /\ \A k \in Sessions :
       At(k, "handle") /\ rcv[k].text = "AUTH_SUCCESS" => granted
  /\ cur \in Sessions /\ Holds(arrived[cur], "AUTH_SUCCESS") => granted
  /\ connected /\ admin => granted \/ ConAt(cur, "clear rights")

Apart == Alone /\ Known

Inv == General /\ (~ overlap => Apart)

-----------------------------------------------------------------------------
(* Types. *)

Links == {"new", "created", "open", "ended", "reset", "closed"}
ConPlaces == {"none", "create", "connect", "clear rights", "read flag",
              "show connected", "show disconnected", "posted"}
Threads == [pc : {"none", "check", "read", "handle", "report"},
            from : Sessions \cup {NoSession}, text : Messages]

LEMMA ThreadTypes ==
  NoThread \in Threads /\ NoThread.pc = "none" /\ NoThread.from = NoSession
  BY DEF NoThread, Threads, Messages

LEMMA SessionNumbers == Sessions \subseteq Nat /\ NoSession \notin Sessions
  BY ClientAssumption DEF Sessions, NoSession

(* What the collection of sockets leaves of the links and of what arrived.  *)
LEMMA SocketsLeft ==
  ASSUME NEW l \in [Sessions -> Links], NEW a \in [Sessions -> Seq(Messages)],
         Sockets(l, a)
  PROVE  /\ link' \in [Sessions -> Links]
         /\ arrived' \in [Sessions -> Seq(Messages)]
         /\ \A s \in Sessions : /\ link'[s] = l[s] \/ link'[s] = "closed"
                                /\ l[s] = "new" => link'[s] = "new"
                                /\ arrived'[s] = a[s] \/ arrived'[s] = <<>>
<1>1. /\ link' = [s \in Sessions |-> IF l[s] = "new" \/ Used(s)' THEN l[s] ELSE "closed"]
      /\ arrived' = [s \in Sessions |-> IF link'[s] = "closed" THEN <<>> ELSE a[s]]
  BY DEF Sockets
<1>2. /\ link' \in [Sessions -> Links]
      /\ \A s \in Sessions : /\ link'[s] = l[s] \/ link'[s] = "closed"
                             /\ l[s] = "new" => link'[s] = "new"
  BY <1>1 DEF Links
<1>3. \A s \in Sessions : arrived'[s] = a[s] \/ arrived'[s] = <<>>
  BY <1>1
<1>4. <<>> \in Seq(Messages)
  OBVIOUS
<1>5. arrived' \in [Sessions -> Seq(Messages)]
  BY <1>1, <1>4
<1> QED
  BY <1>2, <1>3, <1>5

LEMMA MessageReceived ==
  ASSUME NEW q \in Seq(Messages), NEW n \in 1 .. Len(q)
  PROVE  /\ Head(q) \in Messages /\ Holds(q, Head(q))
         /\ SubSeq(q, n + 1, Len(q)) \in Seq(Messages)
         /\ \A m : Holds(SubSeq(q, n + 1, Len(q)), m) => Holds(q, m)
<1>1. /\ Len(q) \in Nat \ {0} /\ n \in Nat /\ Head(q) = q[1]
      /\ Len(SubSeq(q, n + 1, Len(q))) = Len(q) - n
      /\ SubSeq(q, n + 1, Len(q)) \in Seq(Messages)
      /\ \A i \in 1 .. Len(q) - n : SubSeq(q, n + 1, Len(q))[i] = q[i + n]
  OBVIOUS
<1>2. Head(q) \in Messages /\ Holds(q, Head(q))
  BY <1>1 DEF Holds
<1>3. ASSUME NEW m, NEW i \in 1 .. Len(q) - n, SubSeq(q, n + 1, Len(q))[i] = m
      PROVE  Holds(q, m)
  <2>1. i + n \in 1 .. Len(q) /\ q[i + n] = m
    BY <1>1, <1>3
  <2> QED
    BY <2>1 DEF Holds
<1>4. ASSUME NEW m, Holds(SubSeq(q, n + 1, Len(q)), m)
      PROVE  Holds(q, m)
  BY <1>1, <1>3, <1>4 DEF Holds
<1> QED
  BY <1>1, <1>2, <1>4

LEMMA MessageAppended ==
  ASSUME NEW q \in Seq(Messages), NEW m \in Messages
  PROVE  /\ Append(q, m) \in Seq(Messages)
         /\ \A n : Holds(Append(q, m), n) => Holds(q, n) \/ n = m
<1>1. /\ Len(q) \in Nat /\ Len(Append(q, m)) = Len(q) + 1
      /\ Append(q, m) \in Seq(Messages) /\ Append(q, m)[Len(q) + 1] = m
      /\ \A i \in 1 .. Len(q) : Append(q, m)[i] = q[i]
  OBVIOUS
<1>2. ASSUME NEW n, NEW i \in 1 .. Len(q) + 1, Append(q, m)[i] = n
      PROVE  Holds(q, n) \/ n = m
  <2>1. i \in 1 .. Len(q) \/ i = Len(q) + 1
    BY <1>1
  <2> QED
    BY <1>1, <1>2, <2>1 DEF Holds
<1> QED
  BY <1>1, <1>2 DEF Holds

LEMMA Sending ==
  ASSUME TypeOK, NEW s \in Sessions, NEW m \in Messages, Sends(s, m)
  PROVE  /\ messages' \in 0 .. MaxMessages
         /\ arrived' \in [Sessions -> Seq(Messages)]
         /\ \A t \in Sessions \ {s} : arrived'[t] = arrived[t]
         /\ \A n : Holds(arrived'[s], n) => Holds(arrived[s], n) \/ n = m
<1>1. /\ messages < MaxMessages /\ messages' = messages + 1
      /\ arrived' = [arrived EXCEPT ![s] = Append(@, m)]
      /\ arrived \in [Sessions -> Seq(Messages)] /\ messages \in 0 .. MaxMessages
  BY DEF Sends, TypeOK
<1>2. /\ Append(arrived[s], m) \in Seq(Messages)
      /\ \A n : Holds(Append(arrived[s], m), n) => Holds(arrived[s], n) \/ n = m
  BY <1>1, MessageAppended
<1>3. messages' \in 0 .. MaxMessages
  BY <1>1, ClientAssumption
<1>4. arrived'[s] = Append(arrived[s], m)
  BY <1>1
<1>5. \A t \in Sessions \ {s} : arrived'[t] = arrived[t]
  BY <1>1
<1>6. arrived' \in [Sessions -> Seq(Messages)]
  BY <1>1, <1>2
<1> QED
  BY <1>2, <1>3, <1>4, <1>5, <1>6

LEMMA TypeStep ==
  ASSUME General, [Next]_vars
  PROVE  TypeOK'
<1> USE DEF manager, window, threads, server
<1>0. /\ TypeOK /\ Begun /\ Reading
      /\ rcv \in [Sessions -> Threads] /\ con \in [Sessions -> ConPlaces]
      /\ link \in [Sessions -> Links] /\ arrived \in [Sessions -> Seq(Messages)]
  BY DEF General, TypeOK, Threads, ConPlaces, Links
<1>1. CASE Authenticate
  <2>1. cur \in Sessions
    BY <1>0, <1>1 DEF Authenticate, Begun, TypeOK
  <2>2. ASSUME NEW m \in Messages, Sends(cur, m)
        PROVE  messages' \in 0 .. MaxMessages /\ arrived' \in [Sessions -> Seq(Messages)]
    BY <1>0, <2>1, <2>2, Sending
  <2>3. /\ messages' \in 0 .. MaxMessages /\ arrived' \in [Sessions -> Seq(Messages)]
        /\ granted' \in BOOLEAN
    BY <1>0, <1>1, <2>2 DEF Authenticate, Messages, TypeOK
  <2> QED
    BY <1>0, <1>1, <2>3 DEF Authenticate, Sends, TypeOK
<1>2. CASE ClickDisconnect
  <2>1. connected' \in BOOLEAN /\ admin' \in BOOLEAN /\ ui' \in {"idle", "close", "update"}
    BY <1>0, <1>2 DEF ClickDisconnect
  <2> QED
    BY <1>0, <1>2, <2>1 DEF ClickDisconnect, TypeOK
<1>3. CASE CloseSocket
  <2>1. [link EXCEPT ![cur] = "closed"] \in [Sessions -> Links]
    BY <1>0 DEF Links
  <2>2. link' \in [Sessions -> Links] /\ arrived' \in [Sessions -> Seq(Messages)]
    BY <1>0, <1>3, <2>1, SocketsLeft DEF CloseSocket
  <2> QED
    BY <1>0, <1>3, <2>2 DEF CloseSocket, TypeOK, Links
<1>4. CASE Update
  BY <1>0, <1>4 DEF Update, TypeOK
<1>5. ASSUME NEW k \in Sessions, NEW pc \in ConPlaces, ConGoes(k, pc),
             UNCHANGED <<manager, ui, rcv, link, arrived, server, overlap>>,
             offersConnect' \in BOOLEAN
      PROVE  TypeOK'
  <2>1. con' \in [Sessions -> ConPlaces]
    BY <1>0, <1>5 DEF ConGoes
  <2> QED
    BY <1>0, <1>5, <2>1 DEF TypeOK, ConPlaces
<1>6. ASSUME NEW k \in Sessions,
             ClickConnect(k) \/ ConnectResult(k) \/ ConnectFails(k) \/ ReadFlag(k)
             \/ ShowFlag(k)
      PROVE  TypeOK'
  <2>1. offersConnect' \in BOOLEAN
    BY <1>0, <1>6 DEF ClickConnect, ConnectResult, ConnectFails, ReadFlag, ShowFlag,
                      ConAt, TypeOK
  <2> QED
    BY <1>5, <1>6, <2>1 DEF ClickConnect, ConnectResult, ConnectFails, ReadFlag,
                            ShowFlag, ConPlaces
<1>7. ASSUME NEW k \in Sessions, CreateSocket(k) PROVE TypeOK'
  <2>1. con' \in [Sessions -> ConPlaces]
    BY <1>0, <1>7 DEF CreateSocket, ConGoes, ConPlaces
  <2>2. [link EXCEPT ![k] = "created"] \in [Sessions -> Links]
    BY <1>0 DEF Links
  <2>3. link' \in [Sessions -> Links] /\ arrived' \in [Sessions -> Seq(Messages)]
    BY <1>0, <1>7, <2>2, SocketsLeft DEF CreateSocket
  <2>4. overlap' \in BOOLEAN
    BY <1>0, <1>7 DEF CreateSocket, TypeOK
  <2> QED
    BY <1>0, <1>7, <2>1, <2>3, <2>4 DEF CreateSocket, TypeOK, ConPlaces, Links
<1>8. ASSUME NEW k \in Sessions, Connect(k) PROVE TypeOK'
  <2>1. con' \in [Sessions -> ConPlaces] /\ link' \in [Sessions -> Links]
    BY <1>0, <1>8 DEF Connect, ConGoes, ConPlaces, Links
  <2> QED
    BY <1>0, <1>8, <2>1 DEF Connect, TypeOK, ConPlaces, Links, Threads
<1>13. ASSUME NEW k \in Sessions, StartReceiver(k) PROVE TypeOK'
  <2>1. con' \in [Sessions -> ConPlaces]
    BY <1>0, <1>13 DEF StartReceiver, ConGoes, ConPlaces
  <2>2. [rcv[k] EXCEPT !.pc = "check"] \in Threads
    BY <1>0 DEF Threads
  <2>3. rcv' \in [Sessions -> Threads]
    BY <1>0, <1>13, <2>2 DEF StartReceiver
  <2> QED
    BY <1>0, <1>13, <2>1, <2>3 DEF StartReceiver, TypeOK, ConPlaces, Threads
<1>9. ASSUME NEW k \in Sessions, NEW q \in Threads, rcv' = [rcv EXCEPT ![k] = q],
             UNCHANGED <<cur, connected, running, window, con, server, overlap>>,
             admin' \in BOOLEAN, link' \in [Sessions -> Links],
             arrived' \in [Sessions -> Seq(Messages)]
      PROVE  TypeOK'
  <2>1. rcv' \in [Sessions -> Threads]
    BY <1>0, <1>9
  <2> QED
    BY <1>0, <1>9, <2>1 DEF TypeOK, Links, Threads
<1>10. ASSUME NEW k \in Sessions, Receiver(k) PROVE TypeOK'
  <2>0. /\ rcv[k] \in Threads /\ admin \in BOOLEAN
        /\ cur \in Sessions \cup {NoSession}
    BY <1>0 DEF TypeOK
  <2>1. CASE Check(k)
    <3>1. [rcv[k] EXCEPT !.pc = "read", !.from = cur] \in Threads
      BY <2>0 DEF Threads
    <3>2. UNCHANGED <<manager, window, con, link, arrived, server, overlap>>
      BY <2>1 DEF Check
    <3>3. PICK q \in Threads : rcv' = [rcv EXCEPT ![k] = q]
      BY <2>1, <3>1, ThreadTypes DEF Check, Ends
    <3> QED
      BY <1>0, <1>9, <2>0, <3>2, <3>3
  <2>2. CASE Receive(k)
    <3>1. PICK s : s = rcv[k].from
      OBVIOUS
    <3>2. s \in Sessions /\ arrived[s] \in Seq(Messages)
      BY <1>0, <2>2, <3>1 DEF Receive, Reading
    <3>3. PICK n \in 1 .. Len(arrived[s]) :
            /\ rcv' = [rcv EXCEPT ![k] = [pc |-> "handle", from |-> NoSession,
                                          text |-> Head(arrived[s])]]
            /\ UNCHANGED <<manager, window, con, server, overlap>>
            /\ Sockets(link, [arrived EXCEPT ![s] = SubSeq(@, n + 1, Len(@))])
      BY <2>2, <3>1 DEF Receive
    <3>4. [arrived EXCEPT ![s] = SubSeq(@, n + 1, Len(@))] \in [Sessions -> Seq(Messages)]
      BY <1>0, <3>2, MessageReceived
    <3>5. [pc |-> "handle", from |-> NoSession, text |-> Head(arrived[s])] \in Threads
      BY <3>2, MessageReceived DEF Threads
    <3>6. link' \in [Sessions -> Links] /\ arrived' \in [Sessions -> Seq(Messages)]
      BY <1>0, <3>3, <3>4, SocketsLeft
    <3> QED
      BY <1>9, <2>0, <3>3, <3>5, <3>6
  <2>3. CASE Timeout(k)
    <3>1. [rcv[k] EXCEPT !.pc = "check", !.from = NoSession] \in Threads
      BY <2>0 DEF Threads
    <3>2. link' \in [Sessions -> Links] /\ arrived' \in [Sessions -> Seq(Messages)]
      BY <1>0, <2>3, SocketsLeft DEF Timeout
    <3> QED
      BY <1>9, <2>0, <2>3, <3>1, <3>2 DEF Timeout
  <2>4. CASE ReadEnd(k) \/ ReadFails(k)
    <3>1. [rcv[k] EXCEPT !.pc = "report"] \in Threads
      BY <2>0 DEF Threads
    <3>2. link' \in [Sessions -> Links] /\ arrived' \in [Sessions -> Seq(Messages)]
      BY <1>0, <2>4, SocketsLeft DEF ReadEnd, ReadFails
    <3> QED
      BY <1>9, <2>0, <2>4, <3>1, <3>2, ThreadTypes DEF ReadEnd, ReadFails, Ends
  <2>5. CASE Report(k)
    BY <1>0, <1>9, <2>0, <2>5, ThreadTypes DEF Report, Ends
  <2>6. CASE Handle(k)
    <3>1. [NoThread EXCEPT !.pc = "check"] \in Threads
      BY ThreadTypes DEF Threads, NoThread, Messages
    <3>2. admin' \in BOOLEAN
      BY <2>0, <2>6 DEF Handle, NewRights
    <3> QED
      BY <1>0, <1>9, <2>6, <3>1, <3>2 DEF Handle
  <2> QED
    BY <1>10, <2>1, <2>2, <2>3, <2>4, <2>5, <2>6 DEF Receiver
<1>11. ASSUME NEW s \in Sessions, Server(s) PROVE TypeOK'
  <2>1. CASE SendData(s)
    <3>1. messages' \in 0 .. MaxMessages /\ arrived' \in [Sessions -> Seq(Messages)]
      BY <1>0, <2>1, Sending DEF SendData, Messages
    <3> QED
      BY <1>0, <2>1, <3>1 DEF SendData, Sends, TypeOK
  <2>2. CASE Leave(s)
    BY <1>0, <2>2 DEF Leave, TypeOK
  <2> QED
    BY <1>11, <2>1, <2>2 DEF Server
<1>12. CASE UNCHANGED vars
  BY <1>0, <1>12 DEF TypeOK, vars
<1> QED
  BY <1>1, <1>2, <1>3, <1>4, <1>6, <1>7, <1>8, <1>10, <1>11, <1>12, <1>13
     DEF Next, User, WindowThread, ConnectThread

-----------------------------------------------------------------------------
(* The parts that hold with and without an overlap. *)

(* What a receive thread may do to the rest. *)
LEMMA ReceiverKeeps ==
  ASSUME General, NEW k \in Sessions, Receiver(k)
  PROVE  /\ UNCHANGED <<cur, connected, running, window, con, server, overlap>>
         /\ rcv[k].pc # "none"
         /\ \A t \in Sessions \ {k} : rcv'[t] = rcv[t]
         /\ \A s \in Sessions :
              /\ link'[s] = link[s] \/ (link'[s] = "closed" /\ link[s] # "new")
              /\ link[s] = "new" => arrived'[s] = arrived[s] \/ arrived'[s] = <<>>
              /\ \A m : Holds(arrived'[s], m) => Holds(arrived[s], m)
<1> USE DEF manager, window, server
<1>0. /\ Unmade /\ Reading /\ rcv \in [Sessions -> Threads]
      /\ link \in [Sessions -> Links] /\ arrived \in [Sessions -> Seq(Messages)]
  BY DEF General, TypeOK, Threads, Links
<1>1. /\ UNCHANGED <<cur, connected, running, window, con, server, overlap>>
      /\ rcv[k].pc # "none"
      /\ \A t \in Sessions \ {k} : rcv'[t] = rcv[t]
  BY <1>0 DEF Receiver, Check, Receive, Timeout, ReadEnd, ReadFails, Report, Handle,
              Ends, At
<1>2. \A m : ~ Holds(<<>>, m)
  BY DEF Holds
<1>3. ASSUME NEW a \in [Sessions -> Seq(Messages)], Sockets(link, a),
             \A s \in Sessions :
               /\ link[s] = "new" => a[s] = arrived[s]
               /\ \A m : Holds(a[s], m) => Holds(arrived[s], m)
      PROVE  \A s \in Sessions :
              /\ link'[s] = link[s] \/ (link'[s] = "closed" /\ link[s] # "new")
              /\ link[s] = "new" => arrived'[s] = arrived[s] \/ arrived'[s] = <<>>
              /\ \A m : Holds(arrived'[s], m) => Holds(arrived[s], m)
  <2>1. \A s \in Sessions : /\ link'[s] = link[s] \/ link'[s] = "closed"
                            /\ link[s] = "new" => link'[s] = "new"
                            /\ arrived'[s] = a[s] \/ arrived'[s] = <<>>
    BY <1>0, <1>3, SocketsLeft
  <2> QED
    BY <1>2, <1>3, <2>1
<1>4. CASE Timeout(k) \/ ReadEnd(k) \/ ReadFails(k)
  <2>1. Sockets(link, arrived)
    BY <1>4 DEF Timeout, ReadEnd, ReadFails
  <2> QED
    BY <1>0, <1>1, <1>3, <2>1
<1>5. CASE Check(k) \/ Report(k) \/ Handle(k)
  <2>1. UNCHANGED <<link, arrived>>
    BY <1>5 DEF Check, Report, Handle
  <2> QED
    BY <1>1, <2>1
<1>6. CASE Receive(k)
  <2>1. PICK s : s = rcv[k].from
    OBVIOUS
  <2>2. s \in Sessions /\ arrived[s] \in Seq(Messages)
    BY <1>0, <1>6, <2>1 DEF Receive, Reading
  <2>3. PICK n \in 1 .. Len(arrived[s]) :
          Sockets(link, [arrived EXCEPT ![s] = SubSeq(@, n + 1, Len(@))])
    BY <1>6, <2>1 DEF Receive
  <2>4. PICK a : a = [arrived EXCEPT ![s] = SubSeq(@, n + 1, Len(@))]
    OBVIOUS
  <2>5. /\ SubSeq(arrived[s], n + 1, Len(arrived[s])) \in Seq(Messages)
        /\ \A m : Holds(SubSeq(arrived[s], n + 1, Len(arrived[s])), m)
                    => Holds(arrived[s], m)
    BY <2>2, MessageReceived
  <2>6. /\ a \in [Sessions -> Seq(Messages)]
        /\ a[s] = SubSeq(arrived[s], n + 1, Len(arrived[s]))
        /\ \A t \in Sessions \ {s} : a[t] = arrived[t]
    BY <1>0, <2>2, <2>4, <2>5
  <2>7. link[s] # "new"
    <3>1. arrived[s] # <<>>
      BY <2>2, <2>3
    <3> QED
      BY <1>0, <2>2, <3>1 DEF Unmade
  <2>8. \A t \in Sessions :
          /\ link[t] = "new" => a[t] = arrived[t]
          /\ \A m : Holds(a[t], m) => Holds(arrived[t], m)
    BY <2>5, <2>6, <2>7
  <2> QED
    BY <1>1, <1>3, <2>3, <2>4, <2>6, <2>8
<1> QED
  BY <1>4, <1>5, <1>6 DEF Receiver

(* The steps of the window's and of the connect threads that only move      *)
(* them on and update the buttons.                                          *)
Moves(k) ==
  ClickConnect(k) \/ ConnectResult(k) \/ ConnectFails(k) \/ ReadFlag(k) \/ ShowFlag(k)

LEMMA MovesKeep ==
  ASSUME General, NEW k \in Sessions, Moves(k)
  PROVE  /\ UNCHANGED <<manager, rcv, link, arrived, server, overlap>>
         /\ \A j \in Sessions \ {k} : con'[j] = con[j]
         /\ \/ con[k] = "none" /\ con'[k] = "create" /\ link[k] = "new"
            \/ /\ con[k] \notin {"none", "create", "clear rights"}
               /\ con'[k] \notin {"create", "connect", "clear rights"}
  BY DEF General, TypeOK, Moves, ClickConnect, ConnectResult, ConnectFails, ReadFlag,
         ShowFlag, ConAt, ConGoes

LEMMA NextKinds ==
  ASSUME [Next]_vars
  PROVE  \/ Authenticate \/ ClickDisconnect \/ CloseSocket \/ Update
         \/ UNCHANGED vars
         \/ \E k \in Sessions :
              \/ Moves(k) \/ CreateSocket(k) \/ Connect(k) \/ StartReceiver(k)
              \/ Receiver(k) \/ SendData(k) \/ Leave(k)
  BY DEF Next, User, WindowThread, ConnectThread, Server, Moves

LEMMA UnmadeStep ==
  ASSUME General, [Next]_vars
  PROVE  Unmade'
<1> USE DEF manager, window, threads, server, At, ConAt
<1>0. /\ TypeOK /\ Unmade /\ Begun
      /\ rcv \in [Sessions -> Threads] /\ con \in [Sessions -> ConPlaces]
      /\ link \in [Sessions -> Links] /\ arrived \in [Sessions -> Seq(Messages)]
  BY DEF General, TypeOK, Threads, ConPlaces, Links
<1>1. ASSUME NEW s \in Sessions, NEW m \in Messages, Sends(s, m) PROVE Unmade'
  <2>1. /\ link[s] = "open" /\ UNCHANGED <<cur, con, rcv, link>>
        /\ \A t \in Sessions \ {s} : arrived'[t] = arrived[t]
    BY <1>0, <1>1, Sending DEF Sends
  <2> QED
    BY <1>0, <2>1 DEF Unmade
<1>2. CASE Authenticate
  <2>1. cur \in Sessions
    BY <1>0, <1>2 DEF Authenticate, Begun, TypeOK
  <2> QED
    BY <1>1, <1>2, <2>1 DEF Authenticate, Messages
<1>3. CASE ClickDisconnect \/ Update \/ UNCHANGED vars
  <2>1. UNCHANGED <<cur, con, rcv, link, arrived>>
    BY <1>3 DEF ClickDisconnect, Update, vars
  <2> QED
    BY <1>0, <2>1 DEF Unmade
<1>4. CASE CloseSocket
  <2>1. PICK l : l = [link EXCEPT ![cur] = "closed"]
    OBVIOUS
  <2>2. /\ l \in [Sessions -> Links]
        /\ \A s \in Sessions : /\ s # cur => l[s] = link[s]
                               /\ s = cur => l[s] = "closed"
    BY <1>0, <2>1 DEF Links
  <2>3. Sockets(l, arrived) /\ UNCHANGED <<cur, con, rcv>>
    BY <1>4, <2>1 DEF CloseSocket
  <2>4. \A s \in Sessions :
          /\ link'[s] = "new" <=> link[s] = "new"
          /\ arrived'[s] = arrived[s] \/ arrived'[s] = <<>>
    <3>1. \A s \in Sessions : /\ link'[s] = l[s] \/ link'[s] = "closed"
                              /\ l[s] = "new" => link'[s] = "new"
                              /\ arrived'[s] = arrived[s] \/ arrived'[s] = <<>>
      BY <1>0, <2>2, <2>3, SocketsLeft
    <3>2. \A s \in Sessions : l[s] = "new" <=> link[s] = "new"
      BY <1>0, <2>2 DEF Unmade
    <3> QED
      BY <3>1, <3>2
  <2> QED
    BY <1>0, <2>3, <2>4 DEF Unmade
<1>5. ASSUME NEW k \in Sessions, Moves(k) PROVE Unmade'
  BY <1>0, <1>5, MovesKeep DEF Unmade
<1>6. ASSUME NEW k \in Sessions, CreateSocket(k) PROVE Unmade'
  <2>1. PICK l : l = [link EXCEPT ![k] = "created"]
    OBVIOUS
  <2>2. /\ l \in [Sessions -> Links] /\ l[k] = "created"
        /\ \A s \in Sessions \ {k} : l[s] = link[s]
    BY <1>0, <2>1 DEF Links
  <2>3. /\ Sockets(l, arrived) /\ cur' = k /\ UNCHANGED rcv
        /\ con[k] = "create" /\ con' = [con EXCEPT ![k] = "connect"]
    BY <1>6, <2>1 DEF CreateSocket, ConGoes
  <2>4. /\ link'[k] # "new"
        /\ \A s \in Sessions \ {k} : link'[s] = "new" <=> link[s] = "new"
        /\ \A s \in Sessions : arrived'[s] = arrived[s] \/ arrived'[s] = <<>>
    BY <1>0, <2>2, <2>3, SocketsLeft
  <2>5. con'[k] = "connect" /\ \A s \in Sessions \ {k} : con'[s] = con[s]
    BY <1>0, <2>3
  <2> QED
    BY <1>0, <2>3, <2>4, <2>5 DEF Unmade
<1>7. ASSUME NEW k \in Sessions, Connect(k) PROVE Unmade'
  <2>1. /\ con[k] = "connect" /\ con' = [con EXCEPT ![k] = "clear rights"]
        /\ link[cur] = "created" /\ link' = [link EXCEPT ![cur] = "open"]
        /\ UNCHANGED <<cur, rcv, arrived>>
    BY <1>7 DEF Connect, ConGoes
  <2>2. cur \in Sessions
    BY <1>0, <2>1 DEF Begun, TypeOK
  <2>3. \A s \in Sessions : link'[s] = "new" <=> link[s] = "new"
    BY <1>0, <2>1, <2>2
  <2>4. /\ con'[k] = "clear rights" /\ link[k] # "new"
        /\ \A s \in Sessions \ {k} : con'[s] = con[s]
    BY <1>0, <2>1 DEF Unmade
  <2> QED
    BY <1>0, <2>1, <2>3, <2>4 DEF Unmade
<1>11. ASSUME NEW k \in Sessions, StartReceiver(k) PROVE Unmade'
  <2>1. /\ con[k] = "clear rights" /\ con' = [con EXCEPT ![k] = "read flag"]
        /\ rcv' = [rcv EXCEPT ![k].pc = "check"] /\ UNCHANGED <<cur, link, arrived>>
    BY <1>11 DEF StartReceiver, ConGoes
  <2>2. /\ con'[k] = "read flag" /\ link[k] # "new"
        /\ \A s \in Sessions \ {k} : con'[s] = con[s] /\ rcv'[s] = rcv[s]
    BY <1>0, <2>1 DEF Unmade
  <2> QED
    BY <1>0, <2>1, <2>2 DEF Unmade
<1>8. ASSUME NEW k \in Sessions, Receiver(k) PROVE Unmade'
  BY <1>0, <1>8, ReceiverKeeps DEF Unmade
<1>9. ASSUME NEW s \in Sessions, SendData(s) PROVE Unmade'
  BY <1>1, <1>9 DEF SendData, Messages
<1>10. ASSUME NEW s \in Sessions, Leave(s) PROVE Unmade'
  BY <1>0, <1>10 DEF Leave, Unmade
<1> QED
  BY <1>2, <1>3, <1>4, <1>5, <1>6, <1>7, <1>8, <1>9, <1>10, <1>11, NextKinds

LEMMA BegunStep ==
  ASSUME General, [Next]_vars
  PROVE  Begun'
<1> USE DEF manager, window, threads, server, ConAt
<1>0. TypeOK /\ Begun /\ con \in [Sessions -> ConPlaces]
  BY DEF General, TypeOK, ConPlaces
<1>1. CASE Authenticate \/ ClickDisconnect \/ CloseSocket \/ Update \/ UNCHANGED vars
  <2>1. UNCHANGED <<cur, con>> /\ (connected' => connected)
    BY <1>1 DEF Authenticate, Sends, ClickDisconnect, CloseSocket, Update, vars
  <2> QED
    BY <1>0, <2>1 DEF Begun
<1>2. ASSUME NEW k \in Sessions, Moves(k) PROVE Begun'
  BY <1>0, <1>2, MovesKeep DEF Begun
<1>3. ASSUME NEW k \in Sessions, CreateSocket(k) PROVE Begun'
  BY <1>3, SessionNumbers DEF CreateSocket, Begun
<1>4. ASSUME NEW k \in Sessions, Connect(k) \/ StartReceiver(k) PROVE Begun'
  BY <1>0, <1>4 DEF Connect, StartReceiver, Begun
<1>5. ASSUME NEW k \in Sessions, Receiver(k) \/ SendData(k) \/ Leave(k) PROVE Begun'
  <2>1. UNCHANGED <<cur, con, connected>>
    BY <1>5, ReceiverKeeps DEF SendData, Sends, Leave
  <2> QED
    BY <1>0, <2>1 DEF Begun
<1> QED
  BY <1>1, <1>2, <1>3, <1>4, <1>5, NextKinds

LEMMA ReadingStep ==
  ASSUME General, [Next]_vars
  PROVE  Reading'
<1> USE DEF manager, window, threads, server, At
<1>0. TypeOK /\ Begun /\ Reading /\ rcv \in [Sessions -> Threads]
  BY DEF General, TypeOK, Threads
<1>1. CASE UNCHANGED rcv
  BY <1>0, <1>1 DEF Reading
<1>2. CASE Authenticate \/ ClickDisconnect \/ CloseSocket \/ Update \/ UNCHANGED vars
  BY <1>1, <1>2 DEF Authenticate, Sends, ClickDisconnect, CloseSocket, Update, vars
<1>3. ASSUME NEW k \in Sessions,
             Moves(k) \/ CreateSocket(k) \/ Connect(k) \/ SendData(k) \/ Leave(k)
      PROVE  Reading'
  BY <1>1, <1>3, MovesKeep DEF CreateSocket, Connect, SendData, Sends, Leave
<1>4. ASSUME NEW k \in Sessions, StartReceiver(k) PROVE Reading'
  BY <1>0, <1>4 DEF StartReceiver, Reading, Threads
<1>5. ASSUME NEW k \in Sessions, Receiver(k) PROVE Reading'
  <2>1. \A t \in Sessions \ {k} : rcv'[t] = rcv[t]
    BY <1>5, ReceiverKeeps
  <2>2. rcv'[k].pc = "read" => rcv'[k].from \in Sessions
    <3>1. CASE Check(k)
      <4>1. CASE connected /\ running
        <5>1. cur \in Sessions
          BY <1>0, <4>1 DEF Begun, TypeOK
        <5>2. rcv'[k].from = cur
          BY <1>0, <3>1, <4>1 DEF Check, Threads
        <5> QED
          BY <5>1, <5>2
      <4>2. CASE ~ (connected /\ running)
        BY <1>0, <3>1, <4>2, ThreadTypes DEF Check, Ends
      <4> QED
        BY <4>1, <4>2
    <3>2. CASE Receive(k)
      BY <1>0, <3>2 DEF Receive
    <3>3. CASE Timeout(k) \/ ReadEnd(k)
      BY <1>0, <3>3 DEF Timeout, ReadEnd, Threads
    <3>4. CASE ReadFails(k)
      BY <1>0, <3>4, ThreadTypes DEF ReadFails, Ends, Threads
    <3>5. CASE Report(k) \/ Handle(k)
      BY <1>0, <3>5, ThreadTypes DEF Report, Handle, Ends, NoThread
    <3> QED
      BY <1>5, <3>1, <3>2, <3>3, <3>4, <3>5 DEF Receiver
  <2> QED
    BY <1>0, <2>1, <2>2 DEF Reading
<1> QED
  BY <1>2, <1>3, <1>4, <1>5, NextKinds

-----------------------------------------------------------------------------
(* Without an overlap. *)

LEMMA ApartStep ==
  ASSUME General, Apart, [Next]_vars, ~ overlap'
  PROVE  Apart'
<1> USE DEF manager, window, threads, server, At, ConAt
<1>0. /\ TypeOK /\ Unmade /\ Begun /\ Alone /\ Known
      /\ rcv \in [Sessions -> Threads] /\ con \in [Sessions -> ConPlaces]
      /\ link \in [Sessions -> Links] /\ arrived \in [Sessions -> Seq(Messages)]
      /\ connected \in BOOLEAN /\ admin \in BOOLEAN /\ granted \in BOOLEAN
  BY DEF General, Apart, TypeOK, Threads, ConPlaces, Links
<1>1. \A m : ~ Holds(<<>>, m)
  BY DEF Holds
<1>2. ASSUME UNCHANGED <<cur, con, rcv>>, granted => granted',
             connected' /\ admin' => granted' \/ ConAt(cur, "clear rights"),
             cur \in Sessions /\ Holds(arrived'[cur], "AUTH_SUCCESS") => granted'
      PROVE  Apart'
  <2>1. Alone'
    BY <1>0, <1>2 DEF Alone, Busy
  <2>2. Known'
    BY <1>0, <1>2 DEF Known
  <2> QED
    BY <2>1, <2>2 DEF Apart
<1>3. ASSUME NEW s \in Sessions, NEW m \in Messages, Sends(s, m),
             m # "AUTH_SUCCESS", UNCHANGED granted
      PROVE  Apart'
  <2>1. /\ UNCHANGED <<cur, con, rcv, connected, admin>>
        /\ \A t \in Sessions \ {s} : arrived'[t] = arrived[t]
        /\ Holds(arrived'[s], "AUTH_SUCCESS") => Holds(arrived[s], "AUTH_SUCCESS")
    BY <1>0, <1>3, Sending DEF Sends
  <2>2. cur \in Sessions /\ Holds(arrived'[cur], "AUTH_SUCCESS") => granted
    BY <1>0, <2>1 DEF Known
  <2> QED
    BY <1>0, <1>2, <1>3, <2>1, <2>2 DEF Known
<1>4. CASE Authenticate
  <2>1. cur \in Sessions
    BY <1>0, <1>4 DEF Authenticate, Begun, TypeOK
  <2>2. CASE Sends(cur, "AUTH_SUCCESS") /\ granted' = TRUE
    BY <1>2, <2>2 DEF Sends
  <2>3. CASE Sends(cur, "AUTH_FAILED") /\ UNCHANGED granted
    BY <1>3, <2>1, <2>3 DEF Messages
  <2> QED
    BY <1>4, <2>2, <2>3 DEF Authenticate
<1>5. CASE ClickDisconnect \/ Update \/ UNCHANGED vars
  <2>1. /\ UNCHANGED <<cur, con, rcv, arrived, granted>>
        /\ connected' /\ admin' => connected /\ admin
    BY <1>5 DEF ClickDisconnect, Update, vars
  <2> QED
    BY <1>0, <1>2, <2>1 DEF Known
<1>6. CASE CloseSocket
  <2>1. PICK l : l = [link EXCEPT ![cur] = "closed"]
    OBVIOUS
  <2>2. /\ l \in [Sessions -> Links] /\ Sockets(l, arrived)
        /\ UNCHANGED <<cur, connected, admin, con, rcv, granted>>
    BY <1>0, <1>6, <2>1 DEF CloseSocket, Links
  <2>3. \A s \in Sessions : arrived'[s] = arrived[s] \/ arrived'[s] = <<>>
    BY <1>0, <2>2, SocketsLeft
  <2>4. cur \in Sessions /\ Holds(arrived'[cur], "AUTH_SUCCESS") => granted
    BY <1>0, <1>1, <2>3 DEF Known
  <2> QED
    BY <1>0, <1>2, <2>2, <2>4 DEF Known
<1>7. ASSUME NEW k \in Sessions, Moves(k) PROVE Apart'
  <2>1. /\ UNCHANGED <<manager, rcv, arrived, granted>>
        /\ \A j \in Sessions :
             /\ con'[j] = "connect" => con[j] = "connect"
             /\ con'[j] = "clear rights" <=> con[j] = "clear rights"
    BY <1>7, MovesKeep
  <2>2. Alone'
    BY <1>0, <2>1 DEF Alone, Busy
  <2>3. connected => cur \in Sessions
    BY <1>0 DEF Begun, TypeOK
  <2>4. Known'
    BY <1>0, <2>1, <2>3 DEF Known
  <2> QED
    BY <2>2, <2>4 DEF Apart
<1>8. ASSUME NEW k \in Sessions, CreateSocket(k) PROVE Apart'
  <2>1. PICK l : l = [link EXCEPT ![k] = "created"]
    OBVIOUS
  <2>2. /\ con[k] = "create" /\ cur' = k
        /\ Sockets(l, arrived) /\ l \in [Sessions -> Links]
        /\ con' = [con EXCEPT ![k] = "connect"]
        /\ ~ connected /\ \A j \in Sessions \ {k} : ~ Busy(j)
        /\ UNCHANGED <<connected, rcv>>
    BY <1>0, <1>8, <2>1 DEF CreateSocket, ConGoes, Links
  <2>3. \A j \in Sessions : rcv[j].pc = "none"
    BY <1>0, <2>2 DEF Unmade, Busy
  <2>4. \A j \in Sessions \ {k} : con'[j] \notin {"connect", "clear rights"}
    BY <1>0, <2>2 DEF Busy
  <2>5. Alone'
    BY <2>2, <2>3, <2>4 DEF Alone, Busy
  <2>6. arrived'[k] = <<>>
    BY <1>0, <2>2, SocketsLeft DEF Unmade
  <2>7. Known'
    BY <1>1, <2>2, <2>3, <2>6 DEF Known
  <2> QED
    BY <2>5, <2>7 DEF Apart
<1>9. ASSUME NEW k \in Sessions, Connect(k) PROVE Apart'
  <2>1. /\ con[k] = "connect" /\ con' = [con EXCEPT ![k] = "clear rights"]
        /\ UNCHANGED <<cur, rcv, arrived, granted>>
    BY <1>9 DEF Connect, ConGoes
  <2>2. k = cur
    BY <1>0, <2>1 DEF Alone, Busy
  <2>3. /\ con'[k] = "clear rights"
        /\ \A j \in Sessions \ {k} : con'[j] = con[j]
    BY <1>0, <2>1
  <2>4. Alone'
    BY <1>0, <2>1, <2>2, <2>3 DEF Alone, Busy
  <2>5. Known'
    BY <1>0, <2>1, <2>2, <2>3 DEF Known
  <2> QED
    BY <2>4, <2>5 DEF Apart
<1>13. ASSUME NEW k \in Sessions, StartReceiver(k) PROVE Apart'
  <2>1. /\ con[k] = "clear rights" /\ con' = [con EXCEPT ![k] = "read flag"]
        /\ rcv' = [rcv EXCEPT ![k].pc = "check"]
        /\ ~ admin' /\ UNCHANGED <<cur, arrived, granted>>
    BY <1>13 DEF StartReceiver, ConGoes
  <2>2. k = cur
    BY <1>0, <2>1 DEF Alone, Busy
  <2>3. /\ rcv'[k].pc = "check" /\ con'[k] = "read flag"
        /\ \A j \in Sessions \ {k} : con'[j] = con[j] /\ rcv'[j] = rcv[j]
    BY <1>0, <2>1 DEF Threads
  <2>4. Alone'
    BY <1>0, <2>1, <2>2, <2>3 DEF Alone, Busy
  <2>5. Known'
    BY <1>0, <2>1, <2>3 DEF Known
  <2> QED
    BY <2>4, <2>5 DEF Apart
<1>10. ASSUME NEW k \in Sessions, Receiver(k) PROVE Apart'
  <2>1. /\ UNCHANGED <<cur, connected, con, granted>>
        /\ rcv[k].pc # "none"
        /\ \A t \in Sessions \ {k} : rcv'[t] = rcv[t]
        /\ \A s \in Sessions : \A m : Holds(arrived'[s], m) => Holds(arrived[s], m)
    BY <1>10, ReceiverKeeps
  <2>2. k = cur /\ (rcv[k].pc = "read" => rcv[k].from = k)
    BY <1>0, <2>1 DEF Alone, Busy
  <2>3. /\ rcv'[k].pc = "read" => rcv'[k].from = k
        /\ rcv'[k].pc = "handle" /\ rcv'[k].text = "AUTH_SUCCESS" => granted
    <3>1. CASE Check(k) /\ connected /\ running
      BY <1>0, <2>2, <3>1 DEF Check, Threads
    <3>2. CASE Ends(k)
      BY <1>0, <3>2, ThreadTypes DEF Ends
    <3>3. CASE Receive(k)
      <4>1. arrived[k] \in Seq(Messages) /\ rcv[k].from = k
        BY <1>0, <2>2, <3>3 DEF Receive
      <4>2. PICK n \in 1 .. Len(arrived[k]) :
              rcv' = [rcv EXCEPT ![k] = [pc |-> "handle", from |-> NoSession,
                                         text |-> Head(arrived[k])]]
        BY <3>3, <4>1 DEF Receive
      <4>3. Holds(arrived[k], Head(arrived[k]))
        BY <4>1, <4>2, MessageReceived
      <4>4. rcv'[k].pc = "handle" /\ rcv'[k].text = Head(arrived[k])
        BY <1>0, <4>2
      <4> QED
        BY <1>0, <2>2, <4>3, <4>4 DEF Known
    <3>4. CASE Timeout(k)
      BY <1>0, <3>4 DEF Timeout, Threads
    <3>5. CASE rcv' = [rcv EXCEPT ![k].pc = "report"]
      BY <1>0, <3>5 DEF Threads
    <3>6. CASE Handle(k)
      BY <1>0, <3>6 DEF Handle, NoThread
    <3> QED
      BY <1>10, <3>1, <3>2, <3>3, <3>4, <3>5, <3>6
         DEF Receiver, Check, ReadEnd, ReadFails, Report
  <2>4. connected' /\ admin' => granted' \/ ConAt(cur, "clear rights")'
    <3>1. CASE Handle(k)
      <4>1. rcv[k].pc = "handle" /\ admin' = NewRights(rcv[k].text)
        BY <3>1 DEF Handle
      <4> QED
        BY <1>0, <2>1, <4>1 DEF NewRights, Known
    <3>2. CASE admin' = admin
      BY <1>0, <2>1, <3>2 DEF Known
    <3> QED
      BY <1>10, <3>1, <3>2
         DEF Receiver, Check, Receive, Timeout, ReadEnd, ReadFails, Report
  <2>5. Alone'
    BY <1>0, <2>1, <2>2, <2>3 DEF Alone, Busy
  <2>6. Known'
    BY <1>0, <2>1, <2>3, <2>4 DEF Known
  <2> QED
    BY <2>5, <2>6 DEF Apart
<1>11. ASSUME NEW s \in Sessions, SendData(s) PROVE Apart'
  BY <1>3, <1>11 DEF SendData, Messages
<1>12. ASSUME NEW s \in Sessions, Leave(s) PROVE Apart'
  BY <1>0, <1>2, <1>12 DEF Leave, Known
<1> QED
  BY <1>4, <1>5, <1>6, <1>7, <1>8, <1>9, <1>10, <1>11, <1>12, <1>13, NextKinds

LEMMA OverlapStays ==
  ASSUME General, [Next]_vars, overlap
  PROVE  overlap'
<1> USE DEF manager, window, threads, server
<1>1. CASE Authenticate \/ ClickDisconnect \/ CloseSocket \/ Update \/ UNCHANGED vars
  BY <1>1 DEF Authenticate, Sends, ClickDisconnect, CloseSocket, Update, vars
<1>2. ASSUME NEW k \in Sessions,
             Moves(k) \/ CreateSocket(k) \/ Connect(k) \/ StartReceiver(k)
             \/ Receiver(k) \/ SendData(k) \/ Leave(k)
      PROVE  overlap'
  BY <1>2, MovesKeep, ReceiverKeeps
     DEF CreateSocket, Connect, StartReceiver, SendData, Sends, Leave
<1> QED
  BY <1>1, <1>2, NextKinds

-----------------------------------------------------------------------------
(* The theorems. *)

LEMMA ClientInv == Spec => []Inv
<1>1. Init => Inv
  <2> SUFFICES ASSUME Init PROVE Inv
    OBVIOUS
  <2>1. TypeOK
    <3>1. rcv \in [Sessions -> Threads]
      BY ThreadTypes DEF Init
    <3>2. arrived \in [Sessions -> Seq(Messages)]
      BY DEF Init
    <3>3. messages \in 0 .. MaxMessages
      BY ClientAssumption DEF Init
    <3> QED
      BY <3>1, <3>2, <3>3 DEF Init, TypeOK, Threads
  <2>2. Unmade /\ Begun /\ Reading
    BY ThreadTypes, SessionNumbers DEF Init, Unmade, Begun, Reading, At, ConAt
  <2>3. Apart
    BY ThreadTypes, SessionNumbers DEF Init, Apart, Alone, Busy, Known, At
  <2> QED
    BY <2>1, <2>2, <2>3 DEF Inv, General
<1>2. Inv /\ [Next]_vars => Inv'
  <2> SUFFICES ASSUME Inv, [Next]_vars PROVE Inv'
    OBVIOUS
  <2>1. General'
    BY TypeStep, UnmadeStep, BegunStep, ReadingStep DEF Inv, General
  <2>2. ~ overlap' => Apart'
    BY ApartStep, OverlapStays DEF Inv
  <2> QED
    BY <2>1, <2>2 DEF Inv
<1> QED
  BY <1>1, <1>2, PTL DEF Spec

(* The fields keep their types in every behaviour of the client.            *)
THEOREM ClientTypes == Spec => []TypeOK
<1>1. Inv => TypeOK
  BY DEF Inv, General
<1> QED
  BY <1>1, ClientInv, PTL

(* As long as no socket was made while another session was connected or had *)
(* a thread, the client takes itself for an administrator only on a session *)
(* on which the server said so, or for the moment between the assignments   *)
(* of network_manager.py:43 and 45 on the way into a session.               *)
THEOREM RightsAreGranted == Spec => []OwnRights
<1>1. Inv => OwnRights
  BY DEF Inv, Apart, Known, OwnRights
<1> QED
  BY <1>1, ClientInv, PTL
=============================================================================
