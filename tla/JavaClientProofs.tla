-------------------------- MODULE JavaClientProofs --------------------------
(***************************************************************************)
(* Proofs about JavaClient, for any number of sessions and messages: its   *)
(* types, and that without an overlap of sessions the rights are those of  *)
(* the current session and the messages are never mixed.                   *)
(***************************************************************************)
EXTENDS JavaClient, TLAPS

-----------------------------------------------------------------------------
(* Sequences of lines. *)

Verbs == Lines \ {Empty}

(* A verb is followed by an empty line and an empty line by a verb, up to   *)
(* the last line, which is empty: the rest of a sequence of messages.       *)
Messagelike(q) ==
  /\ \A i \in 1 .. Len(q) - 1 : q[i] = Empty <=> q[i + 1] # Empty
  /\ q # <<>> => q[Len(q)] = Empty

(* What is left starts with a message, or with the end of one. *)
AtStart(q) == q = <<>> \/ Head(q) # Empty
AtEnd(q) == q # <<>> /\ Head(q) = Empty

Holds(q, line) == \E i \in 1 .. Len(q) : q[i] = line

-----------------------------------------------------------------------------
(* The inductive invariant. *)

(* Nothing has happened on a session that is not open yet. *)
Unopened ==
  \A s \in Sessions :
    s > cur => /\ link[s] = "new" /\ lines[s] = <<>>
               /\ ~ asked[s] /\ s \notin granted

(* Nothing was asked on the session that is being opened.                   *)
Opening ==
  ui = "connecting" => cur \in Sessions /\ ~ asked[cur] /\ cur \notin granted

(* Who may have rights is not offered to connect.                           *)
Offered ==
  connected => /\ cur \in Sessions
               /\ asked[cur] \/ cur \in granted => ~ offersConnect

Received ==
  \A s \in Sessions :
    /\ Messagelike(lines[s])
    /\ Holds(lines[s], "AUTH_SUCCESS") => s \in granted

Reading == \A r \in Sessions : At(r, "read") => rcv[r].from \in Sessions

(* Without an overlap: *)

(* the only thread that runs is that of the current session, *)
Alone ==
  \A r \in Sessions : Running(r) =>
    /\ r = cur /\ ui # "connecting"
    /\ At(r, "read") => rcv[r].from = r

(* and what it has collected is the start of a message of that session.     *)
Aligned(r) ==
  \/ rcv[r].text = <<>> /\ AtStart(lines[r])
  \/ /\ rcv[r].text \in {<<v>> : v \in Verbs}
     /\ IF At(r, "handle") THEN AtStart(lines[r]) ELSE AtEnd(lines[r])
     /\ rcv[r].text = <<"AUTH_SUCCESS">> => r \in granted

Collecting ==
  \A r \in Sessions :
    /\ rcv[r].pc \in {"check", "read", "handle"} => Aligned(r)
    /\ rcv[r].pc \notin {"check", "read", "handle"} => rcv[r].text = <<>>

(* A thread is to find its session at the start of a message.               *)
Untouched == ui = "connecting" => AtStart(lines[cur])

Apart == Alone /\ Collecting /\ Untouched /\ (connected /\ admin => cur \in granted)

Inv ==
  /\ TypeOK /\ Unopened /\ Opening /\ Offered /\ Received /\ Reading
  /\ ~ overlap => Apart

-----------------------------------------------------------------------------
(* What reading a line and receiving a message do to a sequence of lines.   *)

LEMMA TailLines ==
  ASSUME NEW q \in Seq(Lines), q # <<>>, Messagelike(q)
  PROVE  /\ Tail(q) \in Seq(Lines) /\ Messagelike(Tail(q))
         /\ \A line : Holds(Tail(q), line) => Holds(q, line)
         /\ Head(q) \in Lines /\ Holds(q, Head(q))
         /\ AtStart(q) => AtEnd(Tail(q))
         /\ AtEnd(q) => AtStart(Tail(q))
<1>1. /\ Len(q) \in Nat \ {0} /\ Head(q) = q[1] /\ Tail(q) \in Seq(Lines)
      /\ Len(Tail(q)) = Len(q) - 1
      /\ \A i \in 1 .. Len(q) - 1 : Tail(q)[i] = q[i + 1]
  OBVIOUS
<1>2. Tail(q) # <<>> => Len(Tail(q)) > 0 /\ Head(Tail(q)) = q[2]
  BY <1>1
<1>3. Messagelike(Tail(q))
  BY <1>1, <1>2 DEF Messagelike
<1>4. \A line : Holds(Tail(q), line) => Holds(q, line)
  BY <1>1 DEF Holds
<1>5. Head(q) \in Lines /\ Holds(q, Head(q))
  BY <1>1 DEF Holds
<1>6. AtStart(q) => AtEnd(Tail(q))
  <2> SUFFICES ASSUME q[1] # Empty PROVE AtEnd(Tail(q))
    BY <1>1 DEF AtStart
  <2>1. Len(q) # 1
    BY <1>1 DEF Messagelike
  <2>2. q[2] = Empty
    BY <1>1, <2>1 DEF Messagelike
  <2>3. Tail(q) # <<>>
    <3>1. PICK t : t = Tail(q)
      OBVIOUS
    <3>2. Len(t) # 0
      BY <1>1, <2>1, <3>1
    <3>3. t # <<>>
      BY <3>2
    <3> QED
      BY <3>1, <3>3
  <2> QED
    BY <1>2, <2>2, <2>3 DEF AtEnd
<1>7. AtEnd(q) => AtStart(Tail(q))
  <2> SUFFICES ASSUME q[1] = Empty, Tail(q) # <<>> PROVE Head(Tail(q)) # Empty
    BY <1>1 DEF AtStart, AtEnd
  <2>1. Len(q) > 1
    BY <1>1, <1>2
  <2> QED
    BY <1>1, <1>2, <2>1 DEF Messagelike
<1> QED
  BY <1>1, <1>3, <1>4, <1>5, <1>6, <1>7

LEMMA MessageAppended ==
  ASSUME NEW q \in Seq(Lines), NEW v \in Verbs, Messagelike(q)
  PROVE  LET p == q \o <<v, Empty>>
         IN  /\ p \in Seq(Lines) /\ Messagelike(p)
             /\ \A line : Holds(p, line) => Holds(q, line) \/ line \in {v, Empty}
             /\ AtStart(q) => AtStart(p)
             /\ AtEnd(q) => AtEnd(p)
<1> DEFINE p == q \o <<v, Empty>>
<1>1. v \in Lines /\ v # Empty /\ Empty \in Lines
  BY DEF Verbs, Lines
<1>2. /\ Len(q) \in Nat /\ p \in Seq(Lines) /\ Len(p) = Len(q) + 2
      /\ \A i \in 1 .. Len(q) : p[i] = q[i]
      /\ p[Len(q) + 1] = v /\ p[Len(q) + 2] = Empty
  BY <1>1
<1>3. Messagelike(p)
  <2>1. ASSUME NEW i \in 1 .. Len(p) - 1 PROVE p[i] = Empty <=> p[i + 1] # Empty
    <3>1. CASE i < Len(q)
      BY <1>2, <3>1 DEF Messagelike
    <3>2. CASE i = Len(q)
      <4>1. q[Len(q)] = Empty
        BY <1>2, <2>1, <3>2 DEF Messagelike
      <4> QED
        BY <1>1, <1>2, <2>1, <3>2, <4>1
    <3>3. CASE i = Len(q) + 1
      BY <1>1, <1>2, <3>3
    <3> HIDE DEF p
    <3> QED
      BY <1>2, <2>1, <3>1, <3>2, <3>3
  <2> HIDE DEF p
  <2> QED
    BY <1>2, <2>1 DEF Messagelike
<1>4. \A line : Holds(p, line) => Holds(q, line) \/ line \in {v, Empty}
  <2> SUFFICES ASSUME NEW line, NEW i \in 1 .. Len(p), p[i] = line
               PROVE  Holds(q, line) \/ line \in {v, Empty}
    BY DEF Holds
  <2> HIDE DEF p
  <2>1. i \in 1 .. Len(q) \/ i = Len(q) + 1 \/ i = Len(q) + 2
    BY <1>2
  <2> QED
    BY <1>2, <2>1 DEF Holds
<1>5. Head(p) = IF q = <<>> THEN v ELSE Head(q)
  BY <1>1, <1>2
<1>6. p # <<>>
  BY <1>2
<1>7. AtStart(q) => AtStart(p)
  BY <1>1, <1>5 DEF AtStart
<1>8. AtEnd(q) => AtEnd(p)
  BY <1>5, <1>6 DEF AtEnd
<1> HIDE DEF p
<1> QED
  BY <1>2, <1>3, <1>4, <1>7, <1>8 DEF p

-----------------------------------------------------------------------------
(* Types. *)

LEMMA SessionsAreNumbers == Sessions \subseteq Nat /\ NoSession \notin Sessions
  BY ClientAssumption DEF Sessions, NoSession

Threads == [pc : {"none", "check", "read", "handle", "failed", "clearing",
                  "closing"},
            from : Sessions \cup {NoSession}, text : Seq(Lines)]

LEMMA ThreadTypes ==
  /\ NoThread \in Threads /\ NoThread.text = <<>> /\ NoThread.pc = "none"
  /\ Started \in Threads /\ Started.text = <<>> /\ Started.pc = "check"
<1>1. <<>> \in Seq(Lines)
  OBVIOUS
<1>2. NoThread \in Threads
  BY <1>1 DEF NoThread, Threads
<1>3. Started \in Threads
  BY <1>2 DEF Started, Threads
<1> QED
  BY <1>2, <1>3 DEF NoThread, Started

LEMMA TypeStep ==
  ASSUME TypeOK, Reading, [Next]_vars
  PROVE  TypeOK'
<1> USE DEF manager, window, server
<1>0. rcv \in [Sessions -> Threads] /\ NoThread \in Threads /\ Started \in Threads
  BY ThreadTypes DEF TypeOK, Threads
<1>1. CASE Open
  BY <1>1, ClientAssumption DEF TypeOK, Open, Sessions, NoSession
<1>2. CASE Establish
  <2>1. rcv' \in [Sessions -> Threads]
    BY <1>0, <1>2 DEF Establish
  <2> QED
    BY <1>2, <2>1 DEF TypeOK, Threads, Establish
<1>3. CASE UpdateStatus
  BY <1>3 DEF TypeOK, UpdateStatus
<1>4. CASE Authenticate
  BY <1>4 DEF TypeOK, Authenticate
<1>5. CASE ClickDisconnect
  BY <1>5 DEF TypeOK, ClickDisconnect, ClearFlags
<1>6. CASE UserCloses
  BY <1>6 DEF TypeOK, UserCloses, CloseSocket
<1>7. ASSUME NEW r \in Sessions, Receiver(r) PROVE TypeOK'
  <2>1. CASE Check(r)
    <3>1. [rcv[r] EXCEPT !.pc = "read", !.from = cur] \in Threads
      BY <1>0 DEF TypeOK, Threads
    <3>2. rcv' \in [Sessions -> Threads]
      <4>1. CASE connected
        BY <1>0, <2>1, <3>1, <4>1 DEF Check
      <4>2. CASE ~ connected
        BY <1>0, <2>1, <4>2 DEF Check, Ends
      <4> QED
        BY <4>1, <4>2
    <3> QED
      BY <2>1, <3>2 DEF TypeOK, Threads, Check
  <2>2. CASE ReadLine(r)
    <3>1. PICK s : s = rcv[r].from
      OBVIOUS
    <3>2. s \in Sessions /\ lines[s] \in Seq(Lines) /\ lines[s] # <<>>
      BY <2>2, <3>1 DEF ReadLine, Reading, TypeOK
    <3>3. Tail(lines[s]) \in Seq(Lines) /\ Head(lines[s]) \in Lines
      BY <3>2
    <3>4. lines' \in [Sessions -> Seq(Lines)]
      BY <2>2, <3>1, <3>3 DEF ReadLine, TypeOK
    <3>5. Append(rcv[r].text, Head(lines[s])) \in Seq(Lines)
      BY <1>0, <3>3 DEF Threads
    <3>6. rcv' \in [Sessions -> Threads]
      BY <1>0, <2>2, <3>1, <3>5 DEF ReadLine, Threads
    <3> QED
      BY <2>2, <3>4, <3>6 DEF TypeOK, Threads, ReadLine
  <2>3. CASE ReadEnd(r)
    BY <1>0, <2>3 DEF TypeOK, Threads, ReadEnd, Ends
  <2>4. CASE ReadFails(r)
    BY <1>0, <2>4 DEF TypeOK, Threads, ReadFails, NoThread
  <2>5. CASE Handle(r)
    <3>1. [rcv[r] EXCEPT !.pc = "check", !.text = <<>>] \in Threads
      <4>1. <<>> \in Seq(Lines)
        OBVIOUS
      <4>2. rcv[r] \in Threads
        BY <1>0
      <4> QED
        BY <4>1, <4>2 DEF Threads
    <3>2. rcv' \in [Sessions -> Threads]
      BY <1>0, <2>5, <3>1 DEF Handle
    <3>3. admin' \in BOOLEAN
      BY <2>5 DEF Handle, NewRights, TypeOK
    <3> QED
      BY <2>5, <3>2, <3>3 DEF TypeOK, Threads, Handle
  <2>6. CASE Failed(r)
    <3>1. [rcv[r] EXCEPT !.pc = "clearing"] \in Threads
      BY <1>0 DEF Threads
    <3>2. rcv' \in [Sessions -> Threads]
      BY <1>0, <2>6, <3>1 DEF Failed, Goes, Ends
    <3> QED
      BY <2>6, <3>2 DEF TypeOK, Threads, Failed
  <2>7. CASE ThreadClears(r)
    BY <1>0, <2>7 DEF TypeOK, Threads, ThreadClears, ClearFlags, Goes
  <2>8. CASE ThreadCloses(r)
    BY <1>0, <2>8 DEF TypeOK, Threads, ThreadCloses, CloseSocket, Ends
  <2> QED
    BY <1>7, <2>1, <2>2, <2>3, <2>4, <2>5, <2>6, <2>7, <2>8 DEF Receiver
<1>8. ASSUME NEW s \in Sessions, Server(s) PROVE TypeOK'
  <2>1. /\ Success \in Seq(Lines) /\ Failure \in Seq(Lines)
        /\ Telemetry \in Seq(Lines)
    BY DEF Success, Failure, Telemetry, Lines
  <2>2. CASE Answer(s)
    <3>1. messages' \in 0 .. MaxMessages
      BY <2>2, ClientAssumption DEF TypeOK, Answer
    <3>2. /\ lines[s] \o Success \in Seq(Lines)
          /\ lines[s] \o Failure \in Seq(Lines)
      BY <2>1 DEF TypeOK
    <3>3. lines' \in [Sessions -> Seq(Lines)] /\ granted' \subseteq Sessions
      BY <2>2, <3>2 DEF TypeOK, Answer
    <3> QED
      BY <2>2, <3>1, <3>3 DEF TypeOK, Answer
  <2>3. CASE SendData(s)
    BY <2>1, <2>3, ClientAssumption DEF TypeOK, SendData
  <2>4. CASE Leave(s)
    BY <2>4 DEF TypeOK, Leave
  <2> QED
    BY <1>8, <2>2, <2>3, <2>4 DEF Server
<1>9. CASE UNCHANGED vars
  BY <1>9 DEF TypeOK, vars
<1> QED
  BY <1>1, <1>2, <1>3, <1>4, <1>5, <1>6, <1>7, <1>8, <1>9
     DEF Next, User, EventThread

-----------------------------------------------------------------------------
(* The parts that hold with and without an overlap. *)

General == TypeOK /\ Unopened /\ Opening /\ Offered /\ Received /\ Reading

(* Most steps leave the sessions alone. *)
Inside == Establish \/ UpdateStatus \/ ClickDisconnect
          \/ \E r \in Sessions :
               Check(r) \/ ReadEnd(r) \/ ReadFails(r) \/ Handle(r) \/ Failed(r)
               \/ ThreadClears(r)
Closes == UserCloses \/ \E r \in Sessions : ThreadCloses(r)

LEMMA StepKinds ==
  ASSUME [Next]_vars
  PROVE  \/ Open \/ Authenticate \/ Inside \/ Closes \/ UNCHANGED vars
         \/ \E s \in Sessions : ReadLine(s) \/ Answer(s) \/ SendData(s) \/ Leave(s)
  BY DEF Next, User, EventThread, Receiver, Server, Inside, Closes

LEMMA InsideKeeps ==
  ASSUME Inside
  PROVE  UNCHANGED <<cur, link, lines, asked, messages, granted, overlap>>
<1> USE DEF manager, window, server
<1>1. CASE Establish \/ UpdateStatus \/ ClickDisconnect
  BY <1>1 DEF Establish, UpdateStatus, ClickDisconnect, ClearFlags
<1>2. ASSUME NEW r \in Sessions,
             Check(r) \/ ReadEnd(r) \/ ReadFails(r) \/ Handle(r) \/ Failed(r)
             \/ ThreadClears(r)
      PROVE  UNCHANGED <<cur, link, lines, asked, messages, granted, overlap>>
  BY <1>2 DEF Check, ReadEnd, ReadFails, Handle, Failed, ThreadClears, ClearFlags
<1> QED
  BY <1>1, <1>2 DEF Inside

LEMMA ClosesKeeps ==
  ASSUME Closes
  PROVE  /\ link' = [link EXCEPT ![cur] = "closed"]
         /\ UNCHANGED <<cur, connected, admin, offersConnect, lines, asked,
                        messages, granted, overlap>>
  BY DEF Closes, UserCloses, ThreadCloses, CloseSocket, manager, window, server

LEMMA SessionNumbers ==
  ASSUME TypeOK
  PROVE  Sessions \subseteq Nat /\ cur \in Nat
  BY SessionsAreNumbers DEF TypeOK, NoSession

LEMMA UnopenedStep ==
  ASSUME General, [Next]_vars
  PROVE  Unopened'
<1> USE DEF manager, window, server
<1>0. TypeOK /\ Unopened /\ Offered /\ Sessions \subseteq Nat /\ cur \in Nat
  BY SessionNumbers DEF General
<1>1. CASE Open
  BY <1>0, <1>1 DEF Unopened, Open, TypeOK
<1>2. CASE Authenticate
  BY <1>0, <1>2 DEF Unopened, Authenticate, TypeOK
<1>3. CASE Inside
  BY <1>0, <1>3, InsideKeeps DEF Unopened
<1>4. CASE Closes
  BY <1>0, <1>4, ClosesKeeps DEF Unopened, TypeOK
<1>5. CASE UNCHANGED vars
  BY <1>0, <1>5 DEF Unopened, vars
<1>6. ASSUME NEW s \in Sessions, ReadLine(s) \/ Answer(s) \/ SendData(s) \/ Leave(s)
      PROVE  Unopened'
  <2>1. CASE ReadLine(s)
    BY <1>0, <2>1 DEF Unopened, ReadLine, TypeOK
  <2>2. CASE Answer(s)
    BY <1>0, <2>2 DEF Unopened, Answer, TypeOK
  <2>3. CASE SendData(s)
    BY <1>0, <2>3 DEF Unopened, SendData, TypeOK
  <2>4. CASE Leave(s)
    BY <1>0, <2>4 DEF Unopened, Leave, TypeOK
  <2> QED
    BY <1>6, <2>1, <2>2, <2>3, <2>4
<1> QED
  BY <1>1, <1>2, <1>3, <1>4, <1>5, <1>6, StepKinds

LEMMA OpeningStep ==
  ASSUME General, [Next]_vars
  PROVE  Opening'
<1> USE DEF manager, window, server
<1>0. TypeOK /\ Unopened /\ Opening /\ Sessions \subseteq Nat /\ cur \in Nat
  BY SessionNumbers DEF General
<1>1. CASE Open
  <2>1. cur + 1 \in Sessions /\ cur + 1 > cur
    BY <1>0, <1>1, ClientAssumption DEF Open, Sessions
  <2> QED
    BY <1>0, <1>1, <2>1 DEF Opening, Unopened, Open
<1>2. CASE Authenticate
  BY <1>0, <1>2 DEF Opening, Authenticate
<1>3. CASE Inside
  <2>1. ui' = "connecting" => ui = "connecting"
    BY <1>3 DEF Inside, Establish, UpdateStatus, ClickDisconnect, Check, ReadEnd,
                ReadFails, Handle, Failed, ThreadClears
  <2> QED
    BY <1>0, <1>3, <2>1, InsideKeeps DEF Opening
<1>4. CASE Closes
  <2>1. ui' = "connecting" => ui = "connecting"
    BY <1>4 DEF Closes, UserCloses, ThreadCloses
  <2> QED
    BY <1>0, <1>4, <2>1, ClosesKeeps DEF Opening
<1>5. CASE UNCHANGED vars
  BY <1>0, <1>5 DEF Opening, vars
<1>6. ASSUME NEW s \in Sessions, ReadLine(s) \/ Answer(s) \/ SendData(s) \/ Leave(s)
      PROVE  Opening'
  BY <1>0, <1>6 DEF Opening, ReadLine, Answer, SendData, Leave, TypeOK
<1> QED
  BY <1>1, <1>2, <1>3, <1>4, <1>5, <1>6, StepKinds

LEMMA OfferedStep ==
  ASSUME General, [Next]_vars
  PROVE  Offered'
<1> USE DEF manager, window, server
<1>0. /\ TypeOK /\ Unopened /\ Opening /\ Offered
      /\ Sessions \subseteq Nat /\ cur \in Nat
  BY SessionNumbers DEF General
<1>1. CASE Open
  <2>1. cur + 1 \in Sessions /\ cur + 1 > cur
    BY <1>0, <1>1, ClientAssumption DEF Open, Sessions
  <2> QED
    BY <1>0, <1>1, <2>1 DEF Offered, Unopened, Open
<1>2. CASE Authenticate
  BY <1>0, <1>2 DEF Offered, Authenticate, TypeOK
<1>3. CASE Inside
  <2>1. CASE Establish
    BY <1>0, <2>1 DEF Offered, Opening, Establish
  <2>2. CASE UpdateStatus
    BY <1>0, <2>2 DEF Offered, UpdateStatus
  <2>3. CASE connected' = connected /\ offersConnect' = offersConnect
    BY <1>0, <1>3, <2>3, InsideKeeps DEF Offered
  <2>4. CASE connected' = FALSE
    BY <2>4 DEF Offered
  <2> QED
    BY <1>3, <2>1, <2>2, <2>3, <2>4
       DEF Inside, ClickDisconnect, Check, ReadEnd, ReadFails, Handle, Failed,
           ThreadClears, ClearFlags
<1>4. CASE Closes
  <2>1. UNCHANGED <<cur, connected, asked, granted, offersConnect>>
    BY <1>4, ClosesKeeps
  <2> QED
    BY <1>0, <2>1 DEF Offered
<1>5. CASE UNCHANGED vars
  BY <1>0, <1>5 DEF Offered, vars
<1>6. ASSUME NEW s \in Sessions, ReadLine(s) \/ Answer(s) \/ SendData(s) \/ Leave(s)
      PROVE  Offered'
  <2>1. UNCHANGED <<cur, connected, offersConnect>>
    BY <1>6 DEF ReadLine, Answer, SendData, Leave
  <2>2. connected' /\ (asked[cur]' \/ cur \in granted') => asked[cur] \/ cur \in granted
    BY <1>0, <1>6 DEF ReadLine, Answer, SendData, Leave, TypeOK, Offered
  <2> QED
    BY <1>0, <2>1, <2>2 DEF Offered
<1> QED
  BY <1>1, <1>2, <1>3, <1>4, <1>5, <1>6, StepKinds

LEMMA ReceivedStep ==
  ASSUME General, [Next]_vars
  PROVE  Received'
<1> USE DEF manager, window, server
<1>0. /\ TypeOK /\ Received /\ Reading
      /\ \A t \in Sessions : lines[t] \in Seq(Lines)
  BY DEF General, TypeOK
<1>1. CASE UNCHANGED <<lines, granted>>
  BY <1>0, <1>1 DEF Received
<1>2. ASSUME NEW r \in Sessions, ReadLine(r) PROVE Received'
  <2>1. PICK s : s = rcv[r].from
    OBVIOUS
  <2>2. s \in Sessions
    BY <1>0, <1>2, <2>1 DEF Reading, ReadLine
  <2>3. /\ lines[s] # <<>> /\ UNCHANGED granted
        /\ lines' = [lines EXCEPT ![s] = Tail(@)]
    BY <1>2, <2>1 DEF ReadLine
  <2>4. /\ Messagelike(Tail(lines[s]))
        /\ Holds(Tail(lines[s]), "AUTH_SUCCESS") => Holds(lines[s], "AUTH_SUCCESS")
    BY <1>0, <2>2, <2>3, TailLines DEF Received
  <2>5. /\ lines'[s] = Tail(lines[s])
        /\ \A t \in Sessions \ {s} : lines'[t] = lines[t]
    BY <1>0, <2>2, <2>3 DEF TypeOK
  <2> QED
    BY <1>0, <2>2, <2>3, <2>4, <2>5 DEF Received
<1>3. ASSUME NEW s \in Sessions, NEW v \in Verbs,
             lines' = [lines EXCEPT ![s] = @ \o <<v, Empty>>],
             granted \subseteq granted', v = "AUTH_SUCCESS" => s \in granted'
      PROVE  Received'
  <2> DEFINE p == lines[s] \o <<v, Empty>>
  <2>1. /\ lines'[s] = p
        /\ \A t \in Sessions \ {s} : lines'[t] = lines[t]
    BY <1>0, <1>3 DEF TypeOK
  <2>2. Messagelike(lines[s])
    BY <1>0 DEF Received
  <2>3. /\ Messagelike(p)
        /\ \A line : Holds(p, line) => Holds(lines[s], line) \/ line \in {v, Empty}
    BY <1>0, <2>2, MessageAppended
  <2> HIDE DEF p
  <2>4. Holds(p, "AUTH_SUCCESS") => s \in granted'
    BY <1>0, <1>3, <2>3 DEF Received, Empty
  <2> QED
    BY <1>0, <1>3, <2>1, <2>3, <2>4 DEF Received
<1>4. ASSUME NEW s \in Sessions, Answer(s) \/ SendData(s) PROVE Received'
  <2>1. {"AUTH_SUCCESS", "AUTH_FAILED", "DATA"} \subseteq Verbs
    BY DEF Verbs, Lines, Empty
  <2> QED
    BY <1>3, <1>4, <2>1 DEF Answer, SendData, Success, Failure, Telemetry
<1>5. CASE Open \/ Authenticate \/ UNCHANGED vars \/ \E s \in Sessions : Leave(s)
  BY <1>1, <1>5 DEF Open, Authenticate, vars, Leave
<1> QED
  BY <1>1, <1>2, <1>4, <1>5, StepKinds, InsideKeeps, ClosesKeeps

LEMMA ReadingStep ==
  ASSUME General, [Next]_vars
  PROVE  Reading'
<1> USE DEF manager, window, server
<1>0. TypeOK /\ Reading /\ Offered /\ rcv \in [Sessions -> Threads]
  BY DEF General, TypeOK, Threads
<1>1. ASSUME NEW r \in Sessions, NEW q, q \in Threads,
             q.pc = "read" => q.from \in Sessions,
             rcv' = [rcv EXCEPT ![r] = q]
      PROVE  Reading'
  BY <1>0, <1>1 DEF Reading, At, Threads
<1>2. CASE UNCHANGED rcv
  BY <1>0, <1>2 DEF Reading, At
<1>3. CASE Establish
  BY <1>0, <1>1, <1>3, ThreadTypes DEF Establish, General, Opening
<1>4. ASSUME NEW r \in Sessions, Receiver(r) PROVE Reading'
  <2>1. CASE Check(r)
    BY <1>0, <2>1, ThreadTypes DEF Check, Reading, Offered, At, Ends, Threads
  <2>2. CASE ReadLine(r)
    BY <1>0, <2>2 DEF ReadLine, Reading, At, Threads
  <2>3. CASE Ends(r)
    BY <1>0, <2>3, ThreadTypes DEF Reading, At, Ends, Threads
  <2>4. CASE ReadFails(r)
    BY <1>0, <2>4, ThreadTypes DEF Reading, At, ReadFails, Threads
  <2>5. CASE Handle(r)
    BY <1>0, <2>5 DEF Reading, At, Handle, Threads
  <2>6. CASE Goes(r, "clearing") \/ Goes(r, "closing")
    BY <1>0, <2>6 DEF Reading, At, Goes, Threads
  <2> QED
    BY <1>4, <2>1, <2>2, <2>3, <2>4, <2>5, <2>6
       DEF Receiver, ReadEnd, Failed, ThreadClears, ThreadCloses
<1>5. CASE Open \/ UpdateStatus \/ Authenticate \/ ClickDisconnect \/ UserCloses
           \/ UNCHANGED vars \/ \E s \in Sessions : Server(s)
  BY <1>2, <1>5 DEF Open, UpdateStatus, Authenticate, ClickDisconnect, UserCloses,
                    vars, Server, Answer, SendData, Leave
<1> QED
  BY <1>3, <1>4, <1>5 DEF Next, User, EventThread

-----------------------------------------------------------------------------
(* Without an overlap. *)

LEMMA AlignedKept ==
  ASSUME NEW r, Aligned(r), granted \subseteq granted', rcv'[r] = rcv[r],
         AtStart(lines[r]) => AtStart(lines'[r]),
         AtEnd(lines[r]) => AtEnd(lines'[r])
  PROVE  Aligned(r)'
<1>1. At(r, "handle")' <=> At(r, "handle")
  BY DEF At
<1>2. CASE rcv[r].text = <<>> /\ AtStart(lines[r])
  BY <1>2 DEF Aligned
<1>3. CASE rcv[r].text # <<>> \/ ~ AtStart(lines[r])
  BY <1>1, <1>3 DEF Aligned
<1> QED
  BY <1>2, <1>3

(* Nothing happens to the sessions and to their threads. *)
LEMMA ApartKept ==
  ASSUME TypeOK, Apart, UNCHANGED <<cur, rcv, lines, granted>>,
         ui' = "connecting" => ui = "connecting",
         connected' /\ admin' => cur \in granted
  PROVE  Apart'
<1>1. Alone'
  BY DEF Apart, Alone, Running, At
<1>2. Collecting'
  BY AlignedKept DEF Apart, Collecting
<1>3. Untouched'
  BY DEF Apart, Untouched
<1> QED
  BY <1>1, <1>2, <1>3 DEF Apart

(* The thread of the current session goes on, and nothing else happens. *)
LEMMA ApartThread ==
  ASSUME TypeOK, Apart, NEW r \in Sessions, Running(r), NEW q \in Threads,
         UNCHANGED <<cur, lines, granted>>, ui' = ui,
         rcv' = [rcv EXCEPT ![r] = q],
         q.pc = "read" => q.from = r,
         q.pc \in {"check", "read", "handle"} => Aligned(r)',
         q.pc \notin {"check", "read", "handle"} => q.text = <<>>,
         connected' /\ admin' => cur \in granted
  PROVE  Apart'
<1>1. r = cur /\ ui # "connecting"
  BY DEF Apart, Alone
<1>2. /\ rcv'[r] = q
      /\ \A t \in Sessions \ {r} : rcv'[t] = rcv[t]
  BY DEF TypeOK
<1>3. Alone'
  BY <1>1, <1>2 DEF Apart, Alone, Running, At
<1>4. Collecting'
  <2> SUFFICES ASSUME NEW t \in Sessions
               PROVE  /\ rcv'[t].pc \in {"check", "read", "handle"} => Aligned(t)'
                      /\ rcv'[t].pc \notin {"check", "read", "handle"}
                           => rcv'[t].text = <<>>
    BY DEF Collecting
  <2>1. CASE t = r
    BY <1>2, <2>1
  <2>2. CASE t # r
    BY <1>2, <2>2, AlignedKept DEF Apart, Collecting
  <2> QED
    BY <2>1, <2>2
<1>5. Untouched'
  BY <1>1 DEF Untouched
<1> QED
  BY <1>1, <1>3, <1>4, <1>5 DEF Apart

(* Lines arrive. *)
LEMMA ApartArrival ==
  ASSUME TypeOK, Received, Opening, Apart, NEW s \in Sessions, NEW v \in Verbs,
         lines' = [lines EXCEPT ![s] = @ \o <<v, Empty>>],
         granted \subseteq granted', UNCHANGED <<manager, ui, rcv>>
  PROVE  Apart'
<1> USE DEF manager
<1>1. PICK p : p = lines[s] \o <<v, Empty>>
  OBVIOUS
<1>2. /\ lines'[s] = p
      /\ \A t \in Sessions \ {s} : lines'[t] = lines[t]
  BY <1>1 DEF TypeOK
<1>3. lines[s] \in Seq(Lines) /\ Messagelike(lines[s])
  BY DEF TypeOK, Received
<1>4. /\ AtStart(lines[s]) => AtStart(p)
      /\ AtEnd(lines[s]) => AtEnd(p)
  BY <1>1, <1>3, MessageAppended
<1>5. ASSUME NEW t \in Sessions
      PROVE  /\ AtStart(lines[t]) => AtStart(lines'[t])
             /\ AtEnd(lines[t]) => AtEnd(lines'[t])
  BY <1>2, <1>4
<1>6. Collecting'
  BY <1>5, AlignedKept DEF Apart, Collecting
<1>7. Alone'
  BY DEF Apart, Alone, Running, At
<1>8. Untouched'
  <2> SUFFICES ASSUME ui = "connecting" PROVE AtStart(lines'[cur])
    BY DEF Untouched
  <2>1. AtStart(lines[cur])
    BY DEF Apart, Untouched
  <2>2. cur \in Sessions
    BY DEF Opening
  <2> QED
    BY <1>5, <2>1, <2>2
<1> QED
  BY <1>6, <1>7, <1>8 DEF Apart

LEMMA ApartStep ==
  ASSUME General, Apart, [Next]_vars, ~ overlap'
  PROVE  Apart'
<1> USE DEF manager, window, server
<1>0. /\ TypeOK /\ Unopened /\ Opening /\ Offered /\ Received
      /\ rcv \in [Sessions -> Threads]
      /\ connected /\ admin => cur \in granted
  BY DEF General, Apart, TypeOK, Threads
<1>1. CASE Open
  <2>1. /\ \A r \in Sessions : ~ Running(r)
        /\ UNCHANGED <<rcv, lines, granted>>
        /\ cur' = cur + 1 /\ offersConnect
    BY <1>1 DEF Open
  <2>2. Alone'
    BY <2>1 DEF Alone, Running
  <2>3. Collecting'
    BY <2>1, AlignedKept DEF Apart, Collecting
  <2>4. Untouched'
    <3>1. cur + 1 \in Sessions /\ cur + 1 > cur
      BY <1>0, <1>1, SessionNumbers, ClientAssumption DEF Open, Sessions
    <3>2. lines[cur + 1] = <<>>
      BY <1>0, <3>1 DEF Unopened
    <3> QED
      BY <2>1, <3>2 DEF Untouched, AtStart
  <2>5. ~ (connected' /\ admin')
    BY <1>0, <1>1, <2>1 DEF Open, Offered
  <2> QED
    BY <2>2, <2>3, <2>4, <2>5 DEF Apart
<1>2. CASE Establish
  <2>1. /\ ui = "connecting" /\ ui' = "idle" /\ ~ admin' /\ cur \in Sessions
        /\ rcv' = [rcv EXCEPT ![cur] = Started]
        /\ UNCHANGED <<cur, lines, granted>>
    BY <1>0, <1>2 DEF Establish, Opening
  <2>2. \A r \in Sessions : ~ Running(r)
    BY <2>1 DEF Apart, Alone
  <2>3. /\ rcv'[cur] = Started
        /\ \A r \in Sessions \ {cur} : rcv'[r] = rcv[r]
    BY <1>0, <2>1
  <2>4. Alone'
    BY <2>1, <2>2, <2>3, ThreadTypes DEF Alone, Running, At
  <2>5. Collecting'
    <3>1. Aligned(cur)'
      BY <2>1, <2>3, ThreadTypes DEF Apart, Untouched, Aligned
    <3>2. ASSUME NEW r \in Sessions, r # cur
          PROVE  rcv'[r].pc = "none" /\ rcv'[r].text = <<>>
      BY <2>2, <2>3, <3>2 DEF Running, Apart, Collecting
    <3> QED
      BY <2>1, <2>3, <3>1, <3>2, ThreadTypes DEF Collecting
  <2>6. Untouched'
    BY <2>1 DEF Untouched
  <2> QED
    BY <2>1, <2>4, <2>5, <2>6 DEF Apart
<1>3. CASE UpdateStatus \/ Authenticate \/ ClickDisconnect \/ UserCloses
  <2>1. /\ UNCHANGED <<cur, rcv, lines, granted>>
        /\ ui' = "connecting" => ui = "connecting"
        /\ connected' /\ admin' => connected /\ admin
    BY <1>3 DEF UpdateStatus, Authenticate, ClickDisconnect, UserCloses, ClearFlags,
                CloseSocket
  <2> QED
    BY <1>0, <2>1, ApartKept
<1>4. ASSUME NEW r \in Sessions, Receiver(r) PROVE Apart'
  <2>0. /\ Running(r) /\ rcv[r] \in Threads
        /\ rcv[r].pc \in {"check", "read", "handle"} => Aligned(r)
        /\ rcv[r].pc \notin {"check", "read", "handle"} => rcv[r].text = <<>>
        /\ At(r, "read") => rcv[r].from = r
        /\ r = cur
    BY <1>0, <1>4 DEF Receiver, Check, ReadLine, ReadEnd, ReadFails, Handle, Failed,
         ThreadClears, ThreadCloses, Running, At, Apart, Alone, Collecting
  <2>1. ASSUME NEW q \in Threads, rcv' = [rcv EXCEPT ![r] = q],
               q.pc \notin {"check", "read", "handle"}, q.text = <<>>,
               UNCHANGED <<cur, lines, granted>>, ui' = ui,
               connected' /\ admin' => connected /\ admin
        PROVE  Apart'
    BY <1>0, <2>0, <2>1, ApartThread
  <2>2. CASE Ends(r) /\ UNCHANGED <<cur, lines, granted, ui, connected, admin>>
    BY <2>1, <2>2, ThreadTypes DEF Ends
  <2>3. CASE Check(r) /\ connected
    <3>1. PICK q : q = [rcv[r] EXCEPT !.pc = "read", !.from = cur]
      OBVIOUS
    <3>2. /\ rcv' = [rcv EXCEPT ![r] = q]
          /\ UNCHANGED <<cur, lines, granted, ui, connected, admin>>
          /\ rcv[r].pc = "check"
      BY <2>3, <3>1 DEF Check, At
    <3>3. /\ q \in Threads /\ q.pc = "read" /\ q.from = r
          /\ q.text = rcv[r].text
      BY <2>0, <3>1 DEF Threads
    <3>4. rcv'[r] = q
      BY <1>0, <3>2
    <3>5. Aligned(r)'
      BY <2>0, <3>2, <3>3, <3>4 DEF Aligned, At
    <3> QED
      BY <1>0, <2>0, <3>2, <3>3, <3>5, ApartThread
  <2>4. CASE ReadLine(r)
    <3>1. /\ rcv[r].pc = "read" /\ lines[r] # <<>>
          /\ lines' = [lines EXCEPT ![r] = Tail(@)]
          /\ UNCHANGED <<cur, granted, ui, connected, admin>>
      BY <2>0, <2>4 DEF ReadLine, At
    <3>2. /\ lines'[r] = Tail(lines[r])
          /\ lines[r] \in Seq(Lines) /\ Messagelike(lines[r])
          /\ Holds(lines[r], "AUTH_SUCCESS") => r \in granted
      BY <1>0, <3>1 DEF TypeOK, Received
    <3>3. /\ Head(lines[r]) \in Lines /\ Holds(lines[r], Head(lines[r]))
          /\ AtStart(lines[r]) => AtEnd(lines'[r])
          /\ AtEnd(lines[r]) => AtStart(lines'[r])
      BY <3>1, <3>2, TailLines
    <3>4. PICK q : /\ rcv' = [rcv EXCEPT ![r] = q]
                   /\ q = IF Head(lines[r]) = Empty
                          THEN [rcv[r] EXCEPT !.pc = "handle", !.from = NoSession]
                          ELSE [rcv[r] EXCEPT !.pc = "check", !.from = NoSession,
                                  !.text = Append(@, Head(lines[r]))]
      BY <2>0, <2>4 DEF ReadLine, At
    <3>5. rcv'[r] = q
      BY <1>0, <3>4
    <3>6. q \in Threads /\ q.pc \in {"check", "handle"} /\ Aligned(r)'
      <4>1. CASE Head(lines[r]) = Empty
        <5>1. AtEnd(lines[r]) /\ ~ AtStart(lines[r])
          BY <3>1, <4>1 DEF AtEnd, AtStart
        <5>2. q \in Threads /\ q.pc = "handle" /\ q.text = rcv[r].text
          BY <2>0, <3>4, <4>1 DEF Threads
        <5>3. /\ q.text \in {<<v>> : v \in Verbs}
              /\ q.text = <<"AUTH_SUCCESS">> => r \in granted
          BY <2>0, <3>1, <5>1, <5>2 DEF Aligned
        <5> QED
          BY <3>1, <3>3, <3>5, <5>1, <5>2, <5>3 DEF Aligned, At
      <4>2. CASE Head(lines[r]) # Empty
        <5>1. AtStart(lines[r]) /\ ~ AtEnd(lines[r])
          BY <4>2 DEF AtEnd, AtStart
        <5>2. rcv[r].text = <<>>
          BY <2>0, <3>1, <5>1 DEF Aligned, At
        <5>3. PICK v : v = Head(lines[r])
          OBVIOUS
        <5>4. Append(rcv[r].text, v) = <<v>> /\ v \in Verbs /\ <<v>> \in Seq(Lines)
          BY <3>3, <4>2, <5>2, <5>3 DEF Verbs
        <5>5. q \in Threads /\ q.pc = "check" /\ q.text = <<v>>
          BY <2>0, <3>4, <4>2, <5>3, <5>4 DEF Threads
        <5>6. q.text = <<"AUTH_SUCCESS">> => r \in granted
          BY <3>2, <3>3, <5>3, <5>5
        <5> QED
          BY <3>1, <3>3, <3>5, <5>1, <5>4, <5>5, <5>6 DEF Aligned, At
      <4> QED
        BY <4>1, <4>2
    <3>7. /\ \A t \in Sessions \ {r} : lines'[t] = lines[t]
          /\ \A t \in Sessions \ {r} : rcv'[t] = rcv[t]
      BY <1>0, <3>1, <3>4 DEF TypeOK
    <3>8. Alone'
      BY <2>0, <3>1, <3>5, <3>6, <3>7 DEF Apart, Alone, Running, At
    <3>9. Collecting'
      BY <3>1, <3>5, <3>6, <3>7, AlignedKept DEF Apart, Collecting
    <3>10. Untouched'
      BY <2>0, <3>1 DEF Apart, Alone, Untouched
    <3> QED
      BY <1>0, <3>1, <3>8, <3>9, <3>10 DEF Apart
  <2>5. CASE ReadFails(r)
    <3>1. PICK q : q = [NoThread EXCEPT !.pc = "failed"]
      OBVIOUS
    <3>2. q \in Threads /\ q.pc = "failed" /\ q.text = <<>>
      BY <3>1, ThreadTypes DEF NoThread, Threads
    <3> QED
      BY <2>1, <2>5, <3>1, <3>2 DEF ReadFails
  <2>6. CASE Handle(r)
    <3>1. /\ rcv[r].pc = "handle" /\ admin' = NewRights(rcv[r].text)
          /\ UNCHANGED <<cur, lines, granted, ui, connected>>
      BY <2>6 DEF Handle, At
    <3>2. PICK q : q = [rcv[r] EXCEPT !.pc = "check", !.text = <<>>]
      OBVIOUS
    <3>3. rcv' = [rcv EXCEPT ![r] = q]
      BY <2>6, <3>2 DEF Handle
    <3>4. <<>> \in Seq(Lines)
      OBVIOUS
    <3>5. q \in Threads /\ q.pc = "check" /\ q.text = <<>>
      BY <2>0, <3>2, <3>4 DEF Threads
    <3>6. rcv'[r] = q
      BY <1>0, <3>3
    <3>7. AtStart(lines[r])
      BY <2>0, <3>1 DEF Aligned, At
    <3>8. Aligned(r)'
      BY <3>1, <3>5, <3>6, <3>7 DEF Aligned
    <3>9. rcv[r].text = <<>> \/ \E v \in Verbs : rcv[r].text = <<v>>
      BY <2>0, <3>1 DEF Aligned
    <3>10. StartsWith(rcv[r].text, "AUTH_SUCCESS") => rcv[r].text = <<"AUTH_SUCCESS">>
      BY <3>9 DEF StartsWith
    <3>11. StartsWith(rcv[r].text, "AUTH_SUCCESS") => r \in granted
      <4>1. rcv[r].text = <<>> \/ (rcv[r].text = <<"AUTH_SUCCESS">> => r \in granted)
        BY <2>0, <3>1 DEF Aligned
      <4> QED
        BY <3>10, <4>1 DEF StartsWith
    <3>12. connected' /\ admin' => cur \in granted
      BY <1>0, <2>0, <3>1, <3>11 DEF NewRights
    <3> QED
      BY <1>0, <2>0, <3>1, <3>3, <3>5, <3>8, <3>12, ApartThread
  <2>7. ASSUME NEW pc \in {"clearing", "closing"}, Goes(r, pc),
               rcv[r].pc \in {"failed", "clearing"},
               UNCHANGED <<cur, lines, granted, ui>>,
               connected' /\ admin' => connected /\ admin
        PROVE  Apart'
    <3>1. PICK q : q = [rcv[r] EXCEPT !.pc = pc]
      OBVIOUS
    <3>2. rcv' = [rcv EXCEPT ![r] = q]
      BY <2>7, <3>1 DEF Goes
    <3>3. q \in Threads /\ q.pc = pc /\ q.text = rcv[r].text
      BY <2>0, <3>1 DEF Threads
    <3> QED
      BY <2>0, <2>1, <2>7, <3>2, <3>3
  <2>8. CASE Failed(r) \/ ThreadClears(r)
    BY <2>2, <2>7, <2>8 DEF Failed, ThreadClears, ClearFlags, At
  <2>9. CASE ReadEnd(r) \/ ThreadCloses(r) \/ (Check(r) /\ ~ connected)
    BY <2>2, <2>9 DEF ReadEnd, ThreadCloses, CloseSocket, Check
  <2> QED
    BY <1>4, <2>3, <2>4, <2>5, <2>6, <2>8, <2>9 DEF Receiver
<1>5. ASSUME NEW s \in Sessions, Answer(s) \/ SendData(s) PROVE Apart'
  <2>1. PICK v \in Verbs : lines' = [lines EXCEPT ![s] = @ \o <<v, Empty>>]
    BY <1>5 DEF Answer, SendData, Success, Failure, Telemetry, Verbs, Lines, Empty
  <2>2. granted \subseteq granted' /\ UNCHANGED <<manager, ui, rcv>>
    BY <1>5 DEF Answer, SendData
  <2> QED
    BY <1>0, <2>1, <2>2, ApartArrival
<1>6. ASSUME NEW s \in Sessions, Leave(s) PROVE Apart'
  BY <1>0, <1>6, ApartKept DEF Leave
<1>7. CASE UNCHANGED vars
  BY <1>0, <1>7, ApartKept DEF vars
<1> QED
  BY <1>1, <1>2, <1>3, <1>4, <1>5, <1>6, <1>7
     DEF Next, User, EventThread, Server

LEMMA OverlapStays ==
  ASSUME TypeOK, [Next]_vars, overlap
  PROVE  overlap'
<1> USE DEF manager, window, server
<1>1. CASE Open \/ UNCHANGED vars
  BY <1>1 DEF Open, vars
<1>2. CASE Authenticate \/ Inside \/ Closes
  BY <1>2, InsideKeeps, ClosesKeeps DEF Authenticate
<1>3. ASSUME NEW s \in Sessions, ReadLine(s) \/ Answer(s) \/ SendData(s) \/ Leave(s)
      PROVE  overlap'
  BY <1>3 DEF ReadLine, Answer, SendData, Leave
<1> QED
  BY <1>1, <1>2, <1>3, StepKinds

-----------------------------------------------------------------------------
(* The theorems. *)

LEMMA ClientInv == Spec => []Inv
<1>1. Init => Inv
  <2> SUFFICES ASSUME Init PROVE Inv
    OBVIOUS
  <2>1. TypeOK
    <3>1. rcv \in [Sessions -> Threads]
      BY ThreadTypes DEF Init
    <3>2. lines \in [Sessions -> Seq(Lines)]
      BY DEF Init
    <3>3. messages \in 0 .. MaxMessages
      BY ClientAssumption DEF Init
    <3> QED
      BY <3>1, <3>2, <3>3 DEF Init, TypeOK, Threads
  <2>2. Unopened /\ Opening /\ Offered /\ Reading
    BY ThreadTypes DEF Init, Unopened, Opening, Offered, Reading, At
  <2>3. Received
    BY DEF Init, Received, Messagelike, Holds
  <2>4. Apart
    BY ThreadTypes DEF Init, Apart, Alone, Running, Collecting, Untouched
  <2> QED
    BY <2>1, <2>2, <2>3, <2>4 DEF Inv
<1>2. Inv /\ [Next]_vars => Inv'
  <2> SUFFICES ASSUME Inv, [Next]_vars PROVE Inv'
    OBVIOUS
  <2>1. General
    BY DEF Inv, General
  <2>2. General'
    BY <2>1, TypeStep, UnopenedStep, OpeningStep, OfferedStep, ReceivedStep,
       ReadingStep DEF General
  <2>3. ~ overlap' => Apart'
    BY <2>1, ApartStep, OverlapStays DEF Inv, General
  <2> QED
    BY <2>2, <2>3 DEF Inv, General
<1> QED
  BY <1>1, <1>2, PTL DEF Spec

(* The fields keep their types in every behaviour of the client.            *)
THEOREM ClientTypes == Spec => []TypeOK
<1>1. Inv => TypeOK
  BY DEF Inv
<1> QED
  BY <1>1, ClientInv, PTL

(* As long as no session was opened beside a running receive thread, the    *)
(* client takes itself for an administrator only on a session on which the  *)
(* server said so: connect clears the flags, and the only thread that may   *)
(* set them reads the current session.                                      *)
THEOREM RightsAreGranted == Spec => []OwnRights
<1>1. Inv => OwnRights
  BY DEF Inv, Apart, OwnRights
<1> QED
  BY <1>1, ClientInv, PTL

(* Under the same condition what a receive thread has collected is the      *)
(* start of one message.                                                    *)
THEOREM MessagesAreWhole == Spec => []FramesIntact
<1>1. Inv => FramesIntact
  BY DEF Inv, Apart, Collecting, Aligned, FramesIntact, Verbs, Lines, Empty
<1> QED
  BY <1>1, ClientInv, PTL
=============================================================================
