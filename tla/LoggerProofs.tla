---------------------------- MODULE LoggerProofs ----------------------------
(***************************************************************************)
(* Theorems of logger_log, for any number of threads and entries.          *)
(***************************************************************************)
EXTENDS Logger, SequenceTheorems, TLAPS

Members(s) == {s[j] : j \in DOMAIN s}
Distinct(s) == \A i, j \in DOMAIN s : s[i] = s[j] => i = j

PartNames == {"stamp", "type", "address", "message"}
Places == {"idle", "clock", "convert", "converting", "format", "formatting", "print"}

Locals == [pc : Places, entry : 0 .. MaxEntries, sec : 0 .. MaxClock,
           minute : 0 .. MaxClock, stamp : 0 .. 2 * MaxClock + 1,
           parts : Seq(PartNames), todo : Seq(PartNames)]

(* The parts of entry e that were printed. *)
Printed(e) == {file[k].part : k \in {j \in 1 .. Len(file) : file[j].entry = e}}

Live(t) == caller[t].pc # "idle"

TypesOK ==
  /\ TypeOK
  /\ caller \in [Threads -> Locals]
  /\ tm \in (0 .. MaxClock) \X (0 .. 1)

(* An entry has one call, and no piece of it is printed twice.              *)
Named ==
  /\ \A t \in Threads : Live(t) => caller[t].entry \in 1 .. calls
  /\ \A t, u \in Threads : Live(t) /\ Live(u) /\ caller[t].entry = caller[u].entry => t = u
  /\ \A k \in 1 .. Len(file) : file[k].entry \in 1 .. calls
  /\ \A k, l \in 1 .. Len(file) :
       file[k].entry = file[l].entry /\ file[k].part = file[l].part => k = l

(* What a call has still to print, and what it has printed, are the entry.  *)
Underway ==
  \A t \in Threads : Live(t) =>
    /\ Distinct(caller[t].todo)
    /\ Printed(caller[t].entry) \cup Members(caller[t].todo) = Members(caller[t].parts)
    /\ Printed(caller[t].entry) \cap Members(caller[t].todo) = {}

(* A call that has returned is over, and left nothing in the buffer.        *)
Settled ==
  \A r \in returned :
    /\ r.entry \in 1 .. calls
    /\ \A t \in Threads : Live(t) => caller[t].entry # r.entry
    /\ \A k \in 1 .. Len(file) : file[k].entry = r.entry => k <= flushed

LogInv ==
  /\ TypesOK
  /\ ~ down => Named /\ Underway /\ Settled
  /\ ReturnedIsOnDisk

-----------------------------------------------------------------------------
(* What is left of a sequence after its head. *)
LEMMA TailOfDistinct ==
  ASSUME NEW S, NEW s \in Seq(S), s # <<>>, Distinct(s)
  PROVE  /\ Tail(s) \in Seq(S) /\ Distinct(Tail(s))
         /\ Head(s) \in S /\ Head(s) \notin Members(Tail(s))
         /\ Members(s) = Members(Tail(s)) \cup {Head(s)}
<1>1. /\ Tail(s) \in Seq(S) /\ Len(Tail(s)) = Len(s) - 1
      /\ \A i \in 1 .. Len(s) - 1 : Tail(s)[i] = s[i + 1]
      /\ Head(s) = s[1] /\ Len(s) \in Nat \ {0}
  BY HeadTailProperties, EmptySeq, LenProperties
<1>2. DOMAIN s = 1 .. Len(s) /\ DOMAIN Tail(s) = 1 .. Len(s) - 1
  BY <1>1
<1>3. Head(s) \in S
  BY <1>1, ElementOfSeq
<1>4. Distinct(Tail(s))
  <2> SUFFICES ASSUME NEW i \in 1 .. Len(s) - 1, NEW j \in 1 .. Len(s) - 1,
                      Tail(s)[i] = Tail(s)[j]
               PROVE  i = j
    BY <1>2 DEF Distinct
  <2>1. s[i + 1] = s[j + 1] /\ i + 1 \in DOMAIN s /\ j + 1 \in DOMAIN s
    BY <1>1, <1>2
  <2> QED
    BY <1>1, <2>1 DEF Distinct
<1>5. Head(s) \notin Members(Tail(s))
  <2> SUFFICES ASSUME NEW i \in 1 .. Len(s) - 1, Tail(s)[i] = s[1] PROVE FALSE
    BY <1>1, <1>2 DEF Members
  <2>1. s[i + 1] = s[1] /\ i + 1 \in DOMAIN s /\ 1 \in DOMAIN s
    BY <1>1, <1>2
  <2> QED
    BY <1>1, <2>1 DEF Distinct
<1>6. Members(s) \subseteq Members(Tail(s)) \cup {Head(s)}
  <2> SUFFICES ASSUME NEW i \in 1 .. Len(s), i # 1
               PROVE  s[i] \in Members(Tail(s))
    BY <1>1, <1>2 DEF Members
  <2>1. i - 1 \in 1 .. Len(s) - 1 /\ Tail(s)[i - 1] = s[i]
    BY <1>1
  <2> QED
    BY <1>2, <2>1 DEF Members
<1>7. Members(Tail(s)) \cup {Head(s)} \subseteq Members(s)
  <2>1. \A i \in 1 .. Len(s) - 1 : i + 1 \in 1 .. Len(s)
    BY <1>1
  <2> QED
    BY <1>1, <1>2, <2>1 DEF Members
<1> QED
  BY <1>1, <1>3, <1>4, <1>5, <1>6, <1>7

LEMMA PartsOfEntry ==
  ASSUME NEW address
  PROVE  Parts(address) \in Seq(PartNames) /\ Distinct(Parts(address))
<1> DEFINE long == <<"stamp", "type", "address", "message">>
           short == <<"stamp", "type", "message">>
<1>1. long \in Seq(PartNames) /\ DOMAIN long = 1 .. 4
  BY DEF PartNames
<1>2. short \in Seq(PartNames) /\ DOMAIN short = 1 .. 3
  BY DEF PartNames
<1>3. Distinct(long)
  <2> SUFFICES ASSUME NEW i \in 1 .. 4, NEW j \in 1 .. 4, long[i] = long[j] PROVE i = j
    BY <1>1 DEF Distinct
  <2> QED
    OBVIOUS
<1>4. Distinct(short)
  <2> SUFFICES ASSUME NEW i \in 1 .. 3, NEW j \in 1 .. 3, short[i] = short[j] PROVE i = j
    BY <1>2 DEF Distinct
  <2> QED
    OBVIOUS
<1> QED
  BY <1>1, <1>2, <1>3, <1>4 DEF Parts

-----------------------------------------------------------------------------
(* A step that prints nothing and in which no call begins or ends.          *)
LEMMA Silent ==
  ASSUME LogInv, TypesOK', UNCHANGED <<calls, file, flushed, returned, down>>,
         \A t \in Threads : /\ Live(t)' <=> Live(t)
                            /\ caller'[t].entry = caller[t].entry
                            /\ caller'[t].parts = caller[t].parts
                            /\ caller'[t].todo = caller[t].todo
  PROVE  LogInv'
<1>1. \A e : Printed(e)' = Printed(e)
  BY DEF Printed
<1>2. Named => Named'
  BY DEF Named
<1>3. Underway => Underway'
  BY <1>1 DEF Underway
<1>4. Settled => Settled'
  BY DEF Settled
<1>5. ReturnedIsOnDisk'
  BY DEF LogInv, ReturnedIsOnDisk, OnDisk
<1> QED
  BY <1>2, <1>3, <1>4, <1>5 DEF LogInv

(* The locals of one thread change, but not what it logs. *)
LEMMA OneThread ==
  ASSUME TypesOK, NEW t \in Threads, NEW r \in Locals, Live(t), r.pc # "idle",
         r.entry = caller[t].entry, r.parts = caller[t].parts, r.todo = caller[t].todo,
         caller' = [caller EXCEPT ![t] = r]
  PROVE  /\ caller' \in [Threads -> Locals]
         /\ \A u \in Threads : /\ Live(u)' <=> Live(u)
                               /\ caller'[u].entry = caller[u].entry
                               /\ caller'[u].parts = caller[u].parts
                               /\ caller'[u].todo = caller[u].todo
  BY DEF TypesOK, Live

(* What is on the disk of an entry stays there, and is all there is of it   *)
(* when no other piece of it was printed.                                   *)
Kept(q) ==
  /\ {file[k].part : k \in OnDisk(q.entry)} = {q.parts[j] : j \in DOMAIN q.parts}
  /\ \A k, l \in OnDisk(q.entry) : file[k].part = file[l].part => k = l

LEMMA DiskGrows ==
  ASSUME NEW q, Kept(q), flushed \in Nat, Len(file') \in Nat,
         flushed' \in flushed .. Len(file'),
         \A k \in 1 .. flushed : file'[k] = file[k],
         \A k \in 1 .. Len(file') : file'[k].entry = q.entry => k <= flushed
  PROVE  Kept(q)'
<1>1. OnDisk(q.entry)' = OnDisk(q.entry)
  <2>1. \A k \in 1 .. flushed' : file'[k].entry = q.entry => k \in 1 .. flushed
    OBVIOUS
  <2>2. \A k \in 1 .. flushed : k \in 1 .. flushed'
    OBVIOUS
  <2> QED
    BY <2>1, <2>2 DEF OnDisk
<1>2. \A k \in OnDisk(q.entry) : file'[k] = file[k]
  BY DEF OnDisk
<1>3. {file'[k].part : k \in OnDisk(q.entry)} = {file[k].part : k \in OnDisk(q.entry)}
  BY <1>2
<1> QED
  BY <1>1, <1>2, <1>3 DEF Kept

-----------------------------------------------------------------------------
LEMMA LogInvInit == Init => LogInv
<1> SUFFICES ASSUME Init PROVE LogInv
  OBVIOUS
<1>1. /\ 0 \in 0 .. MaxEntries /\ 0 \in 0 .. MaxClock /\ 0 \in 0 .. 2 * MaxClock + 1
      /\ 1 \in 1 .. MaxClock /\ 0 \in 0 .. 1
  BY LoggerAssumption
<1>2. <<>> \in Seq(PartNames) /\ <<>> \in Seq(Piece) /\ Len(<<>>) = 0
  OBVIOUS
<1>3. Idle \in Locals /\ Idle.pc = "idle"
  BY <1>1, <1>2 DEF Idle, Locals, Places
<1>4. caller \in [Threads -> Locals] /\ \A t \in Threads : ~ Live(t)
  BY <1>3 DEF Init, Live
<1>5. file \in Seq(Piece) /\ Len(file) = 0 /\ flushed \in 0 .. Len(file)
  BY <1>2 DEF Init
<1>6. TypeOK
  BY <1>1, <1>4, <1>5 DEF Init, TypeOK, Logging, Live
<1>7. tm \in (0 .. MaxClock) \X (0 .. 1)
  BY <1>1 DEF Init
<1>8. TypesOK
  BY <1>4, <1>6, <1>7 DEF TypesOK
<1>9. Named
  BY <1>4, <1>5 DEF Named
<1>10. Underway /\ Settled /\ ReturnedIsOnDisk
  BY <1>4 DEF Init, Underway, Settled, ReturnedIsOnDisk
<1> QED
  BY <1>8, <1>9, <1>10 DEF LogInv

-----------------------------------------------------------------------------
(* The steps. *)
LEMMA CallStep ==
  ASSUME LogInv, NEW t \in Threads, NEW address \in BOOLEAN, Call(t, address)
  PROVE  LogInv'
<1> DEFINE e == calls + 1
           r == [caller[t] EXCEPT !.pc = "clock", !.entry = e,
                                  !.parts = Parts(address), !.todo = Parts(address)]
<1>1. /\ ~ Live(t) /\ ~ down /\ calls < MaxEntries /\ open /\ calls' = e
      /\ UNCHANGED <<open, clock, tm, converter, file, flushed, returned, down>>
  BY DEF Call, At, Up, Live
<1>2. TypesOK /\ Named /\ Underway /\ Settled /\ ReturnedIsOnDisk
  BY <1>1 DEF LogInv
<1>3. calls \in Nat /\ e \in 1 .. MaxEntries /\ e \in 0 .. MaxEntries /\ e \in 1 .. e
      /\ e \notin 1 .. calls /\ \A n \in 1 .. calls : n \in 1 .. e
  BY <1>1, <1>2, LoggerAssumption DEF TypesOK, TypeOK
<1>4. r \in Locals /\ r.pc = "clock" /\ r.entry = e
      /\ r.parts = Parts(address) /\ r.todo = Parts(address)
  BY <1>2, <1>3, PartsOfEntry DEF TypesOK, Locals, Places
<1>5. caller' = [caller EXCEPT ![t] = r]
  BY <1>1 DEF Call
<1>6. /\ caller' \in [Threads -> Locals] /\ caller'[t] = r
      /\ \A u \in Threads \ {t} : caller'[u] = caller[u]
  BY <1>2, <1>4, <1>5 DEF TypesOK
<1>7. TypesOK'
  BY <1>1, <1>2, <1>3, <1>6 DEF TypesOK, TypeOK
<1>8. Live(t)' /\ \A u \in Threads \ {t} : Live(u)' <=> Live(u)
  BY <1>4, <1>6 DEF Live
<1>9. \A n : Printed(n)' = Printed(n)
  BY <1>1 DEF Printed
<1>10. Named'
  <2>1. \A u \in Threads : Live(u)' => caller'[u].entry \in 1 .. e
    BY <1>2, <1>3, <1>4, <1>6, <1>8 DEF Named
  <2>2. \A u \in Threads \ {t} : Live(u)' => caller'[u].entry # e
    BY <1>2, <1>3, <1>6, <1>8 DEF Named
  <2>3. ASSUME NEW u \in Threads, NEW v \in Threads, Live(u)', Live(v)',
               caller'[u].entry = caller'[v].entry
        PROVE  u = v
    <3>1. CASE u = t \/ v = t
      BY <1>4, <1>6, <2>2, <2>3, <3>1
    <3>2. CASE u # t /\ v # t
      BY <1>2, <1>6, <1>8, <2>3, <3>2 DEF Named
    <3> QED
      BY <3>1, <3>2
  <2>4. \A k \in 1 .. Len(file) : file[k].entry \in 1 .. e
    BY <1>2, <1>3 DEF Named
  <2> QED
    BY <1>1, <1>2, <2>1, <2>3, <2>4 DEF Named
<1>11. Underway'
  <2>1. Printed(e) = {}
    BY <1>2, <1>3 DEF Named, Printed
  <2>2. Distinct(r.todo)
    BY <1>4, PartsOfEntry
  <2>3. Printed(e) \cup Members(r.todo) = Members(r.parts)
        /\ Printed(e) \cap Members(r.todo) = {}
    BY <1>4, <2>1
  <2> HIDE DEF r
  <2> QED
    BY <1>2, <1>4, <1>6, <1>8, <1>9, <2>2, <2>3 DEF Underway
<1>12. Settled'
  <2> SUFFICES ASSUME NEW q \in returned
               PROVE  /\ q.entry \in 1 .. e
                      /\ \A u \in Threads : Live(u)' => caller'[u].entry # q.entry
                      /\ \A k \in 1 .. Len(file) : file[k].entry = q.entry => k <= flushed
    BY <1>1 DEF Settled
  <2>1. q.entry \in 1 .. calls
    BY <1>2 DEF Settled
  <2>2. caller'[t].entry # q.entry
    BY <1>3, <1>4, <1>6, <2>1
  <2> QED
    BY <1>2, <1>3, <1>6, <1>8, <2>1, <2>2 DEF Settled
<1>13. ReturnedIsOnDisk'
  BY <1>1, <1>2 DEF ReturnedIsOnDisk, OnDisk
<1> QED
  BY <1>7, <1>10, <1>11, <1>12, <1>13 DEF LogInv

(* The steps between the call and the first fprintf, and the clock.         *)
LEMMA StampStep ==
  ASSUME LogInv, NEW t \in Threads,
         ReadClock(t) \/ Convert(t) \/ Converted(t) \/ FormatMinute(t) \/ FormatSecond(t)
  PROVE  LogInv'
<1>1. /\ ~ down /\ Live(t) /\ UNCHANGED <<open, clock, calls, file, flushed, returned, down>>
  BY DEF ReadClock, Convert, Converted, FormatMinute, FormatSecond, At, Up, Live
<1>2. TypesOK
  BY DEF LogInv
<1>3. caller[t] \in Locals /\ clock \in 0 .. MaxClock /\ MaxClock \in Nat
      /\ tm[1] \in 0 .. MaxClock /\ tm[2] \in 0 .. 1 /\ tm = <<tm[1], tm[2]>>
  BY <1>2, LoggerAssumption DEF TypesOK, TypeOK
<1>4. ASSUME NEW r \in Locals, r.pc # "idle", r.entry = caller[t].entry,
             r.parts = caller[t].parts, r.todo = caller[t].todo,
             caller' = [caller EXCEPT ![t] = r],
             tm' \in (0 .. MaxClock) \X (0 .. 1), converter' \in Threads \cup {NoThread}
      PROVE  LogInv'
  <2>1. /\ caller' \in [Threads -> Locals]
        /\ \A u \in Threads : /\ Live(u)' <=> Live(u)
                              /\ caller'[u].entry = caller[u].entry
                              /\ caller'[u].parts = caller[u].parts
                              /\ caller'[u].todo = caller[u].todo
    BY <1>1, <1>2, <1>4, OneThread
  <2>2. TypesOK'
    BY <1>1, <1>2, <1>4, <2>1 DEF TypesOK, TypeOK, Logging, Live
  <2> QED
    BY <1>1, <2>1, <2>2, Silent
<1>5. CASE ReadClock(t)
  <2> DEFINE r == [caller[t] EXCEPT !.pc = "convert", !.sec = clock]
  <2>1. r \in Locals /\ r.pc # "idle" /\ r.entry = caller[t].entry
        /\ r.parts = caller[t].parts /\ r.todo = caller[t].todo
    BY <1>3 DEF Locals, Places
  <2>2. caller' = [caller EXCEPT ![t] = r]
    BY <1>5 DEF ReadClock
  <2> QED
    BY <1>2, <1>4, <1>5, <2>1, <2>2 DEF ReadClock, TypesOK, TypeOK
<1>6. CASE Convert(t)
  <2> DEFINE r == [caller[t] EXCEPT !.pc = "converting"]
  <2>1. r \in Locals /\ r.pc # "idle" /\ r.entry = caller[t].entry
        /\ r.parts = caller[t].parts /\ r.todo = caller[t].todo
    BY <1>3 DEF Locals, Places
  <2>2. caller' = [caller EXCEPT ![t] = r] /\ converter' = t
    BY <1>6 DEF Convert
  <2>3. caller[t].sec \div 2 \in 0 .. MaxClock
    <3>1. caller[t].sec \in 0 .. MaxClock
      BY <1>3 DEF Locals
    <3> QED
      BY <1>3, <3>1
  <2>4. tm' \in (0 .. MaxClock) \X (0 .. 1)
    BY <1>3, <1>6, <2>3 DEF Convert, Minute
  <2> QED
    BY <1>4, <2>1, <2>2, <2>4
<1>7. CASE Converted(t)
  <2> DEFINE r == [caller[t] EXCEPT !.pc = "format"]
  <2>1. r \in Locals /\ r.pc # "idle" /\ r.entry = caller[t].entry
        /\ r.parts = caller[t].parts /\ r.todo = caller[t].todo
    BY <1>3 DEF Locals, Places
  <2>2. caller' = [caller EXCEPT ![t] = r] /\ converter' = NoThread
    BY <1>7 DEF Converted
  <2>3. caller[t].sec % 2 \in 0 .. 1
    <3>1. caller[t].sec \in 0 .. MaxClock
      BY <1>3 DEF Locals
    <3> QED
      BY <1>3, <3>1
  <2>4. tm' \in (0 .. MaxClock) \X (0 .. 1)
    BY <1>3, <1>7, <2>3 DEF Converted, Second
  <2> QED
    BY <1>4, <2>1, <2>2, <2>4
<1>8. CASE FormatMinute(t)
  <2> DEFINE r == [caller[t] EXCEPT !.pc = "formatting", !.minute = tm[1]]
  <2>1. r \in Locals /\ r.pc # "idle" /\ r.entry = caller[t].entry
        /\ r.parts = caller[t].parts /\ r.todo = caller[t].todo
    BY <1>3 DEF Locals, Places
  <2>2. caller' = [caller EXCEPT ![t] = r]
    BY <1>8 DEF FormatMinute
  <2> QED
    BY <1>2, <1>4, <1>8, <2>1, <2>2 DEF FormatMinute, TypesOK, TypeOK
<1>9. CASE FormatSecond(t)
  <2> DEFINE stamp == 2 * caller[t].minute + tm[2]
             r == [caller[t] EXCEPT !.pc = "print", !.stamp = stamp]
  <2>1. stamp \in 0 .. 2 * MaxClock + 1
    <3>1. caller[t].minute \in 0 .. MaxClock
      BY <1>3 DEF Locals
    <3> QED
      BY <1>3, <3>1
  <2>2. r \in Locals /\ r.pc # "idle" /\ r.entry = caller[t].entry
        /\ r.parts = caller[t].parts /\ r.todo = caller[t].todo
    BY <1>3, <2>1 DEF Locals, Places
  <2>3. caller' = [caller EXCEPT ![t] = r]
    BY <1>9 DEF FormatSecond
  <2> QED
    BY <1>2, <1>4, <1>9, <2>2, <2>3 DEF FormatSecond, TypesOK, TypeOK
<1> QED
  BY <1>5, <1>6, <1>7, <1>8, <1>9

LEMMA TickStep ==
  ASSUME LogInv, Tick
  PROVE  LogInv'
<1>1. UNCHANGED <<open, calls, tm, converter, file, flushed, caller, returned, down>>
  BY DEF Tick
<1>2. clock' \in 1 .. MaxClock
  BY LoggerAssumption DEF Tick, LogInv, TypesOK, TypeOK
<1>3. TypesOK'
  BY <1>1, <1>2 DEF LogInv, TypesOK, TypeOK, Logging
<1> QED
  BY <1>1, <1>3, Silent DEF Live

(* The process dies: what is left of the log is what was on the disk.       *)
LEMMA DieStep ==
  ASSUME LogInv, Die
  PROVE  LogInv'
<1>1. /\ down' = TRUE /\ file' = SubSeq(file, 1, flushed)
      /\ UNCHANGED <<open, clock, calls, tm, converter, flushed, caller, returned>>
  BY DEF Die
<1>2. file \in Seq(Piece) /\ flushed \in 0 .. Len(file) /\ Len(file) \in Nat
  BY LenProperties DEF LogInv, TypesOK, TypeOK
<1>3. /\ file' \in Seq(Piece) /\ Len(file') = flushed
      /\ \A k \in 1 .. flushed : file'[k] = file[k]
  <2>1. \A k \in 1 .. flushed : file[k] \in Piece
    BY <1>2, ElementOfSeq
  <2> QED
    BY <1>1, <1>2, <2>1
<1>4. TypesOK'
  BY <1>1, <1>2, <1>3 DEF LogInv, TypesOK, TypeOK, Logging
<1>5. ReturnedIsOnDisk'
  <2>1. \A q \in returned : Kept(q)'
    <3> SUFFICES ASSUME NEW q \in returned PROVE Kept(q)'
      OBVIOUS
    <3>1. Kept(q)
      BY DEF LogInv, ReturnedIsOnDisk, Kept
    <3>2. flushed \in Nat /\ Len(file') \in Nat /\ flushed' \in flushed .. Len(file')
      BY <1>1, <1>2, <1>3
    <3>3. \A k \in 1 .. Len(file') : file'[k].entry = q.entry => k <= flushed
      BY <1>2, <1>3
    <3> QED
      BY <1>3, <3>1, <3>2, <3>3, DiskGrows
  <2> QED
    BY <1>1, <2>1 DEF ReturnedIsOnDisk, Kept
<1> QED
  BY <1>1, <1>4, <1>5 DEF LogInv

-----------------------------------------------------------------------------
LEMMA PrintStep ==
  ASSUME LogInv, NEW t \in Threads, PrintPiece(t)
  PROVE  LogInv'
<1>0. PICK e, todo, piece, r :
        /\ e = caller[t].entry
        /\ todo = caller[t].todo
        /\ piece = [entry |-> e, part |-> Head(todo), stamp |-> caller[t].stamp]
        /\ r = [caller[t] EXCEPT !.todo = Tail(todo)]
  OBVIOUS
<1> DEFINE n == Len(file)
<1>1. /\ ~ down /\ Live(t) /\ caller[t].pc = "print" /\ todo # <<>>
      /\ file' = Append(file, piece) /\ flushed' \in {flushed, Len(file')}
      /\ caller' = [caller EXCEPT ![t] = r]
      /\ UNCHANGED <<open, clock, calls, tm, converter, returned, down>>
  BY <1>0 DEF PrintPiece, At, Up, Live
<1>2. TypesOK /\ Named /\ Underway /\ Settled /\ ReturnedIsOnDisk
  BY <1>1 DEF LogInv
<1>3. caller[t] \in Locals /\ todo \in Seq(PartNames) /\ e \in 1 .. calls
      /\ calls \in 0 .. MaxEntries /\ MaxEntries \in Nat
  BY <1>0, <1>1, <1>2, LoggerAssumption DEF TypesOK, TypeOK, Locals, Named
<1>4. /\ Tail(todo) \in Seq(PartNames) /\ Distinct(Tail(todo))
      /\ Head(todo) \in PartNames /\ Head(todo) \notin Members(Tail(todo))
      /\ Members(todo) = Members(Tail(todo)) \cup {Head(todo)}
  BY <1>0, <1>1, <1>2, <1>3, TailOfDistinct DEF Underway
<1>5. piece \in Piece
  <2>1. e \in 1 .. MaxEntries
    BY <1>3
  <2> QED
    BY <1>0, <1>3, <1>4, <2>1 DEF Piece, PartNames, Locals
<1>6. /\ file' \in Seq(Piece) /\ Len(file') = n + 1 /\ n \in Nat
      /\ \A k \in 1 .. n : file'[k] = file[k]
      /\ file'[n + 1] = piece
      /\ flushed \in 0 .. n
  BY <1>1, <1>2, <1>5, AppendProperties, LenProperties DEF TypesOK, TypeOK
<1>7. r \in Locals /\ r.pc = "print" /\ r.entry = e /\ r.todo = Tail(todo)
      /\ r.parts = caller[t].parts
  BY <1>0, <1>1, <1>3, <1>4 DEF Locals
<1>8. /\ caller' \in [Threads -> Locals] /\ caller'[t] = r
      /\ \A u \in Threads \ {t} : caller'[u] = caller[u]
  BY <1>1, <1>2, <1>7 DEF TypesOK
<1>9. \A u \in Threads : (Live(u)' <=> Live(u)) /\ caller'[u].entry = caller[u].entry
  BY <1>0, <1>1, <1>7, <1>8 DEF Live
<1>10. flushed' \in flushed .. Len(file') /\ flushed' \in 0 .. Len(file')
  BY <1>1, <1>6
<1>11. TypesOK'
  BY <1>1, <1>2, <1>6, <1>8, <1>9, <1>10 DEF TypesOK, TypeOK, Logging, Live
<1>12. piece.entry = e /\ piece.part = Head(todo)
  BY <1>0
<1>13. Head(todo) \notin Printed(e)
  BY <1>0, <1>1, <1>2, <1>4 DEF Underway
<1>14. \A k \in 1 .. n + 1 : k \in 1 .. n \/ k = n + 1
  BY <1>6
<1>15. Printed(e)' = Printed(e) \cup {Head(todo)}
       /\ \A d : d # e => Printed(d)' = Printed(d)
  <2>1. \A k \in 1 .. n : k \in 1 .. n + 1
    BY <1>6
  <2>2. n + 1 \in 1 .. n + 1
    BY <1>6
  <2>3. ASSUME NEW d, d # e PROVE Printed(d)' = Printed(d)
    <3>1. {k \in 1 .. n + 1 : file'[k].entry = d} = {k \in 1 .. n : file[k].entry = d}
      BY <1>6, <1>12, <1>14, <2>1, <2>3
    <3>2. Printed(d)' = {file'[k].part : k \in {j \in 1 .. n : file[j].entry = d}}
      BY <1>6, <3>1 DEF Printed
    <3> QED
      BY <1>6, <3>2 DEF Printed
  <2>4. {k \in 1 .. n + 1 : file'[k].entry = e}
          = {k \in 1 .. n : file[k].entry = e} \cup {n + 1}
    BY <1>6, <1>12, <1>14, <2>1, <2>2
  <2>5. Printed(e)' = {file'[k].part : k \in {j \in 1 .. n : file[j].entry = e} \cup {n + 1}}
    BY <1>6, <2>4 DEF Printed
  <2> QED
    BY <1>6, <1>12, <2>3, <2>5 DEF Printed
<1>16. Named'
  <2>1. \A k \in 1 .. n + 1 : file'[k].entry \in 1 .. calls
    BY <1>2, <1>3, <1>6, <1>12, <1>14 DEF Named
  <2>2. ASSUME NEW k \in 1 .. n + 1, NEW l \in 1 .. n + 1,
               file'[k].entry = file'[l].entry, file'[k].part = file'[l].part
        PROVE  k = l
    <3>1. \A j \in 1 .. n : ~ (file[j].entry = e /\ file[j].part = Head(todo))
      BY <1>13 DEF Printed
    <3>2. CASE k = n + 1 \/ l = n + 1
      BY <1>6, <1>12, <1>14, <2>2, <3>1, <3>2
    <3>3. CASE k \in 1 .. n /\ l \in 1 .. n
      BY <1>2, <1>6, <2>2, <3>3 DEF Named
    <3> QED
      BY <1>14, <3>2, <3>3
  <2> QED
    BY <1>1, <1>2, <1>6, <1>9, <2>1, <2>2 DEF Named
<1>17. Underway'
  <2>1. ASSUME NEW u \in Threads, u # t, Live(u)
        PROVE  caller[u].entry # e /\ caller'[u] = caller[u]
    BY <1>0, <1>1, <1>2, <1>8, <2>1 DEF Named
  <2>2. Printed(e)' \cup Members(Tail(todo)) = Members(caller[t].parts)
        /\ Printed(e)' \cap Members(Tail(todo)) = {}
    BY <1>0, <1>1, <1>2, <1>4, <1>15 DEF Underway
  <2>3. /\ Distinct(caller'[t].todo)
        /\ Printed(caller[t].entry)' \cup Members(caller'[t].todo) = Members(caller'[t].parts)
        /\ Printed(caller[t].entry)' \cap Members(caller'[t].todo) = {}
    BY <1>4, <1>7, <1>8, <2>2
  <2>4. ASSUME NEW u \in Threads, u # t, Live(u)
        PROVE  /\ Distinct(caller'[u].todo)
               /\ Printed(caller[u].entry)' \cup Members(caller'[u].todo)
                    = Members(caller'[u].parts)
               /\ Printed(caller[u].entry)' \cap Members(caller'[u].todo) = {}
    <3>1. PICK d : d = caller[u].entry
      OBVIOUS
    <3>2. caller'[u] = caller[u] /\ d # e
      BY <2>1, <2>4, <3>1
    <3>3. caller'[u].entry = d /\ Printed(d)' = Printed(d)
      BY <1>15, <3>1, <3>2
    <3>4. /\ Distinct(caller[u].todo)
          /\ Printed(d) \cup Members(caller[u].todo) = Members(caller[u].parts)
          /\ Printed(d) \cap Members(caller[u].todo) = {}
      BY <1>2, <2>4, <3>1 DEF Underway
    <3> QED
      BY <3>2, <3>3, <3>4
  <2> QED
    BY <1>9, <2>3, <2>4 DEF Underway
<1>18. \A q \in returned : q.entry # e
  BY <1>0, <1>1, <1>2 DEF Settled
<1>19. \A q \in returned : \A k \in 1 .. Len(file') : file'[k].entry = q.entry => k <= flushed
  BY <1>2, <1>6, <1>12, <1>14, <1>18 DEF Settled
<1>20. Settled'
  <2>1. \A k \in 1 .. Len(file') : k <= flushed => k <= flushed'
    BY <1>6, <1>10
  <2> QED
    BY <1>1, <1>2, <1>9, <1>19, <2>1 DEF Settled
<1>21. ReturnedIsOnDisk'
  <2>1. \A k \in 1 .. flushed : file'[k] = file[k]
    BY <1>6
  <2>2. \A q \in returned : Kept(q)'
    <3> SUFFICES ASSUME NEW q \in returned PROVE Kept(q)'
      OBVIOUS
    <3>1. Kept(q)
      BY <1>2 DEF ReturnedIsOnDisk, Kept
    <3>2. flushed \in Nat /\ Len(file') \in Nat
      BY <1>6
    <3> QED
      BY <1>10, <1>19, <2>1, <3>1, <3>2, DiskGrows
  <2> QED
    BY <1>1, <2>2 DEF ReturnedIsOnDisk, Kept
<1> QED
  BY <1>11, <1>16, <1>17, <1>20, <1>21 DEF LogInv

-----------------------------------------------------------------------------
LEMMA FlushStep ==
  ASSUME LogInv, NEW t \in Threads, Flush(t)
  PROVE  LogInv'
<1>0. PICK e, new :
        /\ e = caller[t].entry
        /\ new = [entry |-> e, parts |-> caller[t].parts, sec |-> caller[t].sec]
  OBVIOUS
<1>1. /\ ~ down /\ Live(t) /\ caller[t].pc = "print" /\ caller[t].todo = <<>>
      /\ flushed' = Len(file) /\ returned' = returned \cup {new}
      /\ caller' = [caller EXCEPT ![t] = Idle]
      /\ UNCHANGED <<open, clock, calls, tm, converter, file, down>>
  BY <1>0 DEF Flush, Return, At, Up, Live
<1>2. TypesOK /\ Named /\ Underway /\ Settled /\ ReturnedIsOnDisk
  BY <1>1 DEF LogInv
<1>3. file \in Seq(Piece) /\ Len(file) \in Nat /\ flushed \in 0 .. Len(file)
  BY <1>2, LenProperties DEF TypesOK, TypeOK
<1>4. Idle \in Locals /\ Idle.pc = "idle"
  <2>1. 0 \in 0 .. MaxEntries /\ 0 \in 0 .. MaxClock /\ 0 \in 0 .. 2 * MaxClock + 1
    BY LoggerAssumption
  <2> QED
    BY <2>1 DEF Idle, Locals, Places
<1>5. /\ caller' \in [Threads -> Locals] /\ ~ Live(t)'
      /\ \A u \in Threads \ {t} : caller'[u] = caller[u] /\ (Live(u)' <=> Live(u))
  BY <1>1, <1>2, <1>4 DEF TypesOK, Live
<1>6. TypesOK'
  BY <1>1, <1>2, <1>3, <1>5 DEF TypesOK, TypeOK, Logging, Live
<1>7. \A d : Printed(d)' = Printed(d)
  BY <1>1 DEF Printed
<1>8. Named'
  BY <1>1, <1>2, <1>5 DEF Named
<1>9. Underway'
  BY <1>2, <1>5, <1>7 DEF Underway
<1>10. \A u \in Threads : Live(u)' => caller'[u].entry # e
  BY <1>0, <1>1, <1>2, <1>5 DEF Named
<1>11. e \in 1 .. calls
  BY <1>0, <1>1, <1>2 DEF Named
<1>12. new.entry = e /\ new.parts = caller[t].parts
  BY <1>0
<1>13. Settled'
  <2>1. \A k \in 1 .. Len(file) : k <= flushed'
    BY <1>1, <1>3
  <2>2. \A q \in returned' : q.entry \in 1 .. calls
    BY <1>1, <1>2, <1>11, <1>12 DEF Settled
  <2>3. \A q \in returned' : \A u \in Threads : Live(u)' => caller'[u].entry # q.entry
    BY <1>1, <1>2, <1>5, <1>10, <1>12 DEF Settled
  <2> QED
    BY <1>1, <2>1, <2>2, <2>3 DEF Settled
<1>14. Kept(new)'
  <2>1. OnDisk(e)' = {k \in 1 .. Len(file) : file[k].entry = e}
    BY <1>1 DEF OnDisk
  <2>2. Members(<<>>) = {}
    BY DEF Members
  <2>3. Printed(e) = Members(caller[t].parts)
    BY <1>0, <1>1, <1>2, <2>2 DEF Underway
  <2>4. \A k, l \in OnDisk(e)' : file'[k].part = file'[l].part => k = l
    BY <1>1, <1>2, <2>1 DEF Named
  <2>5. {file'[k].part : k \in OnDisk(e)'} = Printed(e)
    BY <1>1, <2>1 DEF Printed
  <2>6. Printed(e) = {new.parts[j] : j \in DOMAIN new.parts}
    BY <1>12, <2>3 DEF Members
  <2>7. OnDisk(new.entry)' = OnDisk(e)'
    BY <1>12
  <2> QED
    BY <2>4, <2>5, <2>6, <2>7 DEF Kept
<1>15. \A q \in returned : Kept(q)'
  <2>1. flushed \in Nat /\ flushed' \in flushed .. Len(file')
    BY <1>1, <1>3
  <2>2. \A q \in returned : \A k \in 1 .. Len(file') :
          file'[k].entry = q.entry => k <= flushed
    BY <1>1, <1>2 DEF Settled
  <2>3. \A q \in returned : Kept(q)
    BY <1>2 DEF ReturnedIsOnDisk, Kept
  <2> QED
    BY <1>1, <1>3, <2>1, <2>2, <2>3, DiskGrows
<1>16. ReturnedIsOnDisk'
  <2>1. \A q \in returned' : Kept(q)'
    BY <1>1, <1>14, <1>15
  <2> QED
    BY <2>1 DEF ReturnedIsOnDisk, Kept
<1> QED
  BY <1>6, <1>8, <1>9, <1>13, <1>16 DEF LogInv

-----------------------------------------------------------------------------
LEMMA LogInvStep == LogInv /\ [Next]_vars => LogInv'
<1> SUFFICES ASSUME LogInv, [Next]_vars PROVE LogInv'
  OBVIOUS
<1>1. ASSUME NEW t \in Threads, Log(t) PROVE LogInv'
  BY <1>1, CallStep, StampStep, PrintStep, FlushStep DEF Log
<1>2. CASE UNCHANGED vars
  <2>1. TypesOK'
    BY <1>2 DEF vars, LogInv, TypesOK, TypeOK, Logging
  <2> QED
    BY <1>2, <2>1, Silent DEF vars, Live
<1> QED
  BY <1>1, <1>2, TickStep, DieStep DEF Next

LEMMA LogInvHolds == Spec => []LogInv
  BY LogInvInit, LogInvStep, PTL DEF Spec

(* The log, the clock and what is flushed are well typed, and without a     *)
(* file no thread is inside logger_log.                                     *)
THEOREM LogTypeCorrect == Spec => []TypeOK
<1>1. LogInv => TypeOK
  BY DEF LogInv, TypesOK
<1> QED
  BY <1>1, LogInvHolds, PTL

(* However many threads log at once, and whenever the process dies: what    *)
(* logger_log has returned from is on the disk, whole and once.             *)
THEOREM ReturnedSurvives == Spec => []ReturnedIsOnDisk
<1>1. LogInv => ReturnedIsOnDisk
  BY DEF LogInv
<1> QED
  BY <1>1, LogInvHolds, PTL

-----------------------------------------------------------------------------
(* An entry that no other call overlaps. *)

Uncrowded(t) == Live(t) /\ caller[t].entry \notin UNION overlap

(* The stamp is on its way from the clock through the struct to the line. *)
Stamped(c) ==
  /\ c.pc \in {"converting", "format"} => tm[1] = Minute(c.sec)
  /\ c.pc \in {"format", "formatting"} => tm[2] = Second(c.sec)
  /\ c.pc = "formatting" => c.minute = Minute(c.sec)
  /\ c.pc = "print" => c.stamp = c.sec

(* What is printed of it is the end of the file, and the rest is to come.   *)
AtEnd(c) ==
  LET n == Len(c.parts) - Len(c.todo)
      start == Len(file) - n
  IN  /\ n \in 0 .. Len(file)
      /\ c.pc # "print" => n = 0
      /\ \A j \in 1 .. Len(c.todo) : c.todo[j] = c.parts[n + j]
      /\ \A j \in 1 .. n :
           file[start + j] = [entry |-> c.entry, part |-> c.parts[j], stamp |-> c.sec]

Undisturbed ==
  \A t \in Threads : Uncrowded(t) =>
    /\ \A u \in Threads : Live(u) => u = t
    /\ Stamped(caller[t]) /\ AtEnd(caller[t])

Whole(q) ==
  \E k \in 0 .. flushed - Len(q.parts) : \A j \in DOMAIN q.parts :
    file[k + j] = [entry |-> q.entry, part |-> q.parts[j], stamp |-> q.sec]

WholeInv ==
  /\ \A q \in returned : q.parts \in Seq(PartNames)
  /\ \A q \in returned : q.entry \notin UNION overlap => Whole(q)
  /\ ~ down => Undisturbed

LEMMA WholeKept ==
  ASSUME NEW q, q.parts \in Seq(PartNames), Whole(q), flushed \in Nat,
         flushed' \in Nat, flushed <= flushed',
         \A k \in 1 .. flushed : file'[k] = file[k]
  PROVE  Whole(q)'
<1>1. Len(q.parts) \in Nat /\ DOMAIN q.parts = 1 .. Len(q.parts)
  OBVIOUS
<1>2. PICK k \in 0 .. flushed - Len(q.parts) : \A j \in DOMAIN q.parts :
        file[k + j] = [entry |-> q.entry, part |-> q.parts[j], stamp |-> q.sec]
  BY DEF Whole
<1>3. k \in 0 .. flushed' - Len(q.parts)
  BY <1>1
<1>4. ASSUME NEW j \in DOMAIN q.parts PROVE file'[k + j] = file[k + j]
  BY <1>1
<1> QED
  BY <1>2, <1>3, <1>4 DEF Whole

(* One thread goes on, begun before, and the rest of the file is kept.      *)
LEMMA UndisturbedThread ==
  ASSUME caller \in [Threads -> Locals], Undisturbed, NEW t \in Threads, Live(t),
         NEW r \in Locals, caller' = [caller EXCEPT ![t] = r], overlap' = overlap,
         r.pc # "idle" => r.entry = caller[t].entry,
         r.pc # "idle" /\ Uncrowded(t) => Stamped(r)' /\ AtEnd(r)'
  PROVE  Undisturbed'
<1>1. caller'[t] = r /\ \A u \in Threads \ {t} : caller'[u] = caller[u]
  OBVIOUS
<1> SUFFICES ASSUME NEW v \in Threads, Uncrowded(v)'
             PROVE  /\ \A u \in Threads : Live(u)' => u = v
                    /\ Stamped(caller[v])' /\ AtEnd(caller[v])'
  BY DEF Undisturbed
<1>2. v = t
  <2> SUFFICES ASSUME v # t PROVE FALSE
    OBVIOUS
  <2>1. Uncrowded(v)
    BY <1>1 DEF Uncrowded, Live
  <2> QED
    BY <2>1 DEF Undisturbed
<1>3. r.pc # "idle" /\ Uncrowded(t)
  BY <1>1, <1>2 DEF Uncrowded, Live
<1>4. \A u \in Threads : Live(u)' => u = t
  BY <1>1, <1>3 DEF Undisturbed, Live
<1>5. PICK c : c = caller'[v]
  OBVIOUS
<1>6. c = r
  BY <1>1, <1>2, <1>5
<1>7. Stamped(c)' /\ AtEnd(c)'
  BY <1>3, <1>6
<1>8. Stamped(caller[v])' /\ AtEnd(caller[v])'
  BY <1>5, <1>7 DEF Stamped, AtEnd
<1> QED
  BY <1>2, <1>4, <1>8

(* Before the first piece is printed nothing of the entry is in the file.   *)
LEMMA AtEndBefore ==
  ASSUME NEW c \in Locals, AtEnd(c), c.pc # "print", file' = file, NEW r,
         r.parts = c.parts, r.todo = c.todo
  PROVE  AtEnd(r)'
<1>1. /\ Len(c.parts) \in Nat /\ Len(c.todo) \in Nat
      /\ Len(c.parts) - Len(c.todo) = 0 /\ 0 \in 0 .. Len(file)
      /\ \A j \in 1 .. Len(c.todo) : c.todo[j] = c.parts[0 + j]
  BY DEF AtEnd, Locals
<1>2. /\ Len(r.parts) - Len(r.todo) = 0 /\ 0 \in 0 .. Len(file')
      /\ \A j \in 1 .. Len(r.todo) : r.todo[j] = r.parts[0 + j]
  BY <1>1
<1>3. \A j \in 1 .. 0 : FALSE
  OBVIOUS
<1> QED
  BY <1>2, <1>3 DEF AtEnd

-----------------------------------------------------------------------------
LEMMA WholeReturned ==
  ASSUME LogInv, WholeInv, UNCHANGED <<returned, file, flushed>>,
         overlap \subseteq overlap'
  PROVE  /\ \A q \in returned' : q.parts \in Seq(PartNames)
         /\ \A q \in returned' : q.entry \notin UNION overlap' => Whole(q)'
<1>1. \A q : Whole(q)' = Whole(q)
  BY DEF Whole
<1> QED
  BY <1>1 DEF WholeInv

LEMMA WholeCall ==
  ASSUME LogInv, WholeInv, NEW t \in Threads, NEW address \in BOOLEAN,
         Call(t, address)
  PROVE  WholeInv'
<1>1. PICK r : r = [caller[t] EXCEPT !.pc = "clock", !.entry = calls + 1,
                               !.parts = Parts(address), !.todo = Parts(address)]
  OBVIOUS
<1>2. /\ ~ down /\ caller[t].pc = "idle" /\ caller' = [caller EXCEPT ![t] = r]
      /\ overlap' = overlap \cup {{calls + 1, caller[u].entry} : u \in Logging}
      /\ UNCHANGED <<tm, file, flushed, returned, down>>
  BY <1>1 DEF Call, At, Up
<1>3. /\ caller \in [Threads -> Locals] /\ file \in Seq(Piece)
      /\ Parts(address) \in Seq(PartNames)
  BY PartsOfEntry DEF LogInv, TypesOK, TypeOK
<1>4. /\ r.pc = "clock" /\ r.entry = calls + 1
      /\ r.parts = Parts(address) /\ r.todo = Parts(address)
  <2>1. caller[t] \in Locals
    BY <1>3
  <2> QED
    BY <1>1, <2>1 DEF Locals
<1>5. /\ caller'[t] = r
      /\ \A u \in Threads \ {t} : caller'[u] = caller[u]
  BY <1>2, <1>3
<1>6. Undisturbed'
  <2> SUFFICES ASSUME NEW v \in Threads, Uncrowded(v)'
               PROVE  /\ \A u \in Threads : Live(u)' => u = v
                      /\ Stamped(caller[v])' /\ AtEnd(caller[v])'
    BY DEF Undisturbed
  <2>1. CASE Logging = {}
    <3>1. \A u \in Threads : ~ Live(u)
      BY <2>1 DEF Logging, Live
    <3>2. v = t /\ \A u \in Threads : Live(u)' => u = t
      BY <1>5, <3>1 DEF Uncrowded, Live
    <3>3. Len(r.parts) \in Nat /\ Len(file) \in Nat
      BY <1>3, <1>4
    <3>4. Stamped(r)' /\ AtEnd(r)'
      BY <1>4, <3>3 DEF Stamped, AtEnd
    <3>5. Stamped(caller[v])' /\ AtEnd(caller[v])'
      BY <1>5, <3>2, <3>4 DEF Stamped, AtEnd
    <3> QED
      BY <3>2, <3>5
  <2>2. CASE Logging # {}
    <3>1. caller'[v].pc # "idle" /\ caller'[v].entry \notin UNION overlap'
      BY DEF Uncrowded, Live
    <3>2. ASSUME NEW u \in Logging
          PROVE  calls + 1 \in UNION overlap' /\ caller[u].entry \in UNION overlap'
      <4>1. {calls + 1, caller[u].entry} \in overlap'
        BY <1>2
      <4> QED
        BY <4>1
    <3>3. CASE v = t
      BY <1>4, <1>5, <2>2, <3>1, <3>2, <3>3
    <3>4. CASE v # t
      <4>1. v \in Logging /\ caller'[v] = caller[v]
        BY <1>5, <3>1, <3>4 DEF Logging
      <4> QED
        BY <3>1, <3>2, <4>1
    <3> QED
      BY <3>3, <3>4
  <2> QED
    BY <2>1, <2>2
<1>7. overlap \subseteq overlap'
  BY <1>2
<1> QED
  BY <1>2, <1>6, <1>7, WholeReturned DEF WholeInv

LEMMA WholeStamp ==
  ASSUME LogInv, WholeInv, NEW t \in Threads,
         ReadClock(t) \/ Convert(t) \/ Converted(t) \/ FormatMinute(t) \/ FormatSecond(t)
  PROVE  WholeInv'
<1>1. PICK c : c = caller[t]
  OBVIOUS
<1>2. /\ ~ down /\ Undisturbed /\ Live(t) /\ c.pc # "print"
      /\ UNCHANGED <<file, flushed, returned, overlap, down>>
  BY <1>1 DEF ReadClock, Convert, Converted, FormatMinute, FormatSecond, At, Up, Live,
              WholeInv
<1>3. /\ caller \in [Threads -> Locals] /\ c \in Locals
      /\ tm \in (0 .. MaxClock) \X (0 .. 1) /\ MaxClock \in Nat /\ clock \in 1 .. MaxClock
  BY <1>1, LoggerAssumption DEF LogInv, TypesOK, TypeOK
<1>4. Uncrowded(t) => Stamped(c) /\ AtEnd(c)
  BY <1>1, <1>2 DEF Undisturbed
<1>5. ASSUME NEW r \in Locals, caller' = [caller EXCEPT ![t] = r],
             r.entry = c.entry, r.parts = c.parts, r.todo = c.todo,
             Stamped(c) => Stamped(r)'
      PROVE  WholeInv'
  <2>1. Uncrowded(t) => Stamped(r)' /\ AtEnd(r)'
    BY <1>2, <1>3, <1>4, <1>5, AtEndBefore
  <2>2. Undisturbed'
    BY <1>1, <1>2, <1>3, <1>5, <2>1, UndisturbedThread
  <2> QED
    BY <1>2, <2>2, WholeReturned DEF WholeInv
<1>6. /\ c.sec \in 0 .. MaxClock /\ c.sec \in Nat
  BY <1>3 DEF Locals
<1>7. CASE ReadClock(t)
  <2>1. PICK r : r = [c EXCEPT !.pc = "convert", !.sec = clock]
    OBVIOUS
  <2>2. /\ r \in Locals /\ r.entry = c.entry /\ r.parts = c.parts
        /\ r.todo = c.todo /\ r.pc = "convert"
    <3>1. clock \in 0 .. MaxClock
      BY <1>3
    <3> QED
      BY <1>3, <2>1, <3>1 DEF Locals, Places
  <2>3. Stamped(r)'
    BY <2>2 DEF Stamped
  <2>4. caller' = [caller EXCEPT ![t] = r]
    BY <1>1, <1>7, <2>1 DEF ReadClock
  <2> QED
    BY <1>5, <2>2, <2>3, <2>4
<1>8. CASE Convert(t)
  <2>1. PICK r : r = [c EXCEPT !.pc = "converting"]
    OBVIOUS
  <2>2. /\ r \in Locals /\ r.entry = c.entry /\ r.parts = c.parts
        /\ r.todo = c.todo /\ r.pc = "converting" /\ r.sec = c.sec
    BY <1>3, <2>1 DEF Locals, Places
  <2>3. tm' = <<Minute(c.sec), tm[2]>> /\ caller' = [caller EXCEPT ![t] = r]
    BY <1>1, <1>8, <2>1 DEF Convert
  <2>4. Stamped(r)'
    BY <2>2, <2>3 DEF Stamped
  <2> QED
    BY <1>5, <2>2, <2>3, <2>4
<1>9. CASE Converted(t)
  <2>1. PICK r : r = [c EXCEPT !.pc = "format"]
    OBVIOUS
  <2>2. /\ r \in Locals /\ r.entry = c.entry /\ r.parts = c.parts
        /\ r.todo = c.todo /\ r.pc = "format" /\ r.sec = c.sec
        /\ c.pc = "converting"
    BY <1>1, <1>3, <1>9, <2>1 DEF Locals, Places, Converted, At
  <2>3. tm' = <<tm[1], Second(c.sec)>> /\ caller' = [caller EXCEPT ![t] = r]
    BY <1>1, <1>9, <2>1 DEF Converted
  <2>4. Stamped(c) => Stamped(r)'
    BY <2>2, <2>3 DEF Stamped
  <2> QED
    BY <1>5, <2>2, <2>3, <2>4
<1>10. CASE FormatMinute(t)
  <2>1. PICK r : r = [c EXCEPT !.pc = "formatting", !.minute = tm[1]]
    OBVIOUS
  <2>2. /\ r \in Locals /\ r.entry = c.entry /\ r.parts = c.parts
        /\ r.todo = c.todo /\ r.pc = "formatting" /\ r.sec = c.sec
        /\ r.minute = tm[1] /\ c.pc = "format"
    BY <1>1, <1>3, <1>10, <2>1 DEF Locals, Places, FormatMinute, At
  <2>3. tm' = tm /\ caller' = [caller EXCEPT ![t] = r]
    BY <1>1, <1>10, <2>1 DEF FormatMinute
  <2>4. Stamped(c) => Stamped(r)'
    BY <2>2, <2>3 DEF Stamped
  <2> QED
    BY <1>5, <2>2, <2>3, <2>4
<1>11. CASE FormatSecond(t)
  <2>1. PICK s, r : s = 2 * c.minute + tm[2] /\ r = [c EXCEPT !.pc = "print", !.stamp = s]
    OBVIOUS
  <2>2. s \in 0 .. 2 * MaxClock + 1
    <3>1. c.minute \in 0 .. MaxClock /\ tm[2] \in 0 .. 1
      BY <1>3 DEF Locals
    <3> QED
      BY <1>3, <2>1, <3>1
  <2>3. /\ r \in Locals /\ r.entry = c.entry /\ r.parts = c.parts
        /\ r.todo = c.todo /\ r.pc = "print" /\ r.sec = c.sec
        /\ r.stamp = s /\ c.pc = "formatting"
    BY <1>1, <1>3, <1>11, <2>1, <2>2 DEF Locals, Places, FormatSecond, At
  <2>4. tm' = tm /\ caller' = [caller EXCEPT ![t] = r]
    BY <1>1, <1>11, <2>1 DEF FormatSecond
  <2>5. Stamped(c) => s = c.sec
    <3>1. \A n \in Nat : 2 * (n \div 2) + (n % 2) = n
      OBVIOUS
    <3>2. 2 * (c.sec \div 2) + (c.sec % 2) = c.sec
      BY <1>6, <3>1
    <3>3. Stamped(c) => c.minute = c.sec \div 2 /\ tm[2] = (c.sec % 2)
      BY <2>3 DEF Stamped, Minute, Second
    <3> QED
      BY <2>1, <3>2, <3>3
  <2>6. Stamped(c) => Stamped(r)'
    BY <2>3, <2>5 DEF Stamped
  <2> QED
    BY <1>5, <2>3, <2>4, <2>6
<1> QED
  BY <1>7, <1>8, <1>9, <1>10, <1>11

LEMMA WholePrint ==
  ASSUME LogInv, WholeInv, NEW t \in Threads, PrintPiece(t)
  PROVE  WholeInv'
<1>1. PICK c, piece, r :
        /\ c = caller[t] /\ r = [c EXCEPT !.todo = Tail(c.todo)]
        /\ piece = [entry |-> c.entry, part |-> Head(c.todo), stamp |-> c.stamp]
  OBVIOUS
<1> DEFINE F == Len(file)
<1>2. /\ ~ down /\ Undisturbed /\ Live(t) /\ c.pc = "print" /\ c.todo # <<>>
      /\ file' = Append(file, piece) /\ flushed' \in {flushed, Len(file')}
      /\ caller' = [caller EXCEPT ![t] = r]
      /\ UNCHANGED <<returned, overlap, down>>
  BY <1>1 DEF PrintPiece, At, Up, Live, WholeInv
<1>3. /\ caller \in [Threads -> Locals] /\ c \in Locals
      /\ file \in Seq(Piece) /\ flushed \in 0 .. F /\ F \in Nat
  BY <1>1 DEF LogInv, TypesOK, TypeOK
<1>4. /\ Len(file') = F + 1 /\ file'[F + 1] = piece
      /\ \A k \in 1 .. F : file'[k] = file[k]
  BY <1>2, <1>3
<1>5. c.todo \in Seq(PartNames) /\ c.parts \in Seq(PartNames)
  BY <1>3 DEF Locals
<1>6. /\ Tail(c.todo) \in Seq(PartNames) /\ Head(c.todo) = c.todo[1]
      /\ Len(c.todo) \in Nat \ {0} /\ Len(Tail(c.todo)) = Len(c.todo) - 1
      /\ \A j \in 1 .. Len(c.todo) - 1 : Tail(c.todo)[j] = c.todo[j + 1]
      /\ Len(c.parts) \in Nat
  BY <1>2, <1>5
<1>7. /\ r \in Locals /\ r.pc = "print" /\ r.entry = c.entry /\ r.sec = c.sec
      /\ r.stamp = c.stamp /\ r.parts = c.parts /\ r.todo = Tail(c.todo)
  BY <1>1, <1>2, <1>3, <1>6 DEF Locals
<1>8. Stamped(c) => Stamped(r)'
  BY <1>2, <1>7 DEF Stamped
<1>9. ASSUME Stamped(c), AtEnd(c) PROVE AtEnd(r)'
  <2>1. PICK n : n = Len(c.parts) - Len(c.todo)
    OBVIOUS
  <2>2. /\ n \in 0 .. F
        /\ \A j \in 1 .. Len(c.todo) : c.todo[j] = c.parts[n + j]
        /\ \A j \in 1 .. n : file[F - n + j]
             = [entry |-> c.entry, part |-> c.parts[j], stamp |-> c.sec]
    BY <1>9, <2>1 DEF AtEnd
  <2>3. Len(r.parts) - Len(r.todo) = n + 1 /\ n + 1 \in 0 .. F + 1
    <3>1. Len(r.parts) = Len(c.parts) /\ Len(r.todo) = Len(c.todo) - 1
      BY <1>6, <1>7
    <3>2. Len(c.parts) - (Len(c.todo) - 1) = n + 1
      BY <1>6, <2>1
    <3>3. n + 1 \in 0 .. F + 1
      BY <1>3, <2>2
    <3> QED
      BY <3>1, <3>2, <3>3
  <2>4. ASSUME NEW j \in 1 .. Len(r.todo)
        PROVE  r.todo[j] = r.parts[(n + 1) + j]
    <3>1. j \in 1 .. Len(c.todo) - 1 /\ j + 1 \in 1 .. Len(c.todo)
      BY <1>6, <1>7
    <3>2. r.todo[j] = c.parts[n + (j + 1)]
      BY <1>6, <1>7, <2>2, <3>1
    <3>3. n + (j + 1) = (n + 1) + j
      BY <2>2
    <3> QED
      BY <1>7, <3>2, <3>3
  <2>5. ASSUME NEW j \in 1 .. n + 1
        PROVE  file'[((F + 1) - (n + 1)) + j]
                 = [entry |-> r.entry, part |-> r.parts[j], stamp |-> r.sec]
    <3>1. ((F + 1) - (n + 1)) + j = (F - n) + j
      BY <1>3, <2>2
    <3>2. CASE j \in 1 .. n
      <4>1. (F - n) + j \in 1 .. F
        BY <1>3, <2>2, <3>2
      <4> QED
        BY <1>4, <1>7, <2>2, <3>1, <3>2, <4>1
    <3>3. CASE j = n + 1
      <4>1. (F - n) + j = F + 1
        BY <1>3, <2>2, <3>3
      <4>2. c.stamp = c.sec
        BY <1>2, <1>9 DEF Stamped
      <4>3. c.todo[1] = c.parts[n + 1]
        BY <1>6, <2>2
      <4> QED
        BY <1>1, <1>4, <1>6, <1>7, <3>1, <3>3, <4>1, <4>2, <4>3
    <3> QED
      BY <2>2, <3>2, <3>3
  <2> HIDE DEF F
  <2> QED
    BY <1>4, <1>7, <2>3, <2>4, <2>5 DEF AtEnd
<1>10. Undisturbed'
  <2>1. Uncrowded(t) => Stamped(r)' /\ AtEnd(r)'
    BY <1>1, <1>2, <1>8, <1>9 DEF Undisturbed
  <2> QED
    BY <1>1, <1>2, <1>3, <1>7, <2>1, UndisturbedThread
<1>11. \A q \in returned : q.entry \notin UNION overlap => Whole(q)'
  <2>1. flushed \in Nat /\ flushed' \in Nat /\ flushed <= flushed'
        /\ \A k \in 1 .. flushed : file'[k] = file[k]
    BY <1>2, <1>3, <1>4
  <2> QED
    BY <2>1, WholeKept DEF WholeInv
<1> QED
  BY <1>2, <1>10, <1>11 DEF WholeInv

LEMMA WholeFlush ==
  ASSUME LogInv, WholeInv, NEW t \in Threads, Flush(t)
  PROVE  WholeInv'
<1>1. PICK c, new : /\ c = caller[t]
                    /\ new = [entry |-> c.entry, parts |-> c.parts, sec |-> c.sec]
  OBVIOUS
<1> DEFINE F == Len(file)
<1>2. /\ ~ down /\ Undisturbed /\ Live(t) /\ c.pc = "print" /\ c.todo = <<>>
      /\ flushed' = F /\ returned' = returned \cup {new}
      /\ caller' = [caller EXCEPT ![t] = Idle]
      /\ UNCHANGED <<file, overlap, down>>
  BY <1>1 DEF Flush, Return, At, Up, Live, WholeInv
<1>3. /\ caller \in [Threads -> Locals] /\ c \in Locals
      /\ flushed \in 0 .. F /\ F \in Nat
  BY <1>1 DEF LogInv, TypesOK, TypeOK
<1>4. /\ new.entry = c.entry /\ new.parts = c.parts /\ new.sec = c.sec
      /\ c.parts \in Seq(PartNames)
  BY <1>1, <1>3 DEF Locals
<1>5. Idle \in Locals /\ Idle.pc = "idle"
  <2>1. 0 \in 0 .. MaxEntries /\ 0 \in 0 .. MaxClock /\ 0 \in 0 .. 2 * MaxClock + 1
    BY LoggerAssumption
  <2> QED
    BY <2>1 DEF Idle, Locals, Places
<1>6. Undisturbed'
  BY <1>2, <1>3, <1>5, UndisturbedThread
<1>7. new.entry \notin UNION overlap => Whole(new)'
  <2> SUFFICES ASSUME c.entry \notin UNION overlap PROVE Whole(new)'
    BY <1>4
  <2>1. AtEnd(c)
    BY <1>1, <1>2 DEF Undisturbed, Uncrowded
  <2>2. PICK n : n = Len(c.parts)
    OBVIOUS
  <2>3. n \in Nat /\ DOMAIN c.parts = 1 .. n /\ Len(c.parts) - Len(c.todo) = n
    BY <1>2, <1>4, <2>2
  <2>4. /\ n \in 0 .. F
        /\ \A j \in 1 .. n : file[(F - n) + j]
             = [entry |-> c.entry, part |-> c.parts[j], stamp |-> c.sec]
    BY <2>1, <2>3 DEF AtEnd
  <2>5. F - n \in 0 .. flushed' - Len(new.parts)
    BY <1>2, <1>3, <1>4, <2>2, <2>4
  <2> HIDE DEF F
  <2> QED
    BY <1>2, <1>4, <2>3, <2>4, <2>5 DEF Whole
<1>8. \A q \in returned : q.entry \notin UNION overlap => Whole(q)'
  <2>1. flushed \in Nat /\ flushed' \in Nat /\ flushed <= flushed'
        /\ \A k \in 1 .. flushed : file'[k] = file[k]
    BY <1>2, <1>3
  <2> QED
    BY <2>1, WholeKept DEF WholeInv
<1> QED
  BY <1>2, <1>4, <1>6, <1>7, <1>8 DEF WholeInv

LEMMA WholeDie ==
  ASSUME LogInv, WholeInv, Die
  PROVE  WholeInv'
<1>1. /\ down' = TRUE /\ file' = SubSeq(file, 1, flushed)
      /\ UNCHANGED <<flushed, returned, overlap>>
  BY DEF Die
<1>2. file \in Seq(Piece) /\ flushed \in 0 .. Len(file)
  BY DEF LogInv, TypesOK, TypeOK
<1>3. flushed \in Nat /\ \A k \in 1 .. flushed : file'[k] = file[k]
  BY <1>1, <1>2
<1>4. \A q \in returned : q.entry \notin UNION overlap => Whole(q)'
  BY <1>1, <1>3, WholeKept DEF WholeInv
<1> QED
  BY <1>1, <1>4 DEF WholeInv

LEMMA WholeInvHolds == Spec => []WholeInv
<1>1. Init => WholeInv
  BY DEF Init, WholeInv, Undisturbed, Uncrowded, Live, Idle
<1>2. LogInv /\ WholeInv /\ [Next]_vars => WholeInv'
  <2> SUFFICES ASSUME LogInv, WholeInv, [Next]_vars PROVE WholeInv'
    OBVIOUS
  <2>1. ASSUME UNCHANGED <<tm, file, flushed, caller, returned, overlap, down>>
        PROVE  WholeInv'
    <3>1. \A c : (Stamped(c) => Stamped(c)') /\ (AtEnd(c) => AtEnd(c)')
      BY <2>1 DEF Stamped, AtEnd
    <3>2. Undisturbed => Undisturbed'
      BY <2>1, <3>1 DEF Undisturbed, Uncrowded, Live
    <3> QED
      BY <2>1, <3>2, WholeReturned DEF WholeInv
  <2>2. ASSUME NEW t \in Threads, Log(t) PROVE WholeInv'
    BY <2>2, WholeCall, WholeStamp, WholePrint, WholeFlush DEF Log
  <2>3. CASE Tick \/ UNCHANGED vars
    BY <2>1, <2>3 DEF Tick, vars
  <2> QED
    BY <2>2, <2>3, WholeDie DEF Next
<1> QED
  BY <1>1, <1>2, LogInvHolds, PTL DEF Spec

(* An entry that no other call overlaps is one line of the log, in order    *)
(* and with the time of its call, whatever earlier calls left in the shared *)
(* struct and whenever the process dies.                                    *)
THEOREM LonelyEntryWhole == Spec => []AloneIsWhole
<1>1. WholeInv => AloneIsWhole
  BY DEF WholeInv, Whole, AloneIsWhole
<1> QED
  BY <1>1, WholeInvHolds, PTL

-----------------------------------------------------------------------------
(* Entries whose calls overlap. *)

OfMinute(e, x) == \E a \in Times(e) : x = Minute(a)
OfSecond(e, x) == \E b \in Times(e) : x = Second(b)
Composed(e, x) == \E a, b \in Times(e) : x = 2 * Minute(a) + Second(b)

(* What a call takes from the struct stems from a call that overlaps it.    *)
Traced(c) ==
  /\ c.pc \in {"converting", "format"} => OfMinute(c.entry, tm[1])
  /\ c.pc \in {"format", "formatting"} => OfSecond(c.entry, tm[2])
  /\ c.pc = "formatting" => OfMinute(c.entry, c.minute)
  /\ c.pc = "print" => Composed(c.entry, c.stamp)

(* What a call has still to print comes after what it has printed, and what *)
(* was printed since its first piece is of entries that overlap it.         *)
Ahead(c) ==
  /\ \A i, j \in 1 .. Len(c.todo) : i < j => Rank[c.todo[i]] < Rank[c.todo[j]]
  /\ \A k \in 1 .. Len(file) : file[k].entry = c.entry =>
       /\ \A j \in 1 .. Len(c.todo) : Rank[file[k].part] < Rank[c.todo[j]]
       /\ \A m \in 1 .. Len(file) : k <= m => file[m].entry \in Near(c.entry)

(* The calls under way at one time overlap each other. *)
Meet ==
  \A t, u \in Threads : Live(t) /\ Live(u) => caller[u].entry \in Near(caller[t].entry)

Ordered ==
  \A k, l \in 1 .. Len(file) : k < l /\ file[k].entry = file[l].entry =>
    /\ Rank[file[k].part] < Rank[file[l].part]
    /\ \A m \in 1 .. Len(file) : k <= m /\ m <= l => file[m].entry \in Near(file[k].entry)

Stampings ==
  \A k \in 1 .. Len(file) :
    file[k].part = "stamp" => Composed(file[k].entry, file[k].stamp)

MixInv ==
  /\ Ordered
  /\ Stampings
  /\ ~ down => /\ Meet
               /\ \A t \in Threads : Live(t) => Traced(caller[t]) /\ Ahead(caller[t])

LEMMA MixInvImplies == LogInv /\ MixInv => OnlyOverlapsMix
<1> SUFFICES ASSUME LogInv, MixInv, NEW r \in returned
             PROVE  /\ \A k, l \in OnDisk(r.entry) : k < l =>
                         /\ Rank[file[k].part] < Rank[file[l].part]
                         /\ \A m \in k .. l : file[m].entry \in Near(r.entry)
                    /\ \A k \in OnDisk(r.entry) : file[k].part = "stamp" =>
                         \E a, b \in Times(r.entry) :
                           file[k].stamp = 2 * Minute(a) + Second(b)
  BY DEF OnlyOverlapsMix
<1>1. flushed \in 0 .. Len(file) /\ Len(file) \in Nat
  BY LenProperties DEF LogInv, TypesOK, TypeOK
<1>2. \A k \in OnDisk(r.entry) : k \in 1 .. Len(file) /\ file[k].entry = r.entry
  BY <1>1 DEF OnDisk
<1>3. ASSUME NEW k \in OnDisk(r.entry), NEW l \in OnDisk(r.entry), k < l
      PROVE  /\ Rank[file[k].part] < Rank[file[l].part]
             /\ \A m \in k .. l : file[m].entry \in Near(r.entry)
  <2>1. \A m \in k .. l : m \in 1 .. Len(file) /\ k <= m /\ m <= l
    BY <1>1, <1>2
  <2> QED
    BY <1>2, <1>3, <2>1 DEF MixInv, Ordered
<1>4. ASSUME NEW k \in OnDisk(r.entry), file[k].part = "stamp"
      PROVE  \E a, b \in Times(r.entry) : file[k].stamp = 2 * Minute(a) + Second(b)
  BY <1>2, <1>4 DEF MixInv, Stampings, Composed
<1> QED
  BY <1>3, <1>4

-----------------------------------------------------------------------------
(* Who overlaps an entry, and the times of those, only become more.         *)
LEMMA NearGrows ==
  ASSUME overlap \subseteq overlap'
  PROVE  \A e : Near(e) \subseteq Near(e)'
BY DEF Near

LEMMA NearPair ==
  ASSUME NEW e, NEW f, {e, f} \in overlap
  PROVE  f \in Near(e) /\ e \in Near(f)
BY DEF Near

LEMMA TimesGrow ==
  ASSUME overlap \subseteq overlap', returned \subseteq returned',
         \A u \in Threads : Live(u) /\ caller[u].pc # "clock" =>
           \/ /\ caller'[u].pc \notin {"idle", "clock"}
              /\ caller'[u].entry = caller[u].entry /\ caller'[u].sec = caller[u].sec
           \/ \E q \in returned' : q.entry = caller[u].entry /\ q.sec = caller[u].sec
  PROVE  \A e : Times(e) \subseteq Times(e)'
<1> SUFFICES ASSUME NEW e, NEW s \in Times(e) PROVE s \in Times(e)'
  OBVIOUS
<1>1. Near(e) \subseteq Near(e)'
  BY NearGrows
<1>2. CASE \E q \in returned : q.entry \in Near(e) /\ q.sec = s
  BY <1>1, <1>2 DEF Times
<1>3. CASE \E u \in Threads : /\ Live(u) /\ caller[u].pc # "clock"
                             /\ caller[u].entry \in Near(e) /\ caller[u].sec = s
  <2>1. PICK u \in Threads : /\ Live(u) /\ caller[u].pc # "clock"
                             /\ caller[u].entry \in Near(e) /\ caller[u].sec = s
    BY <1>3
  <2>2. CASE \E q \in returned' : q.entry = caller[u].entry /\ q.sec = caller[u].sec
    BY <1>1, <2>1, <2>2 DEF Times
  <2>3. CASE /\ caller'[u].pc \notin {"idle", "clock"}
             /\ caller'[u].entry = caller[u].entry /\ caller'[u].sec = caller[u].sec
    <3>1. u \in {v \in Logging' : /\ caller'[v].entry \in Near(e)'
                                  /\ caller'[v].pc # "clock"}
      BY <1>1, <2>1, <2>3 DEF Logging
    <3> QED
      BY <2>1, <2>3, <3>1 DEF Times
  <2> QED
    BY <2>1, <2>2, <2>3
<1> QED
  BY <1>2, <1>3 DEF Times, Logging, Live

(* A thread that is under way and has read its clock counts for whoever it  *)
(* overlaps.                                                                *)
LEMMA TimeOfLive ==
  ASSUME NEW e, NEW u \in Threads, caller[u].pc \notin {"idle", "clock"},
         caller[u].entry \in Near(e)
  PROVE  caller[u].sec \in Times(e)
BY DEF Times, Logging

-----------------------------------------------------------------------------
LEMMA OrderedKept ==
  ASSUME MixInv, file' = file, overlap \subseteq overlap',
         \A e : Times(e) \subseteq Times(e)'
  PROVE  Ordered' /\ Stampings'
<1>1. \A e : Near(e) \subseteq Near(e)'
  BY NearGrows
<1>2. \A e, x : Composed(e, x) => Composed(e, x)'
  BY DEF Composed
<1>3. Ordered'
  BY <1>1 DEF MixInv, Ordered
<1>4. Stampings'
  BY <1>2 DEF MixInv, Stampings
<1> QED
  BY <1>3, <1>4

LEMMA AheadKept ==
  ASSUME NEW c, Ahead(c), file' = file, overlap \subseteq overlap',
         NEW r, r.entry = c.entry, r.todo = c.todo
  PROVE  Ahead(r)'
<1>1. \A e : Near(e) \subseteq Near(e)'
  BY NearGrows
<1> QED
  BY <1>1 DEF Ahead

LEMMA TracedKept ==
  ASSUME NEW c, Traced(c), \A e : Times(e) \subseteq Times(e)',
         tm'[1] = tm[1] \/ \E a \in Times(c.entry)' : tm'[1] = Minute(a),
         tm'[2] = tm[2] \/ \E b \in Times(c.entry)' : tm'[2] = Second(b)
  PROVE  Traced(c)'
BY DEF Traced, OfMinute, OfSecond, Composed

LEMMA MeetKept ==
  ASSUME Meet, overlap \subseteq overlap',
         \A u \in Threads : Live(u)' => Live(u) /\ caller'[u].entry = caller[u].entry
  PROVE  Meet'
<1>1. \A e : Near(e) \subseteq Near(e)'
  BY NearGrows
<1> SUFFICES ASSUME NEW t \in Threads, NEW u \in Threads, Live(t)', Live(u)'
             PROVE  (caller[u].entry \in Near(caller[t].entry))'
  BY DEF Meet
<1>2. PICK d, e : d = caller[t].entry /\ e = caller[u].entry
  OBVIOUS
<1>3. e \in Near(d) /\ caller'[t].entry = d /\ caller'[u].entry = e
  BY <1>2 DEF Meet
<1>4. e \in Near(d)'
  BY <1>1, <1>3
<1>5. Near(caller[t].entry)' = Near(d)'
  BY <1>3 DEF Near
<1> QED
  BY <1>3, <1>4, <1>5

-----------------------------------------------------------------------------
LEMMA MixCall ==
  ASSUME LogInv, MixInv, NEW t \in Threads, NEW address \in BOOLEAN,
         Call(t, address)
  PROVE  MixInv'
<1>1. PICK e, r : e = calls + 1 /\ r = [caller[t] EXCEPT !.pc = "clock", !.entry = e,
                               !.parts = Parts(address), !.todo = Parts(address)]
  OBVIOUS
<1>2. /\ ~ down /\ caller[t].pc = "idle" /\ caller' = [caller EXCEPT ![t] = r]
      /\ overlap' = overlap \cup {{e, caller[u].entry} : u \in Logging}
      /\ UNCHANGED <<tm, file, flushed, returned, down>>
  BY <1>1 DEF Call, At, Up
<1>3. /\ caller \in [Threads -> Locals] /\ calls \in Nat
      /\ Meet /\ \A u \in Threads : Live(u) => Traced(caller[u]) /\ Ahead(caller[u])
  BY <1>2 DEF LogInv, TypesOK, TypeOK, MixInv
<1>4. r.pc = "clock" /\ r.entry = e /\ r.todo = Parts(address)
  <2>1. caller[t] \in Locals
    BY <1>3
  <2> QED
    BY <1>1, <2>1 DEF Locals
<1>5. /\ caller'[t] = r /\ Live(t)' /\ ~ Live(t)
      /\ \A u \in Threads \ {t} : caller'[u] = caller[u] /\ (Live(u)' <=> Live(u))
  BY <1>2, <1>3, <1>4 DEF Live
<1>6. overlap \subseteq overlap' /\ \A n : Near(n) \subseteq Near(n)'
  BY <1>2, NearGrows
<1>7. \A n : Times(n) \subseteq Times(n)'
  <2>1. ASSUME NEW u \in Threads, Live(u), caller[u].pc # "clock"
        PROVE  /\ caller'[u].pc \notin {"idle", "clock"}
               /\ caller'[u].entry = caller[u].entry /\ caller'[u].sec = caller[u].sec
    BY <1>5, <2>1 DEF Live
  <2> QED
    BY <1>2, <1>6, <2>1, TimesGrow
<1>8. Ordered' /\ Stampings'
  BY <1>2, <1>6, <1>7, OrderedKept
<1>9. ASSUME NEW u \in Threads, u # t, Live(u)
      PROVE  /\ caller[u].entry \in Near(e)' /\ e \in Near(caller[u].entry)'
  <2>1. {e, caller[u].entry} \in overlap'
    BY <1>2, <1>9 DEF Logging, Live
  <2>2. PICK d : d = caller[u].entry
    OBVIOUS
  <2>3. {e, d} \in overlap'
    BY <2>1, <2>2
  <2>4. d \in Near(e)' /\ e \in Near(d)'
    BY <2>3 DEF Near
  <2>5. Near(caller[u].entry)' = Near(d)'
    BY <1>5, <1>9, <2>2 DEF Near
  <2> QED
    BY <2>2, <2>4, <2>5
<1>10. Meet'
  <2> SUFFICES ASSUME NEW u \in Threads, NEW v \in Threads, Live(u)', Live(v)'
               PROVE  (caller[v].entry \in Near(caller[u].entry))'
    BY DEF Meet
  <2>1. PICK d, f : d = caller'[u].entry /\ f = caller'[v].entry
    OBVIOUS
  <2>2. f \in Near(d)'
    <3>1. CASE u = t /\ v = t
      BY <2>1, <3>1 DEF Near
    <3>2. CASE u = t /\ v # t
      <4>1. d = e /\ f = caller[v].entry /\ Live(v)
        BY <1>4, <1>5, <2>1, <3>2
      <4> QED
        BY <1>9, <3>2, <4>1
    <3>3. CASE u # t /\ v = t
      <4>1. f = e /\ d = caller[u].entry /\ Live(u) /\ caller'[u] = caller[u]
        BY <1>4, <1>5, <2>1, <3>3
      <4>2. {e, d} \in overlap'
        BY <1>2, <4>1 DEF Logging, Live
      <4> QED
        BY <4>1, <4>2 DEF Near
    <3>4. CASE u # t /\ v # t
      <4>1. d = caller[u].entry /\ f = caller[v].entry /\ Live(u) /\ Live(v)
        BY <1>5, <2>1, <3>4
      <4>2. f \in Near(d)
        BY <1>3, <4>1 DEF Meet
      <4> QED
        BY <1>6, <4>2
    <3> QED
      BY <3>1, <3>2, <3>3, <3>4
  <2>3. Near(caller[u].entry)' = Near(d)'
    BY <2>1 DEF Near
  <2> QED
    BY <2>1, <2>2, <2>3
<1>11. Traced(r)' /\ Ahead(r)'
  <2>1. Traced(r)'
    BY <1>4 DEF Traced
  <2>2. \A i, j \in 1 .. Len(r.todo) : i < j => Rank[r.todo[i]] < Rank[r.todo[j]]
    BY <1>4 DEF Parts, Rank
  <2>3. \A k \in 1 .. Len(file') : file'[k].entry # r.entry
    <3>1. \A k \in 1 .. Len(file) : file[k].entry \in 1 .. calls
      BY <1>2 DEF LogInv, Named
    <3> QED
      BY <1>1, <1>2, <1>3, <1>4, <3>1
  <2> QED
    BY <2>1, <2>2, <2>3 DEF Ahead
<1>12. ASSUME NEW u \in Threads, Live(u)'
       PROVE  Traced(caller[u])' /\ Ahead(caller[u])'
  <2>1. PICK c : c = caller'[u]
    OBVIOUS
  <2>2. Traced(c)' /\ Ahead(c)'
    <3>1. CASE u = t
      BY <1>5, <1>11, <2>1, <3>1
    <3>2. CASE u # t
      <4>1. c = caller[u] /\ Traced(c) /\ Ahead(c)
        BY <1>3, <1>5, <1>12, <2>1, <3>2
      <4> QED
        BY <1>2, <1>6, <1>7, <4>1, TracedKept, AheadKept
    <3> QED
      BY <3>1, <3>2
  <2> QED
    BY <2>1, <2>2 DEF Traced, Ahead
<1> QED
  BY <1>8, <1>10, <1>12 DEF MixInv

(* One thread goes on towards its first fprintf. *)
LEMMA MixThread ==
  ASSUME LogInv, MixInv, NEW t \in Threads, NEW c, NEW r,
         c = caller[t], Live(t), c.pc # "print", caller' = [caller EXCEPT ![t] = r],
         r.pc \notin {"idle", "clock"}, r.entry = c.entry, r.todo = c.todo,
         c.pc = "clock" \/ r.sec = c.sec,
         UNCHANGED <<file, flushed, returned, overlap, down>>, ~ down,
         tm'[1] = tm[1] \/ (c.pc # "clock" /\ tm'[1] = Minute(c.sec)),
         tm'[2] = tm[2] \/ (c.pc # "clock" /\ tm'[2] = Second(c.sec)),
         (\A e : Times(e) \subseteq Times(e)') /\ Traced(c) => Traced(r)'
  PROVE  MixInv'
<1>1. /\ caller \in [Threads -> Locals]
      /\ Meet /\ \A u \in Threads : Live(u) => Traced(caller[u]) /\ Ahead(caller[u])
  BY DEF LogInv, TypesOK, MixInv
<1>2. caller'[t] = r /\ \A u \in Threads \ {t} : caller'[u] = caller[u]
  BY <1>1
<1>3. \A e : Times(e) \subseteq Times(e)'
  <2>1. ASSUME NEW u \in Threads, Live(u), caller[u].pc # "clock"
        PROVE  /\ caller'[u].pc \notin {"idle", "clock"}
               /\ caller'[u].entry = caller[u].entry /\ caller'[u].sec = caller[u].sec
    BY <1>2, <2>1 DEF Live
  <2> QED
    BY <2>1, TimesGrow
<1>4. Ordered' /\ Stampings'
  BY <1>3, OrderedKept
<1>5. Meet'
  <2>1. \A u \in Threads : Live(u)' => Live(u) /\ caller'[u].entry = caller[u].entry
    BY <1>2 DEF Live
  <2> QED
    BY <1>1, <2>1, MeetKept
<1>6. ASSUME NEW u \in Threads, Live(u)'
      PROVE  Traced(caller[u])' /\ Ahead(caller[u])'
  <2>1. PICK d, f : d = caller'[u] /\ f = caller[u]
    OBVIOUS
  <2>2. Traced(d)' /\ Ahead(d)'
    <3>1. CASE u = t
      <4>1. Traced(c) /\ Ahead(c) /\ d = r
        BY <1>1, <1>2, <2>1, <3>1
      <4> QED
        BY <1>3, <4>1, AheadKept
    <3>2. CASE u # t
      <4>1. d = f /\ Traced(f) /\ Ahead(f) /\ Live(u)
        BY <1>1, <1>2, <1>6, <2>1, <3>2 DEF Live
      <4>2. c.entry \in Near(f.entry)
        BY <1>1, <2>1, <4>1 DEF Meet
      <4>3. c.pc # "clock" => c.sec \in Times(f.entry)'
        <5>1. c.pc # "clock" => c.sec \in Times(f.entry)
          BY <4>2, TimeOfLive DEF Live
        <5> QED
          BY <1>3, <5>1
      <4>4. Traced(f)'
        BY <1>3, <4>1, <4>3, TracedKept
      <4>5. Ahead(f)'
        BY <4>1, AheadKept
      <4> QED
        BY <4>1, <4>4, <4>5
    <3> QED
      BY <3>1, <3>2
  <2> QED
    BY <2>1, <2>2 DEF Traced, Ahead
<1> QED
  BY <1>4, <1>5, <1>6 DEF MixInv

LEMMA MixStamp ==
  ASSUME LogInv, MixInv, NEW t \in Threads,
         ReadClock(t) \/ Convert(t) \/ Converted(t) \/ FormatMinute(t) \/ FormatSecond(t)
  PROVE  MixInv'
<1>1. PICK c : c = caller[t]
  OBVIOUS
<1>2. /\ ~ down /\ Live(t) /\ c.pc # "print"
      /\ UNCHANGED <<file, flushed, returned, overlap, down>>
  BY <1>1 DEF ReadClock, Convert, Converted, FormatMinute, FormatSecond, At, Up, Live
<1>3. /\ c \in Locals /\ tm = <<tm[1], tm[2]>>
  BY <1>1 DEF LogInv, TypesOK
<1>4. c.pc \notin {"idle", "clock"} => c.sec \in Times(c.entry)
  <2>1. c.entry \in Near(c.entry)
    BY DEF Near
  <2> QED
    BY <1>1, <2>1, TimeOfLive
<1>5. CASE ReadClock(t)
  <2>1. PICK r : r = [c EXCEPT !.pc = "convert", !.sec = clock]
    OBVIOUS
  <2>2. r.entry = c.entry /\ r.todo = c.todo /\ r.pc = "convert"
    BY <1>3, <2>1 DEF Locals
  <2>3. caller' = [caller EXCEPT ![t] = r] /\ tm' = tm /\ c.pc = "clock"
    BY <1>1, <1>5, <2>1 DEF ReadClock, At
  <2>4. Traced(r)'
    BY <2>2 DEF Traced
  <2> QED
    BY <1>1, <1>2, <2>2, <2>3, <2>4, MixThread
<1>6. CASE Convert(t)
  <2>1. PICK r : r = [c EXCEPT !.pc = "converting"]
    OBVIOUS
  <2>2. r.entry = c.entry /\ r.todo = c.todo /\ r.pc = "converting" /\ r.sec = c.sec
    BY <1>3, <2>1 DEF Locals
  <2>3. /\ caller' = [caller EXCEPT ![t] = r] /\ c.pc = "convert"
        /\ tm'[1] = Minute(c.sec) /\ tm'[2] = tm[2]
    BY <1>1, <1>6, <2>1 DEF Convert, At
  <2>4. ASSUME \A e : Times(e) \subseteq Times(e)' PROVE Traced(r)'
    BY <1>4, <2>2, <2>3, <2>4 DEF Traced, OfMinute
  <2> QED
    BY <1>1, <1>2, <2>2, <2>3, <2>4, MixThread
<1>7. CASE Converted(t)
  <2>1. PICK r : r = [c EXCEPT !.pc = "format"]
    OBVIOUS
  <2>2. r.entry = c.entry /\ r.todo = c.todo /\ r.pc = "format" /\ r.sec = c.sec
    BY <1>3, <2>1 DEF Locals
  <2>3. /\ caller' = [caller EXCEPT ![t] = r] /\ c.pc = "converting"
        /\ tm'[1] = tm[1] /\ tm'[2] = Second(c.sec)
    BY <1>1, <1>7, <2>1 DEF Converted, At
  <2>4. ASSUME \A e : Times(e) \subseteq Times(e)', Traced(c) PROVE Traced(r)'
    BY <1>4, <2>2, <2>3, <2>4 DEF Traced, OfMinute, OfSecond
  <2> QED
    BY <1>1, <1>2, <2>2, <2>3, <2>4, MixThread
<1>8. CASE FormatMinute(t)
  <2>1. PICK r : r = [c EXCEPT !.pc = "formatting", !.minute = tm[1]]
    OBVIOUS
  <2>2. /\ r.entry = c.entry /\ r.todo = c.todo /\ r.pc = "formatting" /\ r.sec = c.sec
        /\ r.minute = tm[1]
    BY <1>3, <2>1 DEF Locals
  <2>3. caller' = [caller EXCEPT ![t] = r] /\ c.pc = "format" /\ tm' = tm
    BY <1>1, <1>8, <2>1 DEF FormatMinute, At
  <2>4. ASSUME \A e : Times(e) \subseteq Times(e)', Traced(c) PROVE Traced(r)'
    BY <2>2, <2>3, <2>4 DEF Traced, OfMinute, OfSecond
  <2> QED
    BY <1>1, <1>2, <2>2, <2>3, <2>4, MixThread
<1>9. CASE FormatSecond(t)
  <2>1. PICK s, r : s = 2 * c.minute + tm[2] /\ r = [c EXCEPT !.pc = "print", !.stamp = s]
    OBVIOUS
  <2>2. /\ r.entry = c.entry /\ r.todo = c.todo /\ r.pc = "print" /\ r.sec = c.sec
        /\ r.stamp = s
    BY <1>3, <2>1 DEF Locals
  <2>3. caller' = [caller EXCEPT ![t] = r] /\ c.pc = "formatting" /\ tm' = tm
    BY <1>1, <1>9, <2>1 DEF FormatSecond, At
  <2>4. ASSUME \A e : Times(e) \subseteq Times(e)', Traced(c) PROVE Traced(r)'
    <3>1. Composed(c.entry, s)
      BY <2>1, <2>3, <2>4 DEF Traced, OfMinute, OfSecond, Composed
    <3>2. Composed(c.entry, s)'
      BY <2>4, <3>1 DEF Composed
    <3> QED
      BY <2>2, <3>2 DEF Traced
  <2> QED
    BY <1>1, <1>2, <2>2, <2>3, <2>4, MixThread
<1> QED
  BY <1>5, <1>6, <1>7, <1>8, <1>9

LEMMA MixPrint ==
  ASSUME LogInv, MixInv, NEW t \in Threads, PrintPiece(t)
  PROVE  MixInv'
<1>1. PICK c, e, head, piece, r :
        /\ c = caller[t] /\ e = c.entry /\ head = Head(c.todo)
        /\ r = [c EXCEPT !.todo = Tail(c.todo)]
        /\ piece = [entry |-> e, part |-> head, stamp |-> c.stamp]
  OBVIOUS
<1>2. PICK n : n = Len(file)
  OBVIOUS
<1>3. /\ ~ down /\ Live(t) /\ c.pc = "print" /\ c.todo # <<>>
      /\ file' = Append(file, piece) /\ caller' = [caller EXCEPT ![t] = r]
      /\ UNCHANGED <<tm, returned, overlap, down>>
  BY <1>1 DEF PrintPiece, At, Up, Live
<1>4. /\ caller \in [Threads -> Locals] /\ c \in Locals /\ c.todo \in Seq(PartNames)
      /\ file \in Seq(Piece) /\ n \in Nat
      /\ Meet /\ \A u \in Threads : Live(u) => Traced(caller[u]) /\ Ahead(caller[u])
      /\ Traced(c) /\ Ahead(c)
  BY <1>1, <1>2, <1>3 DEF LogInv, TypesOK, TypeOK, MixInv, Locals
<1>5. /\ Len(file') = n + 1 /\ file'[n + 1] = piece
      /\ \A k \in 1 .. n : file'[k] = file[k]
      /\ \A k \in 1 .. n + 1 : k \in 1 .. n \/ k = n + 1
      /\ piece.entry = e /\ piece.part = head /\ piece.stamp = c.stamp
  BY <1>1, <1>2, <1>3, <1>4
<1>6. /\ head = c.todo[1] /\ Len(c.todo) \in Nat \ {0}
      /\ Len(Tail(c.todo)) = Len(c.todo) - 1
      /\ \A j \in 1 .. Len(c.todo) - 1 : Tail(c.todo)[j] = c.todo[j + 1]
  BY <1>1, <1>3, <1>4
<1>7. /\ r.pc = "print" /\ r.entry = e /\ r.sec = c.sec
      /\ r.stamp = c.stamp /\ r.todo = Tail(c.todo)
  BY <1>1, <1>3, <1>4 DEF Locals
<1>8. /\ caller'[t] = r
      /\ \A u \in Threads \ {t} : caller'[u] = caller[u] /\ (Live(u)' <=> Live(u))
  BY <1>3, <1>4 DEF Live
<1>9. /\ \A d : Near(d)' = Near(d) /\ d \in Near(d)
  BY <1>3 DEF Near
<1>10. \A d : Times(d) \subseteq Times(d)'
  <2>1. ASSUME NEW u \in Threads, Live(u), caller[u].pc # "clock"
        PROVE  /\ caller'[u].pc \notin {"idle", "clock"}
               /\ caller'[u].entry = caller[u].entry /\ caller'[u].sec = caller[u].sec
    BY <1>1, <1>7, <1>8, <2>1 DEF Live
  <2> QED
    BY <1>3, <2>1, TimesGrow
<1>11. /\ \A k \in 1 .. n : file[k].entry = e =>
             \A j \in 1 .. Len(c.todo) : Rank[file[k].part] < Rank[c.todo[j]]
       /\ \A k, m \in 1 .. n : file[k].entry = e /\ k <= m => file[m].entry \in Near(e)
  BY <1>1, <1>2, <1>4 DEF Ahead
<1>12. Ordered'
  <2> SUFFICES ASSUME NEW k \in 1 .. n + 1, NEW l \in 1 .. n + 1, k < l,
                      file'[k].entry = file'[l].entry
               PROVE  /\ Rank[file'[k].part] < Rank[file'[l].part]
                      /\ \A m \in 1 .. n + 1 : k <= m /\ m <= l =>
                           (file'[m].entry \in Near(file[k].entry)')
    BY <1>5 DEF Ordered
  <2>1. k \in 1 .. n
    BY <1>4
  <2>2. file'[k] = file[k] /\ Near(file[k].entry)' = Near(file[k].entry)
    BY <1>3, <1>5, <2>1 DEF Near
  <2>3. CASE l \in 1 .. n
    <3>1. /\ Rank[file[k].part] < Rank[file[l].part]
          /\ \A m \in 1 .. n : k <= m /\ m <= l => file[m].entry \in Near(file[k].entry)
      BY <1>2, <1>5, <2>1, <2>2, <2>3 DEF MixInv, Ordered
    <3>2. \A m \in 1 .. n + 1 : m <= l => m \in 1 .. n
      BY <1>4, <2>3
    <3> QED
      BY <1>5, <2>2, <2>3, <3>1, <3>2
  <2>4. CASE l = n + 1
    <3>1. file[k].entry = e /\ file'[l].part = c.todo[1] /\ 1 \in 1 .. Len(c.todo)
      BY <1>5, <1>6, <2>2, <2>4
    <3>2. Rank[file[k].part] < Rank[c.todo[1]]
      BY <1>11, <2>1, <3>1
    <3>3. ASSUME NEW m \in 1 .. n + 1, k <= m PROVE file'[m].entry \in Near(e)
      BY <1>5, <1>9, <1>11, <2>1, <3>1, <3>3
    <3> QED
      BY <2>2, <3>1, <3>2, <3>3
  <2> QED
    BY <1>5, <2>3, <2>4
<1>13. Stampings'
  <2>1. \A d, x : Composed(d, x) => Composed(d, x)'
    BY <1>10 DEF Composed
  <2>2. Composed(e, c.stamp)
    BY <1>1, <1>3, <1>4 DEF Traced
  <2> SUFFICES ASSUME NEW k \in 1 .. n + 1, file'[k].part = "stamp"
               PROVE  Composed(file[k].entry, file[k].stamp)'
    BY <1>5 DEF Stampings
  <2>3. PICK q : q = file'[k]
    OBVIOUS
  <2>4. Composed(q.entry, q.stamp)
    <3>1. CASE k \in 1 .. n
      BY <1>2, <1>5, <2>3, <3>1 DEF MixInv, Stampings
    <3>2. CASE k = n + 1
      BY <1>5, <2>2, <2>3, <3>2
    <3> QED
      BY <1>5, <3>1, <3>2
  <2>5. Composed(q.entry, q.stamp)'
    BY <2>1, <2>4
  <2> QED
    BY <2>3, <2>5 DEF Composed
<1>14. Meet'
  <2>1. \A u \in Threads : Live(u)' => Live(u) /\ caller'[u].entry = caller[u].entry
    BY <1>1, <1>3, <1>7, <1>8
  <2> QED
    BY <1>3, <1>4, <2>1, MeetKept
<1>15. ASSUME NEW d, Ahead(d), e \in Near(d.entry), d.entry # e
       PROVE  Ahead(d)'
  <2>1. ASSUME NEW k \in 1 .. n + 1, file'[k].entry = d.entry
        PROVE  /\ \A j \in 1 .. Len(d.todo) : Rank[file'[k].part] < Rank[d.todo[j]]
               /\ \A m \in 1 .. n + 1 : k <= m => file'[m].entry \in Near(d.entry)
    <3>1. k \in 1 .. n /\ file[k].entry = d.entry
      BY <1>5, <1>15, <2>1
    <3>2. /\ \A j \in 1 .. Len(d.todo) : Rank[file[k].part] < Rank[d.todo[j]]
          /\ \A m \in 1 .. n : k <= m => file[m].entry \in Near(d.entry)
      BY <1>2, <1>15, <3>1 DEF Ahead
    <3> QED
      BY <1>5, <1>15, <3>1, <3>2
  <2>2. \A i, j \in 1 .. Len(d.todo) : i < j => Rank[d.todo[i]] < Rank[d.todo[j]]
    BY <1>15 DEF Ahead
  <2> QED
    BY <1>5, <1>9, <2>1, <2>2 DEF Ahead
<1>16. Ahead(r)'
  <2>1. Len(r.todo) = Len(c.todo) - 1
        /\ \A j \in 1 .. Len(r.todo) : r.todo[j] = c.todo[j + 1] /\ j + 1 \in 1 .. Len(c.todo)
    BY <1>6, <1>7
  <2>2. \A i, j \in 1 .. Len(c.todo) : i < j => Rank[c.todo[i]] < Rank[c.todo[j]]
    BY <1>4 DEF Ahead
  <2>3. ASSUME NEW i \in 1 .. Len(r.todo), NEW j \in 1 .. Len(r.todo), i < j
        PROVE  Rank[r.todo[i]] < Rank[r.todo[j]]
    <3>1. i + 1 < j + 1
      BY <1>6, <2>1, <2>3
    <3> QED
      BY <2>1, <2>2, <3>1
  <2>4. ASSUME NEW k \in 1 .. n + 1, file'[k].entry = r.entry
        PROVE  /\ \A j \in 1 .. Len(r.todo) : Rank[file'[k].part] < Rank[r.todo[j]]
               /\ \A m \in 1 .. n + 1 : k <= m => file'[m].entry \in Near(r.entry)
    <3>1. CASE k \in 1 .. n
      <4>1. file'[k] = file[k] /\ file[k].entry = e
        BY <1>5, <1>7, <2>4, <3>1
      <4>2. \A j \in 1 .. Len(r.todo) : Rank[file[k].part] < Rank[c.todo[j + 1]]
        BY <1>11, <2>1, <3>1, <4>1
      <4>3. \A m \in 1 .. n + 1 : k <= m => file'[m].entry \in Near(e)
        BY <1>5, <1>9, <1>11, <3>1, <4>1
      <4> QED
        BY <1>7, <2>1, <4>1, <4>2, <4>3
    <3>2. CASE k = n + 1
      <4>1. \A j \in 1 .. Len(r.todo) : Rank[c.todo[1]] < Rank[c.todo[j + 1]]
        <5>1. 1 \in 1 .. Len(c.todo) /\ \A j \in 1 .. Len(r.todo) : 1 < j + 1
          BY <1>6, <2>1
        <5> QED
          BY <2>1, <2>2, <5>1
      <4>2. \A m \in 1 .. n + 1 : k <= m => m = k
        BY <1>4, <3>2
      <4> QED
        BY <1>5, <1>6, <1>7, <1>9, <2>1, <3>2, <4>1, <4>2
    <3> QED
      BY <1>5, <3>1, <3>2
  <2> QED
    BY <1>5, <1>9, <2>3, <2>4 DEF Ahead
<1>17. ASSUME NEW u \in Threads, Live(u)'
       PROVE  Traced(caller[u])' /\ Ahead(caller[u])'
  <2>1. PICK d : d = caller'[u]
    OBVIOUS
  <2>2. Traced(d)' /\ Ahead(d)'
    <3>1. CASE u = t
      <4>1. Traced(r)
        BY <1>1, <1>3, <1>4, <1>7 DEF Traced
      <4> QED
        BY <1>3, <1>8, <1>10, <1>16, <2>1, <3>1, <4>1, TracedKept
    <3>2. CASE u # t
      <4>1. d = caller[u] /\ Live(u)
        BY <1>8, <1>17, <2>1, <3>2
      <4>2. Traced(d) /\ Ahead(d) /\ e \in Near(d.entry)
        BY <1>1, <1>3, <1>4, <4>1 DEF Meet
      <4>3. d.entry # e
        BY <1>1, <1>3, <3>2, <4>1 DEF LogInv, Named
      <4> QED
        BY <1>3, <1>10, <1>15, <4>2, <4>3, TracedKept
    <3> QED
      BY <3>1, <3>2
  <2> QED
    BY <2>1, <2>2 DEF Traced, Ahead
<1> QED
  BY <1>12, <1>13, <1>14, <1>17 DEF MixInv

LEMMA MixFlush ==
  ASSUME LogInv, MixInv, NEW t \in Threads, Flush(t)
  PROVE  MixInv'
<1>1. PICK new : new = [entry |-> caller[t].entry, parts |-> caller[t].parts,
                        sec |-> caller[t].sec]
  OBVIOUS
<1>2. /\ ~ down /\ returned' = returned \cup {new} /\ caller' = [caller EXCEPT ![t] = Idle]
      /\ UNCHANGED <<tm, file, overlap, down>>
  BY <1>1 DEF Flush, Return, At, Up
<1>3. /\ caller \in [Threads -> Locals]
      /\ Meet /\ \A u \in Threads : Live(u) => Traced(caller[u]) /\ Ahead(caller[u])
  BY <1>2 DEF LogInv, TypesOK, MixInv
<1>4. /\ ~ Live(t)'
      /\ \A u \in Threads \ {t} : caller'[u] = caller[u] /\ (Live(u)' <=> Live(u))
  BY <1>2, <1>3 DEF Live, Idle
<1>5. \A d : Times(d) \subseteq Times(d)'
  <2>1. ASSUME NEW u \in Threads, Live(u), caller[u].pc # "clock"
        PROVE  \/ /\ caller'[u].pc \notin {"idle", "clock"}
                  /\ caller'[u].entry = caller[u].entry /\ caller'[u].sec = caller[u].sec
               \/ \E q \in returned' : q.entry = caller[u].entry /\ q.sec = caller[u].sec
    BY <1>1, <1>2, <1>4, <2>1 DEF Live
  <2> QED
    BY <1>2, <2>1, TimesGrow
<1>6. Ordered' /\ Stampings'
  BY <1>2, <1>5, OrderedKept
<1>7. Meet'
  BY <1>2, <1>3, <1>4, MeetKept
<1>8. ASSUME NEW u \in Threads, Live(u)'
      PROVE  Traced(caller[u])' /\ Ahead(caller[u])'
  <2>1. PICK d : d = caller'[u]
    OBVIOUS
  <2>2. d = caller[u] /\ Traced(d) /\ Ahead(d)
    BY <1>3, <1>4, <1>8, <2>1
  <2>3. Traced(d)' /\ Ahead(d)'
    BY <1>2, <1>5, <2>2, TracedKept, AheadKept
  <2> QED
    BY <2>1, <2>3 DEF Traced, Ahead
<1> QED
  BY <1>6, <1>7, <1>8 DEF MixInv

LEMMA MixDie ==
  ASSUME LogInv, MixInv, Die
  PROVE  MixInv'
<1>1. /\ down' = TRUE /\ file' = SubSeq(file, 1, flushed)
      /\ UNCHANGED <<flushed, caller, returned, overlap>>
  BY DEF Die
<1>2. file \in Seq(Piece) /\ flushed \in 0 .. Len(file)
  BY DEF LogInv, TypesOK, TypeOK
<1>3. /\ Len(file') = flushed /\ \A k \in 1 .. flushed : file'[k] = file[k]
      /\ \A k \in 1 .. flushed : k \in 1 .. Len(file)
  BY <1>1, <1>2
<1>4. \A d : Near(d)' = Near(d) /\ Times(d)' = Times(d)
  BY <1>1 DEF Near, Times, Logging
<1>5. Ordered'
  BY <1>3, <1>4 DEF MixInv, Ordered
<1>6. Stampings'
  BY <1>3, <1>4 DEF MixInv, Stampings, Composed
<1> QED
  BY <1>1, <1>5, <1>6 DEF MixInv

LEMMA MixInvHolds == Spec => []MixInv
<1>1. Init => MixInv
  BY DEF Init, MixInv, Ordered, Stampings, Meet, Live, Idle
<1>2. LogInv /\ MixInv /\ [Next]_vars => MixInv'
  <2> SUFFICES ASSUME LogInv, MixInv, [Next]_vars PROVE MixInv'
    OBVIOUS
  <2>1. ASSUME UNCHANGED <<tm, file, flushed, caller, returned, overlap, down>>
        PROVE  MixInv'
    <3>1. \A d : Near(d)' = Near(d) /\ Times(d)' = Times(d)
      BY <2>1 DEF Near, Times, Logging
    <3>2. \A c : (Traced(c) => Traced(c)') /\ (Ahead(c) => Ahead(c)')
      BY <2>1, <3>1 DEF Traced, Ahead, OfMinute, OfSecond, Composed
    <3>3. Ordered' /\ Stampings'
      BY <2>1, <3>1, OrderedKept
    <3>4. Meet => Meet'
      BY <2>1, MeetKept DEF Live
    <3> QED
      BY <2>1, <3>2, <3>3, <3>4 DEF MixInv, Live
  <2>2. ASSUME NEW t \in Threads, Log(t) PROVE MixInv'
    BY <2>2, MixCall, MixStamp, MixPrint, MixFlush DEF Log
  <2>3. CASE Tick \/ UNCHANGED vars
    BY <2>1, <2>3 DEF Tick, vars
  <2> QED
    BY <2>2, <2>3, MixDie DEF Next
<1> QED
  BY <1>1, <1>2, LogInvHolds, PTL DEF Spec

(* Calls that overlap cut only each other's lines and times: the pieces of  *)
(* an entry keep their order, what stands between them overlaps it, and no  *)
(* time stems from a call that was over before, for any number of threads.  *)
THEOREM MixingIsLocal == Spec => []OnlyOverlapsMix
<1>1. LogInv /\ MixInv => OnlyOverlapsMix
  BY MixInvImplies
<1> QED
  BY <1>1, LogInvHolds, MixInvHolds, PTL
=============================================================================
