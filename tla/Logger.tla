------------------------------- MODULE Logger -------------------------------
(***************************************************************************)
(* logger_log of server/client_protocol.c, called by main, by every client *)
(* handler and by the telemetry thread, without a lock of its own.         *)
(*                                                                         *)
(* An entry is printed in pieces, one fprintf each, and each fprintf is    *)
(* atomic: stdio locks the FILE.  localtime converts into one struct tm    *)
(* for the whole process; the C library holds its time zone lock during    *)
(* the conversion, but strftime reads the struct after it, field by field  *)
(* and without the lock.  The struct is cut into two parts here, what      *)
(* changes when a minute ends and the seconds, so that a reader may find   *)
(* the parts of two different moments.  What is printed waits in stdio's   *)
(* buffer until fflush, or until the buffer is full, and is lost with the  *)
(* process.  (The copy on the console is left out.)                        *)
(***************************************************************************)
EXTENDS Integers, Sequences

CONSTANTS
  Threads,      \* threads that log
  NoThread,     \* nobody
  MaxEntries,   \* bound of the model: entries logged
  MaxClock      \* bound of the model: the last second it looks at

ASSUME LoggerAssumption ==
  /\ NoThread \notin Threads
  /\ MaxEntries \in Nat /\ MaxClock \in Nat \ {0}

VARIABLES
  open,        \* log_file # NULL: fopen succeeded
  clock,       \* time(NULL)
  calls,       \* number of calls so far, which names the entry of each
  tm,          \* the struct that localtime returns, <<minute, second>>
  converter,   \* the thread that holds the time zone lock, or NoThread
  file,        \* the pieces printed, on the disk and then in the buffer
  flushed,     \* how many of them are on the disk
  caller,      \* place and locals of each thread
  returned,    \* history: the entries whose call has returned
  overlap,     \* history: the pairs of entries whose calls overlapped
  down         \* the process has ended

vars == <<open, clock, calls, tm, converter, file, flushed, caller, returned,
          overlap, down>>

(* Two seconds to the minute. *)
Minute(s) == s \div 2
Second(s) == s % 2

Idle == [pc |-> "idle", entry |-> 0, sec |-> 0, minute |-> 0, stamp |-> 0,
         parts |-> <<>>, todo |-> <<>>]

Up == ~ down
At(t, pc) == Up /\ caller[t].pc = pc
Logging == {t \in Threads : caller[t].pc # "idle"}

Init ==
  /\ open \in BOOLEAN
  /\ clock = 1   \* the last second of a minute
  /\ calls = 0
  /\ tm = <<0, 0>>
  /\ converter = NoThread
  /\ file = <<>>
  /\ flushed = 0
  /\ caller = [t \in Threads |-> Idle]
  /\ returned = {}
  /\ overlap = {}
  /\ down = FALSE

-----------------------------------------------------------------------------
(* The pieces of an entry, with the address of a client or without.         *)
Parts(address) ==
  IF address THEN <<"stamp", "type", "address", "message">>
             ELSE <<"stamp", "type", "message">>

(* Mutant: the missing file is not looked for. *)
CallUnchecked(t, address) ==
  /\ At(t, "idle")
  /\ calls < MaxEntries
  /\ calls' = calls + 1
  /\ caller' = [caller EXCEPT ![t].pc = "clock", ![t].entry = calls',
                              ![t].parts = Parts(address), ![t].todo = Parts(address)]
  /\ UNCHANGED <<open, clock, tm, converter, file, flushed, returned, overlap,
                 down>>

(* logger_log returns at once when there is no file: then nothing is ever   *)
(* logged, and no step is taken.                                            *)
Call(t, address) ==
  /\ At(t, "idle")
  /\ open
  /\ calls < MaxEntries
  /\ calls' = calls + 1
  /\ caller' = [caller EXCEPT ![t].pc = "clock", ![t].entry = calls',
                              ![t].parts = Parts(address), ![t].todo = Parts(address)]
  /\ overlap' = overlap \cup {{calls', caller[u].entry} : u \in Logging}
  /\ UNCHANGED <<open, clock, tm, converter, file, flushed, returned, down>>

(* logger_print_timestamp: time, localtime, strftime. *)
ReadClock(t) ==
  /\ At(t, "clock")
  /\ caller' = [caller EXCEPT ![t].pc = "convert", ![t].sec = clock]
  /\ UNCHANGED <<open, clock, calls, tm, converter, file, flushed, returned,
                 overlap, down>>

(* Mutant: the struct is converted for the first entry only. *)
ConvertOnce(t) ==
  /\ At(t, "convert")
  /\ converter = NoThread
  /\ tm' = IF tm = <<0, 0>> THEN <<Minute(caller[t].sec), tm[2]>> ELSE tm
  /\ converter' = t
  /\ caller' = [caller EXCEPT ![t].pc = "converting"]
  /\ UNCHANGED <<open, clock, calls, file, flushed, returned, overlap, down>>

Convert(t) ==
  /\ At(t, "convert")
  /\ converter = NoThread
  /\ tm' = <<Minute(caller[t].sec), tm[2]>>
  /\ converter' = t
  /\ caller' = [caller EXCEPT ![t].pc = "converting"]
  /\ UNCHANGED <<open, clock, calls, file, flushed, returned, overlap, down>>

Converted(t) ==
  /\ At(t, "converting")
  /\ tm' = <<tm[1], Second(caller[t].sec)>>
  /\ converter' = NoThread
  /\ caller' = [caller EXCEPT ![t].pc = "format"]
  /\ UNCHANGED <<open, clock, calls, file, flushed, returned, overlap, down>>

FormatMinute(t) ==
  /\ At(t, "format")
  /\ caller' = [caller EXCEPT ![t].pc = "formatting", ![t].minute = tm[1]]
  /\ UNCHANGED <<open, clock, calls, tm, converter, file, flushed, returned,
                 overlap, down>>

(* Mutant: the seconds are those of the clock. *)
FormatSecondAgain(t) ==
  /\ At(t, "formatting")
  /\ caller' = [caller EXCEPT ![t].pc = "print",
                              ![t].stamp = 2 * caller[t].minute + Second(clock)]
  /\ UNCHANGED <<open, clock, calls, tm, converter, file, flushed, returned,
                 overlap, down>>

FormatSecond(t) ==
  /\ At(t, "formatting")
  /\ caller' = [caller EXCEPT ![t].pc = "print", ![t].stamp = 2 * caller[t].minute + tm[2]]
  /\ UNCHANGED <<open, clock, calls, tm, converter, file, flushed, returned,
                 overlap, down>>

(* One fprintf.  When the buffer is full, all there is goes to the disk.    *)
PrintPiece(t) ==
  /\ At(t, "print")
  /\ caller[t].todo # <<>>
  /\ file' = Append(file, [entry |-> caller[t].entry, part |-> Head(caller[t].todo),
                           stamp |-> caller[t].stamp])
  /\ flushed' \in {flushed, Len(file')}
  /\ caller' = [caller EXCEPT ![t].todo = Tail(@)]
  /\ UNCHANGED <<open, clock, calls, tm, converter, returned, overlap, down>>

Return(t) ==
  /\ caller' = [caller EXCEPT ![t] = Idle]
  /\ returned' = returned \cup {[entry |-> caller[t].entry, parts |-> caller[t].parts,
                                 sec |-> caller[t].sec]}

(* Mutant: the entry is left in the buffer. *)
FlushLater(t) ==
  /\ At(t, "print")
  /\ caller[t].todo = <<>>
  /\ Return(t)
  /\ UNCHANGED <<open, clock, calls, tm, converter, file, flushed, overlap, down>>

(* fflush, and the return. *)
Flush(t) ==
  /\ At(t, "print")
  /\ caller[t].todo = <<>>
  /\ flushed' = Len(file)
  /\ Return(t)
  /\ UNCHANGED <<open, clock, calls, tm, converter, file, overlap, down>>

Log(t) ==
  \/ \E address \in BOOLEAN : Call(t, address)
  \/ ReadClock(t)
  \/ Convert(t)
  \/ Converted(t)
  \/ FormatMinute(t)
  \/ FormatSecond(t)
  \/ PrintPiece(t)
  \/ Flush(t)

-----------------------------------------------------------------------------
(* The environment. *)

Tick ==
  /\ Up
  /\ clock < MaxClock
  /\ clock' = clock + 1
  /\ UNCHANGED <<open, calls, tm, converter, file, flushed, caller, returned,
                 overlap, down>>

(* The process ends at any moment, for instance by SIGPIPE: what was not    *)
(* yet on the disk is lost.                                                 *)
Die ==
  /\ Up
  /\ down' = TRUE
  /\ file' = SubSeq(file, 1, flushed)
  /\ UNCHANGED <<open, clock, calls, tm, converter, flushed, caller, returned,
                 overlap>>

Next == (\E t \in Threads : Log(t)) \/ Tick \/ Die

Spec == Init /\ [][Next]_vars

-----------------------------------------------------------------------------
Piece == [entry : 1 .. MaxEntries,
          part : {"stamp", "type", "address", "message"}, stamp : 0 .. 2 * MaxClock + 1]

(* The type invariant; without a log file no thread is inside logger_log.   *)
TypeOK ==
  /\ open \in BOOLEAN /\ down \in BOOLEAN
  /\ clock \in 1 .. MaxClock
  /\ converter \in Threads \cup {NoThread}
  /\ file \in Seq(Piece)
  /\ flushed \in 0 .. Len(file)
  /\ calls \in 0 .. MaxEntries
  /\ ~ open => Logging = {}

(* The pieces of an entry that are on the disk. *)
OnDisk(e) == {k \in 1 .. flushed : file[k].entry = e}

(* What logger_log has returned from is on the disk, every piece of it and  *)
(* no piece twice, however the calls of the threads are interleaved and     *)
(* whenever the process dies.                                               *)
ReturnedIsOnDisk ==
  \A r \in returned :
    /\ {file[k].part : k \in OnDisk(r.entry)} = {r.parts[j] : j \in DOMAIN r.parts}
    /\ \A k, l \in OnDisk(r.entry) : file[k].part = file[l].part => k = l

(* An entry that no other call overlaps is one line of the log, with its    *)
(* pieces together and in the order in which logger_log prints them (the    *)
(* type before the address: protocol.md:219 and README.md give the address  *)
(* first), and its time is the one at which it was logged, whatever the     *)
(* calls before it have left in the shared struct.                          *)
AloneIsWhole ==
  \A r \in returned : r.entry \notin UNION overlap =>
    \E k \in 0 .. flushed - Len(r.parts) : \A j \in DOMAIN r.parts :
      file[k + j] = [entry |-> r.entry, part |-> r.parts[j], stamp |-> r.sec]

(* The entries that may mix with entry e, itself included, and the times    *)
(* that their calls have read.                                              *)
Near(e) == {e} \cup UNION {p \in overlap : e \in p}
Times(e) ==
  {r.sec : r \in {q \in returned : q.entry \in Near(e)}}
    \cup {caller[t].sec : t \in {u \in Logging : /\ caller[u].entry \in Near(e)
                                              /\ caller[u].pc # "clock"}}

Rank == [stamp |-> 1, type |-> 2, address |-> 3, message |-> 4]

(* Calls that overlap may cut each other's lines and times, but nobody      *)
(* else's: the pieces of an entry come in their order, with pieces of       *)
(* entries between them whose calls overlapped its own, and its time is put *)
(* together from times that it or those calls have read, never from what an *)
(* earlier call has left in the struct.                                     *)
OnlyOverlapsMix ==
  \A r \in returned :
    LET disk == OnDisk(r.entry)
        near == Near(r.entry)
        times == Times(r.entry)
    IN  /\ \A k, l \in disk : k < l =>
             /\ Rank[file[k].part] < Rank[file[l].part]
             /\ \A m \in k .. l : file[m].entry \in near
        /\ \A k \in disk : file[k].part = "stamp" =>
             \E a, b \in times : file[k].stamp = 2 * Minute(a) + Second(b)
=============================================================================
