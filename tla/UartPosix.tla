----------------------------- MODULE UartPosix ------------------------------
(***************************************************************************)
(* A UART over a POSIX terminal (hw/posix/uart.c), from the start of its    *)
(* thread to the end of its closing (Ladders has the opening before it).    *)
(* The thread moves what the terminal received into a ring and calls the    *)
(* callback; the reader takes from the ring and may push the last byte      *)
(* back.  Bytes are numbered, so that their order can be seen.              *)
(***************************************************************************)
EXTENDS Integers, Sequences

CONSTANTS
  Capacity,   \* HW_UART_BUFFER_SIZE
  Chunk,      \* what one read of the thread takes at most
  MaxBytes    \* bound: bytes received

VARIABLES
  line,     \* bytes the terminal holds
  sent,     \* how many bytes came
  ring, pushback, last,   \* the buffer, the byte pushed back, the byte read last (0: none)
  running, callback,      \* the thread's flag, and whether a callback is attached
  rx,       \* the thread: where it is, the bytes it read, the callback it took
  app,      \* the owner of the stream
  given,    \* history: bytes read, in order, a byte pushed back taken off again
  lost,     \* history: bytes dropped
  freed     \* history: the context is freed

vars == <<line, sent, ring, pushback, last, running, callback, rx, app, given, lost, freed>>
data == <<ring, pushback, last, given>>

At(pc) == [pc |-> pc, buf |-> <<>>, callback |-> FALSE]
Init ==
  /\ line = <<>> /\ sent = 0 /\ ring = <<>> /\ pushback = 0 /\ last = 0
  /\ running = TRUE /\ callback = FALSE /\ rx = At("test") /\ app = "open"
  /\ given = <<>> /\ lost = {} /\ freed = FALSE

Least(a, b) == IF a < b THEN a ELSE b
Receive ==
  /\ sent < MaxBytes /\ sent' = sent + 1 /\ line' = Append(line, sent + 1)
  /\ UNCHANGED <<ring, pushback, last, running, callback, rx, app, given, lost, freed>>

\* The thread: test the flag, wait up to 100 ms for input, read what there
\* is; an error or the end of the file ends it.
Test ==
  /\ rx.pc = "test" /\ rx' = At(IF running THEN "poll" ELSE "leave")
  /\ UNCHANGED <<line, sent, data, running, callback, app, lost, freed>>
PollLine ==
  /\ rx.pc = "poll"
  /\ \/ line # <<>> /\ rx' = At("read")
     \/ line = <<>> /\ rx' = At("test")
     \/ rx' = At("leave")
  /\ UNCHANGED <<line, sent, data, running, callback, app, lost, freed>>
ReadLine ==
  /\ rx.pc = "read"
  /\ LET n == Least(Chunk, Len(line)) IN
     \/ /\ line' = SubSeq(line, n + 1, Len(line))
        /\ rx' = [At("push") EXCEPT !.buf = SubSeq(line, 1, n)]
     \/ line' = line /\ rx' = At("leave")
  /\ UNCHANGED <<sent, data, running, callback, app, lost, freed>>
\* Under the lock: what the ring has room for, and the callback there is.
Room == Capacity - Len(ring)
\* A bug the checks must see: new bytes overwrite the oldest.
PushedOver(buf) == LET all == ring \o buf IN SubSeq(all, 1 + (IF Len(all) > Capacity THEN Len(all) - Capacity ELSE 0), Len(all))
Pushed(buf) == ring \o SubSeq(buf, 1, Least(Room, Len(buf)))
Push ==
  /\ rx.pc = "push" /\ ring' = Pushed(rx.buf)
  /\ lost' = lost \cup {rx.buf[i] : i \in {i \in DOMAIN rx.buf : i > Room}}
  /\ rx' = [At("call") EXCEPT !.callback = callback]
  /\ UNCHANGED <<line, sent, pushback, last, running, callback, app, given, freed>>
Return ==
  /\ rx.pc \in {"call", "in callback"} /\ app # "closing in callback"
  /\ rx' = IF rx.pc = "call" /\ rx.callback THEN At("in callback") ELSE At("test")
  /\ UNCHANGED <<line, sent, data, running, callback, app, lost, freed>>
Leave ==
  /\ rx.pc = "leave" /\ running' = FALSE /\ rx' = At("gone")
  /\ UNCHANGED <<line, sent, data, callback, app, lost, freed>>

\* The owner: read, step one byte back, attach a callback, close.
Read(n) ==
  /\ app = "open"
  /\ LET back == IF pushback # 0 THEN <<pushback>> ELSE <<>>
         k == Least(n - Len(back), Len(ring))
         got == back \o SubSeq(ring, 1, k) IN
     /\ ring' = SubSeq(ring, k + 1, Len(ring)) /\ pushback' = 0
     /\ last' = IF got = <<>> THEN last ELSE got[Len(got)]
     /\ given' = given \o got
  /\ UNCHANGED <<line, sent, running, callback, rx, app, lost, freed>>
Seek ==
  /\ app = "open" /\ last # 0 /\ pushback' = last /\ last' = 0
  /\ given' = SubSeq(given, 1, Len(given) - 1)
  /\ UNCHANGED <<line, sent, ring, running, callback, rx, app, lost, freed>>
SetCallback(on) ==
  /\ app = "open" /\ callback' = on
  /\ UNCHANGED <<line, sent, data, running, rx, app, lost, freed>>
Close ==
  /\ app = "open" /\ running' = FALSE
  /\ app' = "closing"
  /\ UNCHANGED <<line, sent, data, callback, rx, lost, freed>>
\* A callback that closes its stream waits for the thread it runs on: for ever.
CloseInCallback ==
  /\ app = "open" /\ rx.pc = "in callback" /\ running' = FALSE /\ app' = "closing in callback"
  /\ UNCHANGED <<line, sent, data, callback, rx, lost, freed>>
\* The wait group lets it through once the thread has left.
Closed ==
  /\ app \in {"closing", "closing in callback"} /\ rx.pc = "gone" /\ app' = "closed" /\ freed' = TRUE
  /\ UNCHANGED <<line, sent, data, running, callback, rx, lost>>

Next ==
  \/ Receive \/ Test \/ PollLine \/ ReadLine \/ Push \/ Return \/ Leave
  \/ \E n \in 1 .. 2 : Read(n)
  \/ Seek \/ \E on \in BOOLEAN : SetCallback(on)
  \/ Close \/ CloseInCallback \/ Closed

Spec == Init /\ [][Next]_vars

------------------------------------------------------------------------------
Ordered(s) == \A i, j \in DOMAIN s : i < j => s[i] < s[j]
(* The reader gets every byte that is not counted lost, once and in the order *)
(* it came, whatever it pushes back; bytes are lost only while the ring is    *)
(* full; and nothing of the context is used once the stream is closed.        *)
UartPosixSound ==
  LET held == (IF pushback # 0 THEN <<pushback>> ELSE <<>>) \o ring \o (IF rx.pc = "push" THEN rx.buf ELSE <<>>) \o line
      all  == given \o held IN
  /\ Ordered(all) /\ {all[i] : i \in DOMAIN all} \cup lost = 1 .. sent
  /\ Len(ring) <= Capacity
  /\ freed => rx.pc = "gone"
=============================================================================
