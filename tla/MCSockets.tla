----------------------------- MODULE MCSockets -----------------------------
(***************************************************************************)
(* The network streams, for TLC: a behaviour is one of the Linux and Darwin *)
(* backend, of the Pico's or of the NTP client, as Init chooses; the state  *)
(* of the other two stays as it was.                                        *)
(***************************************************************************)
EXTENDS Integers, Sequences, FiniteSets, TLAPS, FiniteSetTheorems, SequenceTheorems

CONSTANTS Ctxs, StreamSlots, Threads, RingSize, QueueCapacity, PosixTalking, PosixSent, PosixOpens,
          KeepsDatagrams, ClosesObserved,
          Capacity, Cores, PicoTalking, PicoSent, PicoOpens, ReadsAlone, Dgrams, AnswersFirst,
          Intervals, Seconds, Longest

VARIABLES which,
  ctx, slot, rx, net, app, lis, got, opens,
  claimed, conn, core, owner, pgot, sent, plis, dgram, fault, popens,
  active, client, device, interval, wait, last, call, filling,
  reading, since, date, second, own, told, overlapped

Posix == INSTANCE SocketPosix WITH Slots <- StreamSlots, Talking <- PosixTalking, MaxSent <- PosixSent, MaxOpens <- PosixOpens
Pico  == INSTANCE SocketPico WITH Talking <- PicoTalking, MaxSent <- PicoSent, MaxOpens <- PicoOpens,
                                  got <- pgot, lis <- plis, opens <- popens
Time  == INSTANCE Ntp

posixVars == <<ctx, slot, rx, net, app, lis, got, opens>>
picoVars  == <<claimed, conn, core, owner, pgot, sent, plis, dgram, fault, popens>>
ntpVars   == <<active, client, device, interval, wait, last, call, filling,
               reading, since, date, second, own, told, overlapped>>

\* What the three modules need of their constants.
ASSUME Bounds ==
  /\ RingSize \in Nat \ {0} /\ QueueCapacity \in Nat \ {0} /\ Capacity \in Nat \ {0}
  /\ PosixSent \in Nat /\ PosixOpens \in Nat /\ PicoSent \in Nat /\ PicoOpens \in Nat
  /\ {KeepsDatagrams, ClosesObserved, ReadsAlone, AnswersFirst} \subseteq BOOLEAN
  /\ Intervals \subseteq Nat \ {0} /\ Seconds \in Nat \ {0} /\ Longest \in Nat

Init == which \in {"posix", "pico", "ntp"} /\ Posix!Init /\ Pico!Init /\ Time!Init
Next ==
  /\ which' = which
  /\ \/ which = "posix" /\ Posix!Next /\ UNCHANGED <<picoVars, ntpVars>>
     \/ which = "pico" /\ Pico!Next /\ UNCHANGED <<posixVars, ntpVars>>
     \/ which = "ntp" /\ Time!Next /\ UNCHANGED <<posixVars, picoVars>>

vars == <<which, posixVars, picoVars, ntpVars>>
Fairness ==
  /\ \A t \in Threads : WF_posixVars(which = "posix" /\ Posix!Receiver(t))
  /\ WF_posixVars(which = "posix" /\ Posix!Waited)
  /\ WF_posixVars(which = "posix" /\ (Posix!AcceptCallback \/ Posix!ListenerStops))
Spec == Init /\ [][Next]_vars /\ Fairness

(* SocketPosix: no byte is lost, repeated or misplaced between the peer and *)
(* the reader, and no read mixes two datagrams.                             *)
BytesKept == Posix!BytesKept
(* SocketPosix: receiving threads and datagram streams use only what is     *)
(* theirs and has not been freed or closed.                                 *)
UsesOwn == Posix!UsesOwn
(* SocketPosix: a close ends, and the end of a connection is noticed.       *)
StreamsEnd == Posix!CloseEnds /\ Posix!EndSeen
(* SocketPico: the claims of the pool are exact, no stream uses a control   *)
(* block that an error callback freed, and the chain of buffers holds what  *)
(* arrived, datagram by datagram.                                           *)
PoolSound == Pico!ClaimsExact /\ Pico!NoFreedPcb /\ Pico!ChainKept
(* Ntp: the device and its client agree, and a registered device that has   *)
(* not told the time, or not lately, is soon due again.                     *)
NtpSound == Time!NtpSound

------------------------------------------------------------------------------
(* What keeps the NTP client so, one step of it at a time.                  *)

LEMMA NtpTyped == Time!NtpInv /\ Time!Next => Time!NtpTypes'
<1> SUFFICES ASSUME Time!NtpInv, Time!Next PROVE Time!NtpTypes'
  OBVIOUS
<1> USE Bounds DEF Time!NtpInv, Time!NtpTypes, Time!registration, Time!poll
<1>1. CASE Time!NtpInit \/ Time!NtpDeinit \/ Time!Register \/ Time!Refused
  BY <1>1 DEF Time!NtpInit, Time!NtpDeinit, Time!Register, Time!Refused
<1>2. CASE Time!Registered \/ Time!Deregister \/ Time!Released
  BY <1>2 DEF Time!Registered, Time!Deregister, Time!Released
<1>3. ASSUME NEW field \in filling, Time!Fill(field) PROVE Time!NtpTypes'
  BY <1>3 DEF Time!Fill, Time!Filled
<1>4. CASE Time!Poll \/ Time!NotDue \/ Time!Ask
  BY <1>4 DEF Time!Poll, Time!NotDue, Time!Ask
<1>5. CASE Time!Fail \/ Time!Answer \/ Time!Tell
  <2>1. Time!Left(1) \in Nat /\ Time!Left(interval) \in Nat
    BY DEF Time!Left
  <2>2. CASE Time!Fail
    <3>1. wait' \in Nat /\ last' = last /\ date' = date /\ reading' = "none"
      BY <2>1, <2>2 DEF Time!Fail
    <3>2. overlapped' \in BOOLEAN /\ own' = FALSE /\ told' = told
      BY <2>2 DEF Time!Fail, Time!Ends
    <3>3. UNCHANGED <<active, client, device, interval, call, filling, since, second>>
      BY <2>2 DEF Time!Fail, Time!Ends
    <3> QED BY <3>1, <3>2, <3>3
  <2>3. CASE Time!Answer
    <3>1. wait' \in Nat /\ last' = last /\ date' = second /\ reading' = "answered"
      BY <2>1, <2>3 DEF Time!Answer
    <3>2. overlapped' \in BOOLEAN /\ own' = own /\ told' = told
      BY <2>3 DEF Time!Answer, Time!Ends
    <3>3. UNCHANGED <<active, client, device, interval, call, filling, since, second>>
      BY <2>3 DEF Time!Answer, Time!Ends
    <3> QED BY <3>1, <3>2, <3>3
  <2>4. CASE Time!Tell
    BY <2>4 DEF Time!Tell, Time!Ends
  <2> QED BY <1>5, <2>2, <2>3, <2>4
<1>6. CASE Time!Tick
  BY <1>6 DEF Time!Tick
<1> QED BY <1>1, <1>2, <1>3, <1>4, <1>5, <1>6 DEF Time!Next, Time!Application, Time!Worker0

\* What the application's calls do.
LEMMA NtpCalls == Time!NtpInv /\ Time!Application => Time!NtpInv'
<1> SUFFICES ASSUME Time!NtpInv, Time!Application PROVE Time!NtpInv'
  OBVIOUS
<1>0. Time!NtpTypes'
  BY NtpTyped DEF Time!Next
<1> USE Bounds, <1>0 DEF Time!NtpInv, Time!NtpTypes, Time!registration, Time!poll,
                  Time!CallKnows, Time!ReadingKnows, Time!Undisturbed
<1>1. CASE Time!NtpInit \/ Time!NtpDeinit
  BY <1>1 DEF Time!NtpInit, Time!NtpDeinit
<1>2. CASE Time!Register
  BY <1>2 DEF Time!Register
<1>3. CASE Time!Refused
  BY <1>3 DEF Time!Refused
<1>4. CASE Time!Registered
  BY <1>4 DEF Time!Registered
<1>5. ASSUME NEW field \in filling, Time!Fill(field) PROVE Time!NtpInv'
  <2>1. /\ call = "fill" /\ filling' = filling \ {field} /\ device' = device /\ own' = own /\ told' = told
        /\ overlapped' = overlapped /\ reading' = reading /\ date' = date
        /\ call' = IF filling = {field} THEN "none" ELSE call
    BY <1>5 DEF Time!Fill, Time!Filled
  <2>2. /\ client' = (client \/ field = "client") /\ last' = IF field = "last" THEN 0 ELSE last
        /\ wait' = IF field = "due" THEN 0 ELSE wait
    BY <1>5 DEF Time!Fill
  <2>3. device /\ ~own /\ field \in {"client", "last", "interval", "due"}
    BY <1>5
  <2>4. Time!CallKnows'
    <3>1. client' => device'
      BY <2>1, <2>3
    <3>2. filling' # {} \/ filling = {field}
      BY <2>1
    <3>3. filling = {field} => client' /\ device' /\ call' = "none" /\ filling' = {}
      <4> SUFFICES ASSUME filling = {field} PROVE client' /\ device' /\ call' = "none" /\ filling' = {}
        OBVIOUS
      <4>1. client \/ "client" \in filling
        BY <2>1
      <4>2. client \/ field = "client"
        BY <4>1
      <4> QED BY <2>1, <2>2, <2>3, <4>2
    <3>4. filling # {field} => call' = "fill" /\ device' /\ (client' \/ "client" \in filling')
      BY <2>1, <2>2, <2>3
    <3> QED BY <3>1, <3>2, <3>3, <3>4
  <2>5. Time!ReadingKnows'
    BY <2>1, <2>3
  <2>6. ASSUME ~overlapped PROVE ~told /\ ("last" \notin filling' => last' = 0)
    BY <2>1, <2>2, <2>3, <2>6
  <2>7. ASSUME ~overlapped, "due" \notin filling' PROVE wait' <= 1
    BY <2>1, <2>2, <2>3, <2>7
  <2>8. Time!Undisturbed'
    BY <2>1, <2>3, <2>6, <2>7
  <2> QED BY <2>4, <2>5, <2>8
<1>6. CASE Time!Deregister
  BY <1>6 DEF Time!Deregister
<1>7. CASE Time!Released
  BY <1>7 DEF Time!Released
<1> QED BY <1>1, <1>2, <1>3, <1>4, <1>5, <1>6, <1>7 DEF Time!Application

\* What a reading does, and the clock.
LEMMA NtpReadings == Time!NtpInv /\ (Time!Worker0 \/ Time!Tick) => Time!NtpInv'
<1> SUFFICES ASSUME Time!NtpInv, Time!Worker0 \/ Time!Tick PROVE Time!NtpInv'
  OBVIOUS
<1>0. Time!NtpTypes'
  BY NtpTyped DEF Time!Next
<1> USE Bounds, <1>0 DEF Time!NtpInv, Time!NtpTypes, Time!registration, Time!poll,
                  Time!CallKnows, Time!ReadingKnows, Time!Undisturbed
<1>1. CASE Time!Poll
  BY <1>1 DEF Time!Poll
<1>2. CASE Time!NotDue
  BY <1>2 DEF Time!NotDue
<1>3. CASE Time!Ask
  BY <1>3 DEF Time!Ask
<1>4. CASE Time!Fail
  BY <1>4 DEF Time!Fail, Time!Ends, Time!Left
<1>5. CASE Time!Answer
  BY <1>5 DEF Time!Answer, Time!Ends, Time!Left
<1>6. CASE Time!Tell
  BY <1>6 DEF Time!Tell, Time!Ends
<1>7. CASE Time!Tick
  BY <1>7 DEF Time!Tick
<1> QED BY <1>1, <1>2, <1>3, <1>4, <1>5, <1>6, <1>7 DEF Time!Worker0

LEMMA NtpStep == Time!NtpInv /\ [Next]_vars => Time!NtpInv'
<1> SUFFICES ASSUME Time!NtpInv, [Next]_vars PROVE Time!NtpInv'
  OBVIOUS
<1>1. CASE UNCHANGED ntpVars
  BY <1>1 DEF ntpVars, Time!NtpInv, Time!NtpTypes, Time!CallKnows, Time!ReadingKnows, Time!Undisturbed
<1>2. CASE Time!Next
  BY <1>2, NtpCalls, NtpReadings DEF Time!Next
<1> QED BY <1>1, <1>2 DEF Next, vars

(* net_ntp_register_hid and hid_deregister leave the device and its client  *)
(* agreed, and a registered device is due again within a retry interval     *)
(* until it has told the time and within the interval asked for from then   *)
(* on, in whatever order the globals are stored, whatever reading of an     *)
(* earlier registration is still under way and however long it takes, for   *)
(* every set of intervals an application may ask for.  Nothing is assumed   *)
(* of when the client or the device is taken down.                          *)
THEOREM NtpAlwaysSound == Spec => []NtpSound
<1>1. Init => Time!NtpInv
  <2> SUFFICES ASSUME Time!Init PROVE Time!NtpInv
    BY DEF Init
  <2>1. Time!NtpTypes
    <3> USE DEF Time!Init
    <3>1. {active, client, device, own, told, overlapped} \subseteq BOOLEAN
      OBVIOUS
    <3>2. {interval, wait, last, since, date} \subseteq Nat /\ second \in Nat \ {0}
      OBVIOUS
    <3>3. filling \subseteq {"client", "last", "interval", "due"}
      OBVIOUS
    <3>4. call \in {"none", "register", "fill", "release"}
          /\ reading \in {"none", "called", "asked", "refused", "answered"}
      OBVIOUS
    <3> QED BY <3>1, <3>2, <3>3, <3>4 DEF Time!NtpTypes
  <2>2. Time!CallKnows /\ Time!ReadingKnows /\ Time!Undisturbed
    BY DEF Time!Init, Time!CallKnows, Time!ReadingKnows, Time!Undisturbed
  <2> QED BY <2>1, <2>2 DEF Time!NtpInv
<1>2. Time!NtpInv => NtpSound
  <2> SUFFICES ASSUME Time!NtpInv PROVE Time!Agreed /\ Time!Punctual
    BY DEF NtpSound, Time!NtpSound
  <2>1. Time!Agreed
    BY DEF Time!NtpInv, Time!CallKnows, Time!Agreed
  <2>2. Time!Punctual
    BY DEF Time!NtpInv, Time!NtpTypes, Time!CallKnows, Time!ReadingKnows, Time!Undisturbed, Time!Punctual
  <2> QED BY <2>1, <2>2
<1> QED BY <1>1, <1>2, NtpStep, PTL DEF Spec

-----------------------------------------------------------------------------
(* Who uses the streams of Linux and Darwin.                                *)

ASSUME Marks == "free" \notin Ctxs

\* What no step of a reader or of a peer changes in a context.
Steady(r, q) ==
  /\ DOMAIN q = DOMAIN r
  /\ q.live = r.live /\ q.proto = r.proto /\ q.wg = r.wg /\ q.callback = r.callback

LEMMA ReadIsSteady ==
  ASSUME NEW r, NEW n, DOMAIN r = DOMAIN Posix!NoCtx
  PROVE  Steady(r, Posix!ReadOf(r, n).after)
BY DEF Posix!ReadOf, Posix!NoCtx, Steady

LEMMA UndoIsSteady ==
  ASSUME NEW r, DOMAIN r = DOMAIN Posix!NoCtx
  PROVE  Steady(r, Posix!Undo(r))
BY DEF Posix!Undo, Posix!NoCtx, Steady

LEMMA OwnInit == Posix!Init => Posix!OwnInv
<1> SUFFICES ASSUME Posix!Init PROVE Posix!OwnInv
  OBVIOUS
<1>1. /\ ctx = [c \in Ctxs |-> Posix!NoCtx] /\ slot = [s \in StreamSlots |-> "free"]
      /\ rx = [t \in Threads |-> Posix!NoThread] /\ app = Posix!Idle /\ lis = Posix!NoListener
  BY DEF Posix!Init
<1>2. \A s \in StreamSlots : ~Posix!Stands(s)
  BY <1>1 DEF Posix!Stands
<1>3. \A t \in Threads : rx[t].pc = "none" /\ ~Posix!Running(t)
  BY <1>1 DEF Posix!Running, Posix!NoThread
<1>4. Posix!Shapes
  BY <1>1, <1>3 DEF Posix!Shapes, Posix!NoThread, Posix!Idle, Posix!NoListener
<1>5. Posix!ContextsOwned /\ Posix!ThreadsOwn
  BY <1>1, <1>2, <1>3 DEF Posix!ContextsOwned, Posix!ThreadsOwn
<1>6. Posix!AppOwns
  BY <1>1 DEF Posix!AppOwns, Posix!Idle
<1>7. Posix!ListenerOwns
  BY <1>1 DEF Posix!ListenerOwns, Posix!NoListener, Posix!NoCtx
<1> QED BY <1>4, <1>5, <1>6, <1>7 DEF Posix!OwnInv

\* A step that leaves the slots and the listener as they are, and lets no
\* thread begin, need only show what it does to the threads and the application.
LEMMA OwnKept ==
  ASSUME Posix!OwnInv, slot' = slot, lis' = lis,
         DOMAIN ctx' = Ctxs, DOMAIN rx' = Threads, DOMAIN app' = DOMAIN app,
         app'.pc \in {"idle", "undo", "wait", "release", "unlisten"},
         app.pc = "release" <=> app'.pc = "release",
         app.pc = "release" => app' = app,
         Posix!AppOwns',
         \A c \in Ctxs : /\ DOMAIN ctx'[c] = DOMAIN ctx[c] /\ ctx'[c].live = ctx[c].live
                         /\ ctx'[c].proto = ctx[c].proto /\ ctx'[c].callback = ctx[c].callback
                         /\ ~ctx[c].live => ctx'[c] = ctx[c],
         \A t \in Threads :
           /\ DOMAIN rx'[t] = DOMAIN rx[t] /\ (Posix!Running(t)' \/ rx'[t].pc = "none")
           /\ rx'[t].call \in BOOLEAN
           /\ Posix!Running(t)' =>
                /\ Posix!Running(t) /\ rx'[t].ctx = rx[t].ctx /\ rx'[t].slot = rx[t].slot
                /\ rx'[t].pc # "final" => ctx'[rx[t].ctx].wg = 1
                /\ rx'[t].pc = "final" => rx'[t].call
                /\ rx'[t].call => ctx[rx[t].ctx].callback
  PROVE  Posix!OwnInv'
<1> USE DEF Posix!OwnInv
<1>1. \A s \in StreamSlots : Posix!Stands(s)' <=> Posix!Stands(s)
  BY DEF Posix!Stands
<1>2. Posix!Shapes'
  BY DEF Posix!Shapes
<1>3. Posix!ContextsOwned'
  BY <1>1 DEF Posix!ContextsOwned, Posix!Shapes, Posix!Stands
<1>4. Posix!ThreadsOwn'
  BY <1>1 DEF Posix!ThreadsOwn
<1>5. Posix!ListenerOwns'
  BY <1>1 DEF Posix!ListenerOwns, Posix!Shapes, Posix!Stands
<1> QED BY <1>2, <1>3, <1>4, <1>5

\* The steps of a receiving thread, but for its last callback.
LEMMA ReceiverKeeps ==
  ASSUME Posix!OwnInv, NEW t \in Threads,
         Posix!Receive(t) \/ Posix!Stops(t) \/ Posix!Store(t) \/ Posix!Done(t) \/ Posix!Callback(t)
  PROVE  Posix!OwnInv'
<1> USE DEF Posix!OwnInv
<1> DEFINE c == rx[t].ctx
<1>0. /\ Posix!Running(t) => c \in Ctxs /\ ctx[c].live
      /\ \A u \in Threads : Posix!Running(u) <=> rx[u].pc # "none"
  BY DEF Posix!ThreadsOwn, Posix!ContextsOwned, Posix!Shapes, Posix!Running
<1> USE DEF Posix!Shapes
<1>1. CASE Posix!Receive(t)
  <2>1. ctx' = ctx /\ slot' = slot /\ lis' = lis /\ app' = app
    BY <1>1 DEF Posix!Receive
  <2>2. rx' = [rx EXCEPT ![t].pc = "store", ![t].data = rx'[t].data]
    BY <1>1 DEF Posix!Receive, Posix!NoThread
  <2>3. rx[t].pc = "poll"
    BY <1>1 DEF Posix!Receive
  <2>4. Posix!AppOwns'
    BY <2>1 DEF Posix!AppOwns
  <2> QED BY <1>0, <2>1, <2>2, <2>3, <2>4, OwnKept DEF Posix!Running, Posix!ThreadsOwn, Posix!NoThread
<1>2. CASE Posix!Stops(t)
  <2>1. ctx' = ctx /\ slot' = slot /\ lis' = lis /\ app' = app
    BY <1>2 DEF Posix!Stops
  <2>2. rx' = [rx EXCEPT ![t].pc = "last", ![t].call = ctx[c].callback]
    BY <1>2 DEF Posix!Stops
  <2>3. rx[t].pc = "poll"
    BY <1>2 DEF Posix!Stops
  <2>4. Posix!AppOwns'
    BY <2>1 DEF Posix!AppOwns
  <2> QED BY <1>0, <2>1, <2>2, <2>3, <2>4, OwnKept DEF Posix!Running, Posix!ThreadsOwn, Posix!NoThread
<1>3. CASE Posix!Store(t)
  <2>1. slot' = slot /\ lis' = lis /\ app' = app
    BY <1>3 DEF Posix!Store
  <2>2. rx[t].pc = "store" /\ \A u \in Threads : rx'[u].call = rx[u].call /\ rx'[u].ctx = rx[u].ctx /\ rx'[u].slot = rx[u].slot
         /\ DOMAIN rx'[u] = DOMAIN rx[u] /\ (u # t => rx'[u] = rx[u])
    BY <1>3 DEF Posix!Store, Posix!NoThread
  <2>3. DOMAIN rx' = DOMAIN rx /\ rx'[t].pc \in {"call", "poll"}
    BY <1>3 DEF Posix!Store, Posix!NoThread
  <2>4. DOMAIN ctx' = DOMAIN ctx /\ \A d \in Ctxs : Steady(ctx[d], ctx'[d]) /\ (d # c => ctx'[d] = ctx[d])
    <3>1. ctx' = ctx \/ ctx' = [ctx EXCEPT ![c].buf = ctx'[c].buf]
      BY <1>3 DEF Posix!Store, Posix!NoCtx
    <3> QED BY <3>1 DEF Steady, Posix!NoCtx
  <2>5. Posix!AppOwns'
    BY <2>1, <2>4 DEF Posix!AppOwns, Steady
  <2> QED BY <1>0, <2>1, <2>2, <2>3, <2>4, <2>5, OwnKept DEF Posix!Running, Posix!ThreadsOwn, Steady
<1>4. CASE Posix!Done(t)
  <2>1. slot' = slot /\ lis' = lis /\ app' = app /\ rx[t].pc = "last"
    BY <1>4 DEF Posix!Done
  <2>2. rx' = [rx EXCEPT ![t] = IF rx[t].call THEN [@ EXCEPT !.pc = "final"] ELSE Posix!NoThread]
    BY <1>4 DEF Posix!Done
  <2>3. ctx' = [ctx EXCEPT ![c].running = FALSE, ![c].wg = 0]
    BY <1>4 DEF Posix!Done
  <2>4. \A u \in Threads : u # t /\ Posix!Running(u) => rx[u].ctx # c
    BY <2>1 DEF Posix!ContextsOwned, Posix!Running
  <2>5. DOMAIN ctx' = Ctxs /\ \A d \in Ctxs :
          /\ DOMAIN ctx'[d] = DOMAIN ctx[d] /\ ctx'[d].live = ctx[d].live
          /\ ctx'[d].proto = ctx[d].proto /\ ctx'[d].callback = ctx[d].callback
          /\ d # c => ctx'[d] = ctx[d]
    BY <2>3 DEF Posix!NoCtx
  <2>6. Posix!AppOwns'
    BY <2>1, <2>5 DEF Posix!AppOwns
  <2>7. rx'[t] = IF rx[t].call THEN [rx[t] EXCEPT !.pc = "final"] ELSE Posix!NoThread
    BY <2>2
  <2>8. \A u \in Threads : u # t => rx'[u] = rx[u]
    BY <2>2
  <2>9. DOMAIN rx'[t] = DOMAIN rx[t] /\ (Posix!Running(t)' \/ rx'[t].pc = "none") /\ rx'[t].call \in BOOLEAN
    <3>1. CASE rx[t].call
      BY <2>7, <3>1 DEF Posix!Running, Posix!NoThread
    <3>2. CASE ~rx[t].call
      BY <2>7, <3>2 DEF Posix!Running, Posix!NoThread
    <3> QED BY <3>1, <3>2
  <2>10. Posix!Running(t)' => rx'[t].pc = "final" /\ rx'[t].call /\ rx[t].call /\ rx'[t].ctx = c /\ rx'[t].slot = rx[t].slot
    BY <2>7 DEF Posix!Running, Posix!NoThread
  <2>11. DOMAIN rx' = Threads
    BY <2>2
  <2> QED BY <1>0, <2>1, <2>4, <2>5, <2>6, <2>8, <2>9, <2>10, <2>11, OwnKept DEF Posix!Running, Posix!ThreadsOwn
<1>5. CASE Posix!Callback(t)
  <2>1. slot' = slot /\ lis' = lis /\ app' = app /\ rx[t].pc = "call" /\ rx' = [rx EXCEPT ![t].pc = "poll"]
    BY <1>5 DEF Posix!Callback
  <2>2. DOMAIN ctx' = Ctxs /\ \A d \in Ctxs : Steady(ctx[d], ctx'[d]) /\ (d # c => ctx'[d] = ctx[d])
    <3>1. CASE UNCHANGED ctx
      BY <3>1 DEF Steady
    <3>2. CASE Posix!ReadFrom(c, 2)
      BY <3>2, ReadIsSteady DEF Posix!ReadFrom, Steady
    <3> QED BY <1>5, <3>1, <3>2 DEF Posix!Callback
  <2>3. Posix!AppOwns'
    BY <2>1, <2>2 DEF Posix!AppOwns, Steady
  <2> QED BY <1>0, <2>1, <2>2, <2>3, OwnKept DEF Posix!Running, Posix!ThreadsOwn, Posix!NoThread, Steady
<1> QED BY <1>1, <1>2, <1>3, <1>4, <1>5

\* The last callback closes the stream: nobody else has it in hand.
LEMMA LastCallbackKeeps ==
  ASSUME Posix!OwnInv, NEW t \in Threads, Posix!LastCallback(t), ~ClosesObserved
  PROVE  Posix!OwnInv'
<1> USE DEF Posix!OwnInv
<1> DEFINE c == rx[t].ctx
           s == rx[t].slot
<1>1. /\ rx[t].pc = "final" /\ Posix!Running(t) /\ app' = app /\ lis' = lis
      /\ rx' = [rx EXCEPT ![t] = Posix!NoThread]
      /\ ctx' = [ctx EXCEPT ![slot[s]] = Posix!NoCtx] /\ slot' = [slot EXCEPT ![s] = "free"]
  BY DEF Posix!LastCallback, Posix!Freed, Posix!Running
<1>2. /\ c \in Ctxs /\ s \in StreamSlots /\ slot[s] = c /\ Posix!Stands(s) /\ ctx[c].callback
      /\ ctx[c].proto # "dgram" /\ ctx[c].live
  BY <1>1 DEF Posix!ThreadsOwn, Posix!ContextsOwned
<1>3. \A u \in Threads : u # t /\ Posix!Running(u) => rx[u].ctx # c /\ rx[u].slot # s
  BY <1>1, <1>2 DEF Posix!ContextsOwned, Posix!ThreadsOwn
<1>4. \A i \in StreamSlots : /\ Posix!Stands(i)' => Posix!Stands(i) /\ i # s /\ slot'[i] = slot[i] /\ slot[i] # c
                             /\ Posix!Stands(i) /\ i # s => Posix!Stands(i)'
  BY <1>1, <1>2 DEF Posix!Stands, Posix!ContextsOwned, Posix!Shapes
<1>5. \A u \in Threads : Posix!Running(u)' => u # t /\ Posix!Running(u) /\ rx'[u] = rx[u]
  BY <1>1 DEF Posix!Running, Posix!Shapes, Posix!NoThread
<1>6. \A d \in Ctxs : ctx'[d] = IF d = c THEN Posix!NoCtx ELSE ctx[d]
  BY <1>1, <1>2 DEF Posix!Shapes
<1>7. Posix!Shapes'
  <2>1. DOMAIN ctx' = Ctxs /\ \A d \in Ctxs : DOMAIN ctx'[d] = DOMAIN Posix!NoCtx
    BY <1>1, <1>6 DEF Posix!Shapes
  <2>2. DOMAIN rx' = Threads /\ \A u \in Threads : rx'[u] = IF u = t THEN Posix!NoThread ELSE rx[u]
    BY <1>1 DEF Posix!Shapes
  <2>3. \A u \in Threads : DOMAIN rx'[u] = DOMAIN Posix!NoThread /\ (Posix!Running(u)' \/ rx'[u].pc = "none")
          /\ rx'[u].call \in BOOLEAN
    <3>1. /\ DOMAIN rx'[t] = DOMAIN Posix!NoThread /\ rx'[t].pc = "none" /\ rx'[t].call \in BOOLEAN
      <4>1. rx'[t] = Posix!NoThread
        BY <2>2
      <4>2. Posix!NoThread.pc = "none" /\ Posix!NoThread.call = FALSE
        BY DEF Posix!NoThread
      <4> QED BY <4>1, <4>2
    <3>2. \A u \in Threads : u # t => rx'[u] = rx[u] /\ (Posix!Running(u)' <=> Posix!Running(u))
      BY <2>2 DEF Posix!Running
    <3> QED BY <3>1, <3>2 DEF Posix!Shapes
  <2> QED BY <1>1, <1>2, <2>1, <2>2, <2>3 DEF Posix!Shapes
<1>8. Posix!ContextsOwned'
  BY <1>3, <1>4, <1>5, <1>6, <1>2 DEF Posix!ContextsOwned, Posix!Shapes, Posix!Stands
<1>9. Posix!ThreadsOwn'
  BY <1>3, <1>4, <1>5, <1>6 DEF Posix!ThreadsOwn
<1>10. app.pc \in {"undo", "wait", "release"} => app.slot # s
  BY <1>2 DEF Posix!AppOwns, Posix!Stands
<1>11. lis.pc = "call" => lis.slot # s
  BY <1>2 DEF Posix!ListenerOwns
<1>12. Posix!AppOwns'
  <2>1. app.pc \in {"undo", "wait"} => Posix!Stands(app.slot) /\ slot[app.slot] # c
    BY <1>2, <1>10 DEF Posix!AppOwns, Posix!Stands, Posix!ContextsOwned
  <2> QED BY <1>1, <1>2, <1>6, <1>10, <2>1 DEF Posix!AppOwns, Posix!Shapes
<1>13. Posix!ListenerOwns'
  <2>1. lis.pc = "call" => Posix!Stands(lis.slot)' /\ slot'[lis.slot] = slot[lis.slot] /\ slot[lis.slot] # c
                           /\ slot[lis.slot] \in Ctxs
    BY <1>4, <1>11, <1>1, <1>2 DEF Posix!ListenerOwns, Posix!ContextsOwned, Posix!Shapes, Posix!Stands
  <2>2. \A d \in Ctxs : ctx'[d].proto = "dgram" => ctx[d].proto = "dgram"
    BY <1>6 DEF Posix!NoCtx
  <2> QED BY <1>1, <1>6, <2>1, <2>2 DEF Posix!ListenerOwns
<1> QED BY <1>7, <1>8, <1>9, <1>12, <1>13

\* The steps of the application's thread that begin and end no stream.
LEMMA UserKeeps ==
  ASSUME Posix!OwnInv, ~ClosesObserved,
         \/ \E s \in StreamSlots : Posix!SetCallback(s) \/ Posix!Peek(s) \/ Posix!CloseAsks(s)
                                   \/ \E n \in 1 .. 3 : Posix!Read(s, n)
         \/ Posix!PeekUndo
         \/ \E c \in Ctxs : Posix!PeerSends(c) \/ Posix!PeerLeaves(c)
  PROVE  Posix!OwnInv'
<1> USE DEF Posix!OwnInv
<1>0. \A s \in StreamSlots : app.pc # "release" /\ Posix!Held(s) =>
        /\ Posix!Stands(s) /\ slot[s] \in Ctxs /\ ctx[slot[s]].live
        /\ lis.pc = "call" => lis.slot # s
        /\ lis.pc = "call" => slot[lis.slot] # slot[s]
  BY DEF Posix!Held, Posix!Stands, Posix!ContextsOwned, Posix!Shapes, Posix!ListenerOwns
<1>1. \A t \in Threads : Posix!Running(t) \/ rx[t].pc = "none"
  BY DEF Posix!Shapes
<1>2. ASSUME slot' = slot, lis' = lis, rx' = rx, DOMAIN ctx' = Ctxs, DOMAIN app' = DOMAIN app,
             app'.pc \in {"idle", "undo", "wait", "unlisten"}, app.pc # "release", Posix!AppOwns',
             \A d \in Ctxs : Steady(ctx[d], ctx'[d]) /\ (~ctx[d].live => ctx'[d] = ctx[d])
      PROVE  Posix!OwnInv'
  BY <1>1, <1>2, OwnKept DEF Posix!Shapes, Posix!ThreadsOwn, Posix!Running, Steady
<1>3. ASSUME NEW s \in StreamSlots, Posix!SetCallback(s)
      PROVE  Posix!OwnInv'
  <2> DEFINE c == slot[s]
  <2>1. /\ app.pc = "idle" /\ c \in Ctxs /\ ctx' = [ctx EXCEPT ![c].callback = TRUE] /\ ctx[c].live
        /\ slot' = slot /\ rx' = rx /\ app' = app /\ lis' = lis /\ Posix!Stands(s)
        /\ lis.pc = "call" => slot[lis.slot] # c
    BY <1>0, <1>3 DEF Posix!SetCallback
  <2>2. DOMAIN ctx' = Ctxs /\ \A d \in Ctxs :
          /\ DOMAIN ctx'[d] = DOMAIN ctx[d] /\ ctx'[d].live = ctx[d].live
          /\ ctx'[d].proto = ctx[d].proto /\ ctx'[d].wg = ctx[d].wg
          /\ d # c => ctx'[d] = ctx[d]
          /\ ctx[d].callback => ctx'[d].callback
    BY <2>1 DEF Posix!Shapes, Posix!NoCtx
  <2>3. \A i \in StreamSlots : Posix!Stands(i)' <=> Posix!Stands(i)
    BY <2>1 DEF Posix!Stands
  <2>4. Posix!Shapes'
    BY <2>1, <2>2 DEF Posix!Shapes, Posix!Running
  <2>5. Posix!ContextsOwned'
    BY <2>1, <2>2, <2>3 DEF Posix!ContextsOwned, Posix!Shapes, Posix!Stands, Posix!Running
  <2>6. Posix!ThreadsOwn'
    BY <2>1, <2>2, <2>3 DEF Posix!ThreadsOwn, Posix!Running
  <2>7. Posix!AppOwns' /\ Posix!ListenerOwns'
    BY <2>1, <2>2, <2>3 DEF Posix!AppOwns, Posix!ListenerOwns, Posix!Shapes, Posix!Stands
  <2> QED BY <2>4, <2>5, <2>6, <2>7
<1>4. ASSUME NEW s \in StreamSlots, NEW n, Posix!ReadFrom(slot[s], n), Posix!Held(s), app.pc = "idle"
      PROVE  DOMAIN ctx' = Ctxs /\ \A d \in Ctxs : Steady(ctx[d], ctx'[d]) /\ (~ctx[d].live => ctx'[d] = ctx[d])
  BY <1>0, <1>4, ReadIsSteady DEF Posix!ReadFrom, Posix!Shapes, Steady
<1>5. ASSUME NEW s \in StreamSlots, NEW n \in 1 .. 3, Posix!Read(s, n)
      PROVE  Posix!OwnInv'
  <2>1. app.pc = "idle" /\ app' = app /\ slot' = slot /\ rx' = rx /\ lis' = lis
    BY <1>5 DEF Posix!Read
  <2>2. Posix!AppOwns'
    BY <2>1 DEF Posix!AppOwns
  <2> QED BY <1>2, <1>4, <1>5, <2>1, <2>2 DEF Posix!Read
<1>6. ASSUME NEW s \in StreamSlots, Posix!Peek(s)
      PROVE  Posix!OwnInv'
  <2>1. app.pc = "idle" /\ slot' = slot /\ rx' = rx /\ lis' = lis /\ Posix!Held(s) /\ ~ctx[slot[s]].callback
        /\ Posix!ReadFrom(slot[s], 1) /\ (app' = app \/ app' = [pc |-> "undo", slot |-> s])
    BY <1>6 DEF Posix!Peek
  <2>2. DOMAIN ctx' = Ctxs /\ \A d \in Ctxs : Steady(ctx[d], ctx'[d]) /\ (~ctx[d].live => ctx'[d] = ctx[d])
    BY <1>4, <2>1
  <2>3. Posix!AppOwns'
    BY <1>0, <2>1, <2>2 DEF Posix!AppOwns, Steady, Posix!Stands
  <2> QED BY <1>2, <2>1, <2>2, <2>3 DEF Posix!Shapes
<1>7. CASE Posix!PeekUndo
  <2> DEFINE c == slot[app.slot]
  <2>1. /\ app.pc = "undo" /\ slot' = slot /\ rx' = rx /\ lis' = lis /\ app' = [pc |-> "idle", slot |-> 0]
        /\ ctx' = [ctx EXCEPT ![c] = Posix!Undo(@)]
    BY <1>7 DEF Posix!PeekUndo, Posix!Idle
  <2>2. c \in Ctxs /\ ctx[c].live
    BY <2>1 DEF Posix!AppOwns, Posix!ContextsOwned, Posix!Stands, Posix!Shapes
  <2>3. DOMAIN ctx' = Ctxs /\ \A d \in Ctxs : Steady(ctx[d], ctx'[d]) /\ (~ctx[d].live => ctx'[d] = ctx[d])
    BY <2>1, <2>2, UndoIsSteady DEF Posix!Shapes, Steady
  <2>4. Posix!AppOwns'
    BY <2>1 DEF Posix!AppOwns
  <2> QED BY <1>2, <2>1, <2>3, <2>4 DEF Posix!Shapes
<1>8. ASSUME NEW s \in StreamSlots, Posix!CloseAsks(s)
      PROVE  Posix!OwnInv'
  <2> DEFINE c == slot[s]
  <2>1. /\ app.pc = "idle" /\ Posix!Held(s) /\ ~ctx[c].callback /\ slot' = slot /\ rx' = rx /\ lis' = lis
        /\ ctx' = [ctx EXCEPT ![c].running = FALSE] /\ app' = [pc |-> "wait", slot |-> s]
    BY <1>8 DEF Posix!CloseAsks
  <2>2. DOMAIN ctx' = Ctxs /\ \A d \in Ctxs : Steady(ctx[d], ctx'[d]) /\ (~ctx[d].live => ctx'[d] = ctx[d])
    BY <1>0, <2>1 DEF Posix!Shapes, Posix!NoCtx, Steady
  <2>3. Posix!AppOwns'
    BY <1>0, <2>1, <2>2 DEF Posix!AppOwns, Steady, Posix!Stands
  <2> QED BY <1>2, <2>1, <2>2, <2>3 DEF Posix!Shapes
<1>9. ASSUME NEW c \in Ctxs, Posix!PeerSends(c) \/ Posix!PeerLeaves(c)
      PROVE  Posix!OwnInv'
  <2>1. ctx' = ctx /\ slot' = slot /\ rx' = rx /\ lis' = lis /\ app' = app
    BY <1>9 DEF Posix!PeerSends, Posix!PeerLeaves
  <2>2. Posix!AppOwns'
    BY <2>1 DEF Posix!AppOwns
  <2> QED BY <1>1, <2>1, <2>2, OwnKept DEF Posix!Shapes, Posix!ThreadsOwn, Posix!Running
<1> QED BY <1>3, <1>5, <1>6, <1>7, <1>8, <1>9

\* What is made: a context and a slot nobody has, and for a connection a thread.
LEMMA Begins ==
  ASSUME Posix!OwnInv, NEW c \in Ctxs, NEW s \in StreamSlots, slot[s] = "free", ~ctx[c].live,
         NEW new, DOMAIN new = DOMAIN Posix!NoCtx, new.live, ~new.callback,
         ctx' = [ctx EXCEPT ![c] = new], slot' = [slot EXCEPT ![s] = c], app' = app,
         lis' = lis \/ (lis.pc = "poll" /\ lis' = [lis EXCEPT !.pc = "call", !.slot = s]),
         new.proto = "dgram" => lis'.pc = "call" /\ lis'.slot = s,
         \/ rx' = rx
         \/ /\ new.proto # "dgram" /\ new.wg = 1
            /\ \E t \in Threads :
                 /\ rx[t].pc = "none"
                 /\ rx' = [rx EXCEPT ![t] = [Posix!NoThread EXCEPT !.pc = "poll", !.ctx = c, !.slot = s]]
  PROVE  Posix!OwnInv'
<1> USE DEF Posix!OwnInv
<1>1. \A d \in Ctxs : ctx'[d] = IF d = c THEN new ELSE ctx[d]
  BY DEF Posix!Shapes
<1>2. \A i \in StreamSlots : slot'[i] = IF i = s THEN c ELSE slot[i]
  BY DEF Posix!Shapes
<1>3. app.pc \in {"undo", "wait", "release"} => app.slot # s
  BY DEF Posix!AppOwns
<1>4. /\ ~Posix!Stands(s) /\ Posix!Stands(s)'
      /\ \A i \in StreamSlots : i # s => (Posix!Stands(i)' <=> Posix!Stands(i))
      /\ \A i \in StreamSlots : Posix!Stands(i) => slot[i] # c /\ slot[i] \in Ctxs
  BY <1>2, <1>3, Marks DEF Posix!Stands, Posix!ContextsOwned, Posix!Shapes
<1>5. \A t \in Threads :
        \/ rx'[t] = rx[t] /\ (Posix!Running(t)' <=> Posix!Running(t))
        \/ /\ new.proto # "dgram" /\ new.wg = 1 /\ rx[t].pc = "none" /\ ~Posix!Running(t)
           /\ rx'[t] = [Posix!NoThread EXCEPT !.pc = "poll", !.ctx = c, !.slot = s]
           /\ \A u \in Threads : u # t => rx'[u] = rx[u] /\ (Posix!Running(u)' <=> Posix!Running(u))
  BY DEF Posix!Shapes, Posix!Running
<1>6. \A t \in Threads : Posix!Running(t) => rx[t].ctx # c /\ rx[t].ctx \in Ctxs /\ rx[t].slot # s
  BY <1>4 DEF Posix!ThreadsOwn
<1>7. \A t \in Threads :
        \/ rx'[t] = rx[t] /\ (Posix!Running(t)' <=> Posix!Running(t))
        \/ /\ new.proto # "dgram" /\ new.wg = 1 /\ Posix!Running(t)'
           /\ rx'[t].pc = "poll" /\ rx'[t].ctx = c /\ rx'[t].slot = s /\ rx'[t].call = FALSE
           /\ DOMAIN rx'[t] = DOMAIN Posix!NoThread
           /\ \A u \in Threads : u # t => rx'[u] = rx[u] /\ (Posix!Running(u)' <=> Posix!Running(u))
  BY <1>5 DEF Posix!NoThread, Posix!Running
<1>8. Posix!Shapes'
  <2>1. DOMAIN ctx' = Ctxs /\ \A d \in Ctxs : DOMAIN ctx'[d] = DOMAIN Posix!NoCtx
    BY <1>1 DEF Posix!Shapes
  <2>2. DOMAIN rx' = Threads
    BY DEF Posix!Shapes
  <2>3. \A t \in Threads : /\ DOMAIN rx'[t] = DOMAIN Posix!NoThread /\ (Posix!Running(t)' \/ rx'[t].pc = "none")
                           /\ rx'[t].call \in BOOLEAN
    <3> SUFFICES ASSUME NEW t \in Threads
                 PROVE  /\ DOMAIN rx'[t] = DOMAIN Posix!NoThread /\ (Posix!Running(t)' \/ rx'[t].pc = "none")
                        /\ rx'[t].call \in BOOLEAN
      OBVIOUS
    <3>1. CASE rx'[t] = rx[t] /\ (Posix!Running(t)' <=> Posix!Running(t))
      BY <3>1 DEF Posix!Shapes
    <3>2. CASE /\ Posix!Running(t)' /\ rx'[t].call = FALSE
               /\ DOMAIN rx'[t] = DOMAIN Posix!NoThread
      BY <3>2
    <3> QED BY <1>7, <3>1, <3>2
  <2>4. slot' \in [StreamSlots -> Ctxs \cup {"free"}]
    BY DEF Posix!Shapes
  <2>5. lis' \in [claimed : {0, 1}, proto : {"tcp", "udp"}, running : BOOLEAN, wg : {0, 1},
                  fd : BOOLEAN, pc : {"none", "poll", "call"}, slot : StreamSlots \cup {0}]
    BY DEF Posix!Shapes
  <2> QED BY <2>1, <2>2, <2>3, <2>4, <2>5 DEF Posix!Shapes
<1>9. Posix!ContextsOwned'
  <2>1. \A d \in Ctxs : ~ctx'[d].live => ctx'[d] = Posix!NoCtx
    BY <1>1 DEF Posix!ContextsOwned
  <2>2. \A i \in StreamSlots : Posix!Stands(i)' => ctx'[slot'[i]].live
    BY <1>1, <1>2, <1>4 DEF Posix!ContextsOwned
  <2>3. \A i, j \in StreamSlots : (Posix!Stands(i)' /\ Posix!Stands(j)' /\ slot'[i] = slot'[j]) => i = j
    BY <1>2, <1>4 DEF Posix!ContextsOwned
  <2>4. \A t, u \in Threads : (Posix!Running(t)' /\ Posix!Running(u)' /\ rx'[t].ctx = rx'[u].ctx) => t = u
    BY <1>6, <1>7 DEF Posix!ContextsOwned
  <2> QED BY <2>1, <2>2, <2>3, <2>4 DEF Posix!ContextsOwned
<1>10. Posix!ThreadsOwn'
  <2> SUFFICES ASSUME NEW t \in Threads, Posix!Running(t)'
               PROVE  (/\ rx[t].ctx \in Ctxs /\ rx[t].slot \in StreamSlots
                       /\ Posix!Stands(rx[t].slot) /\ slot[rx[t].slot] = rx[t].ctx
                       /\ ctx[rx[t].ctx].proto # "dgram"
                       /\ rx[t].pc # "final" => ctx[rx[t].ctx].wg = 1
                       /\ rx[t].pc = "final" => rx[t].call
                       /\ rx[t].call => ctx[rx[t].ctx].callback)'
    BY DEF Posix!ThreadsOwn
  <2>1. CASE rx'[t] = rx[t] /\ Posix!Running(t)
    BY <1>1, <1>2, <1>4, <1>6, <2>1 DEF Posix!ThreadsOwn
  <2>2. CASE ~(rx'[t] = rx[t] /\ Posix!Running(t))
    BY <1>1, <1>2, <1>4, <1>7, <2>2
  <2> QED BY <2>1, <2>2
<1>11. Posix!AppOwns'
  <2>1. app.pc \in {"undo", "wait"} => Posix!Stands(app.slot) /\ slot[app.slot] # c
    BY <1>4 DEF Posix!AppOwns, Posix!Stands
  <2> QED BY <1>1, <1>2, <1>3, <2>1, Marks DEF Posix!AppOwns, Posix!Shapes
<1>12. Posix!ListenerOwns'
  <2>1. CASE lis' = lis
    BY <1>1, <1>2, <1>4, <2>1 DEF Posix!ListenerOwns
  <2>2. CASE lis.pc = "poll" /\ lis' = [lis EXCEPT !.pc = "call", !.slot = s]
    <3>1. /\ lis'.pc = "call" /\ lis'.slot = s /\ lis'.fd = lis.fd /\ lis'.wg = lis.wg /\ lis'.claimed = lis.claimed
      BY <2>2 DEF Posix!Shapes
    <3>2. \A d \in Ctxs : ctx'[d].proto = "dgram" => d = c
      BY <1>1, <2>2 DEF Posix!ListenerOwns
    <3> QED BY <1>1, <1>2, <1>4, <2>2, <3>1, <3>2 DEF Posix!ListenerOwns
  <2> QED BY <2>1, <2>2
<1> QED BY <1>8, <1>9, <1>10, <1>11, <1>12

\* A connection opened or accepted, and a datagram's stream.
LEMMA BeginnersKeep ==
  ASSUME Posix!OwnInv,
         (\E proto \in {"tcp", "udp"} : Posix!Open(proto)) \/ Posix!Accept \/ Posix!AcceptDatagram
  PROVE  Posix!OwnInv'
<1> DEFINE new(proto) == [Posix!NoCtx EXCEPT !.live = TRUE, !.proto = proto, !.running = TRUE, !.wg = 1, !.fd = TRUE]
<1>1. \A proto : DOMAIN new(proto) = DOMAIN Posix!NoCtx /\ new(proto).live /\ ~new(proto).callback
                 /\ new(proto).proto = proto /\ new(proto).wg = 1
  BY DEF Posix!NoCtx
<1>2. ASSUME NEW proto \in {"tcp", "udp"}, Posix!Open(proto)
      PROVE  Posix!OwnInv'
  <2>1. PICK c \in Ctxs, s \in StreamSlots, t \in Threads : Posix!Wrap(c, s, t, proto) /\ app' = app /\ lis' = lis
    BY <1>2 DEF Posix!Open
  <2>2. /\ slot[s] = "free" /\ ~ctx[c].live /\ rx[t].pc = "none"
        /\ ctx' = [ctx EXCEPT ![c] = new(proto)] /\ slot' = [slot EXCEPT ![s] = c]
        /\ rx' = [rx EXCEPT ![t] = [Posix!NoThread EXCEPT !.pc = "poll", !.ctx = c, !.slot = s]]
    BY <2>1 DEF Posix!Wrap, Posix!StreamAlloc
  <2>3. new(proto).proto # "dgram"
    BY <1>1
  <2> HIDE DEF new
  <2> QED BY <1>1, <2>1, <2>2, <2>3, Begins
<1>3. CASE Posix!Accept
  <2>1. PICK c \in Ctxs, s \in StreamSlots, t \in Threads :
          Posix!Wrap(c, s, t, "tcp") /\ lis' = [lis EXCEPT !.pc = "call", !.slot = s]
    BY <1>3 DEF Posix!Accept
  <2>2. /\ slot[s] = "free" /\ ~ctx[c].live /\ rx[t].pc = "none"
        /\ ctx' = [ctx EXCEPT ![c] = new("tcp")] /\ slot' = [slot EXCEPT ![s] = c]
        /\ rx' = [rx EXCEPT ![t] = [Posix!NoThread EXCEPT !.pc = "poll", !.ctx = c, !.slot = s]]
    BY <2>1 DEF Posix!Wrap, Posix!StreamAlloc
  <2>3. new("tcp").proto # "dgram"
    BY <1>1
  <2>4. lis.pc = "poll" /\ app' = app
    BY <1>3 DEF Posix!Accept
  <2> HIDE DEF new
  <2> QED BY <1>1, <2>1, <2>2, <2>3, <2>4, Begins
<1>4. CASE Posix!AcceptDatagram
  <2> DEFINE one == [Posix!NoCtx EXCEPT !.live = TRUE, !.proto = "dgram", !.fd = TRUE, !.buf = Posix!Datagram(2)]
  <2>1. PICK c \in Ctxs, s \in StreamSlots :
          /\ ~ctx[c].live /\ slot[s] = "free" /\ ctx' = [ctx EXCEPT ![c] = one]
          /\ slot' = [slot EXCEPT ![s] = c] /\ lis' = [lis EXCEPT !.pc = "call", !.slot = s]
    BY <1>4 DEF Posix!AcceptDatagram, Posix!StreamAlloc
  <2>2. lis.pc = "poll" /\ app' = app /\ rx' = rx
    BY <1>4 DEF Posix!AcceptDatagram
  <2>3. DOMAIN one = DOMAIN Posix!NoCtx /\ one.live /\ ~one.callback
    BY DEF Posix!NoCtx
  <2>4. lis'.pc = "call" /\ lis'.slot = s
    BY <2>1 DEF Posix!OwnInv, Posix!Shapes
  <2> HIDE DEF one
  <2> QED BY <2>1, <2>2, <2>3, <2>4, Begins
<1> QED BY <1>2, <1>3, <1>4

\* A close frees its context when no thread has it, then its slot.
LEMMA CloseKeeps ==
  ASSUME Posix!OwnInv, Posix!CloseFrees \/ Posix!CloseReleases
  PROVE  Posix!OwnInv'
<1> USE DEF Posix!OwnInv
<1> DEFINE s == app.slot
           c == slot[s]
<1>1. CASE Posix!CloseFrees
  <2>1. /\ app.pc = "wait" /\ ctx[c].wg = 0 /\ app' = [app EXCEPT !.pc = "release"]
        /\ ctx' = [ctx EXCEPT ![c] = Posix!NoCtx] /\ slot' = slot /\ rx' = rx /\ lis' = lis
    BY <1>1 DEF Posix!CloseFrees, Posix!Freed
  <2>2. /\ s \in StreamSlots /\ c \in Ctxs /\ Posix!Stands(s) /\ ~ctx[c].callback
        /\ lis.pc = "call" => lis.slot # s
    BY <2>1 DEF Posix!AppOwns, Posix!Stands, Posix!Shapes
  <2>3. app'.pc = "release" /\ app'.slot = s /\ DOMAIN app' = {"pc", "slot"}
    BY <2>1 DEF Posix!Shapes
  <2>4. \A i \in StreamSlots : (Posix!Stands(i)' <=> Posix!Stands(i) /\ i # s) /\ (Posix!Stands(i)' => slot[i] # c)
    BY <2>1, <2>2, <2>3 DEF Posix!Stands, Posix!ContextsOwned
  <2>5. \A d \in Ctxs : ctx'[d] = IF d = c THEN Posix!NoCtx ELSE ctx[d]
    BY <2>1, <2>2 DEF Posix!Shapes
  <2>6. \A t \in Threads : Posix!Running(t)' <=> Posix!Running(t)
    BY <2>1 DEF Posix!Running
  <2>7. \A t \in Threads : Posix!Running(t) => rx[t].ctx # c /\ rx[t].slot # s
    BY <2>1, <2>2 DEF Posix!ThreadsOwn
  <2>8. Posix!Shapes'
    BY <2>1, <2>3, <2>5, <2>6 DEF Posix!Shapes
  <2>9. Posix!ContextsOwned'
    BY <2>1, <2>4, <2>5, <2>6 DEF Posix!ContextsOwned, Posix!Shapes, Posix!Stands
  <2>10. Posix!ThreadsOwn'
    BY <2>1, <2>4, <2>5, <2>6, <2>7 DEF Posix!ThreadsOwn
  <2>11. Posix!AppOwns'
    BY <2>1, <2>2, <2>3 DEF Posix!AppOwns
  <2>12. Posix!ListenerOwns'
    <3>1. \A d \in Ctxs : ctx'[d].proto = "dgram" => ctx[d].proto = "dgram"
      BY <2>5 DEF Posix!NoCtx
    <3>2. lis.pc = "call" => slot[lis.slot] \in Ctxs
      BY DEF Posix!ListenerOwns, Posix!Stands, Posix!Shapes
    <3> QED BY <2>1, <2>2, <2>4, <2>5, <3>1, <3>2 DEF Posix!ListenerOwns
  <2> QED BY <2>8, <2>9, <2>10, <2>11, <2>12
<1>2. CASE Posix!CloseReleases
  <2>1. /\ app.pc = "release" /\ slot' = [slot EXCEPT ![s] = "free"] /\ app' = [pc |-> "idle", slot |-> 0]
        /\ ctx' = ctx /\ rx' = rx /\ lis' = lis
    BY <1>2 DEF Posix!CloseReleases, Posix!Idle
  <2>2. s \in StreamSlots /\ ~Posix!Stands(s)
    BY <2>1 DEF Posix!AppOwns, Posix!Stands
  <2>3. \A i \in StreamSlots : /\ Posix!Stands(i)' <=> Posix!Stands(i)
                               /\ Posix!Stands(i) => slot'[i] = slot[i]
    BY <2>1, <2>2 DEF Posix!Stands, Posix!Shapes
  <2>4. \A t \in Threads : Posix!Running(t)' <=> Posix!Running(t)
    BY <2>1 DEF Posix!Running
  <2>5. Posix!Shapes'
    BY <2>1, <2>2, <2>4 DEF Posix!Shapes
  <2>6. Posix!ContextsOwned' /\ Posix!ThreadsOwn'
    BY <2>1, <2>3, <2>4 DEF Posix!ContextsOwned, Posix!ThreadsOwn
  <2>7. Posix!AppOwns' /\ Posix!ListenerOwns'
    BY <2>1, <2>3 DEF Posix!AppOwns, Posix!ListenerOwns
  <2> QED BY <2>5, <2>6, <2>7
<1> QED BY <1>1, <1>2

\* The accept callback closes a datagram's stream, which has no thread.
LEMMA AcceptCallbackKeeps ==
  ASSUME Posix!OwnInv, Posix!AcceptCallback, ~KeepsDatagrams
  PROVE  Posix!OwnInv'
<1> USE DEF Posix!OwnInv
<1> DEFINE s == lis.slot
           c == slot[s]
<1>1. /\ lis.pc = "call" /\ lis' = [lis EXCEPT !.pc = "poll", !.slot = 0] /\ rx' = rx /\ app' = app
      /\ \/ /\ ctx[c].proto = "dgram"
            /\ ctx' = [ctx EXCEPT ![c] = Posix!NoCtx] /\ slot' = [slot EXCEPT ![s] = "free"]
         \/ ctx[c].proto # "dgram" /\ ctx' = ctx /\ slot' = slot
  BY DEF Posix!AcceptCallback, Posix!Freed
<1>2. s \in StreamSlots /\ Posix!Stands(s) /\ c \in Ctxs
  BY <1>1 DEF Posix!ListenerOwns, Posix!Stands, Posix!Shapes
<1>3. \A i \in StreamSlots : /\ Posix!Stands(i)' => Posix!Stands(i) /\ slot'[i] = slot[i] /\ (ctx' = ctx \/ i # s)
                             /\ Posix!Stands(i) /\ (ctx[c].proto # "dgram" \/ i # s) => Posix!Stands(i)'
  <2>1. CASE ctx[c].proto = "dgram"
    BY <1>1, <1>2, <2>1 DEF Posix!Stands, Posix!Shapes
  <2>2. CASE ctx[c].proto # "dgram"
    BY <1>1, <2>2 DEF Posix!Stands
  <2> QED BY <2>1, <2>2
<1>4. \A d \in Ctxs : ctx'[d] = ctx[d] \/ (d = c /\ ctx'[d] = Posix!NoCtx /\ ctx[c].proto = "dgram" /\ slot'[s] = "free")
  BY <1>1, <1>2 DEF Posix!Shapes
<1>5. \A t \in Threads : Posix!Running(t)' <=> Posix!Running(t)
  BY <1>1 DEF Posix!Running
<1>6. \A t \in Threads : Posix!Running(t) => rx[t].ctx # c \/ ctx[c].proto # "dgram"
  BY DEF Posix!ThreadsOwn
<1>7. lis'.pc = "poll" /\ lis'.fd = lis.fd /\ lis'.wg = lis.wg /\ lis'.claimed = lis.claimed
  BY <1>1 DEF Posix!Shapes
<1>8. Posix!Shapes'
  BY <1>1, <1>2, <1>5, ZenonT(60) DEF Posix!Shapes
<1>9. Posix!ContextsOwned'
  <2>1. \A i \in StreamSlots : Posix!Stands(i)' => slot[i] \in Ctxs /\ ctx'[slot[i]] = ctx[slot[i]]
    BY <1>2, <1>3, <1>4 DEF Posix!ContextsOwned, Posix!Stands, Posix!Shapes
  <2> QED BY <1>1, <1>3, <1>4, <1>5, <2>1 DEF Posix!ContextsOwned
<1>10. Posix!ThreadsOwn'
  <2>1. \A t \in Threads : Posix!Running(t) => ctx'[rx[t].ctx] = ctx[rx[t].ctx] /\ Posix!Stands(rx[t].slot)'
                                              /\ slot'[rx[t].slot] = slot[rx[t].slot]
    BY <1>1, <1>2, <1>3, <1>4, <1>6 DEF Posix!ThreadsOwn
  <2> QED BY <1>1, <1>5, <2>1 DEF Posix!ThreadsOwn
<1>11. Posix!AppOwns'
  <2>1. app.pc \in {"undo", "wait", "release"} => app.slot # s /\ slot'[app.slot] = slot[app.slot]
    BY <1>1, <1>2 DEF Posix!AppOwns, Posix!Shapes
  <2>2. app.pc \in {"undo", "wait"} => ctx'[slot[app.slot]] = ctx[slot[app.slot]]
    BY <1>2, <1>4, <2>1 DEF Posix!AppOwns, Posix!Stands, Posix!ContextsOwned, Posix!Shapes
  <2> QED BY <1>1, <1>7, <2>1, <2>2 DEF Posix!AppOwns
<1>12. Posix!ListenerOwns'
  <2>1. \A d \in Ctxs : ctx'[d].proto # "dgram"
    <3>1. \A d \in Ctxs : ctx[d].proto = "dgram" => d = c
      BY DEF Posix!ListenerOwns
    <3>2. Posix!NoCtx.proto # "dgram"
      BY DEF Posix!NoCtx
    <3>3. CASE ctx[c].proto = "dgram"
      BY <1>1, <1>2, <3>1, <3>2, <3>3 DEF Posix!Shapes
    <3>4. CASE ctx[c].proto # "dgram"
      BY <1>1, <1>2, <3>1, <3>4
    <3> QED BY <3>3, <3>4
  <2> QED BY <1>1, <1>7, <2>1 DEF Posix!ListenerOwns
<1> QED BY <1>8, <1>9, <1>10, <1>11, <1>12

\* The listener begins and ends with no stream in its hands.
LEMMA ListenerKeeps ==
  ASSUME Posix!OwnInv,
         \/ \E proto \in {"tcp", "udp"} : Posix!ListenerInit(proto)
         \/ Posix!ListenerStops \/ Posix!DeinitAsks \/ Posix!DeinitEnds
  PROVE  Posix!OwnInv'
<1> USE DEF Posix!OwnInv
<1> DEFINE Frame == ctx' = ctx /\ slot' = slot /\ rx' = rx
           Ours  == \/ app' = app
                    \/ app.pc # "release" /\ DOMAIN app' = {"pc", "slot"} /\ app'.pc \in {"idle", "unlisten"}
           Theirs == /\ lis' \in [claimed : {0, 1}, proto : {"tcp", "udp"}, running : BOOLEAN, wg : {0, 1},
                                  fd : BOOLEAN, pc : {"none", "poll", "call"}, slot : StreamSlots \cup {0}]
                     /\ lis'.pc # "none" => lis'.fd /\ lis'.wg = 1 /\ lis'.claimed = 1
                     /\ lis'.pc = "call" <=> lis.pc = "call"
                     /\ lis.pc = "call" => lis'.slot = lis.slot
<1>0. Posix!NoListener \in [claimed : {0, 1}, proto : {"tcp", "udp"}, running : BOOLEAN, wg : {0, 1},
                            fd : BOOLEAN, pc : {"none", "poll", "call"}, slot : StreamSlots \cup {0}]
  BY DEF Posix!NoListener
<1>1. ASSUME NEW proto \in {"tcp", "udp"}, Posix!ListenerInit(proto)
      PROVE  Frame /\ Ours /\ Theirs
  <2>1. Frame /\ app' = app /\ app.pc = "idle" /\ lis.pc = "none"
    BY <1>1 DEF Posix!ListenerInit, Posix!ListenerOwns
  <2>2. lis' = [Posix!NoListener EXCEPT !.claimed = 1, !.proto = proto, !.running = TRUE, !.wg = 1,
                                        !.fd = TRUE, !.pc = "poll"]
    BY <1>1 DEF Posix!ListenerInit
  <2>3. Theirs
    BY <2>1, <2>2, <1>0 DEF Posix!NoListener
  <2> QED BY <2>1, <2>3 DEF Posix!Shapes
<1>2. ASSUME Posix!ListenerStops
      PROVE  Frame /\ Ours /\ Theirs
  <2>1. Frame /\ app' = app /\ lis.pc = "poll" /\ lis' = [lis EXCEPT !.pc = "none", !.wg = 0]
    BY <1>2 DEF Posix!ListenerStops
  <2> QED BY <2>1 DEF Posix!Shapes
<1>3. ASSUME Posix!DeinitAsks
      PROVE  Frame /\ Ours /\ Theirs
  <2>1. /\ Frame /\ app.pc = "idle" /\ lis' = [lis EXCEPT !.running = FALSE]
        /\ app' = [Posix!Idle EXCEPT !.pc = "unlisten"]
    BY <1>3 DEF Posix!DeinitAsks
  <2>2. DOMAIN app' = {"pc", "slot"} /\ app'.pc = "unlisten"
    BY <2>1 DEF Posix!Idle
  <2>3. Theirs
    BY <2>1 DEF Posix!Shapes, Posix!ListenerOwns
  <2> QED BY <2>1, <2>2, <2>3
<1>4. ASSUME Posix!DeinitEnds
      PROVE  Frame /\ Ours /\ Theirs
  <2>1. Frame /\ app.pc = "unlisten" /\ lis.pc = "none" /\ lis' = Posix!NoListener /\ app' = Posix!Idle
    BY <1>4 DEF Posix!DeinitEnds, Posix!ListenerOwns
  <2>2. lis'.pc = "none" /\ DOMAIN app' = {"pc", "slot"} /\ app'.pc = "idle"
    BY <2>1 DEF Posix!NoListener, Posix!Idle
  <2>3. Theirs
    BY <2>1, <2>2, <1>0
  <2> QED BY <2>1, <2>2, <2>3
<1>5. Frame /\ Ours /\ Theirs
  <2> HIDE DEF Frame, Ours, Theirs
  <2> QED BY <1>1, <1>2, <1>3, <1>4
<1>6. (\A s \in StreamSlots : Posix!Stands(s)' <=> Posix!Stands(s)) /\ (\A t \in Threads : Posix!Running(t)' <=> Posix!Running(t))
  BY <1>5 DEF Posix!Stands, Posix!Running
<1>7. Posix!Shapes'
  BY <1>5, <1>6 DEF Posix!Shapes
<1>8. Posix!ContextsOwned' /\ Posix!ThreadsOwn'
  BY <1>5, <1>6 DEF Posix!ContextsOwned, Posix!ThreadsOwn
<1>9. Posix!AppOwns' /\ Posix!ListenerOwns'
  BY <1>5, <1>6 DEF Posix!AppOwns, Posix!ListenerOwns
<1> QED BY <1>7, <1>8, <1>9

LEMMA OwnImplied == Posix!OwnInv => UsesOwn
<1> SUFFICES ASSUME Posix!OwnInv PROVE UsesOwn
  OBVIOUS
<1>1. \A t \in Threads : rx[t].pc # "none" => ctx[rx[t].ctx].live /\ slot[rx[t].slot] = rx[t].ctx
  BY DEF Posix!OwnInv, Posix!Shapes, Posix!ThreadsOwn, Posix!ContextsOwned
<1>2. \A s \in StreamSlots : (slot[s] # "free" /\ ctx[slot[s]].proto = "dgram") => lis.fd
  BY DEF Posix!OwnInv, Posix!Shapes, Posix!ListenerOwns
<1> QED BY <1>1, <1>2 DEF UsesOwn, Posix!UsesOwn

(* _net_conn_rx_thread and the two closes: a receiving thread has its own live  *)
(* context and stream up to and in its last callback, and a datagram's stream   *)
(* does not outlive the listener's descriptor, for every number of contexts,    *)
(* slots and threads and whatever is sent, opened and closed, where the         *)
(* application keeps no datagram's stream past the accept callback and leaves a *)
(* stream with a callback to that callback to close.                            *)
THEOREM UsesOwnAlways ==
  ASSUME ~KeepsDatagrams, ~ClosesObserved
  PROVE  Spec => []UsesOwn
<1>1. Init => Posix!OwnInv
  BY OwnInit DEF Init
<1>2. Posix!OwnInv /\ [Next]_vars => Posix!OwnInv'
  <2> SUFFICES ASSUME Posix!OwnInv, [Next]_vars PROVE Posix!OwnInv'
    OBVIOUS
  <2>1. CASE Posix!Next
    <3>1. CASE Posix!Application
      BY <3>1, BeginnersKeep, ListenerKeeps, UserKeeps, CloseKeeps DEF Posix!Application
    <3>2. ASSUME NEW t \in Threads, Posix!Receiver(t) PROVE Posix!OwnInv'
      BY <3>2, ReceiverKeeps, LastCallbackKeeps DEF Posix!Receiver
    <3>3. CASE Posix!Listener
      BY <3>3, BeginnersKeep, AcceptCallbackKeeps, ListenerKeeps DEF Posix!Listener
    <3>4. CASE Posix!Peer
      BY <3>4, UserKeeps DEF Posix!Peer
    <3> QED BY <2>1, <3>1, <3>2, <3>3, <3>4 DEF Posix!Next
  <2>2. CASE UNCHANGED posixVars
    <3>1. ctx' = ctx /\ slot' = slot /\ rx' = rx /\ app' = app /\ lis' = lis
      BY <2>2 DEF posixVars
    <3>2. Posix!AppOwns'
      BY <3>1 DEF Posix!OwnInv, Posix!AppOwns
    <3>3. \A t \in Threads : Posix!Running(t)' <=> Posix!Running(t)
      BY <3>1 DEF Posix!Running
    <3> QED BY <3>1, <3>2, <3>3, OwnKept DEF Posix!OwnInv, Posix!Shapes, Posix!ThreadsOwn
  <2> QED BY <2>1, <2>2 DEF Next, vars
<1> QED BY <1>1, <1>2, OwnImplied, PTL DEF Spec

-----------------------------------------------------------------------------
(* The pool of the Pico.                                                    *)

ASSUME PoolConstants == "none" \notin Cores /\ IsFiniteSet(Cores)

LEMMA FirstRest ==
  ASSUME NEW S, NEW q \in Seq(S), NEW n \in Nat
  PROVE  /\ Pico!First(q, n) \in Seq(S) /\ Pico!DropFirst(q, n) \in Seq(S)
         /\ Len(Pico!First(q, n)) = IF n < Len(q) THEN n ELSE Len(q)
         /\ Len(Pico!DropFirst(q, n)) = IF n < Len(q) THEN Len(q) - n ELSE 0
         /\ Pico!First(q, n) \o Pico!DropFirst(q, n) = q
<1>1. CASE n < Len(q)
  <2>1. Pico!First(q, n) = SubSeq(q, 1, n) /\ Pico!DropFirst(q, n) = SubSeq(q, n + 1, Len(q))
    BY <1>1 DEF Pico!First, Pico!DropFirst
  <2>2. SubSeq(q, 1, n) \in Seq(S) /\ Len(SubSeq(q, 1, n)) = n
    BY <1>1
  <2>3. SubSeq(q, n + 1, Len(q)) \in Seq(S) /\ Len(SubSeq(q, n + 1, Len(q))) = Len(q) - n
    <3>1. \A i \in (n + 1) .. Len(q) : q[i] \in S
      OBVIOUS
    <3>2. n + 1 \in Int /\ Len(q) \in Int
      OBVIOUS
    <3> QED BY <1>1, <3>1, <3>2, SubSeqProperties
  <2>4. SubSeq(q, 1, n) \o SubSeq(q, n + 1, Len(q)) = q
    <3>1. 1 \in 1 .. Len(q) + 1 /\ n \in 1 - 1 .. Len(q) /\ Len(q) \in n .. Len(q)
      BY <1>1
    <3>2. SubSeq(q, 1, n) \o SubSeq(q, n + 1, Len(q)) = SubSeq(q, 1, Len(q))
      BY <3>1, ConcatAdjacentSubSeq
    <3> QED BY <3>2, SubSeqFull
  <2> QED BY <1>1, <2>1, <2>2, <2>3, <2>4
<1>2. CASE ~(n < Len(q))
  <2>1. Pico!First(q, n) = q
    BY <1>2 DEF Pico!First
  <2>2. Pico!DropFirst(q, n) = <<>>
    BY <1>2 DEF Pico!DropFirst
  <2> QED BY <1>2, <2>1, <2>2
<1> QED BY <1>1, <1>2

LEMMA LastOf ==
  ASSUME NEW S, NEW q \in Seq(S), q # <<>>
  PROVE  /\ Len(q) \in Nat \ {0} /\ q[Len(q)] \in S
         /\ SubSeq(q, 1, Len(q) - 1) \in Seq(S)
         /\ SubSeq(q, 1, Len(q) - 1) \o <<q[Len(q)]>> = q
OBVIOUS

LEMMA Regrouped ==
  ASSUME NEW S, NEW a \in Seq(S), NEW b \in Seq(S), NEW c \in Seq(S), NEW d \in Seq(S)
  PROVE  a \o (b \o c) \o d = a \o b \o (c \o d)
OBVIOUS

LEMMA PoolCardinality == \A S : Pico!Cardinality(S) = Cardinality(S)
BY DEF Pico!Cardinality, Cardinality

LEMMA BacksFinite ==
  ASSUME NEW i
  PROVE  IsFiniteSet(Pico!Backs(i)) /\ Cardinality(Pico!Backs(i)) \in Nat
<1>1. Pico!Backs(i) \subseteq Cores
  BY DEF Pico!Backs
<1> QED BY <1>1, PoolConstants, FS_Subset, FS_CardinalityType

\* A free slot has no owner, and nobody is about to take anything back.
LEMMA FreeSlot ==
  ASSUME Pico!ClaimsExact, NEW i \in Pico!Slots, claimed[i] = 0
  PROVE  owner[i] = "none"
<1>1. claimed[i] = Cardinality(Pico!Backs(i)) + Pico!Owns(i)
  BY PoolCardinality DEF Pico!ClaimsExact
<1> QED BY <1>1, BacksFinite DEF Pico!Owns

LEMMA ClaimsStep ==
  ASSUME Pico!PoolTypes, Pico!ClaimsExact, Pico!Next, \A k \in Cores : Pico!CoreOwns(k)
  PROVE  Pico!ClaimsExact'
<1> DEFINE Exact(i) == claimed[i] = Cardinality(Pico!Backs(i)) + Pico!Owns(i)
<1>0. \A i \in Pico!Slots : Exact(i)
  BY PoolCardinality DEF Pico!ClaimsExact
<1> SUFFICES ASSUME NEW i \in Pico!Slots PROVE Exact(i)'
  BY PoolCardinality DEF Pico!ClaimsExact
<1>1. ASSUME claimed'[i] = claimed[i], Pico!Owns(i)' = Pico!Owns(i), Pico!Backs(i)' = Pico!Backs(i)
      PROVE  Exact(i)'
  BY <1>0, <1>1
<1>2. \A k \in Cores : Pico!Busy(k) => core[k].at \in Pico!Slots /\ owner[core[k].at] = k /\ k # "none"
  BY PoolConstants DEF Pico!CoreOwns, Pico!Busy
<1>3. ASSUME NEW k \in Cores, core[k].pc # "back", NEW j \in Pico!Slots, owner[j] = k,
             Pico!Release(j), \A l \in Cores : core'[l] = core[l] \/ (l = k /\ core'[k].pc # "back")
      PROVE  Exact(i)'
  <2>1. Pico!Backs(i)' = Pico!Backs(i)
    BY <1>3 DEF Pico!Backs
  <2>2. Cardinality(Pico!Backs(i)) \in Nat
    BY BacksFinite
  <2> QED BY <1>0, <1>1, <1>3, <2>1, <2>2, PoolConstants DEF Pico!Release, Pico!Owns, Pico!PoolTypes
<1>4. ASSUME claimed' = claimed, owner' = owner,
             NEW k \in Cores, core[k].pc # "back", \A l \in Cores : core'[l] = core[l] \/ (l = k /\ core'[k].pc # "back")
      PROVE  Exact(i)'
  BY <1>1, <1>4 DEF Pico!Backs, Pico!Owns
<1>5. ASSUME NEW k \in Cores, Pico!Probe(k)
      PROVE  Exact(i)'
  <2> DEFINE j == core[k].at
  <2>1. /\ core[k].pc = "probe" /\ j \in Pico!Slots /\ claimed' = [claimed EXCEPT ![j] = @ + 1]
        /\ core' = [core EXCEPT ![k].pc = IF claimed[j] = 0 THEN "new" ELSE "back"]
    BY <1>5 DEF Pico!Probe, Pico!CoreOwns
  <2>2. Cardinality(Pico!Backs(i)) \in Nat /\ IsFiniteSet(Pico!Backs(i)) /\ k \notin Pico!Backs(i)
    BY <2>1, BacksFinite DEF Pico!Backs
  <2>3. CASE claimed[j] = 0
    <3>1. owner[j] = "none" /\ owner' = [owner EXCEPT ![j] = k]
      BY <1>5, <2>1, <2>3, FreeSlot DEF Pico!Probe, Pico!Taken
    <3>2. Pico!Backs(i)' = Pico!Backs(i)
      BY <2>1, <2>3 DEF Pico!Backs, Pico!PoolTypes
    <3> QED BY <1>0, <1>1, <2>1, <2>2, <3>1, <3>2, PoolConstants DEF Pico!Owns, Pico!PoolTypes
  <2>4. CASE claimed[j] # 0
    <3>1. owner' = owner
      BY <1>5, <2>4 DEF Pico!Probe
    <3>2. CASE i = j
      <4>1. Pico!Backs(i)' = Pico!Backs(i) \cup {k}
        BY <2>1, <2>4, <3>2 DEF Pico!Backs, Pico!PoolTypes
      <4>2. Cardinality(Pico!Backs(i)') = Cardinality(Pico!Backs(i)) + 1
        BY <2>2, <4>1, FS_AddElement
      <4> QED BY <1>0, <2>1, <2>2, <3>1, <3>2, <4>2 DEF Pico!Owns, Pico!PoolTypes
    <3>3. CASE i # j
      <4>1. Pico!Backs(i)' = Pico!Backs(i)
        BY <2>1, <2>4, <3>3 DEF Pico!Backs, Pico!PoolTypes
      <4> QED BY <1>1, <2>1, <3>1, <3>3, <4>1 DEF Pico!Owns, Pico!PoolTypes
    <3> QED BY <3>2, <3>3
  <2> QED BY <2>3, <2>4
<1>6. ASSUME NEW k \in Cores, Pico!ProbeBack(k)
      PROVE  Exact(i)'
  <2> DEFINE j == core[k].at
  <2>1. /\ core[k].pc = "back" /\ j \in Pico!Slots /\ claimed' = [claimed EXCEPT ![j] = @ - 1] /\ owner' = owner
        /\ \A l \in Cores : core'[l] = core[l] \/ l = k
        /\ core'[k].pc # "back"
    BY <1>6 DEF Pico!ProbeBack, Pico!CoreOwns, Pico!PoolTypes, Pico!Idle
  <2>2. Cardinality(Pico!Backs(i)) \in Nat /\ IsFiniteSet(Pico!Backs(i))
    BY BacksFinite
  <2>3. CASE i = j
    <3>1. Pico!Backs(i)' = Pico!Backs(i) \ {k} /\ k \in Pico!Backs(i)
      BY <2>1, <2>3 DEF Pico!Backs
    <3>2. Cardinality(Pico!Backs(i)') = Cardinality(Pico!Backs(i)) - 1
      BY <2>2, <3>1, FS_RemoveElement
    <3> QED BY <1>0, <2>1, <2>2, <2>3, <3>2 DEF Pico!Owns, Pico!PoolTypes
  <2>4. CASE i # j
    <3>1. Pico!Backs(i)' = Pico!Backs(i)
      BY <2>1, <2>4 DEF Pico!Backs
    <3> QED BY <1>1, <2>1, <2>4, <3>1 DEF Pico!Owns, Pico!PoolTypes
  <2> QED BY <2>3, <2>4
<1>7. ASSUME NEW k \in Cores, Pico!OpenFails(k) \/ Pico!DialFails(k) \/ Pico!FinishFails(k)
      PROVE  Exact(i)'
  <2>1. /\ core[k].pc \in {"new", "dial", "finish"} /\ Pico!Release(core[k].at)
        /\ core' = [core EXCEPT ![k] = Pico!Idle]
    BY <1>7 DEF Pico!OpenFails, Pico!DialFails, Pico!FinishFails
  <2>2. \A l \in Cores : core'[l] = core[l] \/ (l = k /\ core'[k].pc # "back")
    BY <2>1 DEF Pico!Idle, Pico!PoolTypes
  <2> QED BY <1>2, <1>3, <2>1, <2>2 DEF Pico!Busy
<1>8. ASSUME NEW k \in Cores, NEW j \in Pico!Slots, Pico!Close(k, j)
      PROVE  Exact(i)'
  <2>1. core[k].pc = "idle" /\ owner[j] = k /\ core' = core /\ Pico!Release(j)
    BY <1>8 DEF Pico!Close, Pico!Holds
  <2> QED BY <1>3, <1>8, <2>1
<1>9. CASE Pico!Accept
  <2>1. PICK j \in Pico!Slots, k \in Cores : /\ claimed[j] = 0 /\ claimed' = [claimed EXCEPT ![j] = 1]
                                             /\ owner' = [owner EXCEPT ![j] = k]
    BY <1>9 DEF Pico!Accept
  <2>2. core' = core /\ owner[j] = "none"
    BY <1>9, <2>1, FreeSlot DEF Pico!Accept
  <2>3. Pico!Backs(i)' = Pico!Backs(i) /\ Cardinality(Pico!Backs(i)) \in Nat
    BY <2>2, BacksFinite DEF Pico!Backs
  <2> QED BY <1>0, <1>1, <2>1, <2>2, <2>3, PoolConstants DEF Pico!Owns, Pico!PoolTypes
<1>10. ASSUME NEW k \in Cores,
              \/ \E kind \in {"tcp", "udp"} : Pico!Begin(k, kind)
              \/ Pico!OpenPcb(k) \/ Pico!DialEnds(k) \/ Pico!Finish(k) \/ Pico!Attach(k) \/ Pico!ReadCounts(k)
       PROVE  Exact(i)'
  <2>1. claimed' = claimed /\ owner' = owner /\ core[k].pc # "back" /\ \A l \in Cores : core'[l] = core[l] \/ l = k
    BY <1>10 DEF Pico!Begin, Pico!OpenPcb, Pico!DialEnds, Pico!Finish, Pico!Attach, Pico!ReadCounts, Pico!PoolTypes
  <2>2. core'[k].pc # "back"
    BY <1>10 DEF Pico!Begin, Pico!OpenPcb, Pico!DialEnds, Pico!Finish, Pico!Attach, Pico!ReadCounts, Pico!PoolTypes, Pico!Idle
  <2> QED BY <1>4, <2>1, <2>2
<1>11. ASSUME NEW k \in Cores, NEW j \in Pico!Slots, NEW n \in 1 .. 2, Pico!ReadTcp(k, j, n) \/ Pico!ReadUdp(k, j, n)
       PROVE  Exact(i)'
  <2>1. claimed' = claimed /\ owner' = owner /\ core[k].pc = "idle"
    BY <1>11 DEF Pico!ReadTcp, Pico!ReadUdp, Pico!Holds
  <2>2. core' = core \/ core' = [core EXCEPT ![k].pc = "count", ![k].at = j]
    BY <1>11 DEF Pico!ReadTcp, Pico!ReadUdp
  <2>3. core'[k].pc # "back" /\ \A l \in Cores : core'[l] = core[l] \/ l = k
    <3>1. CASE core' = core
      BY <2>1, <3>1
    <3>2. CASE core' = [core EXCEPT ![k].pc = "count", ![k].at = j]
      BY <3>2 DEF Pico!PoolTypes
    <3> QED BY <2>2, <3>1, <3>2
  <2> QED BY <1>4, <2>1, <2>3
<1>12. ASSUME claimed' = claimed, owner' = owner, core' = core
       PROVE  Exact(i)'
  BY <1>1, <1>12 DEF Pico!Backs, Pico!Owns
<1>13. ASSUME NEW k \in Cores,
              \/ Pico!ListenerInit(k) \/ Pico!ListenerDeinit(k)
              \/ \E d \in Dgrams : Pico!DgramWrite(k, d) \/ Pico!DgramClose(k, d)
              \/ \E j \in Pico!Slots : Pico!SeekBack(k, j) \/ Pico!Write(k, j)
       PROVE  Exact(i)'
  BY <1>12, <1>13 DEF Pico!ListenerInit, Pico!ListenerDeinit, Pico!DgramWrite, Pico!DgramClose, Pico!ListenerLeavesAlone,
     Pico!SeekBack, Pico!Write
<1>14. ASSUME \/ Pico!ListenerDatagram
              \/ \E j \in Pico!Slots : Pico!Connected(j) \/ Pico!Errored(j) \/ Pico!Segment(j) \/ Pico!Finished(j)
                                       \/ Pico!ClosedUnseen(j) \/ Pico!DatagramIn(j)
       PROVE  Exact(i)'
  BY <1>12, <1>14 DEF Pico!ListenerDatagram, Pico!ListenerLeavesAlone, Pico!Connected, Pico!Errored, Pico!Segment,
     Pico!Finished, Pico!ClosedUnseen, Pico!DatagramIn, Pico!LeavesAlone
<1> HIDE DEF Exact
<1>15. ASSUME NEW k \in Cores, Pico!Core(k) PROVE Exact(i)'
  BY <1>5, <1>6, <1>7, <1>8, <1>10, <1>11, <1>13, <1>15 DEF Pico!Core
<1> QED BY <1>9, <1>14, <1>15 DEF Pico!Next, Pico!LwIP

\* The fields of a context that the steps write.
LEMMA ConnUpdates ==
  ASSUME NEW r \in Pico!Conn
  PROVE  /\ \A kind \in {"tcp", "udp"} : [r EXCEPT !.kind = kind, !.pcb = "open"] \in Pico!Conn
         /\ [r EXCEPT !.pcb = "none", !.gone = TRUE] \in Pico!Conn
         /\ \A pcb \in {"none", "closed"} : [r EXCEPT !.pcb = pcb] \in Pico!Conn
         /\ [r EXCEPT !.stream = TRUE] \in Pico!Conn /\ [r EXCEPT !.attached = TRUE] \in Pico!Conn
         /\ [r EXCEPT !.done = TRUE] \in Pico!Conn /\ [r EXCEPT !.fin = TRUE] \in Pico!Conn
         /\ [r EXCEPT !.pcb = "freed", !.gone = TRUE, !.done = TRUE, !.err = @ \/ ~r.done] \in Pico!Conn
         /\ r.count > 0 => [r EXCEPT !.count = @ - 1] \in Pico!Conn
         /\ \A q \in Seq(Pico!Byte) : [r EXCEPT !.chain = q] \in Pico!Conn
         /\ \A q \in Seq(Pico!Byte), j \in Pico!Ring, n \in Nat, c \in 0 .. QueueCapacity :
              [r EXCEPT !.chain = q, !.lengths[j] = n, !.count = c] \in Pico!Conn
         /\ \A q, p, m \in Seq(Pico!Byte) : [r EXCEPT !.chain = q, !.pushback = p, !.last = m] \in Pico!Conn
         /\ \A q, p, m \in Seq(Pico!Byte), f \in Nat, h \in Pico!Ring :
              [r EXCEPT !.chain = q, !.pushback = p, !.last = m, !.front = f, !.head = h] \in Pico!Conn
         /\ \A p, m \in Seq(Pico!Byte) : [r EXCEPT !.pushback = p, !.last = m] \in Pico!Conn
<1> USE DEF Pico!Conn
<1>1. \A kind \in {"tcp", "udp"} : [r EXCEPT !.kind = kind, !.pcb = "open"] \in Pico!Conn
  OBVIOUS
<1>2. /\ [r EXCEPT !.pcb = "none", !.gone = TRUE] \in Pico!Conn
      /\ \A pcb \in {"none", "closed"} : [r EXCEPT !.pcb = pcb] \in Pico!Conn
  OBVIOUS
<1>3. [r EXCEPT !.stream = TRUE] \in Pico!Conn /\ [r EXCEPT !.attached = TRUE] \in Pico!Conn
  OBVIOUS
<1>4. [r EXCEPT !.done = TRUE] \in Pico!Conn /\ [r EXCEPT !.fin = TRUE] \in Pico!Conn
  OBVIOUS
<1>5. [r EXCEPT !.pcb = "freed", !.gone = TRUE, !.done = TRUE, !.err = @ \/ ~r.done] \in Pico!Conn
  OBVIOUS
<1>6. r.count > 0 => [r EXCEPT !.count = @ - 1] \in Pico!Conn
  <2>1. r.count > 0 => r.count - 1 \in 0 .. QueueCapacity
    BY Bounds
  <2> QED BY <2>1
<1>7. \A q \in Seq(Pico!Byte) : [r EXCEPT !.chain = q] \in Pico!Conn
  OBVIOUS
<1>8. \A q \in Seq(Pico!Byte), j \in Pico!Ring, n \in Nat, c \in 0 .. QueueCapacity :
        [r EXCEPT !.chain = q, !.lengths[j] = n, !.count = c] \in Pico!Conn
  OBVIOUS
<1>9. \A q, p, m \in Seq(Pico!Byte) : [r EXCEPT !.chain = q, !.pushback = p, !.last = m] \in Pico!Conn
  OBVIOUS
<1>10. \A q, p, m \in Seq(Pico!Byte), f \in Nat, h \in Pico!Ring :
         [r EXCEPT !.chain = q, !.pushback = p, !.last = m, !.front = f, !.head = h] \in Pico!Conn
  OBVIOUS
<1>11. \A p, m \in Seq(Pico!Byte) : [r EXCEPT !.pushback = p, !.last = m] \in Pico!Conn
  OBVIOUS
<1> HIDE DEF Pico!Conn
<1> QED BY <1>1, <1>2, <1>3, <1>4, <1>5, <1>6, <1>7, <1>8, <1>9, <1>10, <1>11

\* At most one byte is pushed back, and a read asks for one at least.
LEMMA RoomLeft == \A n \in 1 .. 2, m \in Nat : m <= 1 => n - m \in Nat
OBVIOUS

\* What a step writes has the type it should have: the contexts, then the rest.
LEMMA ConnTypes ==
  ASSUME Pico!PoolInv, Pico!Next
  PROVE  conn' \in [Pico!Slots -> Pico!Conn] /\ pgot' \in [Pico!Slots -> Seq(Pico!Byte)] /\ sent' \in [Pico!Slots -> Seq(Pico!Byte)]
<1> DEFINE Goal == conn' \in [Pico!Slots -> Pico!Conn] /\ pgot' \in [Pico!Slots -> Seq(Pico!Byte)]
                   /\ sent' \in [Pico!Slots -> Seq(Pico!Byte)]
<1>0. Pico!PoolTypes /\ \A k \in Cores : Pico!CoreOwns(k)
  BY DEF Pico!PoolInv
<1> USE <1>0 DEF Pico!PoolTypes
<1>1. <<>> \in Seq(Pico!Byte) /\ QueueCapacity \in Nat \ {0} /\ 0 \in Pico!Ring
  BY Bounds DEF Pico!Ring
<1>2. Pico!NoConn \in Pico!Conn
  BY <1>1 DEF Pico!NoConn, Pico!Conn
<1>3. ASSUME NEW i \in Pico!Slots, NEW who, Pico!Taken(i, who)
      PROVE  Goal
  BY <1>1, <1>2, <1>3 DEF Pico!Taken
<1>4. ASSUME NEW k \in Cores, Pico!Probe(k)
      PROVE  Goal
  <2>1. core[k].at \in Pico!Slots
    BY <1>4 DEF Pico!Probe, Pico!CoreOwns
  <2> QED BY <1>3, <1>4, <2>1 DEF Pico!Probe
<1>5. ASSUME NEW k \in Cores,
             Pico!OpenPcb(k) \/ Pico!DialFails(k) \/ Pico!FinishFails(k) \/ Pico!Finish(k) \/ Pico!Attach(k)
      PROVE  Goal
  <2> DEFINE i == core[k].at
  <2>1. i \in Pico!Slots /\ core[k].kind \in {"tcp", "udp"}
    BY <1>5 DEF Pico!OpenPcb, Pico!DialFails, Pico!FinishFails, Pico!Finish, Pico!Attach, Pico!CoreOwns
  <2>2. pgot' = pgot /\ sent' = sent
    BY <1>5 DEF Pico!OpenPcb, Pico!DialFails, Pico!FinishFails, Pico!Finish, Pico!Attach
  <2>3. CASE Pico!OpenPcb(k)
    <3>1. [conn[i] EXCEPT !.kind = core[k].kind, !.pcb = "open"] \in Pico!Conn
      BY <2>1, ConnUpdates
    <3> QED BY <2>1, <2>2, <2>3, <3>1 DEF Pico!OpenPcb
  <2>4. CASE Pico!DialFails(k)
    <3>1. [conn[i] EXCEPT !.pcb = "none", !.gone = TRUE] \in Pico!Conn
      BY <2>1, ConnUpdates
    <3> QED BY <2>1, <2>2, <2>4, <3>1 DEF Pico!DialFails
  <2>5. CASE Pico!FinishFails(k)
    <3>1. [conn[i] EXCEPT !.pcb = "none"] \in Pico!Conn
      BY <2>1, ConnUpdates
    <3> QED BY <2>1, <2>2, <2>5, <3>1 DEF Pico!FinishFails
  <2>6. CASE Pico!Finish(k)
    <3>1. [conn[i] EXCEPT !.stream = TRUE] \in Pico!Conn
      BY <2>1, ConnUpdates
    <3> QED BY <2>1, <2>2, <2>6, <3>1 DEF Pico!Finish
  <2>7. CASE Pico!Attach(k)
    <3>1. [conn[i] EXCEPT !.attached = TRUE] \in Pico!Conn
      BY <2>1, ConnUpdates
    <3> QED BY <2>1, <2>2, <2>7, <3>1 DEF Pico!Attach
  <2> QED BY <1>5, <2>3, <2>4, <2>5, <2>6, <2>7
<1>6. ASSUME NEW k \in Cores, Pico!ReadCounts(k)
      PROVE  Goal
  <2> DEFINE i == core[k].at
  <2>1. i \in Pico!Slots /\ conn[i].count > 0 /\ conn' = [conn EXCEPT ![i].count = @ - 1] /\ pgot' = pgot /\ sent' = sent
    BY <1>6 DEF Pico!ReadCounts, Pico!CoreOwns
  <2>2. conn[i].count - 1 \in 0 .. QueueCapacity
    BY <1>1, <2>1 DEF Pico!Conn
  <2>3. [conn[i] EXCEPT !.count = @ - 1] \in Pico!Conn
    BY <2>1, <2>2, ConnUpdates
  <2> QED BY <2>1, <2>3
<1>7. ASSUME NEW i \in Pico!Slots, Pico!Connected(i) \/ Pico!Errored(i) \/ Pico!Finished(i) \/ Pico!ClosedUnseen(i)
      PROVE  Goal
  <2>1. pgot' = pgot /\ sent' = sent
    BY <1>7 DEF Pico!Connected, Pico!Errored, Pico!Finished, Pico!ClosedUnseen, Pico!LeavesAlone
  <2>2. CASE Pico!Connected(i)
    <3>1. [conn[i] EXCEPT !.done = TRUE] \in Pico!Conn
      BY ConnUpdates
    <3> QED BY <2>1, <2>2, <3>1 DEF Pico!Connected
  <2>3. CASE Pico!Errored(i)
    <3>1. [conn[i] EXCEPT !.pcb = "freed", !.gone = TRUE, !.done = TRUE,
                          !.err = @ \/ ~conn[i].done] \in Pico!Conn
      BY ConnUpdates
    <3> QED BY <2>1, <2>3, <3>1 DEF Pico!Errored
  <2>4. CASE Pico!Finished(i)
    <3>1. [conn[i] EXCEPT !.fin = TRUE] \in Pico!Conn
      BY ConnUpdates
    <3> QED BY <2>1, <2>4, <3>1 DEF Pico!Finished
  <2>5. CASE Pico!ClosedUnseen(i)
    <3>1. [conn[i] EXCEPT !.pcb = "closed"] \in Pico!Conn
      BY ConnUpdates
    <3> QED BY <2>1, <2>5, <3>1 DEF Pico!ClosedUnseen
  <2> QED BY <1>7, <2>2, <2>3, <2>4, <2>5
<1>8. ASSUME NEW i \in Pico!Slots, Pico!Segment(i)
      PROVE  Goal
  <2> DEFINE byte == <<Len(sent[i]) + 1, 1>>
  <2>1. byte \in Pico!Byte
    BY DEF Pico!Byte
  <2>2. conn[i].chain \in Seq(Pico!Byte)
    BY DEF Pico!Conn
  <2>3. Append(sent[i], byte) \in Seq(Pico!Byte) /\ Append(conn[i].chain, byte) \in Seq(Pico!Byte)
    <3> HIDE DEF byte
    <3> QED BY <2>1, <2>2
  <2>4. /\ pgot' = pgot /\ sent' = [sent EXCEPT ![i] = Append(@, byte)]
        /\ conn' = [conn EXCEPT ![i].chain = Append(@, byte)]
    BY <1>8 DEF Pico!Segment, Pico!LeavesAlone
  <2> HIDE DEF byte
  <2>5. [conn[i] EXCEPT !.chain = Append(@, byte)] \in Pico!Conn
    BY <2>3, ConnUpdates
  <2> QED BY <2>3, <2>4, <2>5
<1>9. ASSUME NEW i \in Pico!Slots, Pico!DatagramIn(i)
      PROVE  Goal
  <2>1. PICK len \in 0 .. PicoSent - Len(sent[i]) :
          LET bytes == [j \in 1 .. len |-> <<Len(sent[i]) + 1, j>>] IN
          /\ conn' = [conn EXCEPT ![i].chain = @ \o bytes, ![i].lengths[Pico!NextEntry(i)] = Len(bytes),
                                  ![i].count = @ + 1]
          /\ sent' = [sent EXCEPT ![i] = @ \o bytes]
    BY <1>9 DEF Pico!DatagramIn
  <2> DEFINE bytes == [j \in 1 .. len |-> <<Len(sent[i]) + 1, j>>]
  <2>2. len \in Nat
    BY Bounds
  <2>3. bytes \in Seq(Pico!Byte) /\ Len(bytes) = len
    BY <2>2 DEF Pico!Byte
  <2>4. conn[i].chain \o bytes \in Seq(Pico!Byte) /\ sent[i] \o bytes \in Seq(Pico!Byte)
    <3>1. conn[i].chain \in Seq(Pico!Byte) /\ sent[i] \in Seq(Pico!Byte)
      BY DEF Pico!Conn
    <3> HIDE DEF bytes
    <3> QED BY <2>3, <3>1
  <2>5. pgot' = pgot /\ conn[i].count < QueueCapacity
    BY <1>9 DEF Pico!DatagramIn, Pico!LeavesAlone
  <2>6. conn[i].count + 1 \in 0 .. QueueCapacity
    BY <1>1, <2>5 DEF Pico!Conn
  <2>7. [conn[i].lengths EXCEPT ![Pico!NextEntry(i)] = len] \in [Pico!Ring -> Nat]
    BY <2>2 DEF Pico!Conn
  <2>8. /\ conn' = [conn EXCEPT ![i].chain = @ \o bytes, ![i].lengths[Pico!NextEntry(i)] = Len(bytes),
                                ![i].count = @ + 1]
        /\ sent' = [sent EXCEPT ![i] = @ \o bytes]
    BY <2>1
  <2> HIDE DEF bytes
  <2>9. Pico!NextEntry(i) \in Pico!Ring
    BY <1>1, SMTT(30) DEF Pico!NextEntry, Pico!Ring, Pico!Conn
  <2>10. [conn[i] EXCEPT !.chain = @ \o bytes, !.lengths[Pico!NextEntry(i)] = Len(bytes), !.count = @ + 1] \in Pico!Conn
    BY <2>2, <2>3, <2>4, <2>6, <2>9, ConnUpdates
  <2> QED BY <2>4, <2>5, <2>8, <2>10
<1>10. CASE Pico!Accept
  <2>1. [Pico!NoConn EXCEPT !.pcb = "open", !.done = TRUE, !.stream = TRUE, !.attached = TRUE] \in Pico!Conn
    BY <1>2 DEF Pico!Conn
  <2> QED BY <1>1, <1>10, <2>1 DEF Pico!Accept
<1>11. ASSUME NEW k \in Cores, NEW i \in Pico!Slots, Pico!Close(k, i)
       PROVE  Goal
  BY <1>2, <1>11 DEF Pico!Close
<1>12. ASSUME NEW k \in Cores, NEW i \in Pico!Slots, Pico!SeekBack(k, i), pgot[i] # <<>>
       PROVE  Goal
  <2>1. SubSeq(pgot[i], 1, Len(pgot[i]) - 1) \in Seq(Pico!Byte)
    BY <1>12, LastOf
  <2> QED BY <1>1, <1>12, <2>1 DEF Pico!SeekBack, Pico!Conn
<1>13. ASSUME NEW k \in Cores, NEW i \in Pico!Slots, NEW n \in 1 .. 2, Pico!ReadTcp(k, i, n),
              Len(conn[i].pushback) <= 1
       PROVE  Goal
  <2> DEFINE back == conn[i].pushback
             out  == back \o Pico!First(conn[i].chain, n - Len(back))
             rest == Pico!DropFirst(conn[i].chain, n - Len(back))
  <2>1. n - Len(back) \in Nat /\ back \in Seq(Pico!Byte) /\ conn[i].chain \in Seq(Pico!Byte)
    <3>1. conn[i] \in Pico!Conn
      OBVIOUS
    <3>2. back \in Seq(Pico!Byte) /\ conn[i].chain \in Seq(Pico!Byte)
      BY <3>1 DEF Pico!Conn
    <3>3. Len(back) \in Nat /\ Len(back) <= 1
      BY <1>13, <3>2
    <3>4. n - Len(back) \in Nat
      <4> HIDE DEF back
      <4> QED BY <3>3, RoomLeft
    <3> QED BY <3>2, <3>4
  <2>2. Pico!First(conn[i].chain, n - Len(back)) \in Seq(Pico!Byte) /\ rest \in Seq(Pico!Byte)
    BY <2>1, FirstRest
  <2>3. out \in Seq(Pico!Byte) /\ out # <<>>
    <3>1. out # <<>>
      BY <1>13 DEF Pico!ReadTcp
    <3> QED BY <2>1, <2>2, <3>1
  <2>4. out[Len(out)] \in Pico!Byte
    <3> HIDE DEF out
    <3> QED BY <2>3, LastOf
  <2>5. /\ conn' = [conn EXCEPT ![i].chain = rest, ![i].pushback = <<>>, ![i].last = <<out[Len(out)]>>]
        /\ pgot' = [pgot EXCEPT ![i] = @ \o out] /\ sent' = sent
    BY <1>13 DEF Pico!ReadTcp
  <2> HIDE DEF out, rest
  <2>6. [conn[i] EXCEPT !.chain = rest, !.pushback = <<>>, !.last = <<out[Len(out)]>>] \in Pico!Conn
    <3>1. <<out[Len(out)]>> \in Seq(Pico!Byte)
      BY <2>4
    <3> QED BY <1>1, <2>2, <3>1, ConnUpdates
  <2> QED BY <2>3, <2>5, <2>6
<1>14. ASSUME NEW k \in Cores, NEW i \in Pico!Slots, NEW n \in 1 .. 2, Pico!ReadUdp(k, i, n),
              Len(conn[i].pushback) <= 1, Pico!Available(i) \in Nat
       PROVE  Goal
  <2> DEFINE back == conn[i].pushback
             room == n - Len(back)
             want == IF Pico!Available(i) < room THEN Pico!Available(i) ELSE room
             out  == back \o Pico!First(conn[i].chain, want)
             ends == room > 0 /\ conn[i].count > 0 /\ want = Pico!Available(i)
             rest == Pico!DropFirst(conn[i].chain, want)
             last1 == IF out = <<>> THEN conn[i].last ELSE <<out[Len(out)]>>
             front1 == IF ends THEN 0 ELSE conn[i].front + want
             head1 == IF ends THEN (conn[i].head + 1) % QueueCapacity ELSE conn[i].head
  <2>0. conn[i] \in Pico!Conn
    OBVIOUS
  <2>1. /\ back \in Seq(Pico!Byte) /\ conn[i].chain \in Seq(Pico!Byte) /\ conn[i].last \in Seq(Pico!Byte)
        /\ conn[i].front \in Nat /\ conn[i].head \in Pico!Ring
    BY <2>0 DEF Pico!Conn
  <2>2. want \in Nat
    <3>1. Len(back) \in Nat /\ Len(back) <= 1
      BY <1>14, <2>1
    <3>2. room \in Nat
      <4> HIDE DEF back
      <4> QED BY <3>1, RoomLeft
    <3> HIDE DEF room
    <3> QED BY <1>14, <3>2
  <2>3. front1 \in Nat /\ head1 \in Pico!Ring
    <3>1. (conn[i].head + 1) % QueueCapacity \in Pico!Ring
      BY <1>1, <2>1, SMTT(30) DEF Pico!Ring
    <3>2. conn[i].front + want \in Nat
      <4> HIDE DEF want
      <4> QED BY <2>1, <2>2
    <3> HIDE DEF want, ends
    <3> QED BY <2>1, <3>1, <3>2
  <2>4. Pico!First(conn[i].chain, want) \in Seq(Pico!Byte) /\ rest \in Seq(Pico!Byte)
    <3> HIDE DEF want
    <3> QED BY <2>1, <2>2, FirstRest
  <2>5. out \in Seq(Pico!Byte)
    <3> HIDE DEF want
    <3> QED BY <2>1, <2>4
  <2>6. last1 \in Seq(Pico!Byte)
    <3> HIDE DEF out
    <3>1. CASE out = <<>>
      BY <2>1, <3>1
    <3>2. CASE out # <<>>
      <4>1. out[Len(out)] \in Pico!Byte
        BY <2>5, <3>2, LastOf
      <4> QED BY <3>2, <4>1
    <3> QED BY <3>1, <3>2
  <2>7. /\ conn' = [conn EXCEPT ![i].chain = rest, ![i].pushback = <<>>, ![i].last = last1,
                                ![i].front = front1, ![i].head = head1]
        /\ pgot' = [pgot EXCEPT ![i] = @ \o out] /\ sent' = sent
    BY <1>14 DEF Pico!ReadUdp
  <2> HIDE DEF back, room, want, out, ends, rest, last1, front1, head1
  <2>8. [conn[i] EXCEPT !.chain = rest, !.pushback = <<>>, !.last = last1, !.front = front1, !.head = head1] \in Pico!Conn
    BY <1>1, <2>0, <2>3, <2>4, <2>6, ConnUpdates
  <2> QED BY <2>5, <2>7, <2>8
<1>15. ASSUME conn' = conn, pgot' = pgot, sent' = sent
       PROVE  Goal
  BY <1>15
<1>16. ASSUME NEW k \in Cores,
              \/ \E kind \in {"tcp", "udp"} : Pico!Begin(k, kind)
              \/ Pico!ProbeBack(k) \/ Pico!OpenFails(k) \/ Pico!DialEnds(k)
              \/ Pico!ListenerInit(k) \/ Pico!ListenerDeinit(k)
              \/ \E d \in Dgrams : Pico!DgramWrite(k, d) \/ Pico!DgramClose(k, d)
              \/ \E j \in Pico!Slots : Pico!Write(k, j)
       PROVE  Goal
  BY <1>15, <1>16 DEF Pico!Begin, Pico!ProbeBack, Pico!OpenFails, Pico!DialEnds, Pico!ListenerInit, Pico!ListenerDeinit,
     Pico!DgramWrite, Pico!DgramClose, Pico!ListenerLeavesAlone, Pico!Write
<1>17. CASE Pico!ListenerDatagram
  BY <1>15, <1>17 DEF Pico!ListenerDatagram, Pico!ListenerLeavesAlone
<1>18. ASSUME NEW k \in Cores, NEW i \in Pico!Slots, Pico!Holds(k, i)
       PROVE  /\ Len(conn[i].pushback) <= 1 /\ (conn[i].last # <<>> => pgot[i] # <<>>)
              /\ conn[i].kind = "udp" => Pico!Available(i) \in Nat
  <2>1. conn[i].stream /\ Pico!Kept(i) /\ conn[i] \in Pico!Conn
    BY <1>18 DEF Pico!Holds, Pico!PoolInv
  <2>2. ASSUME conn[i].kind = "udp" PROVE Pico!Available(i) \in Nat
    <3>1. ~Pico!Updating(i)
      BY <1>18 DEF Pico!Updating, Pico!Holds, Pico!PoolInv, Pico!CoreOwns, Pico!Busy
    <3>2. conn[i].count > 0 => conn[i].front <= conn[i].lengths[conn[i].head]
      BY <2>1, <2>2, <3>1 DEF Pico!Kept, Pico!QueueKept, Pico!Queued
    <3>3. conn[i].count \in Nat /\ conn[i].front \in Nat /\ conn[i].lengths[conn[i].head] \in Nat
      BY <1>1, <2>1 DEF Pico!Conn
    <3> QED BY <3>2, <3>3 DEF Pico!Available
  <2> QED BY <2>1, <2>2 DEF Pico!Kept
<1> HIDE DEF Goal
<1>19. ASSUME NEW k \in Cores, Pico!Core(k)
       PROVE  Goal
  <2>1. ASSUME NEW i \in Pico!Slots, Pico!SeekBack(k, i) PROVE Goal
    BY <1>12, <1>18, <2>1 DEF Pico!SeekBack
  <2>2. ASSUME NEW i \in Pico!Slots, NEW n \in 1 .. 2, Pico!ReadTcp(k, i, n) PROVE Goal
    BY <1>13, <1>18, <2>2 DEF Pico!ReadTcp
  <2>3. ASSUME NEW i \in Pico!Slots, NEW n \in 1 .. 2, Pico!ReadUdp(k, i, n) PROVE Goal
    BY <1>14, <1>18, <2>3 DEF Pico!ReadUdp
  <2> QED BY <1>4, <1>5, <1>6, <1>11, <1>16, <1>19, <2>1, <2>2, <2>3 DEF Pico!Core
<1> QED BY <1>7, <1>8, <1>9, <1>10, <1>17, <1>19 DEF Pico!Next, Pico!LwIP, Goal

\* What a use of a control block leaves in the record of faults.
LEMMA UseKinds ==
  ASSUME NEW i, NEW who, Pico!Uses(i, who)
  PROVE  \/ fault' = fault \/ fault' = fault \cup {"closed"}
         \/ conn[i].pcb \notin {"open", "closed"} /\ fault' = fault \cup {who}
<1>1. CASE conn[i].pcb = "open"
  BY <1>1 DEF Pico!Uses
<1>2. CASE conn[i].pcb = "closed"
  BY <1>2 DEF Pico!Uses
<1>3. CASE conn[i].pcb \notin {"open", "closed"}
  BY <1>3 DEF Pico!Uses
<1> QED BY <1>1, <1>2, <1>3

LEMMA RestTypes ==
  ASSUME Pico!PoolInv, Pico!Next
  PROVE  Pico!PoolTypes'
<1> DEFINE Core == [pc : {"idle", "probe", "back", "new", "dial", "finish", "attach", "count"},
                    at : 0 .. Capacity, kind : {"tcp", "udp"}]
           Kinds == {"opening", "closed", "stream", "listener"}
           Goal == /\ claimed' \in [Pico!Slots -> Int] /\ core' \in [Cores -> Core]
                   /\ owner' \in [Pico!Slots -> Cores \cup {"none"}]
                   /\ plis' \in {"none", "tcp", "udp"} /\ dgram' \in [Dgrams -> BOOLEAN] /\ fault' \subseteq Kinds
<1>0. Pico!PoolTypes /\ \A k \in Cores : Pico!CoreOwns(k)
  BY DEF Pico!PoolInv
<1>1. /\ claimed \in [Pico!Slots -> Int] /\ core \in [Cores -> Core]
      /\ owner \in [Pico!Slots -> Cores \cup {"none"}]
      /\ plis \in {"none", "tcp", "udp"} /\ dgram \in [Dgrams -> BOOLEAN] /\ fault \subseteq Kinds
  BY <1>0 DEF Pico!PoolTypes
<1>2. \A k \in Cores : core[k].pc # "idle" => core[k].at \in Pico!Slots
  BY <1>0 DEF Pico!CoreOwns
<1>3. Pico!Idle \in Core /\ Pico!Slots \subseteq 0 .. Capacity /\ 1 \in Pico!Slots
  BY Bounds DEF Pico!Idle, Pico!Slots
<1>4. \A r \in Core : /\ \A pc \in {"new", "back", "dial", "finish", "attach", "count"} : [r EXCEPT !.pc = pc] \in Core
                      /\ \A j \in 0 .. Capacity : /\ [r EXCEPT !.pc = "probe", !.at = j] \in Core
                                                  /\ [r EXCEPT !.pc = "count", !.at = j] \in Core
  OBVIOUS
<1>5. \A j \in Pico!Slots : Pico!Release(j) => /\ claimed' \in [Pico!Slots -> Int]
                                               /\ owner' \in [Pico!Slots -> Cores \cup {"none"}]
  BY <1>1 DEF Pico!Release
<1>6. ASSUME NEW k \in Cores, NEW kind \in {"tcp", "udp"}, Pico!Begin(k, kind) PROVE Goal
  <2>1. [pc |-> "probe", at |-> 1, kind |-> kind] \in Core
    BY <1>3
  <2> HIDE DEF Core
  <2> QED BY <1>1, <1>6, <2>1 DEF Pico!Begin
<1> HIDE DEF Core
<1>7. ASSUME NEW k \in Cores, Pico!Probe(k) PROVE Goal
  <2>1. core[k].at \in Pico!Slots
    BY <1>2, <1>7 DEF Pico!Probe
  <2>2. [core[k] EXCEPT !.pc = IF claimed[core[k].at] = 0 THEN "new" ELSE "back"] \in Core
    BY <1>1, <1>4
  <2>3. core' = [core EXCEPT ![k] = [core[k] EXCEPT !.pc = IF claimed[core[k].at] = 0 THEN "new" ELSE "back"]]
    BY <1>7 DEF Pico!Probe
  <2>4. core' \in [Cores -> Core]
    BY <1>1, <2>2, <2>3
  <2>5. claimed' \in [Pico!Slots -> Int] /\ plis' = plis /\ dgram' = dgram /\ fault' = fault
    BY <1>1, <1>7, <2>1 DEF Pico!Probe
  <2>6. owner' \in [Pico!Slots -> Cores \cup {"none"}]
    BY <1>1, <1>7 DEF Pico!Probe, Pico!Taken
  <2> QED BY <1>1, <2>4, <2>5, <2>6
<1>8. ASSUME NEW k \in Cores, Pico!ProbeBack(k) PROVE Goal
  <2> DEFINE i == core[k].at
  <2>1. /\ i \in Pico!Slots /\ claimed' = [claimed EXCEPT ![i] = @ - 1] /\ owner' = owner
        /\ core' = [core EXCEPT ![k] = IF i = Capacity THEN Pico!Idle ELSE [@ EXCEPT !.pc = "probe", !.at = i + 1]]
        /\ plis' = plis /\ dgram' = dgram /\ fault' = fault
    BY <1>2, <1>8 DEF Pico!ProbeBack
  <2>2. i # Capacity => i + 1 \in 0 .. Capacity
    BY <2>1, Bounds DEF Pico!Slots
  <2> HIDE DEF i
  <2>3. (IF i = Capacity THEN Pico!Idle ELSE [core[k] EXCEPT !.pc = "probe", !.at = i + 1]) \in Core
    BY <1>1, <1>3, <1>4, <2>2
  <2>4. core' \in [Cores -> Core]
    BY <1>1, <2>1, <2>3
  <2> QED BY <1>1, <2>1, <2>4
<1>9. ASSUME NEW k \in Cores, Pico!OpenFails(k) \/ Pico!DialFails(k) \/ Pico!FinishFails(k) PROVE Goal
  <2>1. core[k].at \in Pico!Slots /\ Pico!Release(core[k].at) /\ core' = [core EXCEPT ![k] = Pico!Idle]
    BY <1>2, <1>9 DEF Pico!OpenFails, Pico!DialFails, Pico!FinishFails
  <2>2. plis' = plis /\ dgram' = dgram /\ fault' \subseteq Kinds
    BY <1>1, <1>9, UseKinds DEF Pico!OpenFails, Pico!DialFails, Pico!FinishFails
  <2> QED BY <1>1, <1>3, <1>5, <2>1, <2>2
<1>10. ASSUME NEW k \in Cores, Pico!OpenPcb(k) \/ Pico!DialEnds(k) \/ Pico!Finish(k) \/ Pico!Attach(k) \/ Pico!ReadCounts(k)
       PROVE  Goal
  <2>1. claimed' = claimed /\ owner' = owner /\ plis' = plis /\ dgram' = dgram /\ fault' \subseteq Kinds
    BY <1>1, <1>10, UseKinds DEF Pico!OpenPcb, Pico!DialEnds, Pico!Finish, Pico!Attach, Pico!ReadCounts
  <2>2. \/ \E pc \in {"dial", "finish", "attach"} : core' = [core EXCEPT ![k].pc = pc]
        \/ core' = [core EXCEPT ![k] = Pico!Idle]
    BY <1>10 DEF Pico!OpenPcb, Pico!DialEnds, Pico!Finish, Pico!Attach, Pico!ReadCounts
  <2>3. \E r \in Core : core' = [core EXCEPT ![k] = r]
    <3>1. CASE core' = [core EXCEPT ![k] = Pico!Idle]
      BY <1>3, <3>1
    <3>2. ASSUME NEW pc \in {"dial", "finish", "attach"}, core' = [core EXCEPT ![k].pc = pc]
          PROVE  \E r \in Core : core' = [core EXCEPT ![k] = r]
      <4>1. [core[k] EXCEPT !.pc = pc] \in Core
        BY <1>1, <1>4
      <4> QED BY <3>2, <4>1
    <3> QED BY <2>2, <3>1, <3>2
  <2> QED BY <1>1, <2>1, <2>3
<1>11. ASSUME NEW k \in Cores, NEW i \in Pico!Slots, NEW n \in 1 .. 2, Pico!ReadTcp(k, i, n) \/ Pico!ReadUdp(k, i, n)
       PROVE  Goal
  <2>1. claimed' = claimed /\ owner' = owner /\ plis' = plis /\ dgram' = dgram /\ fault' = fault
    BY <1>11 DEF Pico!ReadTcp, Pico!ReadUdp
  <2>2. core' = core \/ core' = [core EXCEPT ![k].pc = "count", ![k].at = i]
    BY <1>11 DEF Pico!ReadTcp, Pico!ReadUdp
  <2>3. [core[k] EXCEPT !.pc = "count", !.at = i] \in Core
    BY <1>1, <1>3, <1>4
  <2>4. core' = core \/ core' = [core EXCEPT ![k] = [core[k] EXCEPT !.pc = "count", !.at = i]]
    BY <2>2
  <2> QED BY <1>1, <2>1, <2>3, <2>4
<1>12. ASSUME NEW k \in Cores, NEW i \in Pico!Slots, Pico!SeekBack(k, i) \/ Pico!Write(k, i) PROVE Goal
  BY <1>1, <1>12, UseKinds DEF Pico!SeekBack, Pico!Write
<1>13. ASSUME NEW k \in Cores, NEW i \in Pico!Slots, Pico!Close(k, i) PROVE Goal
  <2>1. core' = core /\ plis' = plis /\ dgram' = dgram /\ Pico!Release(i) /\ (fault' = fault \/ Pico!Uses(i, "stream"))
    BY <1>13 DEF Pico!Close
  <2>2. fault' \subseteq Kinds
    BY <1>1, <2>1, UseKinds
  <2> QED BY <1>1, <1>5, <2>1, <2>2
<1>14. ASSUME NEW k \in Cores, Pico!ListenerInit(k) \/ Pico!ListenerDeinit(k) PROVE Goal
  BY <1>1, <1>14 DEF Pico!ListenerInit, Pico!ListenerDeinit, Pico!ListenerLeavesAlone
<1>15. ASSUME NEW k \in Cores, NEW d \in Dgrams, Pico!DgramWrite(k, d) \/ Pico!DgramClose(k, d) PROVE Goal
  BY <1>1, <1>15 DEF Pico!DgramWrite, Pico!DgramClose, Pico!ListenerLeavesAlone
<1>16. CASE Pico!ListenerDatagram
  <2>1. Goal
    BY <1>1, <1>16 DEF Pico!ListenerDatagram, Pico!ListenerLeavesAlone
  <2> QED BY <2>1, ConnTypes DEF Pico!PoolTypes, Core
<1>17. ASSUME NEW i \in Pico!Slots,
              \/ Pico!Connected(i) \/ Pico!Errored(i) \/ Pico!Segment(i) \/ Pico!Finished(i)
              \/ Pico!ClosedUnseen(i) \/ Pico!DatagramIn(i)
       PROVE  Goal
  <2>1. Pico!LeavesAlone
    BY <1>17 DEF Pico!Connected, Pico!Errored, Pico!Segment, Pico!Finished, Pico!ClosedUnseen, Pico!DatagramIn
  <2> QED BY <1>1, <2>1 DEF Pico!LeavesAlone
<1>18. CASE Pico!Accept
  <2>1. Goal
    BY <1>1, <1>18 DEF Pico!Accept
  <2> QED BY <2>1, ConnTypes DEF Pico!PoolTypes, Core
<1> HIDE DEF Goal
<1>19. ASSUME NEW k \in Cores, Pico!Core(k) PROVE Goal
  BY <1>6, <1>7, <1>8, <1>9, <1>10, <1>11, <1>12, <1>13, <1>14, <1>15, <1>19 DEF Pico!Core
<1>20. Goal => Pico!PoolTypes'
  BY ConnTypes DEF Goal, Pico!PoolTypes, Core
<1> QED BY <1>16, <1>17, <1>18, <1>19, <1>20 DEF Pico!Next, Pico!LwIP

\* A listener's datagram streams are closed before it is, and no step but an
\* opening's own uses a control block that an error callback freed.
LEMMA FaultStep ==
  ASSUME Pico!PoolInv, Pico!Next, AnswersFirst
  PROVE  Pico!ListenerKept' /\ Pico!NoFreedPcb'
<1> USE DEF Pico!NoFreedPcb, Pico!ListenerKept
<1>0. /\ "stream" \notin fault /\ "listener" \notin fault /\ (plis = "none" => \A d \in Dgrams : ~dgram[d])
      /\ \A k \in Cores : Pico!CoreOwns(k)
      /\ \A i \in Pico!Slots : Pico!SlotOwned(i)
      /\ dgram \in [Dgrams -> BOOLEAN]
  BY DEF Pico!PoolInv, Pico!PoolTypes
<1> DEFINE Same == plis' = plis /\ dgram' = dgram /\ fault' = fault
           Goal == Pico!ListenerKept' /\ Pico!NoFreedPcb'
<1>1. ASSUME Same PROVE Goal
  BY <1>0, <1>1
<1>2. ASSUME NEW k \in Cores, Pico!FinishFails(k) \/ Pico!Attach(k) PROVE Goal
  <2>1. plis' = plis /\ dgram' = dgram /\ Pico!Uses(core[k].at, "opening")
    BY <1>2 DEF Pico!FinishFails, Pico!Attach
  <2> QED BY <1>0, <2>1, UseKinds
<1>3. ASSUME NEW k \in Cores, NEW i \in Pico!Slots, Pico!Write(k, i) \/ Pico!Close(k, i) PROVE Goal
  <2>1. conn[i].pcb \in {"open", "closed"} \/ conn[i].gone
    BY <1>0, <1>3 DEF Pico!Write, Pico!Close, Pico!Holds, Pico!SlotOwned, Pico!Standing
  <2>2. plis' = plis /\ dgram' = dgram /\ (fault' = fault \/ (~conn[i].gone /\ Pico!Uses(i, "stream")))
    BY <1>3 DEF Pico!Write, Pico!Close
  <2> QED BY <1>0, <2>1, <2>2, UseKinds
<1>4. ASSUME NEW k \in Cores, Pico!ListenerInit(k) \/ Pico!ListenerDeinit(k) PROVE Goal
  BY <1>0, <1>4 DEF Pico!ListenerInit, Pico!ListenerDeinit
<1>5. ASSUME NEW k \in Cores, NEW d \in Dgrams, Pico!DgramWrite(k, d) \/ Pico!DgramClose(k, d) PROVE Goal
  <2>1. /\ dgram[d] /\ plis' = plis /\ (dgram' = dgram \/ dgram' = [dgram EXCEPT ![d] = FALSE])
        /\ fault' = fault \/ fault' = fault \cup (IF plis = "none" THEN {"listener"} ELSE {})
    BY <1>5 DEF Pico!DgramWrite, Pico!DgramClose
  <2>2. plis # "none"
    BY <1>0, <2>1
  <2>3. "stream" \notin fault' /\ "listener" \notin fault'
    BY <1>0, <2>1, <2>2
  <2>4. plis' # "none"
    BY <2>1, <2>2
  <2> QED BY <2>3, <2>4
<1>6. CASE Pico!ListenerDatagram
  BY <1>0, <1>6 DEF Pico!ListenerDatagram
<1>7. ASSUME NEW k \in Cores,
             \/ \E kind \in {"tcp", "udp"} : Pico!Begin(k, kind)
             \/ Pico!Probe(k) \/ Pico!ProbeBack(k) \/ Pico!OpenFails(k) \/ Pico!OpenPcb(k) \/ Pico!DialFails(k)
             \/ Pico!DialEnds(k) \/ Pico!Finish(k) \/ Pico!ReadCounts(k)
      PROVE  Goal
  <2>1. Same
    BY <1>7 DEF Pico!Begin, Pico!Probe, Pico!ProbeBack, Pico!OpenFails, Pico!OpenPcb, Pico!DialFails, Pico!DialEnds,
       Pico!Finish, Pico!ReadCounts
  <2> QED BY <1>1, <2>1
<1>8. ASSUME NEW k \in Cores, NEW i \in Pico!Slots,
             Pico!SeekBack(k, i) \/ \E n \in 1 .. 2 : Pico!ReadTcp(k, i, n) \/ Pico!ReadUdp(k, i, n)
      PROVE  Goal
  <2>1. Same
    BY <1>8 DEF Pico!SeekBack, Pico!ReadTcp, Pico!ReadUdp
  <2> QED BY <1>1, <2>1
<1>9. CASE Pico!Accept
  <2>1. Same
    BY <1>9 DEF Pico!Accept
  <2> QED BY <1>1, <2>1
<1>10. ASSUME NEW i \in Pico!Slots,
              \/ Pico!Connected(i) \/ Pico!Errored(i) \/ Pico!Segment(i) \/ Pico!Finished(i)
              \/ Pico!ClosedUnseen(i) \/ Pico!DatagramIn(i)
       PROVE  Goal
  <2>1. Pico!LeavesAlone
    BY <1>10 DEF Pico!Connected, Pico!Errored, Pico!Segment, Pico!Finished, Pico!ClosedUnseen, Pico!DatagramIn
  <2> QED BY <1>1, <2>1 DEF Pico!LeavesAlone
<1> HIDE DEF Goal
<1>11. ASSUME NEW k \in Cores, Pico!Core(k) PROVE Goal
  BY <1>2, <1>3, <1>4, <1>5, <1>7, <1>8, <1>11 DEF Pico!Core
<1> QED BY <1>6, <1>9, <1>10, <1>11 DEF Pico!Next, Pico!LwIP, Goal

\* A slot that a step leaves alone, and whose readers it leaves alone, stays sound.
LEMMA SlotSame ==
  ASSUME NEW j \in Pico!Slots, Pico!SlotOwned(j), Pico!Kept(j),
         conn'[j] = conn[j], owner'[j] = owner[j], pgot'[j] = pgot[j], sent'[j] = sent[j],
         \A k \in Cores : core'[k] = core[k]
                          \/ /\ core[k].pc \in {"attach", "count"} => core[k].at # j
                             /\ core'[k].pc \in {"attach", "count"} => core'[k].at # j
  PROVE  Pico!SlotOwned(j)' /\ Pico!Kept(j)'
<1>1. Pico!Updating(j)' <=> Pico!Updating(j)
  BY DEF Pico!Updating
<1>2. (\E k \in Cores : core[k].pc = "attach" /\ core[k].at = j) <=> (\E k \in Cores : core[k].pc = "attach" /\ core[k].at = j)'
  OBVIOUS
<1>3. Pico!SlotOwned(j)'
  BY <1>2 DEF Pico!SlotOwned, Pico!Standing
<1>4. Pico!Queued(j)' = Pico!Queued(j)
  BY <1>1 DEF Pico!Queued
<1>5. \A n : Pico!Cuts(j, n)' = Pico!Cuts(j, n) /\ \A ends : Pico!Cut(j, n, ends)' <=> Pico!Cut(j, n, ends)
  BY DEF Pico!Cuts, Pico!Cut
<1>6. Pico!QueueKept(j)' <=> Pico!QueueKept(j)
  BY <1>4, <1>5 DEF Pico!QueueKept
<1>7. Pico!Kept(j)'
  BY <1>6 DEF Pico!Kept
<1> QED BY <1>3, <1>7

\* What a step on slot i leaves to show.
LEMMA Elsewhere ==
  ASSUME Pico!PoolInv, NEW i \in Pico!Slots,
         \A j \in Pico!Slots : j # i => conn'[j] = conn[j] /\ owner'[j] = owner[j] /\ pgot'[j] = pgot[j] /\ sent'[j] = sent[j],
         \A k \in Cores : core'[k] = core[k]
                          \/ /\ core[k].pc \in {"attach", "count"} => core[k].at = i
                             /\ core'[k].pc \in {"attach", "count"} => core'[k].at = i,
         \A k \in Cores : (core'[k] = core[k] /\ (Pico!Busy(k) => core[k].at # i)) \/ Pico!CoreOwns(k)',
         Pico!SlotOwned(i)', Pico!Kept(i)'
  PROVE  (\A k \in Cores : Pico!CoreOwns(k)') /\ (\A j \in Pico!Slots : Pico!SlotOwned(j)' /\ Pico!Kept(j)')
<1>1. ASSUME NEW k \in Cores PROVE Pico!CoreOwns(k)'
  <2>1. CASE core'[k] = core[k] /\ (Pico!Busy(k) => core[k].at # i)
    <3>1. Pico!CoreOwns(k)
      BY DEF Pico!PoolInv
    <3> QED BY <2>1, <3>1 DEF Pico!CoreOwns, Pico!Busy, Pico!Fresh, Pico!Standing
  <2> QED BY <2>1
<1>2. ASSUME NEW j \in Pico!Slots PROVE Pico!SlotOwned(j)' /\ Pico!Kept(j)'
  <2>1. CASE j # i
    <3>1. Pico!SlotOwned(j) /\ Pico!Kept(j)
      BY DEF Pico!PoolInv
    <3>2. \A k \in Cores : core'[k] = core[k]
                          \/ /\ core[k].pc \in {"attach", "count"} => core[k].at # j
                             /\ core'[k].pc \in {"attach", "count"} => core'[k].at # j
      BY <2>1
    <3> QED BY <2>1, <3>1, <3>2, SlotSame
  <2> QED BY <2>1
<1> QED BY <1>1, <1>2

\* Nothing but the calls of cores that have no slot moves on.
LEMMA IdleStep ==
  ASSUME Pico!PoolInv, conn' = conn, owner' = owner, pgot' = pgot, sent' = sent,
         \A k \in Cores : core'[k] = core[k]
                          \/ /\ ~Pico!Busy(k) /\ ~Pico!Busy(k)'
                             /\ core'[k].pc # "idle" => core'[k].at \in Pico!Slots
  PROVE  (\A k \in Cores : Pico!CoreOwns(k)') /\ (\A j \in Pico!Slots : Pico!SlotOwned(j)' /\ Pico!Kept(j)')
<1>1. ASSUME NEW k \in Cores PROVE Pico!CoreOwns(k)'
  <2>1. Pico!CoreOwns(k)
    BY DEF Pico!PoolInv
  <2>2. CASE core'[k] = core[k]
    BY <2>1, <2>2 DEF Pico!CoreOwns, Pico!Busy, Pico!Fresh, Pico!Standing
  <2>3. CASE core'[k] # core[k]
    BY <2>3 DEF Pico!CoreOwns, Pico!Busy
  <2> QED BY <2>2, <2>3
<1>2. ASSUME NEW j \in Pico!Slots PROVE Pico!SlotOwned(j)' /\ Pico!Kept(j)'
  <2>1. Pico!SlotOwned(j) /\ Pico!Kept(j)
    BY DEF Pico!PoolInv
  <2>2. \A k \in Cores : core'[k] = core[k]
                          \/ /\ core[k].pc \in {"attach", "count"} => core[k].at # j
                             /\ core'[k].pc \in {"attach", "count"} => core'[k].at # j
    BY DEF Pico!Busy
  <2> QED BY <2>1, <2>2, SlotSame
<1> QED BY <1>1, <1>2

\* Who has a slot has it alone.
LEMMA Alone ==
  ASSUME Pico!PoolInv, NEW i \in Pico!Slots, NEW k, owner[i] = k
  PROVE  /\ \A l \in Cores : l # k /\ Pico!Busy(l) => core[l].at # i
         /\ Pico!Updating(i) => k \in Cores /\ core[k].pc = "count" /\ core[k].at = i
<1>1. \A l \in Cores : Pico!Busy(l) => owner[core[l].at] = l
  BY DEF Pico!PoolInv, Pico!CoreOwns
<1> QED BY <1>1 DEF Pico!Updating, Pico!Busy

LEMMA Unused ==
  ASSUME NEW i \in Pico!Slots, ~conn'[i].stream, ~conn'[i].attached, conn'[i].pcb \notin {"open", "closed"}
  PROVE  Pico!SlotOwned(i)' /\ Pico!Kept(i)'
<1>1. Pico!SlotOwned(i)'
  BY Zenon DEF Pico!SlotOwned, Pico!Standing
<1>2. Pico!Kept(i)'
  BY Zenon DEF Pico!Kept
<1> QED BY <1>1, <1>2

\* A stream through which nothing has come yet.
LEMMA EmptyKept ==
  ASSUME NEW i \in Pico!Slots, pgot'[i] = <<>>, sent'[i] = <<>>, conn'[i].chain = <<>>, conn'[i].pushback = <<>>,
         conn'[i].last = <<>>, conn'[i].count = 0, conn'[i].front = 0, ~Pico!Updating(i)'
  PROVE  Pico!Kept(i)'
<1>1. pgot'[i] \o conn'[i].pushback \o conn'[i].chain = sent'[i]
  OBVIOUS
<1>2. Pico!Queued(i)' = 0
  BY DEF Pico!Queued
<1>3. Pico!QueueKept(i)'
  <2> DEFINE none == [n \in 0 .. 0 |-> 0]
  <2>1. Len(conn'[i].chain) + conn'[i].front = 0
    OBVIOUS
  <2>2. none \in Pico!Cuts(i, 0)'
    BY <2>1 DEF Pico!Cuts
  <2>3. Pico!Cut(i, 0, none)'
    BY <2>1 DEF Pico!Cut
  <2>4. \A a, b \in 0 .. 0 : a <= b => none[a] <= none[b]
    OBVIOUS
  <2> HIDE DEF none
  <2> QED BY <1>2, <2>2, <2>3, <2>4 DEF Pico!QueueKept
<1>4. Len(conn'[i].pushback) <= 1
  OBVIOUS
<1> QED BY <1>1, <1>3, <1>4 DEF Pico!Kept

\* The steps of an opening leave the rest of the context alone.
LEMMA OpenFields ==
  ASSUME NEW r \in Pico!Conn, NEW s,
         \/ \E kind \in {"tcp", "udp"} : s = [r EXCEPT !.kind = kind, !.pcb = "open"]
         \/ s = [r EXCEPT !.stream = TRUE]
         \/ s = [r EXCEPT !.attached = TRUE]
  PROVE  /\ s.chain = r.chain /\ s.pushback = r.pushback /\ s.last = r.last
         /\ s.count = r.count /\ s.front = r.front /\ s.done = r.done /\ s.gone = r.gone
<1> USE DEF Pico!Conn
<1>1. ASSUME NEW kind \in {"tcp", "udp"}, s = [r EXCEPT !.kind = kind, !.pcb = "open"]
      PROVE  /\ s.chain = r.chain /\ s.pushback = r.pushback /\ s.last = r.last
             /\ s.count = r.count /\ s.front = r.front /\ s.done = r.done /\ s.gone = r.gone
  BY <1>1
<1>2. CASE s = [r EXCEPT !.stream = TRUE]
  BY <1>2
<1>3. CASE s = [r EXCEPT !.attached = TRUE]
  BY <1>3
<1> HIDE DEF Pico!Conn
<1> QED BY <1>1, <1>2, <1>3
LEMMA OpenMarks ==
  ASSUME NEW r \in Pico!Conn, NEW s
  PROVE  /\ \A kind \in {"tcp", "udp"} : s = [r EXCEPT !.kind = kind, !.pcb = "open"] =>
              s.kind = kind /\ s.pcb = "open" /\ s.stream = r.stream /\ s.attached = r.attached
         /\ s = [r EXCEPT !.stream = TRUE] =>
              s.kind = r.kind /\ s.pcb = r.pcb /\ s.stream = TRUE /\ s.attached = r.attached
         /\ s = [r EXCEPT !.attached = TRUE] =>
              s.kind = r.kind /\ s.pcb = r.pcb /\ s.stream = r.stream /\ s.attached = TRUE
         /\ s = [r EXCEPT !.pcb = "none"] \/ s = [r EXCEPT !.pcb = "none", !.gone = TRUE] =>
              s.stream = r.stream /\ s.attached = r.attached /\ s.pcb = "none"
<1>1. \A kind \in {"tcp", "udp"} : s = [r EXCEPT !.kind = kind, !.pcb = "open"] =>
        s.kind = kind /\ s.pcb = "open" /\ s.stream = r.stream /\ s.attached = r.attached
  BY DEF Pico!Conn
<1>2. s = [r EXCEPT !.stream = TRUE] =>
        s.kind = r.kind /\ s.pcb = r.pcb /\ s.stream = TRUE /\ s.attached = r.attached
  BY DEF Pico!Conn
<1>3. s = [r EXCEPT !.attached = TRUE] =>
        s.kind = r.kind /\ s.pcb = r.pcb /\ s.stream = r.stream /\ s.attached = TRUE
  BY DEF Pico!Conn
<1>4. s = [r EXCEPT !.pcb = "none"] \/ s = [r EXCEPT !.pcb = "none", !.gone = TRUE] =>
        s.stream = r.stream /\ s.attached = r.attached /\ s.pcb = "none"
  BY DEF Pico!Conn
<1> QED BY <1>1, <1>2, <1>3, <1>4

\* A core at one of those steps.
LEMMA Opening ==
  ASSUME NEW k \in Cores, NEW i \in Pico!Slots, core'[k].at = i, owner'[i] = k, Pico!Fresh(i)',
         conn'[i].pcb \in {"open", "closed"} \/ conn'[i].gone,
         \/ core'[k].pc = "dial" /\ conn'[i].stream = FALSE /\ conn'[i].kind = "tcp"
         \/ core'[k].pc = "finish" /\ conn'[i].stream = FALSE /\ (conn'[i].kind = "tcp" => conn'[i].done)
         \/ core'[k].pc = "attach" /\ conn'[i].stream = TRUE /\ (conn'[i].kind = "tcp" => conn'[i].done)
  PROVE  Pico!CoreOwns(k)'
<1>1. CASE core'[k].pc = "dial"
  BY <1>1 DEF Pico!CoreOwns, Pico!Busy, Pico!Standing
<1>2. CASE core'[k].pc = "finish"
  BY <1>2 DEF Pico!CoreOwns, Pico!Busy, Pico!Standing
<1>3. CASE core'[k].pc = "attach"
  BY <1>3 DEF Pico!CoreOwns, Pico!Busy, Pico!Standing
<1> QED BY <1>1, <1>2, <1>3

\* The steps of net_open, up to its stream.
LEMMA OpenSteps ==
  ASSUME Pico!PoolInv, NEW k \in Cores, NEW i \in Pico!Slots, core[k].at = i,
         \/ Pico!Probe(k) \/ Pico!OpenFails(k) \/ Pico!OpenPcb(k) \/ Pico!DialFails(k) \/ Pico!DialEnds(k)
         \/ Pico!FinishFails(k) \/ Pico!Finish(k) \/ Pico!Attach(k)
  PROVE  (\A l \in Cores : Pico!CoreOwns(l)') /\ (\A j \in Pico!Slots : Pico!SlotOwned(j)' /\ Pico!Kept(j)')
<1> DEFINE Goal == (\A l \in Cores : Pico!CoreOwns(l)') /\ (\A j \in Pico!Slots : Pico!SlotOwned(j)' /\ Pico!Kept(j)')
<1>0. /\ Pico!PoolTypes /\ Pico!ClaimsExact /\ Pico!CoreOwns(k) /\ core[k].pc # "idle"
      /\ Pico!SlotOwned(i) /\ Pico!Kept(i)
  BY DEF Pico!PoolInv, Pico!CoreOwns, Pico!Probe, Pico!OpenFails, Pico!OpenPcb, Pico!DialFails, Pico!DialEnds,
     Pico!FinishFails, Pico!Finish, Pico!Attach
<1>1. CASE Pico!Probe(k)
  <2>1. CASE claimed[i] = 0
    <3>1. owner[i] = "none"
      BY <1>0, <2>1, FreeSlot
    <3>2. /\ core[k].pc = "probe" /\ core' = [core EXCEPT ![k].pc = "new"]
          /\ conn' = [conn EXCEPT ![i] = Pico!NoConn] /\ owner' = [owner EXCEPT ![i] = k]
          /\ pgot' = [pgot EXCEPT ![i] = <<>>] /\ sent' = [sent EXCEPT ![i] = <<>>]
      BY <1>1, <2>1 DEF Pico!Probe, Pico!Taken
    <3>3. \A l \in Cores : Pico!Busy(l) => core[l].at # i
      BY <1>0, <3>1, Alone, PoolConstants
    <3>4. core'[k].pc = "new" /\ core'[k].at = i
      BY <1>0, <3>2 DEF Pico!PoolTypes
    <3>5. conn'[i] = Pico!NoConn /\ owner'[i] = k /\ pgot'[i] = <<>> /\ sent'[i] = <<>>
      BY <1>0, <3>2 DEF Pico!PoolTypes
    <3>6. Pico!Fresh(i)' /\ ~conn'[i].stream /\ ~conn'[i].attached /\ ~conn'[i].done /\ conn'[i].pcb = "none"
      <4>1. /\ Pico!NoConn.chain = <<>> /\ Pico!NoConn.pushback = <<>> /\ Pico!NoConn.last = <<>>
            /\ Pico!NoConn.count = 0 /\ Pico!NoConn.front = 0 /\ ~Pico!NoConn.attached /\ ~Pico!NoConn.stream
            /\ ~Pico!NoConn.done /\ Pico!NoConn.pcb = "none"
        BY DEF Pico!NoConn
      <4> QED BY <3>5, <4>1 DEF Pico!Fresh
    <3>7. Pico!CoreOwns(k)'
      BY <1>0, <3>4, <3>5, <3>6 DEF Pico!CoreOwns, Pico!Busy
    <3>8. Pico!SlotOwned(i)' /\ Pico!Kept(i)'
      BY <3>6, Unused
    <3> QED BY <1>0, <3>2, <3>3, <3>4, <3>7, <3>8, Elsewhere DEF Pico!PoolTypes
  <2>2. CASE claimed[i] # 0
    <3>1. /\ core[k].pc = "probe" /\ core' = [core EXCEPT ![k].pc = "back"]
          /\ conn' = conn /\ owner' = owner /\ pgot' = pgot /\ sent' = sent
      BY <1>1, <2>2 DEF Pico!Probe
    <3>2. ~Pico!Busy(k) /\ ~Pico!Busy(k)' /\ core'[k].at = i /\ \A l \in Cores : l # k => core'[l] = core[l]
      BY <1>0, <3>1 DEF Pico!PoolTypes, Pico!Busy
    <3> QED BY <1>0, <3>1, <3>2, IdleStep
  <2> QED BY <2>1, <2>2
<1>2. ASSUME Pico!Busy(k), owner[i] = k,
             \A j \in Pico!Slots : j # i => conn'[j] = conn[j] /\ owner'[j] = owner[j],
             pgot' = pgot, sent' = sent,
             \A l \in Cores : l # k => core'[l] = core[l],
             core'[k].pc = "idle" \/ core'[k].at = i,
             Pico!CoreOwns(k)', Pico!SlotOwned(i)', Pico!Kept(i)'
      PROVE  Goal
  <2>1. \A l \in Cores : l # k /\ Pico!Busy(l) => core[l].at # i
    BY <1>0, <1>2, Alone
  <2>2. \A l \in Cores : core'[l] = core[l]
                         \/ /\ core[l].pc \in {"attach", "count"} => core[l].at = i
                            /\ core'[l].pc \in {"attach", "count"} => core'[l].at = i
    <3> SUFFICES ASSUME NEW l \in Cores, core'[l] # core[l]
                 PROVE  /\ core[l].pc \in {"attach", "count"} => core[l].at = i
                        /\ core'[l].pc \in {"attach", "count"} => core'[l].at = i
      OBVIOUS
    <3>1. l = k
      BY <1>2
    <3> QED BY <1>2, <3>1
  <2>3. \A l \in Cores : (core'[l] = core[l] /\ (Pico!Busy(l) => core[l].at # i)) \/ Pico!CoreOwns(l)'
    BY <1>2, <2>1
  <2> QED BY <1>0, <1>2, <2>2, <2>3, Elsewhere
<1>3. ASSUME Pico!Release(i), owner[i] = k, Pico!Busy(k), core' = [core EXCEPT ![k] = Pico!Idle], pgot' = pgot, sent' = sent,
             \A j \in Pico!Slots : j # i => conn'[j] = conn[j],
             ~conn'[i].stream, ~conn'[i].attached, conn'[i].pcb \notin {"open", "closed"}
      PROVE  Goal
  <2>1. core'[k].pc = "idle" /\ \A l \in Cores : l # k => core'[l] = core[l]
    BY <1>0, <1>3 DEF Pico!PoolTypes, Pico!Idle
  <2>2. \A j \in Pico!Slots : j # i => owner'[j] = owner[j]
    BY <1>0, <1>3 DEF Pico!Release, Pico!PoolTypes
  <2>3. Pico!CoreOwns(k)'
    BY <2>1 DEF Pico!CoreOwns, Pico!Busy
  <2>4. Pico!SlotOwned(i)' /\ Pico!Kept(i)'
    BY <1>3, Unused
  <2> QED BY <1>2, <1>3, <2>1, <2>2, <2>3, <2>4
<1>4. CASE Pico!OpenFails(k)
  <2>1. /\ core[k].pc = "new" /\ Pico!Release(i) /\ core' = [core EXCEPT ![k] = Pico!Idle]
        /\ conn' = conn /\ pgot' = pgot /\ sent' = sent
    BY <1>4 DEF Pico!OpenFails
  <2>2. Pico!Busy(k) /\ owner[i] = k /\ ~conn[i].stream /\ ~conn[i].attached /\ conn[i].pcb = "none"
    BY <1>0, <2>1 DEF Pico!CoreOwns, Pico!Busy, Pico!Fresh
  <2> QED BY <1>3, <2>1, <2>2
<1>5. CASE Pico!DialFails(k) \/ Pico!FinishFails(k)
  <2>1. /\ core[k].pc \in {"dial", "finish"} /\ Pico!Release(i) /\ core' = [core EXCEPT ![k] = Pico!Idle]
        /\ pgot' = pgot /\ sent' = sent
        /\ \/ conn' = [conn EXCEPT ![i].pcb = "none", ![i].gone = TRUE]
           \/ conn' = [conn EXCEPT ![i].pcb = "none"]
    BY <1>5 DEF Pico!DialFails, Pico!FinishFails
  <2>2. Pico!Busy(k) /\ owner[i] = k /\ ~conn[i].stream /\ ~conn[i].attached
    BY <1>0, <2>1 DEF Pico!CoreOwns, Pico!Busy, Pico!Fresh
  <2>3. /\ conn'[i].stream = conn[i].stream /\ conn'[i].attached = conn[i].attached /\ conn'[i].pcb = "none"
        /\ \A j \in Pico!Slots : j # i => conn'[j] = conn[j]
    <3>1. /\ conn[i] \in Pico!Conn /\ \A j \in Pico!Slots : j # i => conn'[j] = conn[j]
          /\ \/ conn'[i] = [conn[i] EXCEPT !.pcb = "none"]
             \/ conn'[i] = [conn[i] EXCEPT !.pcb = "none", !.gone = TRUE]
      BY <1>0, <2>1 DEF Pico!PoolTypes
    <3> QED BY <3>1, OpenMarks, ZenonT(60)
  <2> QED BY <1>3, <2>1, <2>2, <2>3
<1>6. CASE Pico!OpenPcb(k)
  <2>1. /\ core[k].pc = "new" /\ conn' = [conn EXCEPT ![i].kind = core[k].kind, ![i].pcb = "open"]
        /\ core' = [core EXCEPT ![k].pc = IF core[k].kind = "udp" THEN "finish" ELSE "dial"]
        /\ owner' = owner /\ pgot' = pgot /\ sent' = sent
    BY <1>6 DEF Pico!OpenPcb
  <2>2. Pico!Busy(k) /\ owner[i] = k /\ Pico!Fresh(i) /\ ~conn[i].stream
    BY <1>0, <2>1 DEF Pico!CoreOwns, Pico!Busy
  <2>3. /\ conn'[i].kind = core[k].kind /\ conn'[i].pcb = "open" /\ conn'[i].stream = conn[i].stream
        /\ conn'[i].attached = conn[i].attached /\ conn'[i].chain = conn[i].chain
        /\ conn'[i].pushback = conn[i].pushback /\ conn'[i].last = conn[i].last
        /\ conn'[i].count = conn[i].count /\ conn'[i].front = conn[i].front
        /\ \A j \in Pico!Slots : j # i => conn'[j] = conn[j]
    <3>1. core[k].kind \in {"tcp", "udp"} /\ conn[i] \in Pico!Conn
      BY <1>0 DEF Pico!PoolTypes
    <3>2. conn'[i] = [conn[i] EXCEPT !.kind = core[k].kind, !.pcb = "open"]
          /\ \A j \in Pico!Slots : j # i => conn'[j] = conn[j]
      BY <1>0, <2>1 DEF Pico!PoolTypes
    <3>3. /\ conn'[i].kind = core[k].kind /\ conn'[i].pcb = "open" /\ conn'[i].stream = conn[i].stream
          /\ conn'[i].attached = conn[i].attached
      BY <3>1, <3>2 DEF Pico!Conn
    <3>4. /\ conn'[i].chain = conn[i].chain
          /\ conn'[i].pushback = conn[i].pushback /\ conn'[i].last = conn[i].last
          /\ conn'[i].count = conn[i].count /\ conn'[i].front = conn[i].front
      BY <3>1, <3>2 DEF Pico!Conn
    <3> QED BY <3>2, <3>3, <3>4
  <2>4. /\ core'[k].pc = (IF core[k].kind = "udp" THEN "finish" ELSE "dial") /\ core'[k].at = i
        /\ \A l \in Cores : l # k => core'[l] = core[l]
        /\ core[k].kind \in {"tcp", "udp"}
    BY <1>0, <2>1 DEF Pico!PoolTypes
  <2>5. Pico!Fresh(i)'
    BY <2>1, <2>2, <2>3 DEF Pico!Fresh
  <2>6. Pico!CoreOwns(k)'
    <3>1. conn'[i].stream = FALSE
      BY <1>0, <2>2, <2>3 DEF Pico!PoolTypes, Pico!Conn
    <3> QED BY <2>1, <2>2, <2>3, <2>4, <2>5, <3>1, Opening
  <2>7. Pico!SlotOwned(i)' /\ Pico!Kept(i)'
    BY <2>1, <2>2, <2>3, PoolConstants DEF Pico!SlotOwned, Pico!Kept, Pico!Fresh, Pico!Standing
  <2> QED BY <1>2, <2>1, <2>2, <2>3, <2>4, <2>6, <2>7
<1>7. CASE Pico!DialEnds(k)
  <2>1. /\ core[k].pc = "dial" /\ conn[i].done /\ ~conn[i].err /\ conn' = conn
        /\ core' = [core EXCEPT ![k].pc = "finish"] /\ owner' = owner /\ pgot' = pgot /\ sent' = sent
    BY <1>7 DEF Pico!DialEnds
  <2>2. Pico!Busy(k) /\ owner[i] = k /\ Pico!Fresh(i) /\ ~conn[i].stream
        /\ (conn[i].pcb \in {"open", "closed"} \/ conn[i].gone)
    BY <1>0, <2>1 DEF Pico!CoreOwns, Pico!Busy, Pico!Standing
  <2>3. core'[k].pc = "finish" /\ core'[k].at = i /\ \A l \in Cores : l # k => core'[l] = core[l]
    BY <1>0, <2>1 DEF Pico!PoolTypes
  <2>4. Pico!Fresh(i)'
    BY <2>1, <2>2 DEF Pico!Fresh
  <2>5. Pico!CoreOwns(k)'
    <3>1. conn'[i].stream = FALSE /\ conn'[i].kind = "tcp"
      BY <1>0, <2>1, <2>2 DEF Pico!PoolTypes, Pico!Conn, Pico!CoreOwns
    <3> QED BY <2>1, <2>2, <2>3, <2>4, <3>1, Opening
  <2>6. Pico!SlotOwned(i)' /\ Pico!Kept(i)'
    BY <2>1, <2>2, PoolConstants DEF Pico!SlotOwned, Pico!Kept, Pico!Fresh, Pico!Standing
  <2> QED BY <1>2, <2>1, <2>2, <2>3, <2>5, <2>6
<1>8. CASE Pico!Finish(k)
  <2>1. /\ core[k].pc = "finish" /\ conn' = [conn EXCEPT ![i].stream = TRUE]
        /\ core' = [core EXCEPT ![k].pc = "attach"] /\ owner' = owner /\ pgot' = pgot /\ sent' = sent
    BY <1>8 DEF Pico!Finish
  <2>2. /\ Pico!Busy(k) /\ owner[i] = k /\ Pico!Fresh(i)
        /\ (conn[i].pcb \in {"open", "closed"} \/ conn[i].gone)
        /\ conn[i].kind = "tcp" => conn[i].done
    BY <1>0, <2>1 DEF Pico!CoreOwns, Pico!Busy, Pico!Standing
  <2>3. /\ conn'[i].kind = conn[i].kind /\ conn'[i].pcb = conn[i].pcb /\ conn'[i].gone = conn[i].gone /\ conn'[i].stream = TRUE
        /\ conn'[i].attached = conn[i].attached /\ conn'[i].chain = conn[i].chain
        /\ conn'[i].pushback = conn[i].pushback /\ conn'[i].last = conn[i].last /\ conn'[i].done = conn[i].done
        /\ conn'[i].count = conn[i].count /\ conn'[i].front = conn[i].front
        /\ \A j \in Pico!Slots : j # i => conn'[j] = conn[j]
    <3>1. conn[i] \in Pico!Conn /\ conn'[i] = [conn[i] EXCEPT !.stream = TRUE]
          /\ \A j \in Pico!Slots : j # i => conn'[j] = conn[j]
      BY <1>0, <2>1 DEF Pico!PoolTypes
    <3>2. /\ conn'[i].kind = conn[i].kind /\ conn'[i].pcb = conn[i].pcb /\ conn'[i].stream = TRUE /\ conn'[i].attached = conn[i].attached
      BY <3>1, OpenMarks
    <3>3. /\ conn'[i].chain = conn[i].chain /\ conn'[i].done = conn[i].done /\ conn'[i].gone = conn[i].gone
          /\ conn'[i].pushback = conn[i].pushback /\ conn'[i].last = conn[i].last
          /\ conn'[i].count = conn[i].count /\ conn'[i].front = conn[i].front
      BY <3>1, OpenFields
    <3> QED BY <2>2, <3>1, <3>2, <3>3
  <2>4. core'[k].pc = "attach" /\ core'[k].at = i /\ \A l \in Cores : l # k => core'[l] = core[l]
    BY <1>0, <2>1 DEF Pico!PoolTypes
  <2>5. Pico!Fresh(i)'
    BY <2>1, <2>2, <2>3 DEF Pico!Fresh
  <2>6. Pico!CoreOwns(k)'
    BY <2>1, <2>2, <2>3, <2>4, <2>5, Opening
  <2>7. ~Pico!Updating(i)'
    <3>1. \A l \in Cores : l # k /\ Pico!Busy(l) => core[l].at # i
      BY <1>0, <2>2, Alone
    <3> QED BY <2>4, <3>1 DEF Pico!Updating, Pico!Busy
  <2>8. Pico!SlotOwned(i)'
    BY <2>1, <2>2, <2>3, <2>4, PoolConstants DEF Pico!SlotOwned, Pico!Fresh, Pico!Standing
  <2>9. Pico!Kept(i)'
    BY <2>5, <2>7, EmptyKept DEF Pico!Fresh
  <2> QED BY <1>2, <2>1, <2>2, <2>3, <2>4, <2>6, <2>8, <2>9
<1>9. CASE Pico!Attach(k)
  <2>1. /\ core[k].pc = "attach" /\ conn' = [conn EXCEPT ![i].attached = TRUE]
        /\ core' = [core EXCEPT ![k] = Pico!Idle] /\ owner' = owner /\ pgot' = pgot /\ sent' = sent
    BY <1>9 DEF Pico!Attach
  <2>2. /\ Pico!Busy(k) /\ owner[i] = k /\ Pico!Fresh(i) /\ conn[i].stream
        /\ (conn[i].pcb \in {"open", "closed"} \/ conn[i].gone)
        /\ conn[i].kind = "tcp" => conn[i].done
    BY <1>0, <2>1 DEF Pico!CoreOwns, Pico!Busy, Pico!Standing
  <2>3. /\ conn'[i].kind = conn[i].kind /\ conn'[i].pcb = conn[i].pcb /\ conn'[i].gone = conn[i].gone /\ conn'[i].stream = conn[i].stream
        /\ conn'[i].attached = TRUE /\ conn'[i].chain = conn[i].chain
        /\ conn'[i].pushback = conn[i].pushback /\ conn'[i].last = conn[i].last /\ conn'[i].done = conn[i].done
        /\ conn'[i].count = conn[i].count /\ conn'[i].front = conn[i].front
        /\ \A j \in Pico!Slots : j # i => conn'[j] = conn[j]
    <3>1. conn[i] \in Pico!Conn /\ conn'[i] = [conn[i] EXCEPT !.attached = TRUE]
          /\ \A j \in Pico!Slots : j # i => conn'[j] = conn[j]
      BY <1>0, <2>1 DEF Pico!PoolTypes
    <3>2. /\ conn'[i].kind = conn[i].kind /\ conn'[i].pcb = conn[i].pcb /\ conn'[i].stream = conn[i].stream /\ conn'[i].attached = TRUE
      BY <3>1, OpenMarks
    <3>3. /\ conn'[i].chain = conn[i].chain /\ conn'[i].done = conn[i].done /\ conn'[i].gone = conn[i].gone
          /\ conn'[i].pushback = conn[i].pushback /\ conn'[i].last = conn[i].last
          /\ conn'[i].count = conn[i].count /\ conn'[i].front = conn[i].front
      BY <3>1, OpenFields
    <3> QED BY <2>2, <3>1, <3>2, <3>3
  <2>4. core'[k].pc = "idle" /\ \A l \in Cores : l # k => core'[l] = core[l]
    BY <1>0, <2>1 DEF Pico!PoolTypes, Pico!Idle
  <2>6. Pico!CoreOwns(k)'
    BY <2>4 DEF Pico!CoreOwns, Pico!Busy
  <2>7. ~Pico!Updating(i)'
    <3>1. \A l \in Cores : l # k /\ Pico!Busy(l) => core[l].at # i
      BY <1>0, <2>2, Alone
    <3> QED BY <2>4, <3>1 DEF Pico!Updating, Pico!Busy
  <2>8. Pico!SlotOwned(i)'
    BY <2>1, <2>2, <2>3, PoolConstants DEF Pico!SlotOwned, Pico!Standing
  <2>9. Pico!Kept(i)'
    BY <1>0, <2>1, <2>2, <2>3, <2>7, EmptyKept DEF Pico!Fresh
  <2> QED BY <1>2, <2>1, <2>2, <2>3, <2>4, <2>6, <2>8, <2>9
<1> QED BY <1>1, <1>4, <1>5, <1>6, <1>7, <1>8, <1>9

\* The calls that have no slot, the listener's and a write.
LEMMA BesideSteps ==
  ASSUME Pico!PoolInv,
         \/ Pico!ListenerDatagram
         \/ \E k \in Cores : \/ \E kind \in {"tcp", "udp"} : Pico!Begin(k, kind)
                             \/ Pico!ProbeBack(k) \/ Pico!ListenerInit(k) \/ Pico!ListenerDeinit(k)
                             \/ \E d \in Dgrams : Pico!DgramWrite(k, d) \/ Pico!DgramClose(k, d)
                             \/ \E i \in Pico!Slots : Pico!Write(k, i)
  PROVE  (\A l \in Cores : Pico!CoreOwns(l)') /\ (\A j \in Pico!Slots : Pico!SlotOwned(j)' /\ Pico!Kept(j)')
<1> DEFINE Goal == (\A l \in Cores : Pico!CoreOwns(l)') /\ (\A j \in Pico!Slots : Pico!SlotOwned(j)' /\ Pico!Kept(j)')
<1>0. Pico!PoolTypes /\ \A k \in Cores : core[k].pc # "idle" => core[k].at \in Pico!Slots
  BY DEF Pico!PoolInv, Pico!CoreOwns
<1>1. ASSUME conn' = conn, owner' = owner, pgot' = pgot, sent' = sent, core' = core
      PROVE  Goal
  BY <1>1, IdleStep
<1>2. ASSUME NEW k \in Cores, core[k].pc \in {"idle", "back"}, NEW r, core' = [core EXCEPT ![k] = r],
             r.pc \in {"idle", "probe"}, r.pc # "idle" => r.at \in Pico!Slots,
             conn' = conn, owner' = owner, pgot' = pgot, sent' = sent
      PROVE  Goal
  <2>1. core'[k] = r /\ \A l \in Cores : l # k => core'[l] = core[l]
    BY <1>0, <1>2 DEF Pico!PoolTypes
  <2>2. ~Pico!Busy(k) /\ ~Pico!Busy(k)'
    BY <1>2, <2>1 DEF Pico!Busy
  <2> QED BY <1>2, <2>1, <2>2, IdleStep
<1>3. ASSUME NEW k \in Cores, NEW kind \in {"tcp", "udp"}, Pico!Begin(k, kind) PROVE Goal
  <2> DEFINE r == [pc |-> "probe", at |-> 1, kind |-> kind]
  <2>1. core[k].pc = "idle" /\ core' = [core EXCEPT ![k] = r] /\ conn' = conn /\ owner' = owner /\ pgot' = pgot /\ sent' = sent
    BY <1>3 DEF Pico!Begin
  <2>2. r.pc = "probe" /\ r.at = 1 /\ 1 \in Pico!Slots
    BY Bounds DEF Pico!Slots
  <2> HIDE DEF r
  <2> QED BY <1>2, <2>1, <2>2
<1>4. ASSUME NEW k \in Cores, Pico!ProbeBack(k) PROVE Goal
  <2> DEFINE r == IF core[k].at = Capacity THEN Pico!Idle ELSE [core[k] EXCEPT !.pc = "probe", !.at = core[k].at + 1]
  <2>1. core[k].pc = "back" /\ core' = [core EXCEPT ![k] = r] /\ conn' = conn /\ owner' = owner /\ pgot' = pgot /\ sent' = sent
    BY <1>4 DEF Pico!ProbeBack
  <2>2. r.pc \in {"idle", "probe"} /\ (r.pc # "idle" => r.at \in Pico!Slots)
    <3>1. CASE core[k].at = Capacity
      BY <3>1 DEF Pico!Idle
    <3>2. CASE core[k].at # Capacity
      <4>1. core[k].at + 1 \in Pico!Slots
        BY <1>0, <2>1, <3>2, Bounds DEF Pico!Slots
      <4>2. [core[k] EXCEPT !.pc = "probe", !.at = core[k].at + 1].at = core[k].at + 1
            /\ [core[k] EXCEPT !.pc = "probe", !.at = core[k].at + 1].pc = "probe"
        BY <1>0 DEF Pico!PoolTypes
      <4> QED BY <3>2, <4>1, <4>2
    <3> QED BY <3>1, <3>2
  <2> HIDE DEF r
  <2> QED BY <1>2, <2>1, <2>2
<1>5. ASSUME NEW k \in Cores,
             \/ Pico!ListenerInit(k) \/ Pico!ListenerDeinit(k)
             \/ \E d \in Dgrams : Pico!DgramWrite(k, d) \/ Pico!DgramClose(k, d)
             \/ \E i \in Pico!Slots : Pico!Write(k, i)
      PROVE  Goal
  BY <1>1, <1>5 DEF Pico!ListenerInit, Pico!ListenerDeinit, Pico!DgramWrite, Pico!DgramClose, Pico!ListenerLeavesAlone, Pico!Write
<1>6. CASE Pico!ListenerDatagram
  BY <1>1, <1>6 DEF Pico!ListenerDatagram, Pico!ListenerLeavesAlone
<1> QED BY <1>3, <1>4, <1>5, <1>6

\* A slot that no core is busy with changes by itself.
LEMMA LoneStep ==
  ASSUME Pico!PoolInv, NEW i \in Pico!Slots, \A k \in Cores : Pico!Busy(k) => core[k].at # i, core' = core,
         \A j \in Pico!Slots : j # i => conn'[j] = conn[j] /\ owner'[j] = owner[j] /\ pgot'[j] = pgot[j] /\ sent'[j] = sent[j],
         Pico!SlotOwned(i)', Pico!Kept(i)'
  PROVE  (\A l \in Cores : Pico!CoreOwns(l)') /\ (\A j \in Pico!Slots : Pico!SlotOwned(j)' /\ Pico!Kept(j)')
<1>1. \A k \in Cores : core'[k] = core[k]
                       \/ /\ core[k].pc \in {"attach", "count"} => core[k].at = i
                          /\ core'[k].pc \in {"attach", "count"} => core'[k].at = i
  OBVIOUS
<1>2. \A k \in Cores : (core'[k] = core[k] /\ (Pico!Busy(k) => core[k].at # i)) \/ Pico!CoreOwns(k)'
  OBVIOUS
<1> QED BY <1>1, <1>2, Elsewhere

\* An attached stream is past its opening; only a read may be half done.
LEMMA Settled ==
  ASSUME Pico!PoolInv, NEW i \in Pico!Slots, conn[i].attached, ~Pico!Updating(i)
  PROVE  \A k \in Cores : Pico!Busy(k) => core[k].at # i
BY DEF Pico!PoolInv, Pico!CoreOwns, Pico!Busy, Pico!Fresh, Pico!Updating

LEMMA TcpSettled ==
  ASSUME Pico!PoolInv, NEW i \in Pico!Slots, conn[i].kind = "tcp"
  PROVE  ~Pico!Updating(i)
BY DEF Pico!PoolInv, Pico!CoreOwns, Pico!Updating

\* What the callbacks that only set marks leave alone.
LEMMA CallbackFields ==
  ASSUME NEW r \in Pico!Conn, NEW s,
         \/ s = [r EXCEPT !.done = TRUE]
         \/ s = [r EXCEPT !.fin = TRUE]
         \/ s = [r EXCEPT !.pcb = "closed"]
         \/ s = [r EXCEPT !.pcb = "freed", !.gone = TRUE, !.done = TRUE, !.err = @ \/ ~r.done]
  PROVE  /\ s.chain = r.chain /\ s.pushback = r.pushback /\ s.last = r.last /\ s.count = r.count
         /\ s.front = r.front /\ s.head = r.head /\ s.lengths = r.lengths
         /\ s.kind = r.kind /\ s.stream = r.stream /\ s.attached = r.attached
<1>1. CASE s = [r EXCEPT !.done = TRUE]
  BY <1>1 DEF Pico!Conn
<1>2. CASE s = [r EXCEPT !.fin = TRUE]
  BY <1>2 DEF Pico!Conn
<1>3. CASE s = [r EXCEPT !.pcb = "freed", !.gone = TRUE, !.done = TRUE, !.err = @ \/ ~r.done]
  BY <1>3 DEF Pico!Conn
<1>4. CASE s = [r EXCEPT !.pcb = "closed"]
  BY <1>4 DEF Pico!Conn
<1> QED BY <1>1, <1>2, <1>3, <1>4
LEMMA DataSame ==
  ASSUME NEW i \in Pico!Slots, Pico!Kept(i), core' = core, pgot'[i] = pgot[i], sent'[i] = sent[i],
         conn'[i].chain = conn[i].chain, conn'[i].pushback = conn[i].pushback, conn'[i].last = conn[i].last,
         conn'[i].count = conn[i].count, conn'[i].front = conn[i].front, conn'[i].head = conn[i].head,
         conn'[i].lengths = conn[i].lengths, conn'[i].kind = conn[i].kind, conn'[i].stream = conn[i].stream
  PROVE  Pico!Kept(i)'
<1>1. Pico!Updating(i)' <=> Pico!Updating(i)
  BY DEF Pico!Updating
<1>2. Pico!Queued(i)' = Pico!Queued(i)
  BY <1>1 DEF Pico!Queued
<1>3. \A n : Pico!Cuts(i, n)' = Pico!Cuts(i, n) /\ \A ends : Pico!Cut(i, n, ends)' <=> Pico!Cut(i, n, ends)
  BY DEF Pico!Cuts, Pico!Cut
<1>4. Pico!QueueKept(i)' <=> Pico!QueueKept(i)
  BY <1>2, <1>3 DEF Pico!QueueKept
<1> QED BY <1>4 DEF Pico!Kept

\* The connected, error and end callbacks, and a connection that lwIP closes
\* itself: they may find a core at any step of the opening.
LEMMA CallbackSteps ==
  ASSUME Pico!PoolInv, NEW i \in Pico!Slots, Pico!Connected(i) \/ Pico!Errored(i) \/ Pico!Finished(i) \/ Pico!ClosedUnseen(i)
  PROVE  (\A l \in Cores : Pico!CoreOwns(l)') /\ (\A j \in Pico!Slots : Pico!SlotOwned(j)' /\ Pico!Kept(j)')
<1>0. /\ conn[i] \in Pico!Conn /\ conn \in [Pico!Slots -> Pico!Conn] /\ Pico!SlotOwned(i) /\ Pico!Kept(i)
      /\ \A k \in Cores : Pico!CoreOwns(k)
  BY DEF Pico!PoolInv, Pico!PoolTypes
<1>1. /\ conn[i].pcb \in {"open", "closed"} /\ conn[i].kind = "tcp" /\ core' = core /\ owner' = owner /\ pgot' = pgot /\ sent' = sent
  BY DEF Pico!Connected, Pico!Errored, Pico!Finished, Pico!ClosedUnseen, Pico!Alive, Pico!Standing, Pico!LeavesAlone
<1>2. /\ \A j \in Pico!Slots : j # i => conn'[j] = conn[j]
      /\ \/ conn'[i] = [conn[i] EXCEPT !.done = TRUE]
         \/ conn'[i] = [conn[i] EXCEPT !.fin = TRUE]
         \/ conn'[i] = [conn[i] EXCEPT !.pcb = "closed"]
         \/ conn'[i] = [conn[i] EXCEPT !.pcb = "freed", !.gone = TRUE, !.done = TRUE, !.err = @ \/ ~conn[i].done]
  BY <1>0 DEF Pico!Connected, Pico!Errored, Pico!Finished, Pico!ClosedUnseen
<1>3. /\ conn'[i].chain = conn[i].chain /\ conn'[i].pushback = conn[i].pushback /\ conn'[i].last = conn[i].last
      /\ conn'[i].count = conn[i].count /\ conn'[i].front = conn[i].front /\ conn'[i].head = conn[i].head
      /\ conn'[i].lengths = conn[i].lengths /\ conn'[i].kind = conn[i].kind /\ conn'[i].stream = conn[i].stream
      /\ conn'[i].attached = conn[i].attached
  BY <1>0, <1>2, CallbackFields, ZenonT(60)
<1>4. Pico!Kept(i)'
  BY <1>0, <1>1, <1>3, DataSame
<1>5. \A k \in Cores : core'[k] = core[k]
                       \/ /\ core[k].pc \in {"attach", "count"} => core[k].at = i
                          /\ core'[k].pc \in {"attach", "count"} => core'[k].at = i
  BY <1>1
<1>6. \A j \in Pico!Slots : j # i => conn'[j] = conn[j] /\ owner'[j] = owner[j] /\ pgot'[j] = pgot[j] /\ sent'[j] = sent[j]
  BY <1>1, <1>2
<1>7. /\ owner[i] # "none" /\ core' = core
      /\ (conn[i].stream /\ ~conn[i].attached) => \E k \in Cores : core[k].pc = "attach" /\ core[k].at = i
  BY <1>0, <1>1 DEF Pico!SlotOwned, Pico!Standing
\* Whatever the callback, the connection stands or is known to be gone.
<1>8. ASSUME conn'[i].pcb \in {"open", "closed"} \/ conn'[i].gone, conn[i].done => conn'[i].done
      PROVE  (\A l \in Cores : Pico!CoreOwns(l)') /\ (\A j \in Pico!Slots : Pico!SlotOwned(j)' /\ Pico!Kept(j)')
  <2>1. conn[i].attached => conn[i].stream /\ conn[i].done
    BY <1>0, <1>1 DEF Pico!SlotOwned
  <2>2. Pico!SlotOwned(i)'
    BY <1>1, <1>3, <1>7, <1>8, <2>1 DEF Pico!SlotOwned, Pico!Standing
  <2>3. ASSUME NEW k \in Cores, Pico!Busy(k), core[k].at = i PROVE Pico!CoreOwns(k)'
    <3>1. Pico!CoreOwns(k) /\ owner[i] = k
      BY <1>0, <2>3 DEF Pico!CoreOwns
    <3>2. core[k].pc \in {"dial", "finish", "attach"}
      BY <1>1, <2>3, <3>1 DEF Pico!CoreOwns, Pico!Busy
    <3>3. Pico!Fresh(i)'
      BY <1>1, <1>3, <2>3, <3>1, <3>2 DEF Pico!CoreOwns, Pico!Fresh
    <3>4. CASE core[k].pc = "dial"
      <4>1. conn'[i].stream = FALSE /\ conn'[i].kind = "tcp"
        BY <1>0, <1>1, <1>3, <2>3, <3>1, <3>4 DEF Pico!CoreOwns, Pico!Conn
      <4> QED BY <1>1, <1>8, <2>3, <3>1, <3>3, <3>4, <4>1, Opening
    <3>5. CASE core[k].pc = "finish"
      <4>1. conn'[i].stream = FALSE /\ conn'[i].done
        BY <1>0, <1>1, <1>3, <1>8, <2>3, <3>1, <3>5 DEF Pico!CoreOwns, Pico!Conn
      <4> QED BY <1>1, <1>8, <2>3, <3>1, <3>3, <3>5, <4>1, Opening
    <3>6. CASE core[k].pc = "attach"
      <4>1. conn'[i].stream = TRUE /\ conn'[i].done
        BY <1>0, <1>1, <1>3, <1>8, <2>3, <3>1, <3>6 DEF Pico!CoreOwns, Pico!Conn
      <4> QED BY <1>1, <1>8, <2>3, <3>1, <3>3, <3>6, <4>1, Opening
    <3> QED BY <3>2, <3>4, <3>5, <3>6
  <2>4. \A k \in Cores : (core'[k] = core[k] /\ (Pico!Busy(k) => core[k].at # i)) \/ Pico!CoreOwns(k)'
    BY <1>1, <2>3
  <2> QED BY <1>4, <1>5, <1>6, <2>2, <2>4, Elsewhere
<1>9. CASE Pico!Connected(i)
  <2>1. conn[i].pcb = "open" /\ conn'[i] = [conn[i] EXCEPT !.done = TRUE]
    BY <1>0, <1>9 DEF Pico!Connected, Pico!Alive
  <2>2. conn'[i].pcb = "open" /\ conn'[i].done = TRUE
    BY <1>0, <2>1 DEF Pico!Conn
  <2> QED BY <1>8, <2>2
<1>10. CASE Pico!Errored(i)
  <2>1. conn'[i] = [conn[i] EXCEPT !.pcb = "freed", !.gone = TRUE, !.done = TRUE, !.err = @ \/ ~conn[i].done]
    BY <1>0, <1>10 DEF Pico!Errored
  <2>2. conn'[i].gone = TRUE /\ conn'[i].done = TRUE
    BY <1>0, <2>1 DEF Pico!Conn
  <2> QED BY <1>8, <2>2
<1>11. CASE Pico!Finished(i)
  <2>1. conn[i].pcb = "open" /\ conn'[i] = [conn[i] EXCEPT !.fin = TRUE]
    BY <1>0, <1>11 DEF Pico!Finished, Pico!Alive
  <2>2. conn'[i].pcb = "open" /\ conn'[i].done = conn[i].done
    BY <1>0, <2>1 DEF Pico!Conn
  <2> QED BY <1>8, <2>2
<1>12. CASE Pico!ClosedUnseen(i)
  <2>1. conn'[i] = [conn[i] EXCEPT !.pcb = "closed"]
    BY <1>0, <1>12 DEF Pico!ClosedUnseen
  <2>2. conn'[i].pcb = "closed" /\ conn'[i].done = conn[i].done
    BY <1>0, <2>1 DEF Pico!Conn
  <2> QED BY <1>8, <2>2
<1> QED BY <1>9, <1>10, <1>11, <1>12

\* A slot that is closed, and one that an accepted connection takes.
LEMMA CloseStep ==
  ASSUME Pico!PoolInv, NEW k \in Cores, NEW i \in Pico!Slots, Pico!Close(k, i)
  PROVE  (\A l \in Cores : Pico!CoreOwns(l)') /\ (\A j \in Pico!Slots : Pico!SlotOwned(j)' /\ Pico!Kept(j)')
<1>1. /\ core[k].pc = "idle" /\ owner[i] = k /\ conn[i].attached
      /\ conn' = [conn EXCEPT ![i] = Pico!NoConn] /\ owner' = [owner EXCEPT ![i] = "none"]
      /\ core' = core /\ pgot' = pgot /\ sent' = sent
  BY DEF Pico!Close, Pico!Release, Pico!Holds
<1>2. \A l \in Cores : Pico!Busy(l) => core[l].at # i
  <2>1. ~Pico!Busy(k)
    BY <1>1 DEF Pico!Busy
  <2> QED BY <1>1, <2>1, Alone
<1>3. conn'[i] = Pico!NoConn
      /\ \A j \in Pico!Slots : j # i => conn'[j] = conn[j] /\ owner'[j] = owner[j] /\ pgot'[j] = pgot[j] /\ sent'[j] = sent[j]
  BY <1>1 DEF Pico!PoolInv, Pico!PoolTypes
<1>4. ~Pico!NoConn.stream /\ ~Pico!NoConn.attached /\ Pico!NoConn.pcb = "none"
  BY DEF Pico!NoConn
<1>5. Pico!SlotOwned(i)' /\ Pico!Kept(i)'
  BY <1>3, <1>4, Unused
<1> QED BY <1>1, <1>2, <1>3, <1>5, LoneStep

LEMMA AcceptStep ==
  ASSUME Pico!PoolInv, Pico!Accept
  PROVE  (\A l \in Cores : Pico!CoreOwns(l)') /\ (\A j \in Pico!Slots : Pico!SlotOwned(j)' /\ Pico!Kept(j)')
<1> DEFINE new == [Pico!NoConn EXCEPT !.pcb = "open", !.done = TRUE, !.stream = TRUE, !.attached = TRUE]
<1>1. PICK i \in Pico!Slots, k \in Cores :
        /\ claimed[i] = 0 /\ conn' = [conn EXCEPT ![i] = new] /\ owner' = [owner EXCEPT ![i] = k]
        /\ pgot' = [pgot EXCEPT ![i] = <<>>] /\ sent' = [sent EXCEPT ![i] = <<>>]
  BY DEF Pico!Accept
<1>2. core' = core
  BY DEF Pico!Accept
<1>3. \A l \in Cores : Pico!Busy(l) => core[l].at # i
  <2>1. owner[i] = "none"
    BY <1>1, FreeSlot DEF Pico!PoolInv
  <2> QED BY <2>1, Alone, PoolConstants
<1>4. /\ new.stream /\ new.attached /\ new.pcb = "open" /\ new.done /\ new.kind = "tcp" /\ new.chain = <<>>
      /\ new.pushback = <<>> /\ new.last = <<>> /\ new.count = 0 /\ new.front = 0
  BY DEF Pico!NoConn
<1> HIDE DEF new
<1>5. /\ conn'[i] = new /\ owner'[i] = k /\ pgot'[i] = <<>> /\ sent'[i] = <<>>
      /\ \A j \in Pico!Slots : j # i => conn'[j] = conn[j] /\ owner'[j] = owner[j] /\ pgot'[j] = pgot[j] /\ sent'[j] = sent[j]
  BY <1>1 DEF Pico!PoolInv, Pico!PoolTypes
<1>6. Pico!SlotOwned(i)'
  BY <1>4, <1>5, PoolConstants DEF Pico!SlotOwned, Pico!Standing
<1>7. ~Pico!Updating(i)'
  BY <1>2, <1>3 DEF Pico!Updating, Pico!Busy
<1>8. Pico!Kept(i)'
  BY <1>4, <1>5, <1>7, EmptyKept
<1> QED BY <1>2, <1>3, <1>5, <1>6, <1>8, LoneStep

\* A stream in use stays whose it is, and as it was with lwIP.
LEMMA StillOwned ==
  ASSUME Pico!PoolInv, NEW i \in Pico!Slots, conn[i].attached, owner'[i] = owner[i],
         conn'[i].kind = conn[i].kind, conn'[i].stream = conn[i].stream, conn'[i].attached = conn[i].attached,
         conn'[i].pcb = conn[i].pcb, conn'[i].gone = conn[i].gone, conn'[i].done = conn[i].done
  PROVE  Pico!SlotOwned(i)'
<1>1. /\ owner[i] # "none" /\ conn[i].stream /\ (Pico!Standing(i) \/ conn[i].gone)
      /\ conn[i].kind = "tcp" => conn[i].done
  BY DEF Pico!PoolInv, Pico!SlotOwned
<1>2. owner'[i] # "none" /\ conn'[i].stream /\ conn'[i].attached
  BY <1>1
<1>3. (Pico!Standing(i)' \/ conn'[i].gone) /\ (conn'[i].kind = "tcp" => conn'[i].done)
  BY <1>1 DEF Pico!Standing
<1> QED BY <1>2, <1>3 DEF Pico!SlotOwned

\* A step on the data of a stream in use.
LEMMA DataStep ==
  ASSUME Pico!PoolInv, NEW i \in Pico!Slots, conn[i].attached, \A k \in Cores : Pico!Busy(k) => core[k].at # i,
         NEW r, conn' = [conn EXCEPT ![i] = r], core' = core, owner' = owner,
         \A j \in Pico!Slots : j # i => pgot'[j] = pgot[j] /\ sent'[j] = sent[j],
         r.kind = conn[i].kind, r.stream = conn[i].stream, r.attached = conn[i].attached, r.pcb = conn[i].pcb,
         r.gone = conn[i].gone, r.done = conn[i].done,
         pgot'[i] \o r.pushback \o r.chain = sent'[i], Len(r.pushback) <= 1,
         r.last # <<>> => pgot'[i] # <<>> /\ r.last = <<pgot'[i][Len(pgot'[i])]>>,
         r.kind = "udp" => Pico!QueueKept(i)'
  PROVE  (\A l \in Cores : Pico!CoreOwns(l)') /\ (\A j \in Pico!Slots : Pico!SlotOwned(j)' /\ Pico!Kept(j)')
<1>1. conn'[i] = r /\ \A j \in Pico!Slots : j # i => conn'[j] = conn[j] /\ owner'[j] = owner[j]
  BY DEF Pico!PoolInv, Pico!PoolTypes
<1>2. Pico!SlotOwned(i)'
  BY <1>1, StillOwned
<1>3. Pico!Kept(i)'
  BY <1>1 DEF Pico!Kept
<1> QED BY <1>1, <1>2, <1>3, LoneStep

LEMMA Appended ==
  ASSUME NEW S, NEW q \in Seq(S), NEW p \in Seq(S), NEW c \in Seq(S), NEW b \in S
  PROVE  q \o p \o Append(c, b) = Append(q \o p \o c, b)
OBVIOUS

\* What is known of a stream in use.
LEMMA InUse ==
  ASSUME Pico!PoolInv, NEW i \in Pico!Slots, conn[i].attached
  PROVE  /\ conn[i] \in Pico!Conn /\ conn[i].stream
         /\ conn[i].chain \in Seq(Pico!Byte) /\ conn[i].pushback \in Seq(Pico!Byte) /\ conn[i].last \in Seq(Pico!Byte)
         /\ pgot[i] \in Seq(Pico!Byte) /\ sent[i] \in Seq(Pico!Byte)
         /\ pgot[i] \o conn[i].pushback \o conn[i].chain = sent[i]
         /\ Len(conn[i].pushback) <= 1
         /\ conn[i].last # <<>> => pgot[i] # <<>> /\ conn[i].last = <<pgot[i][Len(pgot[i])]>>
         /\ conn[i].kind = "udp" => Pico!QueueKept(i)
<1>1. conn[i] \in Pico!Conn /\ pgot[i] \in Seq(Pico!Byte) /\ sent[i] \in Seq(Pico!Byte)
  BY DEF Pico!PoolInv, Pico!PoolTypes
<1>2. conn[i].stream
  BY DEF Pico!PoolInv, Pico!SlotOwned
<1>3. conn[i].chain \in Seq(Pico!Byte) /\ conn[i].pushback \in Seq(Pico!Byte) /\ conn[i].last \in Seq(Pico!Byte)
  BY <1>1 DEF Pico!Conn
<1>4. Pico!Kept(i)
  BY DEF Pico!PoolInv
<1> QED BY <1>1, <1>2, <1>3, <1>4 DEF Pico!Kept

LEMMA SegmentStep ==
  ASSUME Pico!PoolInv, NEW i \in Pico!Slots, Pico!Segment(i)
  PROVE  (\A l \in Cores : Pico!CoreOwns(l)') /\ (\A j \in Pico!Slots : Pico!SlotOwned(j)' /\ Pico!Kept(j)')
<1> DEFINE byte == <<Len(sent[i]) + 1, 1>>
           r == [conn[i] EXCEPT !.chain = Append(conn[i].chain, byte)]
<1>1. /\ conn[i].kind = "tcp" /\ conn[i].attached /\ core' = core /\ owner' = owner /\ pgot' = pgot
      /\ conn' = [conn EXCEPT ![i] = r] /\ sent' = [sent EXCEPT ![i] = Append(sent[i], byte)]
  BY DEF Pico!Segment, Pico!LeavesAlone
<1>2. \A k \in Cores : Pico!Busy(k) => core[k].at # i
  BY <1>1, TcpSettled, Settled
<1>3. byte \in Pico!Byte
  <2>1. Len(sent[i]) \in Nat
    BY <1>1, InUse
  <2> QED BY <2>1 DEF Pico!Byte
<1> HIDE DEF byte
<1>4. /\ r.chain = Append(conn[i].chain, byte) /\ r.pushback = conn[i].pushback /\ r.last = conn[i].last
      /\ r.kind = conn[i].kind /\ r.stream = conn[i].stream /\ r.attached = conn[i].attached
      /\ r.pcb = conn[i].pcb /\ r.gone = conn[i].gone /\ r.done = conn[i].done
  <2>1. conn[i] \in Pico!Conn
    BY <1>1, InUse
  <2> QED BY <2>1 DEF Pico!Conn
<1> HIDE DEF r
<1>5. sent'[i] = Append(sent[i], byte) /\ \A j \in Pico!Slots : j # i => pgot'[j] = pgot[j] /\ sent'[j] = sent[j]
  BY <1>1 DEF Pico!PoolInv, Pico!PoolTypes
<1>6. pgot'[i] \o r.pushback \o r.chain = sent'[i]
  <2>1. pgot[i] \o conn[i].pushback \o Append(conn[i].chain, byte) = Append(sent[i], byte)
    <3> DEFINE Joined(q, p, c) == q \o p \o c
               Added(q, b) == Append(q, b)
    <3>1. pgot[i] \in Seq(Pico!Byte) /\ conn[i].pushback \in Seq(Pico!Byte) /\ conn[i].chain \in Seq(Pico!Byte)
      BY <1>1, InUse
    <3>2. Joined(pgot[i], conn[i].pushback, conn[i].chain) = sent[i]
      BY <1>1, InUse
    <3>3. \A q, p, c \in Seq(Pico!Byte) : Joined(q, p, Added(c, byte)) = Added(Joined(q, p, c), byte)
      BY <1>3, Appended
    <3> HIDE DEF Joined, Added
    <3>4. Joined(pgot[i], conn[i].pushback, Added(conn[i].chain, byte)) = Added(sent[i], byte)
      BY <3>1, <3>2, <3>3
    <3> QED BY <3>4 DEF Joined, Added
  <2> QED BY <1>1, <1>4, <1>5, <2>1
<1>7. Len(r.pushback) <= 1 /\ (r.last # <<>> => pgot'[i] # <<>> /\ r.last = <<pgot'[i][Len(pgot'[i])]>>)
  BY <1>1, <1>4, InUse
<1> QED BY <1>1, <1>2, <1>4, <1>5, <1>6, <1>7, DataStep

-----------------------------------------------------------------------------
(* The queue of a UDP stream, which cuts the chain into datagrams.          *)

LEMMA RingHome == \A h \in Pico!Ring : h % QueueCapacity = h
BY Bounds DEF Pico!Ring
LEMMA RingNext ==
  ASSUME NEW h \in Pico!Ring, NEW j \in 0 .. QueueCapacity
  PROVE  (((h + 1) % QueueCapacity) + j) % QueueCapacity = (h + 1 + j) % QueueCapacity
<1>1. h \in Nat /\ j \in Nat /\ QueueCapacity \in Nat \ {0} /\ h + 1 <= QueueCapacity /\ j <= QueueCapacity
  BY Bounds DEF Pico!Ring
<1>2. CASE h + 1 < QueueCapacity
  <2>1. (h + 1) % QueueCapacity = h + 1
    BY <1>1, <1>2
  <2> QED BY <2>1
<1>3. CASE h + 1 = QueueCapacity
  <2>1. (h + 1) % QueueCapacity = 0
    BY <1>1, <1>3
  <2>2. (QueueCapacity + j) % QueueCapacity = j % QueueCapacity
    BY <1>1
  <2>3. ((h + 1) % QueueCapacity) + j = j
    BY <1>1, <2>1
  <2> QED BY <1>3, <2>2, <2>3
<1> QED BY <1>1, <1>2, <1>3
LEMMA RingApart ==
  ASSUME NEW h \in Pico!Ring, NEW j \in Nat, NEW n \in Nat, j < n, n < QueueCapacity
  PROVE  (h + j) % QueueCapacity # (h + n) % QueueCapacity
BY Bounds DEF Pico!Ring
LEMMA RingIn == \A a \in Nat : a % QueueCapacity \in Pico!Ring
BY Bounds DEF Pico!Ring

\* A cut of a context's chain into n datagrams.
LEMMA CutFacts ==
  ASSUME NEW i \in Pico!Slots, conn[i] \in Pico!Conn, NEW n \in Nat, NEW ends \in Pico!Cuts(i, n), Pico!Cut(i, n, ends)
  PROVE  /\ Len(conn[i].chain) \in Nat /\ conn[i].front \in Nat /\ conn[i].head \in Pico!Ring
         /\ conn[i].lengths \in [Pico!Ring -> Nat]
         /\ \A j \in 0 .. n : ends[j] \in Nat
         /\ ends[0] = 0 /\ ends[n] = Len(conn[i].chain) + conn[i].front
         /\ \A j \in 1 .. n : ends[j] = ends[j - 1] + conn[i].lengths[(conn[i].head + j - 1) % QueueCapacity]
<1>1. conn[i].chain \in Seq(Pico!Byte) /\ conn[i].front \in Nat /\ conn[i].head \in Pico!Ring
      /\ conn[i].lengths \in [Pico!Ring -> Nat]
  BY DEF Pico!Conn
<1>2. Len(conn[i].chain) \in Nat
  BY <1>1
<1>3. \A j \in 0 .. n : ends[j] \in 0 .. Len(conn[i].chain) + conn[i].front
  BY DEF Pico!Cuts
<1>4. \A j \in 0 .. n : ends[j] \in Nat
  BY <1>2, <1>3
<1> QED BY <1>1, <1>2, <1>4 DEF Pico!Cut

\* The queue, the chain's bytes and what is left of the first datagram move together.
LEMMA QueueSteady ==
  ASSUME NEW i \in Pico!Slots, Pico!QueueKept(i), Pico!Queued(i)' = Pico!Queued(i),
         conn'[i].head = conn[i].head, conn'[i].lengths = conn[i].lengths,
         Len(conn'[i].chain) + conn'[i].front = Len(conn[i].chain) + conn[i].front,
         Pico!Queued(i) = 0 => conn'[i].front = 0,
         Pico!Queued(i) > 0 => conn'[i].front <= conn[i].lengths[conn[i].head]
  PROVE  Pico!QueueKept(i)'
<1> DEFINE n == Pico!Queued(i)
<1>1. PICK ends \in Pico!Cuts(i, n) :
        Pico!Cut(i, n, ends) /\ \A a, b \in 0 .. n : a <= b => ends[a] <= ends[b]
  BY DEF Pico!QueueKept
<1>2. Pico!Cuts(i, n)' = Pico!Cuts(i, n)
  BY DEF Pico!Cuts
<1>3. Pico!Cut(i, n, ends)'
  BY <1>1 DEF Pico!Cut
<1> QED BY <1>1, <1>2, <1>3 DEF Pico!QueueKept

\* The datagrams of a connection are at most what its queue has room for.
LEMMA ConnCount ==
  ASSUME NEW i, conn[i] \in Pico!Conn
  PROVE  conn[i].count \in Nat /\ conn[i].count <= QueueCapacity
<1>1. conn[i].count \in 0 .. QueueCapacity
  BY DEF Pico!Conn
<1> QED BY <1>1, Bounds

\* What is left of the first datagram is in the chain.
LEMMA QueueHead ==
  ASSUME NEW i \in Pico!Slots, conn[i] \in Pico!Conn, Pico!QueueKept(i), ~Pico!Updating(i)
  PROVE  /\ Pico!Available(i) \in Nat /\ Pico!Available(i) <= Len(conn[i].chain)
         /\ conn[i].count = 0 => Pico!Available(i) = 0 /\ conn[i].front = 0
         /\ conn[i].count > 0 => conn[i].front + Pico!Available(i) = conn[i].lengths[conn[i].head]
<1> DEFINE n == conn[i].count
<1>1. Pico!Queued(i) = n
  BY DEF Pico!Queued
<1>2. n \in Nat
  BY ConnCount
<1>3. PICK ends \in Pico!Cuts(i, n) :
        Pico!Cut(i, n, ends) /\ \A a, b \in 0 .. n : a <= b => ends[a] <= ends[b]
  BY <1>1 DEF Pico!QueueKept
<1>4. /\ Len(conn[i].chain) \in Nat /\ conn[i].front \in Nat /\ conn[i].head \in Pico!Ring
      /\ conn[i].lengths \in [Pico!Ring -> Nat]
      /\ \A j \in 0 .. n : ends[j] \in Nat
      /\ ends[0] = 0 /\ ends[n] = Len(conn[i].chain) + conn[i].front
      /\ \A j \in 1 .. n : ends[j] = ends[j - 1] + conn[i].lengths[(conn[i].head + j - 1) % QueueCapacity]
  BY <1>2, <1>3, CutFacts
<1>5. CASE n = 0
  BY <1>1, <1>4, <1>5 DEF Pico!Available, Pico!QueueKept
<1>6. CASE n > 0
  <2>1. conn[i].front <= conn[i].lengths[conn[i].head]
    BY <1>1, <1>6 DEF Pico!QueueKept
  <2>2. conn[i].head \in Nat /\ conn[i].head + 1 - 1 = conn[i].head
    BY <1>4, Bounds DEF Pico!Ring
  <2>3. ends[1] = conn[i].lengths[conn[i].head]
    <3>1. 1 \in 1 .. n /\ 1 - 1 = 0
      BY <1>2, <1>6
    <3>2. ends[1] = ends[0] + conn[i].lengths[(conn[i].head + 1 - 1) % QueueCapacity]
      BY <1>4, <3>1
    <3>3. conn[i].lengths[conn[i].head] \in Nat
      BY <1>4
    <3> QED BY <1>4, <2>2, <3>2, <3>3, RingHome
  <2>4. ends[1] <= ends[n]
    BY <1>2, <1>3, <1>6
  <2>5. Pico!Available(i) = conn[i].lengths[conn[i].head] - conn[i].front
    BY <1>6 DEF Pico!Available
  <2>6. conn[i].lengths[conn[i].head] \in Nat
    BY <1>4
  <2> HIDE DEF n
  <2> QED BY <1>4, <1>6, <2>1, <2>3, <2>4, <2>5, <2>6, SMTT(30) DEF n
<1> QED BY <1>2, <1>5, <1>6

\* A read that ends a datagram takes it off the queue: the others keep their bytes.
LEMMA QueuePop ==
  ASSUME NEW i \in Pico!Slots, conn[i] \in Pico!Conn, Pico!QueueKept(i), ~Pico!Updating(i), conn[i].count > 0,
         Pico!Updating(i)', conn'[i].count = conn[i].count, conn'[i].lengths = conn[i].lengths,
         conn'[i].front = 0, conn'[i].head = (conn[i].head + 1) % QueueCapacity,
         Len(conn'[i].chain) = Len(conn[i].chain) - Pico!Available(i)
  PROVE  Pico!QueueKept(i)'
<1>0. PICK n \in Nat : n = conn[i].count
  BY ConnCount
<1> DEFINE m == n - 1
           h == conn[i].head
           len == conn[i].lengths
           total == Len(conn[i].chain) + conn[i].front
<1>1. Pico!Queued(i) = n /\ Pico!Queued(i)' = m
  BY <1>0 DEF Pico!Queued
<1>2. n \in Nat \ {0} /\ n <= QueueCapacity /\ m \in Nat
  <2>1. n \in Nat /\ n <= QueueCapacity /\ n > 0
    BY <1>0, ConnCount
  <2> QED BY <2>1
<1>3. PICK ends \in Pico!Cuts(i, n) :
        Pico!Cut(i, n, ends) /\ \A a, b \in 0 .. n : a <= b => ends[a] <= ends[b]
  BY <1>1 DEF Pico!QueueKept
<1>4. /\ Len(conn[i].chain) \in Nat /\ conn[i].front \in Nat /\ h \in Pico!Ring
      /\ len \in [Pico!Ring -> Nat]
      /\ \A j \in 0 .. n : ends[j] \in Nat
      /\ ends[0] = 0 /\ ends[n] = total
      /\ \A j \in 1 .. n : ends[j] = ends[j - 1] + len[(h + j - 1) % QueueCapacity]
  BY <1>2, <1>3, CutFacts
<1>5. total \in Nat /\ h \in Nat
  BY <1>4, Bounds DEF Pico!Ring
<1> DEFINE rest == [j \in 0 .. m |-> ends[j + 1] - ends[1]]
<1>6. ends[1] = len[h]
  <2>1. 1 \in 1 .. n /\ h + 1 - 1 = h
    BY <1>2, <1>5
  <2>2. ends[1] = ends[0] + len[(h + 1 - 1) % QueueCapacity]
    BY <1>4, <2>1
  <2>3. len[h] \in Nat
    BY <1>4
  <2> QED BY <1>4, <2>1, <2>2, <2>3, RingHome
<1>7. Len(conn'[i].chain) = total - ends[1] /\ ends[1] \in Nat
  <2>1. conn[i].front + Pico!Available(i) = len[h] /\ Pico!Available(i) \in Nat
    BY QueueHead
  <2>2. ends[1] \in Nat
    BY <1>2, <1>4
  <2> QED BY <1>4, <1>6, <2>1, <2>2, SMTT(30)
<1>8. \A j \in 0 .. m : /\ j + 1 \in 0 .. n /\ 1 \in 0 .. n /\ ends[j + 1] \in Nat /\ ends[1] <= ends[j + 1]
                        /\ ends[j + 1] <= ends[n] /\ rest[j] = ends[j + 1] - ends[1]
  <2> SUFFICES ASSUME NEW j \in 0 .. m
               PROVE  /\ j + 1 \in 0 .. n /\ 1 \in 0 .. n /\ ends[j + 1] \in Nat /\ ends[1] <= ends[j + 1]
                      /\ ends[j + 1] <= ends[n] /\ rest[j] = ends[j + 1] - ends[1]
    OBVIOUS
  <2>1. j + 1 \in 0 .. n /\ 1 \in 0 .. n /\ n \in 0 .. n /\ 1 <= j + 1 /\ j + 1 <= n
    BY <1>2
  <2> HIDE DEF m
  <2> QED BY <1>3, <1>4, <2>1
<1>9. \A j \in 0 .. m : rest[j] \in 0 .. Len(conn'[i].chain) + conn'[i].front
  <2> SUFFICES ASSUME NEW j \in 0 .. m PROVE rest[j] \in 0 .. Len(conn'[i].chain) + conn'[i].front
    OBVIOUS
  <2>1. /\ ends[j + 1] \in Nat /\ ends[1] <= ends[j + 1] /\ ends[j + 1] <= total /\ rest[j] = ends[j + 1] - ends[1]
        /\ ends[1] \in Nat /\ Len(conn'[i].chain) = total - ends[1] /\ conn'[i].front = 0
    BY <1>4, <1>7, <1>8
  <2> HIDE DEF rest, m, total
  <2> QED BY <1>5, <2>1
<1>10. rest \in Pico!Cuts(i, m)'
  BY <1>9 DEF Pico!Cuts
<1> HIDE DEF rest
<1>11. rest[0] = 0 /\ rest[m] = Len(conn'[i].chain) + conn'[i].front
  <2>1. 0 \in 0 .. m /\ m \in 0 .. m /\ m + 1 = n /\ 0 + 1 = 1
    BY <1>2
  <2>2. rest[0] = ends[1] - ends[1] /\ rest[m] = total - ends[1]
    BY <1>4, <1>8, <2>1
  <2> HIDE DEF m, total
  <2> QED BY <1>5, <1>7, <2>2
<1>12. \A j \in 1 .. m : rest[j] = rest[j - 1] + conn'[i].lengths[(conn'[i].head + j - 1) % QueueCapacity]
  <2> SUFFICES ASSUME NEW j \in 1 .. m
               PROVE  rest[j] = rest[j - 1] + len[(((h + 1) % QueueCapacity) + j - 1) % QueueCapacity]
    OBVIOUS
  <2>1. j \in 0 .. m /\ j - 1 \in 0 .. m /\ j - 1 + 1 = j /\ j + 1 \in 1 .. n /\ j + 1 - 1 = j
        /\ j - 1 \in 0 .. QueueCapacity
    BY <1>2, Bounds
  <2>2. ends[j + 1] = ends[j] + len[(h + (j + 1) - 1) % QueueCapacity]
    <3>1. ends[j + 1] = ends[(j + 1) - 1] + len[(h + (j + 1) - 1) % QueueCapacity]
      BY <1>4, <2>1
    <3> QED BY <2>1, <3>1
  <2>3. (((h + 1) % QueueCapacity) + j - 1) % QueueCapacity = (h + (j + 1) - 1) % QueueCapacity
    <3>1. (h + 1) % QueueCapacity \in Nat
      BY <1>5, Bounds
    <3>2. (((h + 1) % QueueCapacity) + (j - 1)) % QueueCapacity = (h + 1 + (j - 1)) % QueueCapacity
      BY <1>4, <2>1, RingNext
    <3>3. ((h + 1) % QueueCapacity) + j - 1 = ((h + 1) % QueueCapacity) + (j - 1) /\ h + 1 + (j - 1) = h + (j + 1) - 1
      <4> HIDE DEF h
      <4> QED BY <1>5, <2>1, <3>1
    <3> QED BY <3>2, <3>3
  <2>4. len[(h + (j + 1) - 1) % QueueCapacity] \in Nat
    <3>1. h + (j + 1) - 1 \in Nat
      BY <1>5
    <3> QED BY <1>4, <3>1, RingIn
  <2>5. rest[j] = ends[j + 1] - ends[1] /\ rest[j - 1] = ends[j] - ends[1] /\ ends[j] \in Nat /\ ends[1] \in Nat
    BY <1>7, <1>8, <2>1
  <2> HIDE DEF len, h, m
  <2> QED BY <2>2, <2>3, <2>4, <2>5
<1>13. Pico!Cut(i, m, rest)'
  BY <1>11, <1>12 DEF Pico!Cut
<1>14. \A a, b \in 0 .. m : a <= b => rest[a] <= rest[b]
  <2> SUFFICES ASSUME NEW a \in 0 .. m, NEW b \in 0 .. m, a <= b PROVE rest[a] <= rest[b]
    OBVIOUS
  <2>1. a + 1 \in 0 .. n /\ b + 1 \in 0 .. n /\ a + 1 <= b + 1
    BY <1>2
  <2>2. ends[a + 1] <= ends[b + 1]
    BY <1>3, <2>1
  <2> HIDE DEF m
  <2> QED BY <1>7, <1>8, <2>2
<1>15. m > 0 => conn'[i].front <= conn'[i].lengths[conn'[i].head]
  <2>1. (h + 1) % QueueCapacity \in Pico!Ring
    BY <1>5, RingIn
  <2>2. len[(h + 1) % QueueCapacity] \in Nat
    BY <1>4, <2>1
  <2> QED BY <2>2
<1> HIDE DEF m
<1> QED BY <1>1, <1>10, <1>13, <1>14, <1>15 DEF Pico!QueueKept

\* A datagram that joins the queue cuts the chain once more, at its new end.
LEMMA QueuePush ==
  ASSUME NEW i \in Pico!Slots, conn[i] \in Pico!Conn, Pico!QueueKept(i), ~Pico!Updating(i), ~Pico!Updating(i)',
         conn[i].count < QueueCapacity, NEW size \in Nat,
         conn'[i].count = conn[i].count + 1, conn'[i].head = conn[i].head, conn'[i].front = conn[i].front,
         conn'[i].lengths = [conn[i].lengths EXCEPT ![Pico!NextEntry(i)] = size],
         Len(conn'[i].chain) = Len(conn[i].chain) + size
  PROVE  Pico!QueueKept(i)'
<1>0. PICK n \in Nat : n = conn[i].count
  BY ConnCount
<1> DEFINE h == conn[i].head
           len == conn[i].lengths
           total == Len(conn[i].chain) + conn[i].front
           after == (h + n) % QueueCapacity
<1>1. Pico!Queued(i) = n /\ Pico!Queued(i)' = n + 1 /\ Pico!NextEntry(i) = after
  BY <1>0 DEF Pico!Queued, Pico!NextEntry
<1>2. n < QueueCapacity /\ n + 1 \in Nat
  BY <1>0
<1>3. PICK ends \in Pico!Cuts(i, n) :
        Pico!Cut(i, n, ends) /\ \A a, b \in 0 .. n : a <= b => ends[a] <= ends[b]
  BY <1>1 DEF Pico!QueueKept
<1>4. /\ Len(conn[i].chain) \in Nat /\ conn[i].front \in Nat /\ h \in Pico!Ring
      /\ len \in [Pico!Ring -> Nat]
      /\ \A j \in 0 .. n : ends[j] \in Nat
      /\ ends[0] = 0 /\ ends[n] = total
      /\ \A j \in 1 .. n : ends[j] = ends[j - 1] + len[(h + j - 1) % QueueCapacity]
  BY <1>3, CutFacts
<1>5. total \in Nat /\ h \in Nat
  BY <1>4, Bounds DEF Pico!Ring
<1>6. Len(conn'[i].chain) + conn'[i].front = total + size
  BY <1>4
<1>7. after \in Pico!Ring /\ conn'[i].lengths = [len EXCEPT ![after] = size]
  <2>1. h + n \in Nat
    BY <1>5
  <2> QED BY <1>1, <2>1, RingIn
<1>8. conn'[i].lengths[after] = size /\ \A e \in Pico!Ring : e # after => conn'[i].lengths[e] = len[e]
  <2> HIDE DEF after
  <2> QED BY <1>4, <1>7
<1> DEFINE more == [j \in 0 .. n + 1 |-> IF j = n + 1 THEN ends[n] + size ELSE ends[j]]
<1>9. \A j \in 0 .. n : more[j] = ends[j]
  BY <1>2
<1>10. more[n + 1] = ends[n] + size
  BY <1>2
<1>11. \A j \in 0 .. n : ends[j] <= ends[n]
  BY <1>3
<1>12. \A j \in 0 .. n + 1 : more[j] \in 0 .. Len(conn'[i].chain) + conn'[i].front
  <2> SUFFICES ASSUME NEW j \in 0 .. n + 1 PROVE more[j] \in 0 .. total + size
    BY <1>6
  <2>1. CASE j = n + 1
    <3> HIDE DEF more, total
    <3> QED BY <1>4, <1>5, <1>10, <2>1
  <2>2. CASE j # n + 1
    <3>1. j \in 0 .. n
      BY <2>2
    <3>2. more[j] = ends[j] /\ ends[j] \in Nat /\ ends[j] <= total
      BY <1>4, <1>9, <1>11, <3>1
    <3> HIDE DEF more, total
    <3> QED BY <1>5, <3>2
  <2> QED BY <2>1, <2>2
<1>13. more \in Pico!Cuts(i, n + 1)'
  BY <1>12 DEF Pico!Cuts
<1> HIDE DEF more
<1>14. more[0] = 0 /\ more[n + 1] = Len(conn'[i].chain) + conn'[i].front
  <2>1. 0 \in 0 .. n
    OBVIOUS
  <2> QED BY <1>4, <1>6, <1>9, <1>10, <2>1
<1>15. \A j \in 1 .. n + 1 : more[j] = more[j - 1] + conn'[i].lengths[(conn'[i].head + j - 1) % QueueCapacity]
  <2> SUFFICES ASSUME NEW j \in 1 .. n + 1
               PROVE  more[j] = more[j - 1] + conn'[i].lengths[(h + j - 1) % QueueCapacity]
    OBVIOUS
  <2>1. CASE j = n + 1
    <3>1. j - 1 = n /\ h + j - 1 = h + n /\ n \in 0 .. n
      BY <1>5, <2>1
    <3>2. conn'[i].lengths[(h + j - 1) % QueueCapacity] = size
      BY <1>8, <3>1
    <3> QED BY <1>9, <1>10, <2>1, <3>1, <3>2
  <2>2. CASE j # n + 1
    <3>1. j \in 1 .. n /\ j \in 0 .. n /\ j - 1 \in 0 .. n /\ j - 1 \in Nat /\ j - 1 < n /\ h + j - 1 = h + (j - 1)
          /\ h + (j - 1) \in Nat
      BY <1>5, <2>2
    <3>2. (h + (j - 1)) % QueueCapacity # after
      BY <1>2, <1>4, <3>1, RingApart
    <3>3. (h + (j - 1)) % QueueCapacity \in Pico!Ring
      BY <3>1, RingIn
    <3>4. conn'[i].lengths[(h + j - 1) % QueueCapacity] = len[(h + j - 1) % QueueCapacity]
      <4> HIDE DEF after
      <4> QED BY <1>8, <3>1, <3>2, <3>3
    <3> QED BY <1>4, <1>9, <3>1, <3>4
  <2> QED BY <2>1, <2>2
<1>16. Pico!Cut(i, n + 1, more)'
  BY <1>14, <1>15 DEF Pico!Cut
<1>17. \A a, b \in 0 .. n + 1 : a <= b => more[a] <= more[b]
  <2> SUFFICES ASSUME NEW a \in 0 .. n + 1, NEW b \in 0 .. n + 1, a <= b PROVE more[a] <= more[b]
    OBVIOUS
  <2>1. CASE b = n + 1 /\ a = n + 1
    <3>1. more[n + 1] \in Nat
      BY <1>4, <1>5, <1>10, SMTT(30)
    <3> QED BY <2>1, <3>1
  <2>2. CASE b = n + 1 /\ a # n + 1
    <3>1. a \in 0 .. n
      BY <2>2
    <3>2. more[a] = ends[a] /\ more[b] = ends[n] + size
      BY <1>9, <1>10, <2>2, <3>1
    <3>3. ends[a] \in Nat /\ ends[a] <= ends[n] /\ ends[n] \in Nat
      BY <1>4, <1>5, <1>11, <3>1
    <3> QED BY <3>2, <3>3
  <2>3. CASE b # n + 1
    <3>1. a \in 0 .. n /\ b \in 0 .. n
      BY <2>3
    <3> QED BY <1>3, <1>9, <3>1
  <2> QED BY <2>1, <2>2, <2>3
<1>18. conn'[i].front <= conn'[i].lengths[conn'[i].head]
  <2>1. CASE n = 0
    <3>1. after = h /\ conn[i].front = 0
      <4>1. h + n = h
        BY <1>5, <2>1
      <4>2. conn[i].front = 0
        BY <1>1, <2>1 DEF Pico!QueueKept
      <4> QED BY <1>4, <4>1, <4>2, RingHome
    <3>2. conn'[i].lengths[h] = size
      <4> HIDE DEF h, after
      <4> QED BY <1>8, <3>1
    <3> QED BY <3>1, <3>2
  <2>2. CASE n > 0
    <3>1. conn[i].front <= len[h]
      BY <1>1, <2>2 DEF Pico!QueueKept
    <3>2. h # after
      <4>1. (h + 0) % QueueCapacity # (h + n) % QueueCapacity
        BY <1>2, <1>4, <2>2, RingApart
      <4>2. h + 0 = h
        BY <1>5
      <4> QED BY <1>4, <4>1, <4>2, RingHome
    <3>3. conn'[i].lengths[h] = len[h]
      <4> HIDE DEF after
      <4> QED BY <1>4, <1>8, <3>2
    <3> QED BY <3>1, <3>3
  <2> QED BY <2>1, <2>2
<1>19. n + 1 # 0
  OBVIOUS
<1> QED BY <1>1, <1>13, <1>16, <1>17, <1>18, <1>19 DEF Pico!QueueKept

\* The two halves of a UDP read, and what stands between them, are one core's:
\* the second uncounts the datagram the first has taken.
LEMMA ReadCountsStep ==
  ASSUME Pico!PoolInv, NEW k \in Cores, Pico!ReadCounts(k)
  PROVE  (\A l \in Cores : Pico!CoreOwns(l)') /\ (\A j \in Pico!Slots : Pico!SlotOwned(j)' /\ Pico!Kept(j)')
<1>0. PICK i \in Pico!Slots : i = core[k].at
  BY DEF Pico!PoolInv, Pico!ReadCounts, Pico!CoreOwns
<1> DEFINE r == [conn[i] EXCEPT !.count = conn[i].count - 1]
<1>1. /\ core[k].pc = "count" /\ conn' = [conn EXCEPT ![i] = r]
      /\ core' = [core EXCEPT ![k] = Pico!Idle] /\ owner' = owner /\ pgot' = pgot /\ sent' = sent
  BY <1>0 DEF Pico!ReadCounts
<1>2. owner[i] = k /\ conn[i].attached /\ conn[i] \in Pico!Conn
  BY <1>0, <1>1 DEF Pico!PoolInv, Pico!PoolTypes, Pico!CoreOwns, Pico!Busy
<1>3. /\ r.count = conn[i].count - 1 /\ r.chain = conn[i].chain /\ r.pushback = conn[i].pushback
      /\ r.last = conn[i].last /\ r.front = conn[i].front /\ r.head = conn[i].head /\ r.lengths = conn[i].lengths
      /\ r.kind = conn[i].kind /\ r.stream = conn[i].stream /\ r.attached = conn[i].attached
      /\ r.pcb = conn[i].pcb /\ r.gone = conn[i].gone /\ r.done = conn[i].done
  BY <1>2 DEF Pico!Conn
<1> HIDE DEF r
<1>4. conn'[i] = r /\ \A j \in Pico!Slots : j # i => conn'[j] = conn[j]
  BY <1>1 DEF Pico!PoolInv, Pico!PoolTypes
<1>5. core'[k].pc = "idle" /\ \A l \in Cores : l # k => core'[l] = core[l]
  BY <1>1 DEF Pico!PoolInv, Pico!PoolTypes, Pico!Idle
<1>6. \A l \in Cores : l # k /\ Pico!Busy(l) => core[l].at # i
  BY <1>2, Alone
<1>7. Pico!Updating(i) /\ ~Pico!Updating(i)'
  BY <1>0, <1>1, <1>5, <1>6 DEF Pico!Updating, Pico!Busy
<1>8. Pico!SlotOwned(i)'
  BY <1>1, <1>2, <1>3, <1>4, StillOwned
<1>9. ASSUME conn[i].kind = "udp" PROVE Pico!QueueKept(i)'
  <2>1. Pico!QueueKept(i)
    BY <1>2, <1>9, InUse
  <2>2. Pico!Queued(i)' = Pico!Queued(i)
    BY <1>3, <1>4, <1>7 DEF Pico!Queued
  <2>3. /\ Pico!Queued(i) = 0 => conn[i].front = 0
        /\ Pico!Queued(i) > 0 => conn[i].front <= conn[i].lengths[conn[i].head]
    BY <2>1 DEF Pico!QueueKept
  <2> QED BY <1>3, <1>4, <2>1, <2>2, <2>3, QueueSteady
<1>10. Pico!Kept(i)'
  <2>1. /\ pgot[i] \o conn[i].pushback \o conn[i].chain = sent[i] /\ Len(conn[i].pushback) <= 1
        /\ conn[i].last # <<>> => pgot[i] # <<>> /\ conn[i].last = <<pgot[i][Len(pgot[i])]>>
    BY <1>2, InUse
  <2> QED BY <1>1, <1>3, <1>4, <1>9, <2>1 DEF Pico!Kept
<1>11. \A l \in Cores : core'[l] = core[l]
                       \/ /\ core[l].pc \in {"attach", "count"} => core[l].at = i
                          /\ core'[l].pc \in {"attach", "count"} => core'[l].at = i
  BY <1>0, <1>5
<1>12. Pico!CoreOwns(k)'
  BY <1>5 DEF Pico!CoreOwns, Pico!Busy
<1>13. \A l \in Cores : (core'[l] = core[l] /\ (Pico!Busy(l) => core[l].at # i)) \/ Pico!CoreOwns(l)'
  BY <1>5, <1>6, <1>12
<1> QED BY <1>1, <1>4, <1>8, <1>10, <1>11, <1>13, Elsewhere

\* A reader has its stream alone, and is between no two halves of a read.
LEMMA Reader ==
  ASSUME Pico!PoolInv, NEW k \in Cores, NEW i \in Pico!Slots, Pico!Holds(k, i)
  PROVE  /\ conn[i].attached /\ ~Pico!Updating(i) /\ core[k].pc = "idle"
         /\ \A l \in Cores : Pico!Busy(l) => core[l].at # i
<1>1. core[k].pc = "idle" /\ owner[i] = k /\ conn[i].attached
  BY DEF Pico!Holds
<1>2. \A l \in Cores : Pico!Busy(l) => core[l].at # i
  BY <1>1, Alone DEF Pico!Busy
<1> QED BY <1>1, <1>2 DEF Pico!Updating, Pico!Busy

LEMMA SeekBackStep ==
  ASSUME Pico!PoolInv, NEW k \in Cores, NEW i \in Pico!Slots, Pico!SeekBack(k, i)
  PROVE  (\A l \in Cores : Pico!CoreOwns(l)') /\ (\A j \in Pico!Slots : Pico!SlotOwned(j)' /\ Pico!Kept(j)')
<1> DEFINE r == [conn[i] EXCEPT !.pushback = conn[i].last, !.last = <<>>]
           less == SubSeq(pgot[i], 1, Len(pgot[i]) - 1)
<1>1. /\ Pico!Holds(k, i) /\ conn[i].last # <<>> /\ conn[i].pushback = <<>>
      /\ conn' = [conn EXCEPT ![i] = r] /\ pgot' = [pgot EXCEPT ![i] = less]
      /\ core' = core /\ owner' = owner /\ sent' = sent
  BY DEF Pico!SeekBack
<1>2. /\ conn[i].attached /\ ~Pico!Updating(i) /\ \A l \in Cores : Pico!Busy(l) => core[l].at # i
  BY <1>1, Reader
<1>3. /\ conn[i] \in Pico!Conn /\ conn[i].chain \in Seq(Pico!Byte) /\ pgot[i] \in Seq(Pico!Byte)
      /\ pgot[i] \o <<>> \o conn[i].chain = sent[i] /\ pgot[i] # <<>> /\ conn[i].last = <<pgot[i][Len(pgot[i])]>>
  BY <1>1, <1>2, InUse
<1>4. /\ r.chain = conn[i].chain /\ r.pushback = conn[i].last /\ r.last = <<>>
      /\ r.count = conn[i].count /\ r.front = conn[i].front /\ r.head = conn[i].head /\ r.lengths = conn[i].lengths
      /\ r.kind = conn[i].kind /\ r.stream = conn[i].stream /\ r.attached = conn[i].attached
      /\ r.pcb = conn[i].pcb /\ r.gone = conn[i].gone /\ r.done = conn[i].done
  BY <1>3 DEF Pico!Conn
<1> HIDE DEF r
<1>5. /\ conn'[i] = r /\ pgot'[i] = less
      /\ \A j \in Pico!Slots : j # i => pgot'[j] = pgot[j] /\ sent'[j] = sent[j]
  BY <1>1 DEF Pico!PoolInv, Pico!PoolTypes
<1>6. less \o <<pgot[i][Len(pgot[i])]>> = pgot[i]
  BY <1>3, LastOf
<1> HIDE DEF less
<1>7. pgot'[i] \o r.pushback \o r.chain = sent'[i]
  <2>1. pgot[i] \o <<>> = pgot[i]
    BY <1>3
  <2>2. less \o r.pushback = pgot[i]
    BY <1>3, <1>4, <1>6
  <2>3. pgot[i] \o r.chain = sent[i]
    BY <1>3, <1>4, <2>1
  <2> QED BY <1>1, <1>5, <2>2, <2>3
<1>8. Len(r.pushback) <= 1
  <2>1. Len(<<pgot[i][Len(pgot[i])]>>) = 1
    OBVIOUS
  <2> QED BY <1>3, <1>4, <2>1
<1>9. ASSUME r.kind = "udp" PROVE Pico!QueueKept(i)'
  <2>1. Pico!QueueKept(i)
    BY <1>2, <1>4, <1>9, InUse
  <2>2. Pico!Queued(i)' = Pico!Queued(i)
    BY <1>1, <1>4, <1>5 DEF Pico!Queued, Pico!Updating
  <2>3. /\ Pico!Queued(i) = 0 => conn[i].front = 0
        /\ Pico!Queued(i) > 0 => conn[i].front <= conn[i].lengths[conn[i].head]
    BY <2>1 DEF Pico!QueueKept
  <2> QED BY <1>4, <1>5, <2>1, <2>2, <2>3, QueueSteady
<1> QED BY <1>1, <1>2, <1>4, <1>5, <1>7, <1>8, <1>9, DataStep

\* What a read takes from what was pushed back and from the chain.
ReadKeeps(a, b, c, n) ==
  LET out  == b \o Pico!First(c, n)
      rest == Pico!DropFirst(c, n)
  IN
  /\ out \in Seq(Pico!Byte) /\ rest \in Seq(Pico!Byte) /\ (a \o out) \o <<>> \o rest = a \o b \o c
  /\ out # <<>> => a \o out # <<>> /\ (a \o out)[Len(a \o out)] = out[Len(out)]
  /\ out = <<>> => a \o out = a
  /\ Len(rest) = IF n < Len(c) THEN Len(c) - n ELSE 0
LEMMA ReadBytes ==
  ASSUME NEW a \in Seq(Pico!Byte), NEW b \in Seq(Pico!Byte), NEW c \in Seq(Pico!Byte), NEW n \in Nat
  PROVE  ReadKeeps(a, b, c, n)
<1> DEFINE f == Pico!First(c, n)
           out == b \o f
           rest == Pico!DropFirst(c, n)
<1>1. f \in Seq(Pico!Byte) /\ rest \in Seq(Pico!Byte) /\ f \o rest = c /\ Len(rest) = IF n < Len(c) THEN Len(c) - n ELSE 0
  BY FirstRest
<1> HIDE DEF f, rest
<1>3. out \in Seq(Pico!Byte)
  BY <1>1
<1>4. a \o (b \o f) \o rest = a \o b \o (f \o rest)
  <2>1. f \in Seq(Pico!Byte) /\ rest \in Seq(Pico!Byte)
    BY <1>1
  <2> QED BY <2>1
<1> HIDE DEF out
<1>5. (a \o out) \o <<>> = a \o out
  <2>1. a \o out \in Seq(Pico!Byte)
    BY <1>3
  <2> QED BY <2>1
<1>6. (a \o out) \o <<>> \o rest = a \o b \o c
  BY <1>1, <1>4, <1>5 DEF out
<1>7. ASSUME out # <<>> PROVE a \o out # <<>> /\ (a \o out)[Len(a \o out)] = out[Len(out)]
  <2>1. Len(out) \in Nat \ {0}
    BY <1>3, <1>7
  <2>2. Len(a \o out) = Len(a) + Len(out) /\ Len(a) \in Nat
    BY <1>3
  <2>3. a \o out # <<>>
    BY <2>1, <2>2
  <2>4. (a \o out)[Len(a) + Len(out)] = out[Len(out)]
    BY <1>3, <2>1
  <2> QED BY <2>2, <2>3, <2>4
<1>8. out = <<>> => a \o out = a
  OBVIOUS
<1> QED BY <1>1, <1>3, <1>6, <1>7, <1>8 DEF ReadKeeps, out, rest, f

LEMMA ReadTcpStep ==
  ASSUME Pico!PoolInv, NEW k \in Cores, NEW i \in Pico!Slots, NEW n \in 1 .. 2, Pico!ReadTcp(k, i, n)
  PROVE  (\A l \in Cores : Pico!CoreOwns(l)') /\ (\A j \in Pico!Slots : Pico!SlotOwned(j)' /\ Pico!Kept(j)')
<1> DEFINE back == conn[i].pushback
           out  == back \o Pico!First(conn[i].chain, n - Len(back))
           rest == Pico!DropFirst(conn[i].chain, n - Len(back))
           r    == [conn[i] EXCEPT !.chain = rest, !.pushback = <<>>, !.last = <<out[Len(out)]>>]
<1>1. /\ Pico!Holds(k, i) /\ conn[i].kind = "tcp" /\ out # <<>> /\ conn' = [conn EXCEPT ![i] = r]
      /\ pgot' = [pgot EXCEPT ![i] = pgot[i] \o out] /\ core' = core /\ owner' = owner /\ sent' = sent
  BY DEF Pico!ReadTcp
<1>2. /\ conn[i].attached /\ \A l \in Cores : Pico!Busy(l) => core[l].at # i
  BY <1>1, Reader
<1>3. /\ conn[i] \in Pico!Conn /\ conn[i].chain \in Seq(Pico!Byte) /\ back \in Seq(Pico!Byte)
      /\ pgot[i] \in Seq(Pico!Byte) /\ pgot[i] \o back \o conn[i].chain = sent[i] /\ Len(back) <= 1
  BY <1>2, InUse
<1>4. n - Len(back) \in Nat
  <2>1. Len(back) \in Nat
    BY <1>3
  <2> HIDE DEF back
  <2> QED BY <1>3, <2>1, RoomLeft
<1>5. /\ (pgot[i] \o out) \o <<>> \o rest = sent[i]
      /\ pgot[i] \o out # <<>> /\ (pgot[i] \o out)[Len(pgot[i] \o out)] = out[Len(out)]
  <2> DEFINE m == n - Len(back)
             a == pgot[i]
             c == conn[i].chain
  <2>1. a \in Seq(Pico!Byte) /\ back \in Seq(Pico!Byte) /\ c \in Seq(Pico!Byte) /\ m \in Nat
    BY <1>3, <1>4
  <2> HIDE DEF m, a, c, back
  <2>2. ReadKeeps(a, back, c, m)
    BY <2>1, ReadBytes
  <2> USE DEF m, a, c, back
  <2> QED BY <1>1, <1>3, <2>2 DEF ReadKeeps
<1> HIDE DEF out, rest
<1>6. /\ r.chain = rest /\ r.pushback = <<>> /\ r.last = <<out[Len(out)]>>
      /\ r.kind = conn[i].kind /\ r.stream = conn[i].stream /\ r.attached = conn[i].attached
      /\ r.pcb = conn[i].pcb /\ r.gone = conn[i].gone /\ r.done = conn[i].done
  BY <1>3 DEF Pico!Conn
<1> HIDE DEF r
<1>7. /\ pgot'[i] = pgot[i] \o out
      /\ \A j \in Pico!Slots : j # i => pgot'[j] = pgot[j] /\ sent'[j] = sent[j]
  BY <1>1 DEF Pico!PoolInv, Pico!PoolTypes
<1>8. /\ pgot'[i] \o r.pushback \o r.chain = sent'[i]
  BY <1>1, <1>5, <1>6, <1>7
<1>9. r.last # <<>> => pgot'[i] # <<>> /\ r.last = <<pgot'[i][Len(pgot'[i])]>>
  BY <1>5, <1>6, <1>7
<1>10. Len(r.pushback) <= 1
  BY <1>6
<1>11. r.kind # "udp"
  BY <1>1, <1>6
<1> QED BY <1>1, <1>2, <1>6, <1>7, <1>8, <1>9, <1>10, <1>11, DataStep

LEMMA ReadUdpStep ==
  ASSUME Pico!PoolInv, NEW k \in Cores, NEW i \in Pico!Slots, NEW n \in 1 .. 2, Pico!ReadUdp(k, i, n)
  PROVE  (\A l \in Cores : Pico!CoreOwns(l)') /\ (\A j \in Pico!Slots : Pico!SlotOwned(j)' /\ Pico!Kept(j)')
<1> DEFINE back == conn[i].pushback
           room == n - Len(back)
           want == IF Pico!Available(i) < room THEN Pico!Available(i) ELSE room
           out  == back \o Pico!First(conn[i].chain, want)
           rest == Pico!DropFirst(conn[i].chain, want)
           ends == room > 0 /\ conn[i].count > 0 /\ want = Pico!Available(i)
           last1 == IF out = <<>> THEN conn[i].last ELSE <<out[Len(out)]>>
           front1 == IF ends THEN 0 ELSE conn[i].front + want
           head1 == IF ends THEN (conn[i].head + 1) % QueueCapacity ELSE conn[i].head
           r == [conn[i] EXCEPT !.chain = rest, !.pushback = <<>>, !.last = last1, !.front = front1, !.head = head1]
<1>1. /\ Pico!Holds(k, i) /\ conn[i].kind = "udp" /\ conn' = [conn EXCEPT ![i] = r]
      /\ pgot' = [pgot EXCEPT ![i] = pgot[i] \o out] /\ owner' = owner /\ sent' = sent
      /\ core' = IF ends THEN [core EXCEPT ![k].pc = "count", ![k].at = i] ELSE core
  BY DEF Pico!ReadUdp
<1>2. /\ conn[i].attached /\ ~Pico!Updating(i) /\ core[k].pc = "idle" /\ \A l \in Cores : Pico!Busy(l) => core[l].at # i
  BY <1>1, Reader
<1>3. /\ conn[i] \in Pico!Conn /\ conn[i].chain \in Seq(Pico!Byte) /\ back \in Seq(Pico!Byte)
      /\ pgot[i] \in Seq(Pico!Byte) /\ pgot[i] \o back \o conn[i].chain = sent[i] /\ Len(back) <= 1
      /\ conn[i].last # <<>> => pgot[i] # <<>> /\ conn[i].last = <<pgot[i][Len(pgot[i])]>>
      /\ Pico!QueueKept(i)
  BY <1>1, <1>2, InUse
<1>4. /\ Pico!Available(i) \in Nat /\ Pico!Available(i) <= Len(conn[i].chain)
      /\ conn[i].count = 0 => Pico!Available(i) = 0 /\ conn[i].front = 0
      /\ conn[i].count > 0 => conn[i].front + Pico!Available(i) = conn[i].lengths[conn[i].head]
  BY <1>2, <1>3, QueueHead
<1>5. want \in Nat /\ want <= Pico!Available(i)
  <2>1. room \in Nat
    <3>1. Len(back) \in Nat
      BY <1>3
    <3> HIDE DEF back
    <3> QED BY <1>3, <3>1, RoomLeft
  <2> HIDE DEF room
  <2> QED BY <1>4, <2>1
<1>6. ReadKeeps(pgot[i], back, conn[i].chain, want)
  <2> HIDE DEF back, want
  <2> QED BY <1>3, <1>5, ReadBytes
<1>7. /\ (pgot[i] \o out) \o <<>> \o rest = sent[i]
      /\ out # <<>> => pgot[i] \o out # <<>> /\ (pgot[i] \o out)[Len(pgot[i] \o out)] = out[Len(out)]
      /\ out = <<>> => pgot[i] \o out = pgot[i]
      /\ Len(rest) = IF want < Len(conn[i].chain) THEN Len(conn[i].chain) - want ELSE 0
  <2> HIDE DEF want
  <2> QED BY <1>3, <1>6 DEF ReadKeeps
<1>8. Len(rest) = Len(conn[i].chain) - want
  <2>1. Len(conn[i].chain) \in Nat
    BY <1>3
  <2> HIDE DEF rest, want
  <2> QED BY <1>4, <1>5, <1>7, <2>1
<1> HIDE DEF last1, front1, head1, rest
<1>9. /\ r.chain = rest /\ r.pushback = <<>> /\ r.last = last1 /\ r.front = front1 /\ r.head = head1
      /\ r.count = conn[i].count /\ r.lengths = conn[i].lengths
      /\ r.kind = conn[i].kind /\ r.stream = conn[i].stream /\ r.attached = conn[i].attached
      /\ r.pcb = conn[i].pcb /\ r.gone = conn[i].gone /\ r.done = conn[i].done
  BY <1>3 DEF Pico!Conn
<1> HIDE DEF r, out, want, ends, room, back
<1>10. /\ conn'[i] = r /\ pgot'[i] = pgot[i] \o out
       /\ \A j \in Pico!Slots : j # i => conn'[j] = conn[j] /\ pgot'[j] = pgot[j] /\ sent'[j] = sent[j]
  BY <1>1 DEF Pico!PoolInv, Pico!PoolTypes
<1>11. pgot'[i] \o r.pushback \o r.chain = sent'[i]
  BY <1>1, <1>7, <1>9, <1>10
<1>12. r.last # <<>> => pgot'[i] # <<>> /\ r.last = <<pgot'[i][Len(pgot'[i])]>>
  <2>1. CASE out = <<>>
    <3>1. last1 = conn[i].last /\ pgot'[i] = pgot[i]
      BY <1>7, <1>10, <2>1 DEF last1
    <3> QED BY <1>3, <1>9, <3>1
  <2>2. CASE out # <<>>
    <3>1. last1 = <<out[Len(out)]>>
      BY <2>2 DEF last1
    <3> QED BY <1>7, <1>9, <1>10, <2>2, <3>1
  <2> QED BY <2>1, <2>2
<1>13. Len(r.pushback) <= 1
  BY <1>9
<1>14. conn[i].front \in Nat /\ Len(conn[i].chain) \in Nat /\ conn[i].count \in Nat
  <2>1. conn[i].count \in Nat
    BY <1>3, Bounds DEF Pico!Conn
  <2> QED BY <1>3, <2>1 DEF Pico!Conn
<1>15. CASE ~ends
  <2>1. core' = core
    BY <1>1, <1>15
  <2>2. Pico!QueueKept(i)'
    <3>1. Pico!Queued(i) = conn[i].count /\ Pico!Queued(i)' = conn[i].count
      BY <1>2, <1>9, <1>10, <2>1 DEF Pico!Queued, Pico!Updating
    <3>2. r.front = conn[i].front + want /\ r.head = conn[i].head
      BY <1>9, <1>15 DEF front1, head1
    <3>3. Len(r.chain) + r.front = Len(conn[i].chain) + conn[i].front
      BY <1>5, <1>8, <1>9, <1>14, <3>2
    <3>4. /\ conn[i].count = 0 => r.front = 0
          /\ conn[i].count > 0 => r.front <= conn[i].lengths[conn[i].head]
      BY <1>4, <1>5, <1>14, <3>2
    <3> QED BY <1>3, <1>9, <1>10, <3>1, <3>2, <3>3, <3>4, QueueSteady
  <2> QED BY <1>1, <1>2, <1>9, <1>10, <1>11, <1>12, <1>13, <2>1, <2>2, DataStep
<1>16. CASE ends
  <2>1. core' = [core EXCEPT ![k].pc = "count", ![k].at = i] /\ conn[i].count > 0 /\ want = Pico!Available(i)
    BY <1>1, <1>16 DEF ends
  <2>2. core'[k].pc = "count" /\ core'[k].at = i /\ \A l \in Cores : l # k => core'[l] = core[l]
    BY <2>1 DEF Pico!PoolInv, Pico!PoolTypes
  <2>3. r.front = 0 /\ r.head = (conn[i].head + 1) % QueueCapacity
    BY <1>9, <1>16 DEF front1, head1
  <2>4. Pico!Updating(i)'
    BY <2>2 DEF Pico!Updating
  <2>5. Pico!QueueKept(i)'
    BY <1>2, <1>3, <1>8, <1>9, <1>10, <2>1, <2>3, <2>4, QueuePop
  <2>6. Pico!Kept(i)'
    BY <1>9, <1>10, <1>11, <1>12, <1>13, <2>5 DEF Pico!Kept
  <2>7. Pico!SlotOwned(i)'
    BY <1>1, <1>2, <1>9, <1>10, StillOwned
  <2>8. Pico!CoreOwns(k)'
    <3>1. owner'[i] = k /\ conn'[i].kind = "udp" /\ conn'[i].attached /\ conn'[i].count > 0 /\ conn'[i].front = 0
      BY <1>1, <1>2, <1>9, <1>10, <2>1, <2>3 DEF Pico!Holds
    <3> QED BY <2>2, <3>1 DEF Pico!CoreOwns, Pico!Busy
  <2>9. \A l \in Cores : core'[l] = core[l]
                         \/ /\ core[l].pc \in {"attach", "count"} => core[l].at = i
                            /\ core'[l].pc \in {"attach", "count"} => core'[l].at = i
    BY <1>2, <2>2
  <2>10. \A l \in Cores : (core'[l] = core[l] /\ (Pico!Busy(l) => core[l].at # i)) \/ Pico!CoreOwns(l)'
    BY <1>2, <2>2, <2>8
  <2> QED BY <1>1, <1>10, <2>6, <2>7, <2>9, <2>10, Elsewhere
<1> QED BY <1>15, <1>16

LEMMA DatagramStep ==
  ASSUME Pico!PoolInv, ReadsAlone, NEW i \in Pico!Slots, Pico!DatagramIn(i)
  PROVE  (\A l \in Cores : Pico!CoreOwns(l)') /\ (\A j \in Pico!Slots : Pico!SlotOwned(j)' /\ Pico!Kept(j)')
<1>1. /\ conn[i].kind = "udp" /\ conn[i].attached /\ conn[i].count < QueueCapacity /\ ~Pico!Updating(i)
      /\ core' = core /\ owner' = owner /\ pgot' = pgot
  BY DEF Pico!DatagramIn, Pico!LeavesAlone
<1>2. PICK size \in 0 .. PicoSent - Len(sent[i]) :
        LET bytes == [j \in 1 .. size |-> <<Len(sent[i]) + 1, j>>] IN
        /\ conn' = [conn EXCEPT ![i].chain = @ \o bytes, ![i].lengths[Pico!NextEntry(i)] = Len(bytes),
                                ![i].count = @ + 1]
        /\ sent' = [sent EXCEPT ![i] = @ \o bytes]
  BY DEF Pico!DatagramIn
<1> DEFINE bytes == [j \in 1 .. size |-> <<Len(sent[i]) + 1, j>>]
           entries == [conn[i].lengths EXCEPT ![Pico!NextEntry(i)] = size]
           r == [conn[i] EXCEPT !.chain = conn[i].chain \o bytes, !.lengths = entries, !.count = conn[i].count + 1]
<1>3. /\ conn[i] \in Pico!Conn /\ conn[i].chain \in Seq(Pico!Byte) /\ conn[i].pushback \in Seq(Pico!Byte)
      /\ pgot[i] \in Seq(Pico!Byte) /\ sent[i] \in Seq(Pico!Byte)
      /\ pgot[i] \o conn[i].pushback \o conn[i].chain = sent[i] /\ Len(conn[i].pushback) <= 1
      /\ conn[i].last # <<>> => pgot[i] # <<>> /\ conn[i].last = <<pgot[i][Len(pgot[i])]>>
      /\ Pico!QueueKept(i)
  BY <1>1, InUse
<1>4. size \in Nat
  BY Bounds
<1>5. bytes \in Seq(Pico!Byte) /\ Len(bytes) = size
  <2>1. Len(sent[i]) \in Nat
    BY <1>3
  <2> QED BY <1>4, <2>1 DEF Pico!Byte
<1>6. conn' = [conn EXCEPT ![i] = r] /\ sent' = [sent EXCEPT ![i] = sent[i] \o bytes]
  BY <1>2, <1>5
<1> HIDE DEF bytes, entries
<1>7. /\ r.chain = conn[i].chain \o bytes /\ r.lengths = entries /\ r.count = conn[i].count + 1
      /\ r.pushback = conn[i].pushback /\ r.last = conn[i].last /\ r.front = conn[i].front /\ r.head = conn[i].head
      /\ r.kind = conn[i].kind /\ r.stream = conn[i].stream /\ r.attached = conn[i].attached
      /\ r.pcb = conn[i].pcb /\ r.gone = conn[i].gone /\ r.done = conn[i].done
  BY <1>3 DEF Pico!Conn
<1> HIDE DEF r
<1>8. /\ conn'[i] = r /\ sent'[i] = sent[i] \o bytes
      /\ \A j \in Pico!Slots : j # i => pgot'[j] = pgot[j] /\ sent'[j] = sent[j]
  BY <1>1, <1>6 DEF Pico!PoolInv, Pico!PoolTypes
<1>9. ~Pico!Updating(i)'
  BY <1>1 DEF Pico!Updating
<1>10. \A l \in Cores : Pico!Busy(l) => core[l].at # i
  BY <1>1, Settled
<1>11. pgot'[i] \o r.pushback \o r.chain = sent'[i]
  <2> DEFINE Joined(q, p, c) == q \o p \o c
             Put(q, b) == q \o b
  <2>1. \A q, p, c, b \in Seq(Pico!Byte) : Joined(q, p, Put(c, b)) = Put(Joined(q, p, c), b)
    OBVIOUS
  <2>2. Joined(pgot[i], conn[i].pushback, conn[i].chain) = sent[i] /\ r.chain = Put(conn[i].chain, bytes)
        /\ sent'[i] = Put(sent[i], bytes) /\ pgot'[i] = pgot[i]
    BY <1>1, <1>3, <1>7, <1>8
  <2>3. pgot[i] \in Seq(Pico!Byte) /\ conn[i].pushback \in Seq(Pico!Byte) /\ conn[i].chain \in Seq(Pico!Byte)
        /\ bytes \in Seq(Pico!Byte) /\ r.pushback = conn[i].pushback
    BY <1>3, <1>5, <1>7
  <2> HIDE DEF Joined, Put
  <2>4. Joined(pgot'[i], r.pushback, r.chain) = sent'[i]
    BY <2>1, <2>2, <2>3
  <2> QED BY <2>4 DEF Joined
<1>12. Len(conn'[i].chain) = Len(conn[i].chain) + size
  <2>1. conn[i].chain \in Seq(Pico!Byte) /\ bytes \in Seq(Pico!Byte) /\ Len(bytes) = size
    BY <1>3, <1>5
  <2>2. Len(conn[i].chain \o bytes) = Len(conn[i].chain) + size
    BY <2>1
  <2> QED BY <1>7, <1>8, <2>2
<1>13. Pico!QueueKept(i)'
  BY <1>1, <1>3, <1>4, <1>7, <1>8, <1>9, <1>12, QueuePush DEF entries
<1>14. Len(r.pushback) <= 1 /\ (r.last # <<>> => pgot'[i] # <<>> /\ r.last = <<pgot'[i][Len(pgot'[i])]>>)
  BY <1>1, <1>3, <1>7
<1> QED BY <1>1, <1>6, <1>7, <1>8, <1>10, <1>11, <1>13, <1>14, DataStep

-----------------------------------------------------------------------------
LEMMA PoolInit == Pico!Init => Pico!PoolInv
<1> SUFFICES ASSUME Pico!Init PROVE Pico!PoolInv
  OBVIOUS
<1>1. /\ claimed = [i \in Pico!Slots |-> 0] /\ conn = [i \in Pico!Slots |-> Pico!NoConn]
      /\ core = [k \in Cores |-> Pico!Idle] /\ owner = [i \in Pico!Slots |-> "none"]
      /\ pgot = [i \in Pico!Slots |-> <<>>] /\ sent = [i \in Pico!Slots |-> <<>>]
      /\ plis = "none" /\ dgram = [d \in Dgrams |-> FALSE] /\ fault = {}
  BY DEF Pico!Init
<1>2. <<>> \in Seq(Pico!Byte) /\ QueueCapacity \in Nat \ {0} /\ 0 \in Pico!Ring /\ 0 \in 0 .. Capacity
  BY Bounds DEF Pico!Ring
<1>3. Pico!NoConn \in Pico!Conn
  BY <1>2 DEF Pico!NoConn, Pico!Conn
<1>4. Pico!Idle.pc = "idle" /\ Pico!Idle \in [pc : {"idle", "probe", "back", "new", "dial", "finish", "attach", "count"},
                                              at : 0 .. Capacity, kind : {"tcp", "udp"}]
  BY <1>2 DEF Pico!Idle
<1>5. ~Pico!NoConn.stream /\ ~Pico!NoConn.attached /\ Pico!NoConn.pcb = "none"
  BY DEF Pico!NoConn
<1>6. Pico!PoolTypes
  <2>1. claimed \in [Pico!Slots -> Int] /\ conn \in [Pico!Slots -> Pico!Conn]
    BY <1>1, <1>3
  <2>2. core \in [Cores -> [pc : {"idle", "probe", "back", "new", "dial", "finish", "attach", "count"},
                           at : 0 .. Capacity, kind : {"tcp", "udp"}]]
    BY <1>1, <1>4
  <2>3. owner \in [Pico!Slots -> Cores \cup {"none"}]
    BY <1>1
  <2>4. pgot \in [Pico!Slots -> Seq(Pico!Byte)] /\ sent \in [Pico!Slots -> Seq(Pico!Byte)]
    BY <1>1, <1>2
  <2>5. plis \in {"none", "tcp", "udp"} /\ dgram \in [Dgrams -> BOOLEAN]
       /\ fault \subseteq {"opening", "closed", "stream", "listener"}
    BY <1>1
  <2> QED BY <2>1, <2>2, <2>3, <2>4, <2>5 DEF Pico!PoolTypes
<1>7. Pico!ClaimsExact
  <2> SUFFICES ASSUME NEW i \in Pico!Slots PROVE claimed[i] = Pico!Cardinality(Pico!Backs(i)) + Pico!Owns(i)
    BY DEF Pico!ClaimsExact
  <2>1. Pico!Backs(i) = {}
    BY <1>1, <1>4 DEF Pico!Backs
  <2>2. Cardinality(Pico!Backs(i)) = 0
    BY <2>1, FS_EmptySet
  <2>3. Pico!Owns(i) = 0
    BY <1>1 DEF Pico!Owns
  <2> QED BY <1>1, <2>2, <2>3, PoolCardinality
<1>8. Pico!ListenerKept /\ Pico!NoFreedPcb
  BY <1>1 DEF Pico!ListenerKept, Pico!NoFreedPcb
<1>9. \A k \in Cores : Pico!CoreOwns(k)
  BY <1>1, <1>4 DEF Pico!CoreOwns, Pico!Busy
<1>10. \A i \in Pico!Slots : Pico!SlotOwned(i) /\ Pico!Kept(i)
  BY <1>1, <1>5 DEF Pico!SlotOwned, Pico!Kept, Pico!Standing
<1> QED BY <1>6, <1>7, <1>8, <1>9, <1>10 DEF Pico!PoolInv

LEMMA PoolStep ==
  ASSUME ReadsAlone, AnswersFirst, Pico!PoolInv, Pico!Next
  PROVE  Pico!PoolInv'
<1> DEFINE Goal == (\A l \in Cores : Pico!CoreOwns(l)') /\ (\A j \in Pico!Slots : Pico!SlotOwned(j)' /\ Pico!Kept(j)')
<1>1. ASSUME NEW k \in Cores, Pico!Core(k) PROVE Goal
  <2>1. ASSUME NEW i \in Pico!Slots, NEW n \in 1 .. 2, Pico!ReadTcp(k, i, n) \/ Pico!ReadUdp(k, i, n) PROVE Goal
    BY <2>1, ReadTcpStep, ReadUdpStep
  <2>2. ASSUME NEW i \in Pico!Slots, Pico!SeekBack(k, i) \/ Pico!Close(k, i) PROVE Goal
    BY <2>2, SeekBackStep, CloseStep
  <2>3. ASSUME \/ Pico!Probe(k) \/ Pico!OpenFails(k) \/ Pico!OpenPcb(k) \/ Pico!DialFails(k) \/ Pico!DialEnds(k)
               \/ Pico!FinishFails(k) \/ Pico!Finish(k) \/ Pico!Attach(k)
        PROVE  Goal
    <3>1. core[k].at \in Pico!Slots
      BY <2>3 DEF Pico!PoolInv, Pico!CoreOwns, Pico!Probe, Pico!OpenFails, Pico!OpenPcb, Pico!DialFails, Pico!DialEnds,
         Pico!FinishFails, Pico!Finish, Pico!Attach
    <3> QED BY <2>3, <3>1, OpenSteps
  <2>4. CASE Pico!ReadCounts(k)
    BY <2>4, ReadCountsStep
  <2>5. ASSUME \/ \E kind \in {"tcp", "udp"} : Pico!Begin(k, kind)
               \/ Pico!ProbeBack(k) \/ Pico!ListenerInit(k) \/ Pico!ListenerDeinit(k)
               \/ \E d \in Dgrams : Pico!DgramWrite(k, d) \/ Pico!DgramClose(k, d)
               \/ \E i \in Pico!Slots : Pico!Write(k, i)
        PROVE  Goal
    BY <2>5, BesideSteps
  <2> HIDE DEF Goal
  <2> QED BY <1>1, <2>1, <2>2, <2>3, <2>4, <2>5 DEF Pico!Core
<1>2. ASSUME Pico!ListenerDatagram PROVE Goal
  BY <1>2, BesideSteps
<1>3. ASSUME Pico!Accept PROVE Goal
  BY <1>3, AcceptStep
<1>4. ASSUME NEW i \in Pico!Slots,
             \/ Pico!Connected(i) \/ Pico!Errored(i) \/ Pico!Segment(i) \/ Pico!Finished(i)
             \/ Pico!ClosedUnseen(i) \/ Pico!DatagramIn(i)
      PROVE  Goal
  BY <1>4, CallbackSteps, SegmentStep, DatagramStep
<1> HIDE DEF Goal
<1>5. Goal
  BY <1>1, <1>2, <1>3, <1>4 DEF Pico!Next, Pico!LwIP
<1>6. Pico!PoolTypes'
  BY RestTypes
<1>7. Pico!ClaimsExact'
  BY ClaimsStep DEF Pico!PoolInv
<1>8. Pico!ListenerKept' /\ Pico!NoFreedPcb'
  BY FaultStep
<1> QED BY <1>5, <1>6, <1>7, <1>8 DEF Pico!PoolInv, Goal

LEMMA PoolImplied == Pico!PoolInv => PoolSound
<1> SUFFICES ASSUME Pico!PoolInv PROVE PoolSound
  OBVIOUS
<1>1. Pico!ChainKept
  <2> SUFFICES ASSUME NEW i \in Pico!Slots, conn[i].stream
               PROVE  /\ pgot[i] \o conn[i].pushback \o conn[i].chain = sent[i]
                      /\ (conn[i].kind = "udp" /\ ~Pico!Updating(i)) =>
                           /\ conn[i].count \in 0 .. QueueCapacity
                           /\ \E ends \in Pico!Cuts(i, conn[i].count) : Pico!Cut(i, conn[i].count, ends)
    BY DEF Pico!ChainKept
  <2>1. Pico!Kept(i) /\ conn[i] \in Pico!Conn
    BY DEF Pico!PoolInv, Pico!PoolTypes
  <2>2. conn[i].count \in 0 .. QueueCapacity
    BY <2>1 DEF Pico!Conn
  <2>3. ASSUME conn[i].kind = "udp", ~Pico!Updating(i)
        PROVE  \E ends \in Pico!Cuts(i, conn[i].count) : Pico!Cut(i, conn[i].count, ends)
    <3>1. Pico!QueueKept(i)
      BY <2>1, <2>3 DEF Pico!Kept
    <3>2. Pico!Queued(i) = conn[i].count
      BY <2>3 DEF Pico!Queued
    <3> QED BY <3>1, <3>2 DEF Pico!QueueKept
  <2> QED BY <2>1, <2>2, <2>3 DEF Pico!Kept
<1> QED BY <1>1 DEF PoolSound, Pico!PoolInv

\* The pool of the Pico is sound (_net_conn_alloc, _net_conn_tcp_err_cb,
\* _net_conn_udp_recv_cb and _net_conn_ops_read) for any number of contexts,
\* cores and bytes, with error callbacks and connections that lwIP closes itself
\* at any step of net_open on another core, provided that no datagram comes
\* between the two halves of a read and a listener outlives its streams.
THEOREM PoolAlwaysSound ==
  ASSUME ReadsAlone, AnswersFirst
  PROVE  Spec => []PoolSound
<1>1. Init => Pico!PoolInv
  BY PoolInit DEF Init
<1>2. Pico!PoolInv /\ [Next]_vars => Pico!PoolInv'
  <2> SUFFICES ASSUME Pico!PoolInv, [Next]_vars PROVE Pico!PoolInv'
    OBVIOUS
  <2>1. CASE Pico!Next
    BY <2>1, PoolStep
  <2>2. CASE UNCHANGED picoVars
    <3>1. /\ claimed' = claimed /\ conn' = conn /\ core' = core /\ owner' = owner /\ pgot' = pgot /\ sent' = sent
          /\ plis' = plis /\ dgram' = dgram /\ fault' = fault
      BY <2>2 DEF picoVars
    <3>2. (\A l \in Cores : Pico!CoreOwns(l)') /\ (\A j \in Pico!Slots : Pico!SlotOwned(j)' /\ Pico!Kept(j)')
      BY <3>1, IdleStep
    <3>3. Pico!PoolTypes' /\ Pico!ListenerKept' /\ Pico!NoFreedPcb'
      BY <3>1 DEF Pico!PoolInv, Pico!PoolTypes, Pico!ListenerKept, Pico!NoFreedPcb
    <3>4. Pico!ClaimsExact'
      <4>1. \A i : Pico!Backs(i)' = Pico!Backs(i) /\ Pico!Owns(i)' = Pico!Owns(i)
        BY <3>1 DEF Pico!Backs, Pico!Owns
      <4> QED BY <3>1, <4>1, PoolCardinality DEF Pico!PoolInv, Pico!ClaimsExact
    <3> QED BY <3>2, <3>3, <3>4 DEF Pico!PoolInv
  <2> QED BY <2>1, <2>2 DEF Next, vars
<1> QED BY <1>1, <1>2, PoolImplied, PTL DEF Spec
=============================================================================
