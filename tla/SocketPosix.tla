---------------------------- MODULE SocketPosix ----------------------------
(***************************************************************************)
(* TCP and UDP streams on Linux and Darwin: src/picofuse/net/posix and the *)
(* stream pool they are handed out of (src/picofuse/sys/iostream).  Every  *)
(* connection has a context on the heap, a slot of the stream pool and a   *)
(* receiving thread that fills the context's buffer; a listener has a      *)
(* thread of its own that wraps what it accepts.                           *)
(*                                                                         *)
(* Bytes carry the datagram (or, on TCP, the position) they were sent at,  *)
(* so that a lost, repeated or misplaced one shows.  A critical section of *)
(* ctx->lock is one step.  The application is one thread plus the stream's *)
(* callbacks: a stream with a callback is read, and closed at end of file, *)
(* by that callback; the others by the application's thread.               *)
(***************************************************************************)
EXTENDS Integers, Sequences, FiniteSets, SequencesExt

CONSTANTS
  Ctxs,           \* contexts the heap can hold at once
  Slots,          \* the stream pool (SYS_IOSTREAM_CAPACITY), numbered
  Threads,        \* receiving threads alive at once
  RingSize,       \* NET_CONN_BUFFER_SIZE
  QueueCapacity,  \* NET_CONN_UDP_QUEUE_CAPACITY
  Talking,        \* bound: contexts whose peer sends anything
  MaxSent,        \* bound: bytes or datagrams a peer sends
  MaxOpens,       \* bound: connections and datagram streams ever made
  KeepsDatagrams, \* the accept callback keeps datagram streams for later
  ClosesObserved  \* the application's thread closes streams with a callback

VARIABLES
  ctx,     \* the contexts: _net_conn_ctx_t, or a listener's _net_dgram_ctx_t
  slot,    \* the context a stream of the pool stands for, or "free"
  rx,      \* the receiving threads
  net,     \* what the peer of each connection has sent and whether it left
  app,     \* the application's thread
  lis,     \* the listener and its thread
  got,     \* ghost: the bytes each connection has given its reader
  opens
vars == <<ctx, slot, rx, net, app, lis, got, opens>>

NoCtx == [live |-> FALSE, proto |-> "tcp", running |-> FALSE, wg |-> 0, fd |-> FALSE,
          buf |-> <<>>, front |-> 0, last |-> <<>>, pushback |-> <<>>,
          callback |-> FALSE, mixed |-> FALSE]
NoThread == [pc |-> "none", ctx |-> "none", slot |-> 0, call |-> FALSE, data |-> <<>>]
NoNet == [wire |-> <<>>, sent |-> 0, kept |-> <<>>, end |-> "open"]
Idle == [pc |-> "idle", slot |-> 0]
NoListener == [claimed |-> 0, proto |-> "tcp", running |-> FALSE, wg |-> 0, fd |-> FALSE,
               pc |-> "none", slot |-> 0]

First(q, n) == SubSeq(q, 1, IF n < Len(q) THEN n ELSE Len(q))
DropFirst(q, n) == SubSeq(q, n + 1, Len(q))

Init ==
  /\ ctx = [c \in Ctxs |-> NoCtx] /\ slot = [s \in Slots |-> "free"]
  /\ rx = [t \in Threads |-> NoThread] /\ net = [c \in Ctxs |-> NoNet]
  /\ app = Idle /\ lis = NoListener /\ got = [c \in Ctxs |-> <<>>] /\ opens = 0

-----------------------------------------------------------------------------
(* _sys_iostream_alloc takes the first free slot of the pool.  Which memory  *)
(* and which thread a connection gets does not matter to it.                *)
StreamAlloc(s) == slot[s] = "free" /\ \A i \in Slots : i < s => slot[i] # "free"

(* _net_wrap_connected_fd: the context, its lock and its wait group, a slot *)
(* of the stream pool and the receiving thread, in that order; when one of  *)
(* them is not to be had all the earlier ones and the descriptor are given  *)
(* back.                                                                    *)

Wrap(c, s, t, proto) ==
  /\ StreamAlloc(s) /\ ~ctx[c].live /\ rx[t].pc = "none"
  /\ c = CHOOSE x \in Ctxs : ~ctx[x].live
  /\ t = CHOOSE x \in Threads : rx[x].pc = "none"
  /\ ctx' = [ctx EXCEPT ![c] = [NoCtx EXCEPT !.live = TRUE, !.proto = proto,
                                  !.running = TRUE, !.wg = 1, !.fd = TRUE]]
  /\ slot' = [slot EXCEPT ![s] = c]
  /\ rx' = [rx EXCEPT ![t] = [NoThread EXCEPT !.pc = "poll", !.ctx = c, !.slot = s]]
  /\ net' = [net EXCEPT ![c] = NoNet] /\ got' = [got EXCEPT ![c] = <<>>]
  /\ opens' = opens + 1

\* net_open: a UDP socket is ready at once, a TCP one when the handshake is
\* over; every failure closes the descriptor and changes nothing else.
Open(proto) ==
  /\ app.pc = "idle" /\ opens < MaxOpens
  /\ \E c \in Ctxs, s \in Slots, t \in Threads :
       Wrap(c, s, t, proto) /\ app' = app /\ lis' = lis

Held(s) == slot[s] # "free" /\ lis.slot # s
SetCallback(s) ==
  LET c == slot[s] IN
    /\ app.pc = "idle" /\ Held(s) /\ ctx[c].proto # "dgram"
    /\ ctx' = [ctx EXCEPT ![c].callback = TRUE]
    /\ UNCHANGED <<slot, rx, net, app, lis, got, opens>>

-----------------------------------------------------------------------------
(* The peer: it sends bytes (TCP) or datagrams of 0, 1 or 2 bytes (UDP).   *)

Datagram(d) == [i \in 1 .. (d % 3) |-> <<d, i>>]
PeerSends(c) ==
  /\ ctx[c].live /\ ctx[c].proto # "dgram" /\ net[c].end = "open"
  /\ c \in Talking /\ net[c].sent < MaxSent
  /\ LET d == net[c].sent + 1 IN
       net' = [net EXCEPT ![c].sent = d,
                 ![c].wire = Append(@, IF ctx[c].proto = "udp" THEN Datagram(d) ELSE <<d, 1>>)]
  /\ UNCHANGED <<ctx, slot, rx, app, lis, got, opens>>
\* It closes a TCP connection, or the socket has an error to report: a reset,
\* or a datagram of ours that was refused.
PeerLeaves(c) ==
  /\ ctx[c].live /\ ctx[c].proto # "dgram" /\ net[c].end = "open"
  /\ \E end \in {"closed", "reset"} :
       /\ ctx[c].proto = "udp" => end = "reset" /\ c \in Talking
       /\ net' = [net EXCEPT ![c].end = end]
  /\ UNCHANGED <<ctx, slot, rx, app, lis, got, opens>>

-----------------------------------------------------------------------------
(* The receiving thread, _net_conn_rx_thread.                              *)

Room(c) == RingSize - Len(ctx[c].buf)

\* The poll of the loop's head comes back with something to receive, or the
\* loop is asked to stop.  TCP takes no more than there is room for.
Receive(t) ==
  LET c == rx[t].ctx
      take == IF ctx[c].proto = "udp" THEN 1 ELSE Room(c)
  IN /\ rx[t].pc = "poll" /\ net[c].wire # <<>>
     /\ take > 0
     /\ rx' = [rx EXCEPT ![t].pc = "store", ![t].data = First(net[c].wire, take)]
     /\ net' = [net EXCEPT ![c].wire = DropFirst(@, take)]
     /\ UNCHANGED <<ctx, slot, app, lis, got, opens>>

\* The end of a TCP connection is a recv() of nothing, or an error; an error
\* ends UDP too, whose recv() does not wait for room.
Stops(t) ==
  LET c == rx[t].ctx IN
    /\ rx[t].pc = "poll"
    /\ \/ ~ctx[c].running
       \/ /\ ctx[c].proto = "udp" \/ Room(c) > 0
          /\ net[c].end = "reset" \/ (net[c].end = "closed" /\ net[c].wire = <<>>)
    /\ rx' = [rx EXCEPT ![t].pc = "last", ![t].call = ctx[c].callback]
    /\ UNCHANGED <<ctx, slot, net, app, lis, got, opens>>

\* What was received is stored, UDP as one entry of the queue or not at all.
Store(t) ==
  LET c == rx[t].ctx
      fits == ctx[c].proto = "udp" => Len(ctx[c].buf) < QueueCapacity
      kept == IF ctx[c].proto = "udp" THEN rx[t].data
              ELSE First(rx[t].data, RingSize - Len(ctx[c].buf))
  IN /\ rx[t].pc = "store"
     /\ ctx' = IF fits THEN [ctx EXCEPT ![c].buf = @ \o kept] ELSE ctx
     /\ net' = IF fits /\ ctx[c].proto = "udp"
               THEN [net EXCEPT ![c].kept = Append(@, rx[t].data[1])] ELSE net
     /\ rx' = [rx EXCEPT ![t].pc = IF ctx[c].callback THEN "call" ELSE "poll", ![t].data = <<>>]
     /\ UNCHANGED <<slot, app, lis, got, opens>>

\* A bug the checks must see: the wait group is left before the loop's last
\* look at the context.
DoneBeforeFlag(t) ==
  LET c == rx[t].ctx IN
    /\ rx[t].pc = "last"
    /\ ctx' = [ctx EXCEPT ![c].wg = 0]
    /\ rx' = [rx EXCEPT ![t] = IF rx[t].call THEN [@ EXCEPT !.pc = "final"] ELSE NoThread]
    /\ UNCHANGED <<slot, net, app, lis, got, opens>>

\* The last callback is made after the context has been let go, from a copy.
Done(t) ==
  LET c == rx[t].ctx IN
    /\ rx[t].pc = "last"
    /\ ctx' = [ctx EXCEPT ![c].running = FALSE, ![c].wg = 0]
    /\ rx' = [rx EXCEPT ![t] = IF rx[t].call THEN [@ EXCEPT !.pc = "final"] ELSE NoThread]
    /\ UNCHANGED <<slot, net, app, lis, got, opens>>

-----------------------------------------------------------------------------
(* Reading.  _net_conn_ops_read takes the byte pushed back first; UDP then  *)
(* gives bytes of the front datagram only, TCP whatever the ring has.       *)

\* A bug the checks must see: a read with room left goes on to the next datagram.
FrontSpans(r, n) ==
  First(DropFirst(FlattenSeq(r.buf), r.front), n)

FrontBytes(r, n) == First(DropFirst(r.buf[1], r.front), n)

ReadOf(r, n) ==
  LET back == r.pushback
      m    == n - Len(back)
      more == IF r.buf = <<>> \/ m = 0 THEN <<>>
              ELSE IF r.proto = "udp" THEN FrontBytes(r, m)
              ELSE First(r.buf, m)
      out  == back \o more
      used == r.proto = "udp" /\ r.buf # <<>> /\ m > 0 /\ r.front + Len(more) >= Len(r.buf[1])
  IN [bytes |-> out,
      after |-> [r EXCEPT
        !.pushback = <<>>,
        !.last = IF out = <<>> THEN @ ELSE <<out[Len(out)]>>,
        !.buf = IF r.proto # "udp" THEN DropFirst(@, Len(more))
                ELSE IF used THEN Tail(@) ELSE @,
        !.front = IF r.proto # "udp" THEN 0 ELSE IF used THEN 0 ELSE @ + Len(more),
        !.mixed = @ \/ (r.proto = "udp" /\ \E i, j \in DOMAIN more : more[i][1] # more[j][1])]]

\* _net_conn_ops_seek: the byte read last goes back in front of the buffer.
Undo(r) == [r EXCEPT !.pushback = r.last, !.last = <<>>]

ReadFrom(c, n) ==
  /\ ctx' = [ctx EXCEPT ![c] = ReadOf(@, n).after]
  /\ got' = [got EXCEPT ![c] = @ \o ReadOf(ctx[c], n).bytes]

\* The application's thread reads the streams that have no callback.
Readable(c) == ctx[c].buf # <<>> \/ ctx[c].pushback # <<>>
Read(s, n) ==
  /\ app.pc = "idle" /\ Held(s) /\ ~ctx[slot[s]].callback /\ Readable(slot[s])
  /\ ReadFrom(slot[s], n)
  /\ UNCHANGED <<slot, rx, net, app, lis, opens>>

\* sys_iostream_peek: a read of one byte, undone unless it came back empty.
Peek(s) ==
  LET c == slot[s] IN
    /\ app.pc = "idle" /\ Held(s) /\ ctx[c].proto # "dgram" /\ ~ctx[c].callback /\ Readable(c)
    /\ ReadFrom(c, 1)
    /\ app' = IF ReadOf(ctx[c], 1).bytes = <<>> THEN app ELSE [pc |-> "undo", slot |-> s]
    /\ UNCHANGED <<slot, rx, net, lis, opens>>
PeekUndo ==
  LET c == slot[app.slot] IN
    /\ app.pc = "undo"
    /\ ctx' = [ctx EXCEPT ![c] = Undo(@)]
    /\ got' = [got EXCEPT ![c] = IF ctx[c].last = <<>> THEN @ ELSE SubSeq(@, 1, Len(@) - 1)]
    /\ app' = Idle
    /\ UNCHANGED <<slot, rx, net, lis, opens>>

\* _net_conn_ops_eof: the receiving thread has stopped.
AtEof(c) == ~ctx[c].running

-----------------------------------------------------------------------------
(* Closing: sys_iostream_close runs the stream's own close, which waits for *)
(* the receiving thread and frees the context, and then frees the slot.     *)

Freed(s) == /\ ctx' = [ctx EXCEPT ![slot[s]] = NoCtx]
            /\ net' = [net EXCEPT ![slot[s]] = NoNet]
            /\ got' = [got EXCEPT ![slot[s]] = <<>>]

CloseAsks(s) ==
  /\ app.pc = "idle" /\ Held(s)
  /\ ctx[slot[s]].callback => ClosesObserved
  /\ ctx' = [ctx EXCEPT ![slot[s]].running = FALSE]
  /\ app' = [pc |-> "wait", slot |-> s]
  /\ UNCHANGED <<slot, rx, net, lis, got, opens>>

\* A bug the checks must see: the context is freed without waiting for the thread.
FreesUnderThread ==
  /\ app.pc = "wait"
  /\ Freed(app.slot)
  /\ app' = [app EXCEPT !.pc = "release"]
  /\ UNCHANGED <<slot, rx, lis, opens>>

CloseFrees ==
  /\ app.pc = "wait" /\ ctx[slot[app.slot]].wg = 0
  /\ Freed(app.slot)
  /\ app' = [app EXCEPT !.pc = "release"]
  /\ UNCHANGED <<slot, rx, lis, opens>>
CloseReleases ==
  /\ app.pc = "release"
  /\ slot' = [slot EXCEPT ![app.slot] = "free"] /\ app' = Idle
  /\ UNCHANGED <<ctx, rx, net, lis, got, opens>>

\* The callback, on the receiving thread: it reads what there is.  At end of
\* file it may also close the stream, which the last one alone can see.
Callback(t) ==
  LET c == rx[t].ctx IN
    /\ rx[t].pc = "call"
    /\ rx' = [rx EXCEPT ![t].pc = "poll"]
    /\ \/ ReadFrom(c, 2)
       \/ UNCHANGED <<ctx, got>>
    /\ UNCHANGED <<slot, net, app, lis, opens>>
LastCallback(t) ==
  /\ rx[t].pc = "final"
  /\ rx' = [rx EXCEPT ![t] = NoThread]
  /\ LET s == rx[t].slot IN
       \/ /\ ~ClosesObserved /\ Freed(s) /\ slot' = [slot EXCEPT ![s] = "free"]
       \/ /\ ClosesObserved /\ UNCHANGED <<ctx, net, got, slot>>
  /\ UNCHANGED <<app, lis, opens>>

-----------------------------------------------------------------------------
(* A listener: its thread wraps each accepted connection, or each datagram  *)
(* in a stream that borrows the listener's descriptor, and calls back.      *)

ListenerInit(proto) ==
  /\ lis.claimed = 0 /\ app.pc = "idle"
  /\ lis' = [NoListener EXCEPT !.claimed = 1, !.proto = proto, !.running = TRUE, !.wg = 1,
                               !.fd = TRUE, !.pc = "poll"]
  /\ UNCHANGED <<ctx, slot, rx, net, app, got, opens>>

Accept ==
  /\ lis.pc = "poll" /\ lis.running /\ lis.proto = "tcp" /\ opens < MaxOpens
  /\ \E c \in Ctxs, s \in Slots, t \in Threads :
       Wrap(c, s, t, "tcp") /\ lis' = [lis EXCEPT !.pc = "call", !.slot = s]
  /\ app' = app
AcceptDatagram ==
  /\ lis.pc = "poll" /\ lis.running /\ lis.proto = "udp" /\ opens < MaxOpens
  /\ \E c \in Ctxs, s \in Slots :
       /\ ~ctx[c].live /\ StreamAlloc(s)
       /\ ctx' = [ctx EXCEPT ![c] = [NoCtx EXCEPT !.live = TRUE, !.proto = "dgram", !.fd = TRUE,
                                       !.buf = Datagram(2)]]
       /\ slot' = [slot EXCEPT ![s] = c]
       /\ lis' = [lis EXCEPT !.pc = "call", !.slot = s]
  /\ opens' = opens + 1
  /\ UNCHANGED <<rx, net, app, got>>

\* The accept callback: it reads and answers a datagram and closes its stream,
\* unless it keeps it; a connection is left to the application's thread.
AcceptCallback ==
  LET s == lis.slot IN
    /\ lis.pc = "call"
    /\ lis' = [lis EXCEPT !.pc = "poll", !.slot = 0]
    /\ IF ctx[slot[s]].proto = "dgram" /\ ~KeepsDatagrams
       THEN Freed(s) /\ slot' = [slot EXCEPT ![s] = "free"]
       ELSE UNCHANGED <<ctx, net, got, slot>>
    /\ UNCHANGED <<rx, app, opens>>
ListenerStops ==
  /\ lis.pc = "poll" /\ ~lis.running
  /\ lis' = [lis EXCEPT !.pc = "none", !.wg = 0]
  /\ UNCHANGED <<ctx, slot, rx, net, app, got, opens>>

DeinitAsks ==
  /\ app.pc = "idle" /\ lis.claimed = 1
  /\ lis' = [lis EXCEPT !.running = FALSE] /\ app' = [Idle EXCEPT !.pc = "unlisten"]
  /\ UNCHANGED <<ctx, slot, rx, net, got, opens>>

DeinitEnds ==
  /\ app.pc = "unlisten" /\ lis.wg = 0
  /\ lis' = NoListener /\ app' = Idle
  /\ UNCHANGED <<ctx, slot, rx, net, got, opens>>

Application ==
  \/ \E proto \in {"tcp", "udp"} : Open(proto) \/ ListenerInit(proto)
  \/ \E s \in Slots : SetCallback(s) \/ Peek(s) \/ CloseAsks(s) \/ \E n \in 1 .. 3 : Read(s, n)
  \/ PeekUndo \/ CloseFrees \/ CloseReleases \/ DeinitAsks \/ DeinitEnds
Receiver(t) == Receive(t) \/ Stops(t) \/ Store(t) \/ Done(t) \/ Callback(t)
               \/ LastCallback(t)
Listener == Accept \/ AcceptDatagram \/ AcceptCallback \/ ListenerStops
Peer == \E c \in Ctxs : PeerSends(c) \/ PeerLeaves(c)
Next == Application \/ (\E t \in Threads : Receiver(t)) \/ Listener \/ Peer

\* Threads the system schedules, a close that has begun, and a reader that
\* goes on reading; nobody has to open, close or send anything.
Waited == PeekUndo \/ CloseFrees \/ CloseReleases \/ DeinitEnds
Fairness ==
  /\ \A t \in Threads : WF_vars(Receiver(t))
  /\ WF_vars(AcceptCallback \/ ListenerStops)
  /\ WF_vars(Waited)
Spec == Init /\ [][Next]_vars /\ Fairness
-----------------------------------------------------------------------------
(* Every byte the peer sent on a TCP connection is, in order, with the      *)
(* reader, pushed back by a peek, in the ring, in the receiving thread's    *)
(* hands or still in the socket: a full ring loses nothing.  On UDP the     *)
(* same holds of the datagrams that were queued, and no read takes bytes    *)
(* of two of them (_net_conn_rx_thread, _net_conn_ops_read).                *)
Carried(c) ==
  LET here == {t \in Threads : rx[t].ctx = c /\ rx[t].pc = "store"}
  IN IF here = {} THEN <<>> ELSE rx[CHOOSE t \in here : TRUE].data
Unread(c) == IF ctx[c].proto = "udp"
             THEN DropFirst(FlattenSeq(ctx[c].buf), ctx[c].front)
             ELSE ctx[c].buf
BytesKept ==
  \A c \in Ctxs : ctx[c].live =>
    CASE ctx[c].proto = "tcp" ->
           got[c] \o ctx[c].pushback \o Unread(c) \o Carried(c) \o net[c].wire
             = [i \in 1 .. net[c].sent |-> <<i, 1>>]
      [] ctx[c].proto = "udp" ->
           /\ got[c] \o ctx[c].pushback \o Unread(c) = FlattenSeq(net[c].kept)
           /\ ~ctx[c].mixed
      [] OTHER -> TRUE

(* A receiving thread uses only a context and a stream that are its own and *)
(* have not been freed, up to and in its last callback, which it makes      *)
(* after it has left the wait group; and the stream of a datagram never     *)
(* outlives the descriptor it borrows from the listener.                    *)
UsesOwn ==
  /\ \A t \in Threads : rx[t].pc # "none" =>
       ctx[rx[t].ctx].live /\ slot[rx[t].slot] = rx[t].ctx
  /\ \A s \in Slots : (slot[s] # "free" /\ ctx[slot[s]].proto = "dgram") => lis.fd

(* A close that has begun ends, the listener's included: the thread it      *)
(* waits for sees the flag within one turn of its loop.                     *)
CloseEnds == app.pc \in {"wait", "unlisten"} ~> app.pc = "idle"

(* When the peer of a connection is gone and its reader has taken all there *)
(* was, the stream is at end of file (or is closed): nobody waits on a dead *)
(* connection.  Contexts are alike: one whose peer also sends stands for    *)
(* all of them.                                                             *)
EndSeen == \A c \in Talking :
  (ctx[c].live /\ net[c].end # "open" /\ Unread(c) \o Carried(c) \o net[c].wire = <<>>)
    ~> (~ctx[c].live \/ AtEof(c))
-----------------------------------------------------------------------------
(* What keeps UsesOwn so, where the application neither keeps datagram      *)
(* streams nor closes from its thread a stream that has a callback.         *)

\* A slot that stands for its context: a close has not freed that one yet.
Stands(s) == slot[s] # "free" /\ ~(app.pc = "release" /\ app.slot = s)
Running(t) == rx[t].pc \in {"poll", "store", "call", "last", "final"}

Shapes ==
  /\ DOMAIN ctx = Ctxs /\ \A c \in Ctxs : DOMAIN ctx[c] = DOMAIN NoCtx
  /\ slot \in [Slots -> Ctxs \cup {"free"}]
  /\ DOMAIN rx = Threads
  /\ \A t \in Threads :
       /\ DOMAIN rx[t] = DOMAIN NoThread /\ (Running(t) \/ rx[t].pc = "none")
       /\ rx[t].call \in BOOLEAN
  /\ lis \in [claimed : {0, 1}, proto : {"tcp", "udp"}, running : BOOLEAN, wg : {0, 1},
              fd : BOOLEAN, pc : {"none", "poll", "call"}, slot : Slots \cup {0}]
  /\ DOMAIN app = {"pc", "slot"} /\ app.pc \in {"idle", "undo", "wait", "release", "unlisten"}

\* A live context has one slot and one thread at most, a dead one neither.
ContextsOwned ==
  /\ \A c \in Ctxs : ~ctx[c].live => ctx[c] = NoCtx
  /\ \A s \in Slots : Stands(s) => ctx[slot[s]].live
  /\ \A s, i \in Slots : (Stands(s) /\ Stands(i) /\ slot[s] = slot[i]) => s = i
  /\ \A t, u \in Threads : (Running(t) /\ Running(u) /\ rx[t].ctx = rx[u].ctx) => t = u

\* A thread has its stream until its last callback, which only a stream with
\* a callback gets; until then the context's wait group counts it.
ThreadsOwn ==
  \A t \in Threads : Running(t) =>
    /\ rx[t].ctx \in Ctxs /\ rx[t].slot \in Slots
    /\ Stands(rx[t].slot) /\ slot[rx[t].slot] = rx[t].ctx
    /\ ctx[rx[t].ctx].proto # "dgram"
    /\ rx[t].pc # "final" => ctx[rx[t].ctx].wg = 1
    /\ rx[t].pc = "final" => rx[t].call
    /\ rx[t].call => ctx[rx[t].ctx].callback

\* What the application's thread has in hand has no callback.
AppOwns == app.pc \in {"undo", "wait", "release"} =>
  /\ app.slot \in Slots /\ slot[app.slot] # "free"
  /\ lis.pc = "call" => lis.slot # app.slot
  /\ app.pc # "release" => ~ctx[slot[app.slot]].callback

\* A datagram's stream lives as long as the accept callback that has it.
ListenerOwns ==
  /\ lis.pc # "none" => lis.fd /\ lis.wg = 1 /\ lis.claimed = 1
  /\ lis.pc = "call" => /\ lis.slot \in Slots /\ Stands(lis.slot)
                        /\ ~ctx[slot[lis.slot]].callback
  /\ \A c \in Ctxs : ctx[c].proto = "dgram" => lis.pc = "call" /\ slot[lis.slot] = c

OwnInv == Shapes /\ ContextsOwned /\ ThreadsOwn /\ AppOwns /\ ListenerOwns
=============================================================================
