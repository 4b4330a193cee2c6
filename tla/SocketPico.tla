---------------------------- MODULE SocketPico -----------------------------
(***************************************************************************)
(* TCP and UDP streams on the Pico: src/picofuse/net/pico over lwIP.  lwIP *)
(* calls back from an interrupt (the build uses the threadsafe_background  *)
(* architecture), between any two steps of a core that does not hold the   *)
(* lwIP lock.  Contexts come from a fixed pool whose slots are claimed     *)
(* with an atomic counter, by both cores and by the callbacks.             *)
(*                                                                         *)
(* lwIP itself is external: what is taken of it is when it calls back,     *)
(* that a protocol control block (pcb) is gone after an error callback and *)
(* that before tcp_recv() has named a callback it drops what arrives and   *)
(* closes a connection the peer finishes, telling nobody.                  *)
(***************************************************************************)
EXTENDS Integers, Sequences, FiniteSets, SequencesExt

CONSTANTS
  Capacity,       \* NET_CONN_CAPACITY: contexts 1 .. Capacity
  Cores,          \* the cores that open and close connections
  QueueCapacity,  \* NET_CONN_UDP_QUEUE_CAPACITY
  Talking,        \* bound: the contexts whose peer sends anything
  MaxSent,        \* bound: bytes that arrive for one of them
  MaxOpens,       \* bound: connections ever begun
  Dgrams,         \* the pool of datagram streams (NET_DGRAM_CAPACITY)
  AnswersFirst,   \* datagram streams are closed before their listener is
  ReadsAlone      \* no datagram arrives between the two halves of a UDP read

VARIABLES
  claimed,  \* sys_atomic_t claimed of each context
  conn,     \* the rest of _net_conn_ctx_t
  core,     \* what each core is doing
  owner,    \* ghost: the core each context was handed to, or "none"
  got,      \* ghost: what each connection has given its reader
  sent,     \* ghost: what arrived for each connection that had a receiver
  lis,      \* the listener: its protocol, or "none"
  dgram,    \* which datagram streams are held
  fault,    \* ghost: who used a pcb that lwIP had freed or closed
  opens
vars == <<claimed, conn, core, owner, got, sent, lis, dgram, fault, opens>>

Slots == 1 .. Capacity
Ring == 0 .. QueueCapacity - 1
NoConn == [kind |-> "tcp", pcb |-> "none", attached |-> FALSE, stream |-> FALSE,
           gone |-> FALSE, fin |-> FALSE, done |-> FALSE, err |-> FALSE,
           last |-> <<>>, pushback |-> <<>>,
           chain |-> <<>>, lengths |-> [i \in Ring |-> 0], head |-> 0, count |-> 0, front |-> 0]
Idle == [pc |-> "idle", at |-> 0, kind |-> "tcp"]

Init ==
  /\ claimed = [i \in Slots |-> 0] /\ conn = [i \in Slots |-> NoConn]
  /\ core = [k \in Cores |-> Idle] /\ owner = [i \in Slots |-> "none"]
  /\ got = [i \in Slots |-> <<>>] /\ sent = [i \in Slots |-> <<>>]
  /\ lis = "none" /\ dgram = [d \in Dgrams |-> FALSE] /\ fault = {} /\ opens = 0

First(q, n) == SubSeq(q, 1, IF n < Len(q) THEN n ELSE Len(q))
DropFirst(q, n) == SubSeq(q, n + 1, Len(q))

\* A use of the pcb: harmless while it is open; lwIP may have freed it since
\* it closed it, and has freed it after an error callback.
Uses(i, who) ==
  fault' = fault \cup CASE conn[i].pcb = "open" -> {}
                       [] conn[i].pcb = "closed" -> {"closed"}
                       [] OTHER -> {who}

-----------------------------------------------------------------------------
(* _net_conn_alloc: a slot is taken by the increment that finds it at zero; *)
(* any other increment is taken back before the next slot is tried.         *)

Begin(k, kind) ==
  /\ core[k].pc = "idle" /\ opens < MaxOpens
  /\ core' = [core EXCEPT ![k] = [pc |-> "probe", at |-> 1, kind |-> kind]]
  /\ opens' = opens + 1
  /\ UNCHANGED <<claimed, conn, owner, got, sent, fault, lis, dgram>>

Taken(i, who) ==
  /\ conn' = [conn EXCEPT ![i] = NoConn] /\ owner' = [owner EXCEPT ![i] = who]
  /\ got' = [got EXCEPT ![i] = <<>>] /\ sent' = [sent EXCEPT ![i] = <<>>]

Probe(k) ==
  LET i == core[k].at IN
    /\ core[k].pc = "probe"
    /\ claimed' = [claimed EXCEPT ![i] = @ + 1]
    /\ core' = [core EXCEPT ![k].pc = IF claimed[i] = 0 THEN "new" ELSE "back"]
    /\ IF claimed[i] = 0 THEN Taken(i, k) ELSE UNCHANGED <<conn, owner, got, sent>>
    /\ UNCHANGED <<fault, opens, lis, dgram>>
ProbeBack(k) ==
  LET i == core[k].at IN
    /\ core[k].pc = "back"
    /\ claimed' = [claimed EXCEPT ![i] = @ - 1]
    /\ core' = [core EXCEPT ![k] = IF i = Capacity THEN Idle ELSE [@ EXCEPT !.pc = "probe", !.at = i + 1]]
    /\ UNCHANGED <<conn, owner, got, sent, fault, opens, lis, dgram>>

Release(i) == /\ claimed' = [claimed EXCEPT ![i] = @ - 1]
              /\ owner' = [owner EXCEPT ![i] = "none"]

-----------------------------------------------------------------------------
(* net_open.  UDP has its pcb and its stream at once; TCP waits in a loop   *)
(* for the connected or the error callback, or its timeout.                 *)

\* The pcb cannot be made (or, on TCP, refuses to dial): the slot goes back.
OpenFails(k) ==
  LET i == core[k].at IN
    /\ core[k].pc = "new"
    /\ Release(i) /\ core' = [core EXCEPT ![k] = Idle]
    /\ UNCHANGED <<conn, got, sent, fault, opens, lis, dgram>>
OpenPcb(k) ==
  LET i == core[k].at IN
    /\ core[k].pc = "new"
    /\ conn' = [conn EXCEPT ![i].kind = core[k].kind, ![i].pcb = "open"]
    /\ core' = [core EXCEPT ![k].pc = IF core[k].kind = "udp" THEN "finish" ELSE "dial"]
    /\ UNCHANGED <<claimed, owner, got, sent, fault, opens, lis, dgram>>

\* A bug the checks must see: a dial that failed leaves its slot claimed.
DialLeaks(k) ==
  LET i == core[k].at IN
    /\ core[k].pc = "dial" /\ ~(conn[i].done /\ ~conn[i].err)
    /\ conn' = [conn EXCEPT ![i].pcb = "none", ![i].gone = TRUE]
    /\ owner' = [owner EXCEPT ![i] = "none"] /\ core' = [core EXCEPT ![k] = Idle]
    /\ UNCHANGED <<claimed, got, sent, fault, opens, lis, dgram>>

\* Timed out, refused or reset: the pcb is aborted unless it is gone already.
DialFails(k) ==
  LET i == core[k].at IN
    /\ core[k].pc = "dial" /\ ~(conn[i].done /\ ~conn[i].err)
    /\ conn' = [conn EXCEPT ![i].pcb = "none", ![i].gone = TRUE]
    /\ Release(i) /\ core' = [core EXCEPT ![k] = Idle]
    /\ UNCHANGED <<got, sent, fault, opens, lis, dgram>>
DialEnds(k) ==
  LET i == core[k].at IN
    /\ core[k].pc = "dial" /\ conn[i].done /\ ~conn[i].err
    /\ core' = [core EXCEPT ![k].pc = "finish"]
    /\ UNCHANGED <<claimed, conn, owner, got, sent, fault, opens, lis, dgram>>

\* _net_conn_finish: without a free stream the pcb is aborted, or removed,
\* and the slot given back.  From connect_done on net_open does not look at
\* gone any more: an error callback may have freed the pcb it goes on to use.
FinishFails(k) ==
  LET i == core[k].at IN
    /\ core[k].pc = "finish"
    /\ Uses(i, "opening")
    /\ conn' = [conn EXCEPT ![i].pcb = "none"]
    /\ Release(i) /\ core' = [core EXCEPT ![k] = Idle]
    /\ UNCHANGED <<got, sent, opens, lis, dgram>>
Finish(k) ==
  /\ core[k].pc = "finish"
  /\ conn' = [conn EXCEPT ![core[k].at].stream = TRUE]
  /\ core' = [core EXCEPT ![k].pc = "attach"]
  /\ UNCHANGED <<claimed, owner, got, sent, fault, opens, lis, dgram>>
\* tcp_recv() or udp_recv(), a step of its own.
Attach(k) ==
  LET i == core[k].at IN
    /\ core[k].pc = "attach"
    /\ Uses(i, "opening")
    /\ conn' = [conn EXCEPT ![i].attached = TRUE]
    /\ core' = [core EXCEPT ![k] = Idle]
    /\ UNCHANGED <<claimed, owner, got, sent, opens, lis, dgram>>

-----------------------------------------------------------------------------
(* What lwIP calls.                                                         *)

Alive(i) == conn[i].pcb = "open"
\* lwIP still has the connection: one it has closed may yet be reset.
Standing(i) == conn[i].pcb \in {"open", "closed"}
\* _net_conn_ops_eof: a clean FIN or a reset.
AtEof(i) == conn[i].gone \/ conn[i].fin
LeavesAlone == UNCHANGED <<claimed, core, owner, got, lis, dgram, fault, opens>>

Connected(i) ==
  /\ Alive(i) /\ conn[i].kind = "tcp" /\ ~conn[i].done
  /\ conn' = [conn EXCEPT ![i].done = TRUE]
  /\ LeavesAlone /\ sent' = sent

\* A bug the checks must see: the error callback leaves the pcb to be used.
ErrorForgotten(i) ==
  /\ Standing(i) /\ conn[i].kind = "tcp"
  /\ conn' = [conn EXCEPT ![i].pcb = "freed", ![i].done = TRUE, ![i].err = @ \/ ~conn[i].done]
  /\ LeavesAlone /\ sent' = sent

\* _net_conn_tcp_err_cb: lwIP has freed the pcb, whatever was going on, a
\* net_open between connect_done and its return included.
Errored(i) ==
  /\ Standing(i) /\ conn[i].kind = "tcp"
  /\ conn' = [conn EXCEPT ![i].pcb = "freed", ![i].gone = TRUE, ![i].done = TRUE,
                          ![i].err = @ \/ ~conn[i].done]
  /\ LeavesAlone /\ sent' = sent

\* _net_conn_tcp_recv_cb: a segment joins the chain, or the peer has finished.
Segment(i) ==
  /\ Alive(i) /\ conn[i].kind = "tcp" /\ conn[i].attached /\ ~AtEof(i)
  /\ i \in Talking /\ Len(sent[i]) < MaxSent
  /\ LET byte == <<Len(sent[i]) + 1, 1>> IN
       /\ sent' = [sent EXCEPT ![i] = Append(@, byte)]
       /\ conn' = [conn EXCEPT ![i].chain = Append(@, byte)]
  /\ LeavesAlone
Finished(i) ==
  /\ Alive(i) /\ conn[i].kind = "tcp" /\ conn[i].attached /\ ~AtEof(i)
  /\ conn' = [conn EXCEPT ![i].fin = TRUE]
  /\ LeavesAlone /\ sent' = sent
\* lwIP without a callback to tell (tcp_recv_null): the connection is closed.
ClosedUnseen(i) ==
  /\ Alive(i) /\ conn[i].kind = "tcp" /\ conn[i].done /\ ~conn[i].attached
  /\ conn' = [conn EXCEPT ![i].pcb = "closed"]
  /\ LeavesAlone /\ sent' = sent

\* A bug the checks must see: the slot of the queue is taken from its tail's
\* count without the wrap of the ring.
EntryAfterHead(i) == (conn[i].head + 1) % QueueCapacity
NextEntry(i) == (conn[i].head + conn[i].count) % QueueCapacity

\* _net_conn_udp_recv_cb: a datagram of the peer's (others are dropped unread)
\* is queued, unless the queue is full.
Updating(i) == \E k \in Cores : core[k].at = i /\ core[k].pc = "count"
DatagramIn(i) ==
  /\ conn[i].kind = "udp" /\ conn[i].attached /\ conn[i].pcb = "open"
  /\ i \in Talking /\ conn[i].count < QueueCapacity
  /\ ReadsAlone => ~Updating(i)
  /\ \E len \in 0 .. MaxSent - Len(sent[i]) :
       LET bytes == [j \in 1 .. len |-> <<Len(sent[i]) + 1, j>>]
       IN
        /\ conn' = [conn EXCEPT ![i].chain = @ \o bytes, ![i].lengths[NextEntry(i)] = Len(bytes),
                                ![i].count = @ + 1]
        /\ sent' = [sent EXCEPT ![i] = @ \o bytes]
  /\ LeavesAlone

\* _net_listener_tcp_accept_cb: the pcb of an accepted connection is wrapped
\* inside the callback, or aborted when no slot is free; the accept callback
\* leaves the stream to one of the cores.
Accept ==
  /\ lis = "tcp" /\ opens < MaxOpens /\ opens' = opens + 1
  /\ \E i \in Slots, k \in Cores :
       /\ claimed[i] = 0 /\ \A j \in Slots : j < i => claimed[j] # 0
       /\ claimed' = [claimed EXCEPT ![i] = 1]
       /\ conn' = [conn EXCEPT ![i] = [NoConn EXCEPT !.pcb = "open", !.done = TRUE,
                                                     !.stream = TRUE, !.attached = TRUE]]
       /\ owner' = [owner EXCEPT ![i] = k]
       /\ got' = [got EXCEPT ![i] = <<>>] /\ sent' = [sent EXCEPT ![i] = <<>>]
  /\ UNCHANGED <<core, fault, lis, dgram>>

-----------------------------------------------------------------------------
(* A listener.  Its datagram streams come from a pool of their own and send *)
(* what is written to them through the listener's pcb.                      *)

ListenerLeavesAlone == UNCHANGED <<claimed, conn, core, owner, got, sent, opens>>
\* A pcb that cannot be made, bound or set to listen is given back, and the slot.
ListenerInit(k) ==
  /\ core[k].pc = "idle" /\ lis = "none" /\ lis' \in {"tcp", "udp"}
  /\ UNCHANGED <<dgram, fault>> /\ ListenerLeavesAlone
ListenerDeinit(k) ==
  /\ core[k].pc = "idle" /\ lis # "none" /\ lis' = "none"
  /\ AnswersFirst => \A d \in Dgrams : ~dgram[d]
  /\ UNCHANGED <<dgram, fault>> /\ ListenerLeavesAlone
\* _net_listener_udp_recv_cb: dropped when no context or no stream is free.
ListenerDatagram ==
  /\ lis = "udp"
  /\ \E d \in Dgrams : ~dgram[d] /\ dgram' = [dgram EXCEPT ![d] = TRUE]
  /\ UNCHANGED <<lis, fault>> /\ ListenerLeavesAlone
DgramWrite(k, d) ==
  /\ core[k].pc = "idle" /\ dgram[d]
  /\ fault' = fault \cup IF lis = "none" THEN {"listener"} ELSE {}
  /\ UNCHANGED <<lis, dgram>> /\ ListenerLeavesAlone
DgramClose(k, d) ==
  /\ core[k].pc = "idle" /\ dgram[d] /\ dgram' = [dgram EXCEPT ![d] = FALSE]
  /\ UNCHANGED <<lis, fault>> /\ ListenerLeavesAlone

-----------------------------------------------------------------------------
(* _net_conn_ops_read and seek.  The copy is made under the lwIP lock; a    *)
(* UDP read then moves the queue on, outside it, in two updates.            *)

Holds(k, i) == core[k].pc = "idle" /\ owner[i] = k /\ conn[i].stream /\ conn[i].attached
ReadTcp(k, i, n) ==
  LET back == conn[i].pushback
      out  == back \o First(conn[i].chain, n - Len(back))
  IN /\ Holds(k, i) /\ conn[i].kind = "tcp" /\ out # <<>>
     /\ conn' = [conn EXCEPT ![i].chain = DropFirst(@, n - Len(back)),
                             ![i].pushback = <<>>, ![i].last = <<out[Len(out)]>>]
     /\ got' = [got EXCEPT ![i] = @ \o out]
     /\ UNCHANGED <<claimed, core, owner, sent, fault, opens, lis, dgram>>

Available(i) == IF conn[i].count = 0 THEN 0 ELSE conn[i].lengths[conn[i].head] - conn[i].front
ReadUdp(k, i, n) ==
  LET back == conn[i].pushback
      room == n - Len(back)
      want == IF Available(i) < room THEN Available(i) ELSE room
      out  == back \o First(conn[i].chain, want)
      ends == room > 0 /\ conn[i].count > 0 /\ want = Available(i)
  IN /\ Holds(k, i) /\ conn[i].kind = "udp" /\ (out # <<>> \/ ends)
     /\ conn' = [conn EXCEPT ![i].chain = DropFirst(@, want), ![i].pushback = <<>>,
                             ![i].last = IF out = <<>> THEN @ ELSE <<out[Len(out)]>>,
                             ![i].front = IF ends THEN 0 ELSE @ + want,
                             ![i].head = IF ends THEN (@ + 1) % QueueCapacity ELSE @]
     /\ got' = [got EXCEPT ![i] = @ \o out]
     /\ core' = IF ends THEN [core EXCEPT ![k].pc = "count", ![k].at = i] ELSE core
     /\ UNCHANGED <<claimed, owner, sent, fault, opens, lis, dgram>>
ReadCounts(k) ==
  /\ core[k].pc = "count"
  /\ conn' = [conn EXCEPT ![core[k].at].count = @ - 1]
  /\ core' = [core EXCEPT ![k] = Idle]
  /\ UNCHANGED <<claimed, owner, got, sent, fault, opens, lis, dgram>>

SeekBack(k, i) ==
  /\ Holds(k, i) /\ conn[i].last # <<>> /\ conn[i].pushback = <<>>
  /\ conn' = [conn EXCEPT ![i].pushback = conn[i].last, ![i].last = <<>>]
  /\ got' = [got EXCEPT ![i] = SubSeq(@, 1, Len(@) - 1)]
  /\ UNCHANGED <<claimed, core, owner, sent, fault, opens, lis, dgram>>

\* _net_conn_ops_write, under the lock: nothing is written to a pcb that is gone.
Write(k, i) ==
  /\ Holds(k, i) /\ ~conn[i].gone
  /\ Uses(i, "stream")
  /\ UNCHANGED <<claimed, conn, core, owner, got, sent, opens, lis, dgram>>

\* _net_conn_ops_close: the callbacks are taken off and the pcb closed unless
\* it is gone, what was unread is freed, and the slot given back.
Close(k, i) ==
  /\ Holds(k, i)
  /\ IF conn[i].gone THEN fault' = fault ELSE Uses(i, "stream")
  /\ conn' = [conn EXCEPT ![i] = NoConn]
  /\ Release(i)
  /\ UNCHANGED <<core, got, sent, opens, lis, dgram>>

Core(k) ==
  \/ \E kind \in {"tcp", "udp"} : Begin(k, kind)
  \/ Probe(k) \/ ProbeBack(k) \/ OpenFails(k) \/ OpenPcb(k) \/ DialFails(k) \/ DialEnds(k)
  \/ ListenerInit(k) \/ ListenerDeinit(k) \/ (\E d \in Dgrams : DgramWrite(k, d) \/ DgramClose(k, d))
  \/ FinishFails(k) \/ Finish(k) \/ Attach(k) \/ ReadCounts(k)
  \/ \E i \in Slots :
       SeekBack(k, i) \/ Write(k, i) \/ Close(k, i)
       \/ \E n \in 1 .. 2 : ReadTcp(k, i, n) \/ ReadUdp(k, i, n)
LwIP == Accept \/ ListenerDatagram \/ \E i \in Slots : Connected(i) \/ Errored(i) \/ Segment(i) \/ Finished(i) \/ ClosedUnseen(i) \/ DatagramIn(i)
Next == (\E k \in Cores : Core(k)) \/ LwIP
Spec == Init /\ [][Next]_vars

-----------------------------------------------------------------------------
(* A slot of the pool is claimed once by whoever has it and once more by    *)
(* each core that is about to take its increment back: two never own one    *)
(* slot, and one nobody has is free to be claimed (_net_conn_alloc).        *)
Backs(i) == {k \in Cores : core[k].pc = "back" /\ core[k].at = i}
Owns(i) == IF owner[i] = "none" THEN 0 ELSE 1
ClaimsExact == \A i \in Slots : claimed[i] = Cardinality(Backs(i)) + Owns(i)

(* No read, write or close of a stream uses a pcb that an error callback    *)
(* said is freed, and no datagram stream its listener's after that was      *)
(* removed (_net_conn_tcp_err_cb, gone).  What is left, and happens, is     *)
(* net_open's own use of a pcb freed since connect_done, and any use of a   *)
(* connection that lwIP closed in that window: the code asks neither.       *)
NoFreedPcb == fault \cap {"stream", "listener"} = {}

(* What arrived is, in order, with the reader, pushed back, or in the       *)
(* chain; and the chain is cut into exactly the datagrams the queue counts, *)
(* so that no read takes bytes of two datagrams or leaves some of one       *)
(* behind.                                                                  *)
Cut(i, n, ends) ==
  /\ ends[0] = 0 /\ ends[n] = Len(conn[i].chain) + conn[i].front
  /\ \A j \in 1 .. n : ends[j] = ends[j - 1] + conn[i].lengths[(conn[i].head + j - 1) % QueueCapacity]
Cuts(i, n) == [0 .. n -> 0 .. Len(conn[i].chain) + conn[i].front]
ChainKept ==
  \A i \in Slots : conn[i].stream =>
    /\ got[i] \o conn[i].pushback \o conn[i].chain = sent[i]
    /\ (conn[i].kind = "udp" /\ ~Updating(i)) =>
         /\ conn[i].count \in 0 .. QueueCapacity
         /\ \E ends \in Cuts(i, conn[i].count) : Cut(i, conn[i].count, ends)

-----------------------------------------------------------------------------
(* What keeps the three so, where the two halves of a read have no datagram *)
(* between them and a listener is closed after its datagrams' streams.      *)

Byte == Nat \X Nat
Conn == [kind : {"tcp", "udp"}, pcb : {"none", "open", "freed", "closed"}, attached : BOOLEAN,
         stream : BOOLEAN, gone : BOOLEAN, fin : BOOLEAN, done : BOOLEAN, err : BOOLEAN,
         last : Seq(Byte), pushback : Seq(Byte), chain : Seq(Byte),
         lengths : [Ring -> Nat], head : Ring, count : 0 .. QueueCapacity, front : Nat]
PoolTypes ==
  /\ claimed \in [Slots -> Int] /\ conn \in [Slots -> Conn]
  /\ core \in [Cores -> [pc : {"idle", "probe", "back", "new", "dial", "finish", "attach", "count"},
                         at : 0 .. Capacity, kind : {"tcp", "udp"}]]
  /\ owner \in [Slots -> Cores \cup {"none"}]
  /\ got \in [Slots -> Seq(Byte)] /\ sent \in [Slots -> Seq(Byte)]
  /\ lis \in {"none", "tcp", "udp"} /\ dgram \in [Dgrams -> BOOLEAN] 
  /\ fault \subseteq {"opening", "closed", "stream", "listener"}

\* What a connection has before it is attached: nothing has arrived.
Fresh(i) ==
  /\ ~conn[i].attached /\ got[i] = <<>> /\ sent[i] = <<>>
  /\ conn[i].chain = <<>> /\ conn[i].pushback = <<>> /\ conn[i].last = <<>>
  /\ conn[i].count = 0 /\ conn[i].front = 0

\* How far a core has come with the slot it has claimed.
Busy(k) == core[k].pc \in {"new", "dial", "finish", "attach", "count"}
CoreOwns(k) == LET i == core[k].at IN
  /\ core[k].pc # "idle" => i \in Slots
  /\ Busy(k) => owner[i] = k
  /\ core[k].pc = "new" => Fresh(i) /\ ~conn[i].stream /\ conn[i].pcb = "none" /\ ~conn[i].done
  /\ core[k].pc = "dial" => /\ Fresh(i) /\ ~conn[i].stream /\ conn[i].kind = "tcp"
                            /\ Standing(i) \/ conn[i].gone
  /\ core[k].pc \in {"finish", "attach"} =>
       /\ Fresh(i) /\ conn[i].stream = (core[k].pc = "attach")
       /\ Standing(i) \/ conn[i].gone
       /\ conn[i].kind = "tcp" => conn[i].done
  /\ core[k].pc = "count" => /\ conn[i].kind = "udp" /\ conn[i].attached
                             /\ conn[i].count > 0 /\ conn[i].front = 0

\* A slot that nobody has is out of lwIP's hands; a stream in use has its
\* control block or knows that it is gone.
SlotOwned(i) ==
  /\ owner[i] = "none" => ~conn[i].stream /\ ~conn[i].attached /\ ~Standing(i)
  /\ (conn[i].stream /\ ~conn[i].attached) => \E k \in Cores : core[k].pc = "attach" /\ core[k].at = i
  /\ conn[i].attached => /\ conn[i].stream
                         /\ Standing(i) \/ conn[i].gone
                         /\ conn[i].kind = "tcp" => conn[i].done

\* The datagrams in the queue, but for one that a read is about to uncount.
Queued(i) == IF Updating(i) THEN conn[i].count - 1 ELSE conn[i].count
QueueKept(i) ==
  /\ Queued(i) = 0 => conn[i].front = 0
  /\ Queued(i) > 0 => conn[i].front <= conn[i].lengths[conn[i].head]
  /\ \E ends \in Cuts(i, Queued(i)) :
       /\ Cut(i, Queued(i), ends)
       /\ \A a, b \in 0 .. Queued(i) : a <= b => ends[a] <= ends[b]
Kept(i) == conn[i].stream =>
  /\ got[i] \o conn[i].pushback \o conn[i].chain = sent[i]
  /\ Len(conn[i].pushback) <= 1
  /\ conn[i].last # <<>> => got[i] # <<>> /\ conn[i].last = <<got[i][Len(got[i])]>>
  /\ conn[i].kind = "udp" => QueueKept(i)

ListenerKept == lis = "none" => \A d \in Dgrams : ~dgram[d]
PoolInv ==
  /\ PoolTypes /\ ClaimsExact /\ ListenerKept /\ NoFreedPcb
  /\ \A k \in Cores : CoreOwns(k)
  /\ \A i \in Slots : SlotOwned(i) /\ Kept(i)
=============================================================================
