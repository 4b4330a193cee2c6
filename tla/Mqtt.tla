-------------------------------- MODULE Mqtt --------------------------------
(***************************************************************************)
(* The MQTT client (net/mqtt): one handle, one lock, one slot each for an  *)
(* outstanding publish, subscribe and unsubscribe, and the table of        *)
(* subscriptions.  Callers stage requests; net_poll() writes them, reads   *)
(* what the broker answers and times out what it does not answer.          *)
(*                                                                         *)
(* The lock is held for the whole of a handler, its I/O included, so a     *)
(* handler is one step; what the code does outside the lock (the check at  *)
(* the top of net_poll(), the events fired after a handler, the end of     *)
(* deinit) is a step of its own.  A request carries a number of its own,   *)
(* req, which the code does not have: identifiers wrap, requests do not.   *)
(***************************************************************************)
EXTENDS Integers, Sequences, FiniteSetsExt

CONSTANTS Callers,      \* threads that call the client's functions
          Pollers,      \* threads that call net_poll()
          Capacity,     \* NET_MQTT_TOPIC_CAPACITY
          MidWidth,     \* values of a message id (2^32)
          PidWidth,     \* values of a packet id (2^16)
          MaxRequests,  \* bound: requests staged
          MaxLinks,     \* bound: connections made
          MaxPushed,    \* bound: packets the broker sends unprompted
          Watched       \* the requests whose end RequestsEnd follows

ASSUME MqttAssumption ==
  /\ Callers \cap Pollers = {}
  /\ Capacity \in Nat \ {0}
  /\ MidWidth \in Nat /\ MidWidth > Capacity + 1   \* an unused id exists
  /\ PidWidth \in Nat /\ PidWidth > 1
  /\ {MaxRequests, MaxLinks, MaxPushed} \subseteq Nat
  /\ Watched \subseteq 1..MaxRequests

Threads == Callers \cup Pollers
Slots == 1..Capacity
Requests == 1..MaxRequests
Kinds == {"publish", "subscribe", "unsubscribe"}

VARIABLES active, connected,   \* net_mqtt_t: handle in use (and its callback set), connected
          wire,        \* the connection: to the broker, from it, and whether the peer has gone
          pend,        \* the three slots for outstanding requests
          topics,      \* the table of subscriptions
          nextMid, nextPid,
          ping,        \* ping_outstanding
          thread,      \* what each thread is doing
          served,      \* requests the broker has carried out, QoS 0 ones that were written
          told,        \* completion events delivered, by request
          made, links, pushed   \* the counters behind the bounds

client == <<active, connected, wire, pend, topics, nextMid, nextPid, ping>>
ghosts == <<served, told, made, links, pushed>>
vars == <<client, thread, ghosts>>

-----------------------------------------------------------------------------
(* States of the three slots (the enums of private.h).                     *)

PublishStates == {"idle", "qos0", "qos1", "qos2",
                  "wait_puback", "wait_pubrec", "wait_pubcomp"}
SubscribeStates == {"idle", "requesting", "wait_suback"}
UnsubscribeStates == {"idle", "requesting", "wait_unsuback"}

Staged == {"qos0", "qos1", "qos2", "requesting"}
Awaiting == (PublishStates \cup SubscribeStates \cup UnsubscribeStates)
              \ (Staged \cup {"idle"})

\* The fields behind an idle slot are not read again, tomb
\* (last_timed_out_packet_id) apart: they take one value here.
NoRequest == [state |-> "idle", req |-> 0, mid |-> 0, pid |-> 0,
              slot |-> 0, tomb |-> 0]
Released(p) == [NoRequest EXCEPT !.tomb = p.tomb]

FreeTopic == [active |-> FALSE, confirmed |-> FALSE, id |-> 0, req |-> 0]
Forget(slot) == [slot EXCEPT !.active = FALSE, !.confirmed = FALSE]

NoWire == [tx |-> <<>>, rx |-> <<>>, eof |-> FALSE]
Packet(type, pid, req) == [type |-> type, pid |-> pid, req |-> req]

Event(kind, req) == [kind |-> kind, req |-> req]
Completions == {"sent", "subscribed", "unsubscribed", "error"}
Disconnected == <<Event("disconnected", 0)>>

-----------------------------------------------------------------------------
(* Threads: idle, asleep on publish_cond or woken from it with a call to   *)
(* finish, at a handler of net_poll(), delivering events, or at the end of *)
(* net_mqtt_deinit().                                                      *)

Call(op, id) == [op |-> op, id |-> id]
Idle == [pc |-> "idle", call |-> Call("none", 0), fire |-> <<>>, then |-> "idle"]
Deliver(events, then) == [Idle EXCEPT !.pc = "fire", !.fire = events, !.then = then]
Doing(t, what) == thread' = [thread EXCEPT ![t] = what]
At(t, pc) == thread[t].pc = pc

\* sys_cond_broadcast(publish_cond), and the thread that did it moves on.
BroadcastThen(t, what) ==
  thread' = [u \in Threads |->
               IF u = t THEN what
               ELSE IF thread[u].pc = "asleep" THEN [thread[u] EXCEPT !.pc = "woken"]
               ELSE thread[u]]

\* A bug the checks must see: the unanswered ping outlives its connection.
AbortKeepingPing(t, events, then) ==
  /\ connected' = FALSE /\ wire' = NoWire
  /\ pend' = [k \in Kinds |-> Released(pend[k])]
  /\ topics' = [s \in Slots |-> Forget(topics[s])]
  /\ BroadcastThen(t, Deliver(events, then))
  /\ UNCHANGED <<active, ping, nextMid, nextPid, ghosts>>

\* _net_mqtt_abort_connection_locked(), then the events once unlocked.
AbortConnection(t, events, then) ==
  /\ connected' = FALSE
  /\ wire' = NoWire
  /\ pend' = [k \in Kinds |-> Released(pend[k])]
  /\ ping' = FALSE
  /\ topics' = [s \in Slots |-> Forget(topics[s])]
  /\ BroadcastThen(t, Deliver(events, then))
  /\ UNCHANGED <<active, nextMid, nextPid, ghosts>>

\* _net_mqtt_poll_fail(): the error, then the disconnection.
Fail(t, req) == AbortConnection(t, <<Event("error", req)>> \o Disconnected, "idle")

-----------------------------------------------------------------------------
(* Identifiers and topics.                                                 *)

Confirmed(s) == topics[s].active /\ topics[s].confirmed

TopicIdInUse(id) == \E s \in Slots : Confirmed(s) /\ topics[s].id = id

\* Ids run over 1..MidWidth-1 in a ring (0 is skipped on wraparound) and
\* skip the ids of confirmed subscriptions.
NextMessageId ==
  LET After(k) == ((nextMid + k - 1) % (MidWidth - 1)) + 1
  IN  After(Min({k \in 1..(MidWidth - 1) : ~TopicIdInUse(After(k))}))

NextPacketId == (nextPid % (PidWidth - 1)) + 1

TopicFind(id) == {s \in Slots : Confirmed(s) /\ topics[s].id = id}
TopicFree == {s \in Slots : ~topics[s].active}

-----------------------------------------------------------------------------
(* Life cycle.                                                             *)

Init ==
  /\ active = FALSE /\ connected = FALSE
  /\ wire = NoWire
  /\ pend = [k \in Kinds |-> NoRequest]
  /\ topics = [s \in Slots |-> FreeTopic]
  /\ nextMid = 0 /\ nextPid = 0
  /\ ping = FALSE
  /\ thread = [t \in Threads |-> Idle]
  /\ served = {} /\ told = [r \in Requests |-> 0]
  /\ made = 0 /\ links = 0 /\ pushed = 0

\* net_mqtt_init(): takes no lock, starts every field afresh (the topics'
\* ids and filters stay behind the cleared flags).  The program then sets
\* its callback, before it connects: from here on events reach it.
InitClient(t) ==
  /\ At(t, "idle") /\ ~active
  /\ active' = TRUE /\ connected' = FALSE
  /\ wire' = NoWire
  /\ pend' = [k \in Kinds |-> NoRequest]
  /\ topics' = [s \in Slots |-> Forget(topics[s])]
  /\ nextMid' = 0 /\ nextPid' = 0
  /\ ping' = FALSE
  /\ UNCHANGED <<thread, ghosts>>

\* A handshake the broker accepts; one that fails at any point closes the
\* socket it opened and leaves the client as it was.
Connect(t) ==
  /\ At(t, "idle") /\ active /\ ~connected /\ links < MaxLinks
  /\ connected' = TRUE
  /\ wire' = NoWire
  /\ ping' = FALSE
  /\ links' = links + 1
  /\ Doing(t, Deliver(<<Event("connected", 0)>>, "idle"))
  /\ UNCHANGED <<active, pend, topics, nextMid, nextPid,
                 served, told, made, pushed>>

\* DISCONNECT is best effort: nobody reads it once the socket is closed.
Disconnect(t) ==
  /\ At(t, "idle") /\ connected
  /\ AbortConnection(t, Disconnected, "idle")

Deinit(t) ==
  /\ At(t, "idle") /\ active
  /\ IF connected
       THEN AbortConnection(t, Disconnected, "deinit")
       ELSE Doing(t, [Idle EXCEPT !.pc = "deinit"]) /\ UNCHANGED <<client, ghosts>>

\* The last three assignments of net_mqtt_deinit(), outside the lock: the
\* callback goes with the handle.
DeinitEnds(t) ==
  /\ At(t, "deinit")
  /\ active' = FALSE
  /\ Doing(t, Idle)
  /\ UNCHANGED <<connected, wire, pend, topics, nextMid, nextPid, ping, ghosts>>

\* _net_mqtt_fire_event(): the callback, if it is still there.
FireEvent(t) ==
  /\ At(t, "fire")
  /\ LET e == Head(thread[t].fire) IN
       told' = IF e.kind \in Completions /\ e.req # 0 /\ active
                 THEN [told EXCEPT ![e.req] = @ + 1] ELSE told
  /\ Doing(t, IF Len(thread[t].fire) > 1
                THEN [thread[t] EXCEPT !.fire = Tail(@)]
                ELSE [Idle EXCEPT !.pc = thread[t].then])
  /\ UNCHANGED <<client, served, made, links, pushed>>

-----------------------------------------------------------------------------
(* Staging: net_mqtt_publish(), net_mqtt_subscribe(), net_mqtt_unsubscribe() *)
(* wait for their slot or a disconnect, then fill the slot in.               *)

Calls == {Call(op, 0) : op \in {"qos0", "qos1", "qos2", "subscribe"}}
           \cup {Call("unsubscribe", id) : id \in 1..(MidWidth - 1)}
KindOf(call) == IF call.op \in {"subscribe", "unsubscribe"} THEN call.op ELSE "publish"

Stage(k, request) ==
  /\ pend' = [pend EXCEPT ![k] = [request EXCEPT !.req = made + 1, !.tomb = pend[k].tomb]]
  /\ made' = made + 1

StagePublish(qos) ==
  LET numbered == qos \in {"qos1", "qos2"} IN
  /\ Stage("publish", [NoRequest EXCEPT !.state = qos, !.mid = NextMessageId,
                         !.pid = IF numbered THEN NextPacketId ELSE 0])
  /\ nextMid' = NextMessageId
  /\ nextPid' = IF numbered THEN NextPacketId ELSE nextPid
  /\ UNCHANGED topics

StageSubscribe ==
  /\ TopicFree # {}
  /\ LET s == Min(TopicFree) IN
       /\ topics' = [topics EXCEPT ![s].active = TRUE, ![s].confirmed = FALSE]
       /\ Stage("subscribe", [NoRequest EXCEPT !.state = "requesting", !.slot = s,
                                !.mid = NextMessageId, !.pid = NextPacketId])
  /\ nextMid' = NextMessageId
  /\ nextPid' = NextPacketId

StageUnsubscribe(id) ==
  /\ TopicFind(id) # {}
  /\ Stage("unsubscribe", [NoRequest EXCEPT !.state = "requesting", !.mid = id,
                             !.slot = Min(TopicFind(id)), !.pid = NextPacketId])
  /\ nextPid' = NextPacketId
  /\ UNCHANGED <<topics, nextMid>>

Acceptable(call) ==
  CASE call.op = "subscribe"   -> TopicFree # {}
    [] call.op = "unsubscribe" -> TopicFind(call.id) # {}
    [] OTHER                   -> TRUE

\* The body of the three calls, from the test of the wait loop on.
Proceed(t, call) ==
  /\ made < MaxRequests
  /\ IF connected /\ pend[KindOf(call)].state # "idle"
       THEN /\ Doing(t, [Idle EXCEPT !.pc = "asleep", !.call = call])
            /\ UNCHANGED <<pend, topics, nextMid, nextPid, made>>
       ELSE /\ Doing(t, Idle)
            /\ IF connected /\ Acceptable(call)
                 THEN CASE call.op = "subscribe"   -> StageSubscribe
                        [] call.op = "unsubscribe" -> StageUnsubscribe(call.id)
                        [] OTHER                   -> StagePublish(call.op)
                 ELSE UNCHANGED <<pend, topics, nextMid, nextPid, made>>
  /\ UNCHANGED <<active, connected, wire, ping, served, told, links, pushed>>

Publish(t, qos) == At(t, "idle") /\ connected /\ Proceed(t, Call(qos, 0))
Subscribe(t) == At(t, "idle") /\ connected /\ Proceed(t, Call("subscribe", 0))
Unsubscribe(t, id) ==
  At(t, "idle") /\ TopicIdInUse(id) /\ Proceed(t, Call("unsubscribe", id))

\* A waiter whose wait was broadcast tests its slot again.
Resume(t) == At(t, "woken") /\ Proceed(t, thread[t].call)

\* timeout_ms of waiting in all: the call returns 0.
GiveUp(t) ==
  /\ thread[t].pc \in {"asleep", "woken"}
  /\ Doing(t, Idle)
  /\ UNCHANGED <<client, ghosts>>

-----------------------------------------------------------------------------
(* net_poll(): the handlers in order; the first that does something ends   *)
(* the call.                                                               *)

Handlers == <<"publish_send", "subscribe_send", "unsubscribe_send", "ping_send",
              "read_dispatch", "publish_timeout", "subscribe_timeout",
              "unsubscribe_timeout", "ping_timeout">>

\* A handler that would find nothing to do; the others act, or find that
\* the time for it has not come.
NothingFor(h) ==
  CASE h = "publish_send"        -> pend["publish"].state \notin Staged
    [] h = "subscribe_send"      -> pend["subscribe"].state \notin Staged
    [] h = "unsubscribe_send"    -> pend["unsubscribe"].state \notin Staged
    [] h = "ping_send"           -> ~connected \/ ping
    [] h = "read_dispatch"       -> ~connected \/ (wire.rx = <<>> /\ ~wire.eof)
    [] h = "publish_timeout"     -> pend["publish"].state \notin Awaiting
    [] h = "subscribe_timeout"   -> pend["subscribe"].state \notin Awaiting
    [] h = "unsubscribe_timeout" -> pend["unsubscribe"].state \notin Awaiting
    [] h = "ping_timeout"        -> ~ping

\* A thread passes the handlers that have nothing to do in one step: what
\* others do between two of them they could as well do before or after.
HandlerFrom(i) ==
  LET work == {j \in i..Len(Handlers) : ~NothingFor(Handlers[j])}
  IN  IF work = {} THEN "idle" ELSE Handlers[Min(work)]
IndexOf(h) == CHOOSE i \in DOMAIN Handlers : Handlers[i] = h

\* The handlers of each kind of request.
SendOf == [publish |-> "publish_send", subscribe |-> "subscribe_send",
           unsubscribe |-> "unsubscribe_send"]
TimeoutOf == [publish |-> "publish_timeout", subscribe |-> "subscribe_timeout",
              unsubscribe |-> "unsubscribe_timeout"]

\* The check at the top is unlocked: what it sees of active and connected
\* may be gone by the time a handler takes the lock.
Poll(t) ==
  /\ At(t, "idle") /\ active /\ connected
  /\ Doing(t, [Idle EXCEPT !.pc = HandlerFrom(1)])
  /\ UNCHANGED <<client, ghosts>>

Pass(t) ==
  /\ Doing(t, [Idle EXCEPT !.pc = HandlerFrom(IndexOf(thread[t].pc) + 1)])
  /\ UNCHANGED <<client, ghosts>>

\* The state a request waits in once it is written, the packet it travels in.
WaitState == [qos1 |-> "wait_puback", qos2 |-> "wait_pubrec"]
SentState(k) == CASE k = "publish"     -> WaitState[pend[k].state]
                  [] k = "subscribe"   -> "wait_suback"
                  [] k = "unsubscribe" -> "wait_unsuback"
PacketOf(k) == IF k = "publish" THEN pend[k].state ELSE k

Write(type, pid, req) == wire' = [wire EXCEPT !.tx = Append(@, Packet(type, pid, req))]

\* Writing the request staged in slot k; a write cut short ends the connection.
PollSend(t, k) ==
  /\ At(t, SendOf[k])
  /\ IF pend[k].state \notin Staged THEN Pass(t)
     ELSE \/ Fail(t, pend[k].req)
          \/ /\ Write(PacketOf(k), pend[k].pid, pend[k].req)
             /\ IF pend[k].state = "qos0"
                  THEN /\ pend' = [pend EXCEPT ![k] = Released(@)]
                       /\ BroadcastThen(t, Deliver(<<Event("sent", pend[k].req)>>, "idle"))
                       /\ served' = served \cup {pend[k].req}
                  ELSE /\ pend' = [pend EXCEPT ![k].state = SentState(k)]
                       /\ Doing(t, Idle)
                       /\ UNCHANGED served
             /\ UNCHANGED <<active, connected, topics, nextMid, nextPid, ping,
                            told, made, links, pushed>>

PublishSend(t) == PollSend(t, "publish")
SubscribeSend(t) == PollSend(t, "subscribe")
UnsubscribeSend(t) == PollSend(t, "unsubscribe")

\* A ping is due keepalive_s after the last one: at any call, or not yet.
PingSend(t) ==
  /\ At(t, "ping_send")
  /\ \/ Pass(t)
     \/ connected /\ ~ping /\ Fail(t, 0)
     \/ /\ connected /\ ~ping
        /\ Write("pingreq", 0, 0)
        /\ ping' = TRUE
        /\ Doing(t, Idle)
        /\ UNCHANGED <<active, connected, pend, topics, nextMid, nextPid, ghosts>>

-----------------------------------------------------------------------------
(* Reading what the broker sent.                                           *)

Reading(t, types) ==
  /\ At(t, "read_dispatch") /\ connected
  /\ wire.rx # <<>> /\ Head(wire.rx).type \in types
Got == Head(wire.rx)
Consumed == [wire EXCEPT !.rx = Tail(@)]
StillConnected == UNCHANGED <<active, connected, nextMid, nextPid, ghosts>>

\* A bug the checks must see: any reply of the right kind is taken.
MatchesByKind(k, state) == pend[k].state = state

\* The reply in hand answers the request slot k waits for.
Matches(k, state) == pend[k].state = state /\ pend[k].pid = Got.pid

\* The reply answers nothing pending: a late one is dropped, any other
\* ends the connection.
Unmatched(t, k) ==
  IF Got.pid = pend[k].tomb
    THEN /\ wire' = Consumed
         /\ Doing(t, Idle)
         /\ StillConnected /\ UNCHANGED <<pend, topics, ping>>
    ELSE Fail(t, 0)

\* A bug the checks must see: the slot is freed only when the event is handled.
CompleteKeeping(t, k, kind) ==
  /\ wire' = Consumed
  /\ Doing(t, Deliver(<<Event(kind, pend[k].req)>>, "idle"))
  /\ StillConnected /\ UNCHANGED <<pend, ping>>

\* The reply that completes slot k.
Complete(t, k, kind) ==
  /\ wire' = Consumed
  /\ pend' = [pend EXCEPT ![k] = Released(@)]
  /\ BroadcastThen(t, Deliver(<<Event(kind, pend[k].req)>>, "idle"))
  /\ StillConnected /\ UNCHANGED ping

ReadPuback(t) ==
  /\ Reading(t, {"puback"})
  /\ IF Matches("publish", "wait_puback")
       THEN Complete(t, "publish", "sent") /\ UNCHANGED topics
       ELSE Unmatched(t, "publish")

ReadPubrec(t) ==
  /\ Reading(t, {"pubrec"})
  /\ IF Matches("publish", "wait_pubrec")
       THEN \/ Fail(t, pend["publish"].req)
            \/ /\ wire' = [Consumed EXCEPT !.tx = Append(@, Packet("pubrel", Got.pid, Got.req))]
               /\ pend' = [pend EXCEPT !["publish"].state = "wait_pubcomp"]
               /\ Doing(t, Idle)
               /\ StillConnected /\ UNCHANGED <<topics, ping>>
       ELSE Unmatched(t, "publish")

ReadPubcomp(t) ==
  /\ Reading(t, {"pubcomp"})
  /\ IF Matches("publish", "wait_pubcomp")
       THEN Complete(t, "publish", "sent") /\ UNCHANGED topics
       ELSE Unmatched(t, "publish")

\* A granted subscription fills in the slot reserved for it; a refused one
\* gives the slot back.
ReadSuback(t) ==
  /\ Reading(t, {"suback", "suback_refused"})
  /\ IF Matches("subscribe", "wait_suback")
       THEN LET s == pend["subscribe"].slot IN
            IF Got.type = "suback_refused"
              THEN /\ Complete(t, "subscribe", "error")
                   /\ topics' = [topics EXCEPT ![s] = Forget(@)]
              ELSE /\ Complete(t, "subscribe", "subscribed")
                   /\ topics' = [topics EXCEPT ![s] =
                                   [active |-> TRUE, confirmed |-> TRUE,
                                    id |-> pend["subscribe"].mid,
                                    req |-> pend["subscribe"].req]]
       ELSE Unmatched(t, "subscribe")

ReadUnsuback(t) ==
  /\ Reading(t, {"unsuback"})
  /\ IF Matches("unsubscribe", "wait_unsuback")
       THEN /\ Complete(t, "unsubscribe", "unsubscribed")
            /\ topics' = [topics EXCEPT ![pend["unsubscribe"].slot] = Forget(@)]
       ELSE Unmatched(t, "unsubscribe")

\* A message: delivered whole, with a PUBACK first at QoS 1 (nothing comes
\* back for it); one that is malformed, too long or of QoS 2 ends the
\* connection, and so does a PUBACK that cannot be written.
ReadPublish(t) ==
  /\ Reading(t, {"message"})
  /\ \/ Fail(t, 0)
     \/ /\ wire' = Consumed
        /\ Doing(t, Deliver(<<Event("received", 0)>>, "idle"))
        /\ StillConnected /\ UNCHANGED <<pend, topics, ping>>

ReadPingresp(t) ==
  /\ Reading(t, {"pingresp"})
  /\ wire' = Consumed
  /\ ping' = FALSE
  /\ Doing(t, Idle)
  /\ StillConnected /\ UNCHANGED <<pend, topics>>

\* The rest of the dispatcher: nothing to read, the peer gone, a packet of
\* no known type (or a known one cut short, which ends the same way).
ReadDispatch(t) ==
  /\ At(t, "read_dispatch")
  /\ \/ (~connected \/ (wire.rx = <<>> /\ ~wire.eof)) /\ Pass(t)
     \/ connected /\ wire.rx = <<>> /\ wire.eof /\ AbortConnection(t, Disconnected, "idle")
     \/ Reading(t, {"garbage"}) /\ Fail(t, 0)

-----------------------------------------------------------------------------
(* Timeouts.  Clocks are left out: timeout_ms has passed since the packet  *)
(* an outstanding request waits on, or it has not, at any call of net_poll().*)

\* Bugs the checks must see: the reserved topic is not given back, nobody is
\* woken for the freed slot, only a publish times out.
TimeOutKeepingTopic(t, k) ==
  /\ At(t, TimeoutOf[k]) /\ pend[k].state \in Awaiting
  /\ pend' = [pend EXCEPT ![k] = [NoRequest EXCEPT !.tomb = pend[k].pid]]
  /\ BroadcastThen(t, Deliver(<<Event("error", pend[k].req)>>, "idle"))
  /\ UNCHANGED <<active, connected, wire, topics, nextMid, nextPid, ping, ghosts>>
TimeOutQuietly(t, k) ==
  /\ At(t, TimeoutOf[k]) /\ pend[k].state \in Awaiting
  /\ pend' = [pend EXCEPT ![k] = [NoRequest EXCEPT !.tomb = pend[k].pid]]
  /\ topics' = IF k = "subscribe"
                 THEN [topics EXCEPT ![pend[k].slot] = Forget(@)] ELSE topics
  /\ Doing(t, Deliver(<<Event("error", pend[k].req)>>, "idle"))
  /\ UNCHANGED <<active, connected, wire, nextMid, nextPid, ping, ghosts>>
TimeOutOfPublish(t, k) ==
  /\ k = "publish" /\ At(t, "publish_timeout") /\ pend[k].state \in Awaiting
  /\ pend' = [pend EXCEPT ![k] = [NoRequest EXCEPT !.tomb = pend[k].pid]]
  /\ BroadcastThen(t, Deliver(<<Event("error", pend[k].req)>>, "idle"))
  /\ UNCHANGED <<active, connected, wire, topics, nextMid, nextPid, ping, ghosts>>

\* A reply that did not come in time: the slot is freed, the packet id kept
\* to know the reply by if it comes after all.
TimeOut(t, k) ==
  /\ At(t, TimeoutOf[k]) /\ pend[k].state \in Awaiting
  /\ pend' = [pend EXCEPT ![k] = [NoRequest EXCEPT !.tomb = pend[k].pid]]
  /\ topics' = IF k = "subscribe"
                 THEN [topics EXCEPT ![pend[k].slot] = Forget(@)] ELSE topics
  /\ BroadcastThen(t, Deliver(<<Event("error", pend[k].req)>>, "idle"))
  /\ UNCHANGED <<active, connected, wire, nextMid, nextPid, ping, ghosts>>
CheckTimeout(t, k) == TimeOut(t, k) \/ (At(t, TimeoutOf[k]) /\ Pass(t))

PublishCheckTimeout(t) == CheckTimeout(t, "publish")
SubscribeCheckTimeout(t) == CheckTimeout(t, "subscribe")
UnsubscribeCheckTimeout(t) == CheckTimeout(t, "unsubscribe")

PingCheckTimeout(t) ==
  /\ At(t, "ping_timeout")
  /\ Pass(t) \/ (ping /\ AbortConnection(t, Disconnected, "idle"))

-----------------------------------------------------------------------------
(* The broker (outside the repository): it answers packets in order, when  *)
(* it likes; it may push packets of its own, and go away.                  *)

Reply == [qos0 |-> {"none"}, qos1 |-> {"puback"}, qos2 |-> {"pubrec"},
          pubrel |-> {"pubcomp"}, subscribe |-> {"suback", "suback_refused"},
          unsubscribe |-> {"unsuback"}, pingreq |-> {"pingresp"}]
Carried == {"qos1", "pubrel", "subscribe", "unsubscribe"}

BrokerAnswers ==
  /\ ~wire.eof /\ wire.tx # <<>>
  /\ LET p == Head(wire.tx) IN
       /\ \E reply \in Reply[p.type] :
            wire' = [wire EXCEPT !.tx = Tail(@),
                       !.rx = IF reply = "none" THEN @ ELSE Append(@, Packet(reply, p.pid, p.req))]
       /\ served' = IF p.type \in Carried THEN served \cup {p.req} ELSE served
  /\ UNCHANGED <<active, connected, pend, topics, nextMid, nextPid, ping,
                 thread, told, made, links, pushed>>

BrokerPushes ==
  /\ connected /\ ~wire.eof /\ pushed < MaxPushed
  /\ wire' = [wire EXCEPT !.rx = Append(@, Packet("message", 1, 0))]
  /\ pushed' = pushed + 1
  /\ UNCHANGED <<active, connected, pend, topics, nextMid, nextPid, ping,
                 thread, served, told, made, links>>

\* It closes the connection, or breaks the protocol and leaves it to us.
BrokerGoes ==
  /\ connected /\ ~wire.eof
  /\ \E last \in {<<>>, <<Packet("garbage", 0, 0)>>} :
       wire' = [tx |-> <<>>, rx |-> wire.rx \o last, eof |-> TRUE]
  /\ UNCHANGED <<active, connected, pend, topics, nextMid, nextPid, ping,
                 thread, ghosts>>

-----------------------------------------------------------------------------
Handle(t) ==
  \/ PublishSend(t) \/ SubscribeSend(t) \/ UnsubscribeSend(t) \/ PingSend(t)
  \/ ReadPuback(t) \/ ReadPubrec(t) \/ ReadPubcomp(t) \/ ReadSuback(t) \/ ReadUnsuback(t)
  \/ ReadPublish(t) \/ ReadPingresp(t) \/ ReadDispatch(t)
  \/ PublishCheckTimeout(t) \/ SubscribeCheckTimeout(t) \/ UnsubscribeCheckTimeout(t)
  \/ PingCheckTimeout(t)

\* What a thread does to finish a call it is in.
Finish(t) == Resume(t) \/ GiveUp(t) \/ FireEvent(t) \/ DeinitEnds(t)

Caller(t) ==
  \/ InitClient(t) \/ Connect(t) \/ Disconnect(t) \/ Deinit(t)
  \/ \E qos \in {"qos0", "qos1", "qos2"} : Publish(t, qos)
  \/ Subscribe(t)
  \/ \E id \in 1..(MidWidth - 1) : Unsubscribe(t, id)

Broker == BrokerAnswers \/ BrokerPushes \/ BrokerGoes

Next ==
  \/ \E t \in Callers : Caller(t)
  \/ \E t \in Pollers : Poll(t) \/ Handle(t)
  \/ \E t \in Threads : Finish(t)
  \/ Broker

\* A thread inside a call goes on, the polling thread calls net_poll() again
\* and again, and a request that stays outstanding is one day found older
\* than timeout_ms.  Nothing is assumed of callers between calls, nor of the
\* broker.
Fairness ==
  /\ \A t \in Pollers : WF_vars(Poll(t) \/ Handle(t))
  /\ \A t \in Pollers : WF_vars(Finish(t))
  /\ \A t \in Pollers : \A k \in Kinds : SF_vars(TimeOut(t, k))

Spec == Init /\ [][Next]_vars /\ Fairness

-----------------------------------------------------------------------------
(* Correctness.                                                            *)

PendRecord ==
  [state : PublishStates \cup SubscribeStates \cup UnsubscribeStates,
   req : 0..MaxRequests, mid : 0..(MidWidth - 1), pid : 0..(PidWidth - 1),
   slot : 0..Capacity, tomb : 0..(PidWidth - 1)]

\* Every variable keeps its type, and each slot the states of its own kind.
TypeOK ==
  /\ {active, connected, ping, wire.eof} \subseteq BOOLEAN
  /\ pend \in [Kinds -> PendRecord]
  /\ pend["publish"].state \in PublishStates
  /\ pend["subscribe"].state \in SubscribeStates
  /\ pend["unsubscribe"].state \in UnsubscribeStates
  /\ topics \in [Slots -> [active : BOOLEAN, confirmed : BOOLEAN,
                           id : 0..(MidWidth - 1), req : 0..MaxRequests]]
  /\ nextMid \in 0..(MidWidth - 1) /\ nextPid \in 0..(PidWidth - 1)

\* What the handlers take for granted when they use conn without testing
\* connected (poll.c:284-295): a request is outstanding, a ping unanswered or
\* a topic in use only on a live connection, whichever thread ended it.
OutstandingOnlyWhileConnected ==
  connected \/ /\ \A k \in Kinds : pend[k].state = "idle"
               /\ ~ping
               /\ \A s \in Slots : ~topics[s].active

\* A reserved topic slot is the one the outstanding subscribe will fill in,
\* so none leaks; the outstanding unsubscribe will free the subscription it
\* was asked to, and no other; no two subscriptions share an id.
TopicsOwned ==
  /\ \A s \in Slots : topics[s].active /\ ~topics[s].confirmed
                        <=> pend["subscribe"].state # "idle" /\ pend["subscribe"].slot = s
  /\ pend["unsubscribe"].state # "idle" =>
       LET u == pend["unsubscribe"] IN Confirmed(u.slot) /\ topics[u.slot].id = u.mid
  /\ \A s1, s2 \in Slots : Confirmed(s1) /\ Confirmed(s2) /\ s1 # s2
                             => topics[s1].id # topics[s2].id

ToDeliver(r) == {i \in UNION {{<<t, j>> : j \in DOMAIN thread[t].fire} : t \in Threads} :
                   thread[i[1]].fire[i[2]].req = r}
Outstanding(r) == {k \in Kinds : pend[k].req = r}

\* A request is reported at most once, by one event, whether its reply, its
\* timeout and the loss of the connection come together or not.
ReportedOnce ==
  \A r \in Requests :
    told[r] + Cardinality(ToDeliver(r)) + Cardinality(Outstanding(r)) <= 1

\* A request reported done has been carried out by the broker: a late reply
\* to a request given up is never taken for the next one's.  (A QoS 0
\* publish is done once it is written.)
DoneMeansServed ==
  \A t \in Threads : \A i \in DOMAIN thread[t].fire :
    LET e == thread[t].fire[i] IN
    e.kind \in Completions \ {"error"} => e.req \in served

\* No lost wakeup: while a call sleeps on publish_cond its slot is taken and
\* the connection is up.
SleepersHaveCause ==
  \A t \in Threads : At(t, "asleep") =>
    connected /\ pend[KindOf(thread[t].call)].state # "idle"

\* Every request staged leaves its slot: it is answered, times out or goes
\* with the connection.
RequestsEnd == \A r \in Watched : (Outstanding(r) # {}) ~> (Outstanding(r) = {})

=============================================================================
