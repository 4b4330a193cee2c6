----------------------------- MODULE MqttProofs -----------------------------
(***************************************************************************)
(* The MQTT client, for any number of callers and pollers, any table of    *)
(* topics, any widths of its ids and any bounds: the safety invariants of  *)
(* module Mqtt.                                                            *)
(*                                                                         *)
(* The argument is made in layers, each an invariant of the steps that     *)
(* start where the layers below hold: Types, and on it Owned (the table of *)
(* subscriptions and the two requests that change it), Once (where the one *)
(* report of a request is), Wakeful (nobody sleeps whom nobody will wake)  *)
(* and Faithful (which packet ids stand for which requests).               *)
(***************************************************************************)
EXTENDS Mqtt, FiniteSetTheorems, WellFoundedInduction, SequenceTheorems, TLAPS

-----------------------------------------------------------------------------
(* Least elements.                                                         *)

\* The least element the community modules choose is there and is the least:
\* the library says it of no set of integers but as a choice.
LEMMA MinIsLeast ==
    ASSUME NEW S, IsFiniteSet(S), S \subseteq Int, S # {}
    PROVE  Min(S) \in S /\ \A n \in S : Min(S) <= n
<1> DEFINE Below(x) == {y \in S : y < x}
           F == {Below(x) : x \in S}
<1>1. F \subseteq FiniteSubsetsOf(S)
  <2> SUFFICES ASSUME NEW x \in S PROVE Below(x) \in FiniteSubsetsOf(S)
    OBVIOUS
  <2>1. Below(x) \subseteq S
    OBVIOUS
  <2>2. IsFiniteSet(Below(x))
    BY <2>1, FS_Subset
  <2> QED BY <2>1, <2>2 DEF FiniteSubsetsOf
<1>2. F # {}
  <2>1. PICK x : x \in S
    OBVIOUS
  <2> QED BY <2>1
<1>3. PICK U \in F : \A V \in F : ~(<<V, U>> \in StrictSubsetOrdering(S))
  <2> HIDE DEF F
  <2>1. IsWellFoundedOn(StrictSubsetOrdering(S), FiniteSubsetsOf(S))
    BY FS_StrictSubsetOrderingWellFounded
  <2> QED BY <1>1, <1>2, <2>1, WFMin
<1>4. PICK m \in S : U = Below(m)
  BY <1>3
<1>5. \A n \in S : ~(n < m)
  <2> SUFFICES ASSUME NEW n \in S, n < m PROVE FALSE
    OBVIOUS
  <2>0. n \in Int /\ m \in Int
    OBVIOUS
  <2>1. Below(n) \subseteq Below(m)
    <3> SUFFICES ASSUME NEW y \in S, y < n PROVE y < m
      OBVIOUS
    <3>1. y \in Int
      OBVIOUS
    <3> QED BY <3>1, <2>0
  <2>2. n \in Below(m) /\ n \notin Below(n)
    BY <2>0
  <2>3. Below(n) \in F
    OBVIOUS
  <2>4. Below(n) \in SUBSET S /\ Below(m) \in SUBSET S /\ Below(n) # Below(m)
    BY <2>2
  <2> HIDE DEF Below, F
  <2>5. <<Below(n), Below(m)>> \in StrictSubsetOrdering(S)
    BY <2>1, <2>4 DEF StrictSubsetOrdering
  <2> QED BY <1>3, <1>4, <2>3, <2>5
<1>6. \A n \in S : m <= n
  BY <1>5
<1> QED BY <1>6 DEF Min

-----------------------------------------------------------------------------
(* The invariants.                                                         *)

Names == {"publish_send", "subscribe_send", "unsubscribe_send", "ping_send",
          "read_dispatch", "publish_timeout", "subscribe_timeout",
          "unsubscribe_timeout", "ping_timeout"}
Pcs == {"idle", "asleep", "woken", "fire", "deinit"} \cup Names
EventKinds == Completions \cup {"connected", "disconnected", "received"}
EventRecord == [kind : EventKinds, req : 0..MaxRequests]
ThreadRecord == [pc : Pcs, call : Calls \cup {Call("none", 0)}, fire : Seq(EventRecord),
                 then : {"idle", "deinit"}]
Answers == {"puback", "pubrec", "pubcomp", "suback", "suback_refused", "unsuback"}
Sent == {"qos1", "qos2", "pubrel", "subscribe", "unsubscribe"}
SentRecord == [type : Sent \cup {"qos0", "pingreq"},
               pid : 0..(PidWidth - 1), req : 0..MaxRequests]
AnswerRecord == [type : Answers \cup {"pingresp", "message", "garbage"},
                 pid : 0..(PidWidth - 1), req : 0..MaxRequests]

\* TypeOK, and the types of the threads, the connection and the counters.
ThreadOK == /\ thread \in [Threads -> ThreadRecord]
            /\ \A t \in Threads : /\ At(t, "fire") => thread[t].fire # <<>>
                                  /\ thread[t].pc \in {"asleep", "woken"} => thread[t].call \in Calls
WireOK == wire \in [tx : Seq(SentRecord), rx : Seq(AnswerRecord), eof : BOOLEAN]
GhostsOK == /\ served \subseteq 0..MaxRequests /\ told \in [Requests -> Nat]
            /\ made \in 0..MaxRequests /\ {links, pushed} \subseteq Nat
Types == TypeOK /\ ThreadOK /\ WireOK /\ GhostsOK

\* The slot a request will fill in or free is one of the table, and the id it
\* will fill in is still of no subscription.
Reserved ==
  \A k \in {"subscribe", "unsubscribe"} : pend[k].state # "idle" => pend[k].slot \in Slots
Fresh ==
  pend["subscribe"].state # "idle" => ~TopicIdInUse(pend["subscribe"].mid)
Owned == TopicsOwned /\ Reserved /\ Fresh

\* A request is reported, about to be reported at one place, in one slot, or
\* not staged yet: one of the four.
Told(r) == told[r] # 0
Delivering(t, i, r) == i \in DOMAIN thread[t].fire /\ thread[t].fire[i].req = r
Once ==
  /\ \A r \in Requests : told[r] <= 1
  /\ \A r \in Requests : r > made =>
       /\ ~Told(r)
       /\ \A k \in Kinds : pend[k].req # r
       /\ \A t \in Threads : \A i \in Nat : ~Delivering(t, i, r)
  /\ \A r \in Requests : Told(r) =>
       /\ \A k \in Kinds : pend[k].req # r
       /\ \A t \in Threads : \A i \in Nat : ~Delivering(t, i, r)
  /\ \A r \in Requests : \A k \in Kinds : \A t \in Threads : \A i \in Nat :
       ~(pend[k].req = r /\ Delivering(t, i, r))
  /\ \A r \in Requests : \A k, l \in Kinds : pend[k].req = r /\ pend[l].req = r => k = l
  /\ \A r \in Requests : \A t, u \in Threads : \A i, j \in Nat :
       Delivering(t, i, r) /\ Delivering(u, j, r) => t = u /\ i = j

\* Pollers make no calls that sleep.
PollersAwake == \A t \in Pollers : thread[t].pc \notin {"asleep", "woken", "deinit"}
                                   /\ thread[t].then = "idle"
Wakeful == SleepersHaveCause /\ PollersAwake

\* The packet ids in use, each with the request it stands for: those of
\* packets under way that carry one, and those of the requests that have one.
\* They are told apart by the packet ids alone, as the client tells them.
WireTags == {<<p.pid, p.req>> : p \in {q \in Range(wire.tx) : q.type \in Sent}
                                     \cup {q \in Range(wire.rx) : q.type \in Answers}}
PendTags == {<<pend[k].pid, pend[k].req>> : k \in {l \in Kinds : pend[l].state \notin {"idle", "qos0"}}}
Tags == WireTags \cup PendTags

Numbered == nextPid <= made /\ \A g \in Tags : g[1] \in 1..nextPid
Tagged == \A g, h \in Tags : g[1] = h[1] => g[2] = h[2]
Answered == \A p \in Range(wire.rx) : p.type \in Answers \ {"pubrec"} => p.req \in served
Faithful == Numbered /\ Tagged /\ Answered /\ DoneMeansServed

\* One thread calls the client's functions: net_mqtt_init() takes no lock and
\* wakes nobody, so it may not run while another thread sleeps in a call.
OneCaller == \A a, b \in Callers : a = b

\* Fewer requests than there are packet ids: a late reply to a request whose
\* packet id has come round again would be taken for the new one's, as in any
\* client of the protocol.
NoWrap == MaxRequests < PidWidth

-----------------------------------------------------------------------------
(* Choices of slots, ids and handlers.                                     *)

LEMMA ASlotOf ==
    ASSUME NEW S \in SUBSET Slots, S # {}
    PROVE  Min(S) \in S
<1>1. Slots \subseteq Int /\ IsFiniteSet(Slots)
  BY MqttAssumption, FS_Interval DEF Slots
<1>2. IsFiniteSet(S) /\ S \subseteq Int
  BY <1>1, FS_Subset
<1> QED BY <1>2, MinIsLeast

\* net_poll() goes on at a handler or is over.
LEMMA HandlerFromName ==
    ASSUME NEW i \in Nat, i > 0
    PROVE  HandlerFrom(i) \in Names \cup {"idle"}
<1> DEFINE work == {j \in i..Len(Handlers) : ~NothingFor(Handlers[j])}
<1>1. Len(Handlers) = 9 /\ \A j \in 1..9 : Handlers[j] \in Names
  BY DEF Handlers, Names
<1>2. CASE work = {}
  BY <1>2 DEF HandlerFrom
<1>3. CASE work # {}
  <2>0. work \in SUBSET (i..9)
    BY <1>1
  <2>1. work \subseteq i..9 /\ IsFiniteSet(work)
    <3>1. IsFiniteSet(i..9)
      BY FS_Interval
    <3> HIDE DEF work
    <3> QED BY <2>0, <3>1, FS_Subset
  <2>2. Min(work) \in work
    BY <1>3, <2>1, MinIsLeast
  <2>3. Min(work) \in 1..9
    BY <2>1, <2>2
  <2> QED BY <1>1, <1>3, <2>3 DEF HandlerFrom
<1> QED BY <1>2, <1>3

\* Every handler has its place in the order.
LEMMA HandlerAt ==
    \A h \in Names : IndexOf(h) \in 1..9
<1> SUFFICES ASSUME NEW h \in Names PROVE IndexOf(h) \in 1..9
  OBVIOUS
<1>1. DOMAIN Handlers = 1..9 /\ \E i \in 1..9 : Handlers[i] = h
  BY DEF Handlers, Names
<1> QED BY <1>1 DEF IndexOf

\* So it is for the handler after the one a thread is at.
LEMMA NextNames ==
    ASSUME NEW t \in Threads, thread[t].pc \in Names
    PROVE  HandlerFrom(IndexOf(thread[t].pc) + 1) \in Names \cup {"idle"}
<1>1. IndexOf(thread[t].pc) \in 1..9
  BY HandlerAt
<1>2. IndexOf(thread[t].pc) + 1 \in Nat /\ IndexOf(thread[t].pc) + 1 > 0
  BY <1>1
<1> QED BY <1>2, HandlerFromName

\* Among any Capacity + 1 places in a row of the ring of ids one is of no
\* confirmed subscription.
LEMMA NextIdIsFree ==
    ASSUME TypeOK
    PROVE  /\ NextMessageId \in 1..(MidWidth - 1)
           /\ ~TopicIdInUse(NextMessageId)
<1> DEFINE Ring == 1..(MidWidth - 1)
           After(k) == ((nextMid + k - 1) % (MidWidth - 1)) + 1
           Unused == {k \in Ring : ~TopicIdInUse(After(k))}
<1>0. nextMid \in 0..(MidWidth - 1) /\ MidWidth \in Nat /\ Capacity \in Nat /\ MidWidth > Capacity + 1
      /\ Capacity > 0
  BY MqttAssumption DEF TypeOK
<1>1. \A k \in Ring : After(k) \in Ring
  <2> SUFFICES ASSUME NEW k \in Ring PROVE After(k) \in Ring
    OBVIOUS
  <2>1. nextMid + k - 1 \in Nat /\ MidWidth - 1 \in Nat /\ MidWidth - 1 > 0
    BY <1>0
  <2> DEFINE a == nextMid + k - 1
             w == MidWidth - 1
  <2>2. a % w \in 0..(w - 1)
    <3> HIDE DEF a, w
    <3> QED BY <2>1 DEF a, w
  <2> QED BY <2>2, <1>0
<1>2. \A k, l \in Ring : After(k) = After(l) => k = l
  <2> SUFFICES ASSUME NEW k \in Ring, NEW l \in Ring, After(k) = After(l) PROVE k = l
    OBVIOUS
  <2> DEFINE w == MidWidth - 1
             a == nextMid + k - 1
             b == nextMid + l - 1
  <2>1. w \in Nat /\ w > 0 /\ a \in Nat /\ b \in Nat
    BY <1>0
  <2>2. a % w = b % w
    <3>1. a % w \in Int /\ b % w \in Int
      BY <2>1
    <3> HIDE DEF a, b, w
    <3>2. (a % w) + 1 = (b % w) + 1
      BY DEF a, b, w
    <3> QED BY <3>1, <3>2
  <2>3. a - b < w /\ b - a < w
    BY <1>0
  <2>4. a = w * (a \div w) + (a % w) /\ b = w * (b \div w) + (b % w)
    <3> HIDE DEF a, b, w
    <3> QED BY <2>1
  <2>5. a - b = w * ((a \div w) - (b \div w)) /\ a \div w \in Int /\ b \div w \in Int
    <3> HIDE DEF a, b, w
    <3> QED BY <2>1, <2>2, <2>4
  <2>6. a = b
    <3> HIDE DEF a, b, w
    <3>1. (a \div w) - (b \div w) >= 1 => a - b >= w
      BY <2>1, <2>5
    <3>2. (a \div w) - (b \div w) =< -1 => b - a >= w
      BY <2>1, <2>5
    <3> QED BY <2>1, <2>3, <2>5, <3>1, <3>2
  <2> QED BY <2>6, <1>0
<1>3. Unused # {}
  <2> SUFFICES ASSUME Unused = {} PROVE FALSE
    OBVIOUS
  <2>1. \A k \in Ring : \E s \in Slots : Confirmed(s) /\ topics[s].id = After(k)
    BY DEF TopicIdInUse
  <2> DEFINE f == [k \in Ring |-> CHOOSE s \in Slots : Confirmed(s) /\ topics[s].id = After(k)]
  <2>2. \A k \in Ring : f[k] \in Slots /\ topics[f[k]].id = After(k)
    BY <2>1
  <2>3. IsFiniteSet(Ring) /\ Cardinality(Ring) = MidWidth - 1
    BY <1>0, FS_Interval
  <2>4. IsFiniteSet(Slots) /\ Cardinality(Slots) = Capacity
    BY <1>0, FS_Interval DEF Slots
  <2>5. f \in [Ring -> Slots]
    BY <2>2
  <2> HIDE DEF f
  <2>6. \E k, l \in Ring : k # l /\ f[k] = f[l]
    <3> HIDE DEF Ring
    <3>1. Cardinality(Slots) < Cardinality(Ring)
      BY <1>0, <2>3, <2>4
    <3> QED BY <2>3, <2>4, <2>5, <3>1, FS_PigeonHole
  <2> QED BY <1>2, <2>2, <2>6
<1>4. Min(Unused) \in Unused
  <2>0. Unused \in SUBSET Ring /\ Ring \subseteq Int
    OBVIOUS
  <2>1. Unused \subseteq Int /\ IsFiniteSet(Unused)
    <3>1. IsFiniteSet(Ring)
      BY <1>0, FS_Interval
    <3> HIDE DEF Unused, Ring
    <3> QED BY <2>0, <3>1, FS_Subset
  <2> QED BY <1>3, <2>1, MinIsLeast
<1>5. NextMessageId = After(Min(Unused))
  BY DEF NextMessageId
<1> QED BY <1>1, <1>4, <1>5

-----------------------------------------------------------------------------
(* Types: threads, slots and topics.                                       *)

\* What a thread may be put at.
Proper(what) ==
  /\ what \in ThreadRecord
  /\ what.pc = "fire" => what.fire # <<>>
  /\ what.pc \in {"asleep", "woken"} => what.call \in Calls

\* What the steps put a thread at is in the state a thread may be in.
LEMMA ProperThings ==
    /\ Proper(Idle)
    /\ \A h \in Names \cup {"idle", "deinit"} : Proper([Idle EXCEPT !.pc = h])
    /\ \A c \in Calls : Proper([Idle EXCEPT !.pc = "asleep", !.call = c])
    /\ \A events \in Seq(EventRecord), then \in {"idle", "deinit"} :
         events # <<>> => Proper(Deliver(events, then))
<1> DEFINE nothing == <<>>
<1>1. nothing \in Seq(EventRecord)
  OBVIOUS
<1>2. Call("none", 0) \in Calls \cup {Call("none", 0)}
  OBVIOUS
<1>3. Idle \in ThreadRecord
  BY <1>1, <1>2 DEF Idle, ThreadRecord, Pcs
<1>4. Idle.pc = "idle" /\ Idle.call = Call("none", 0) /\ Idle.fire = <<>> /\ Idle.then = "idle"
      /\ DOMAIN Idle = {"pc", "call", "fire", "then"}
  BY DEF Idle
<1> HIDE DEF nothing
<1>5. \A h \in Names \cup {"idle", "deinit"} : Proper([Idle EXCEPT !.pc = h])
  BY <1>3, <1>4 DEF Proper, ThreadRecord, Pcs, Names
<1>6. \A c \in Calls : Proper([Idle EXCEPT !.pc = "asleep", !.call = c])
  BY <1>3, <1>4 DEF Proper, ThreadRecord, Pcs
<1>7. \A events \in Seq(EventRecord), then \in {"idle", "deinit"} :
         events # <<>> => Proper(Deliver(events, then))
  BY <1>3, <1>4 DEF Proper, ThreadRecord, Pcs, Deliver
<1> QED BY <1>3, <1>4, <1>5, <1>6, <1>7 DEF Proper

\* What handlers deliver is a sequence of events.
LEMMA ProperEvents ==
    /\ \A kind \in EventKinds, req \in 0..MaxRequests : <<Event(kind, req)>> \in Seq(EventRecord)
    /\ Disconnected \in Seq(EventRecord) /\ Disconnected # <<>>
    /\ \A kind \in EventKinds, req \in 0..MaxRequests :
         /\ <<Event(kind, req)>> \o Disconnected \in Seq(EventRecord)
         /\ <<Event(kind, req)>> \o Disconnected = <<Event(kind, req), Event("disconnected", 0)>>
<1>1. \A kind \in EventKinds, req \in 0..MaxRequests : Event(kind, req) \in EventRecord
  BY DEF Event, EventRecord
<1>2. "disconnected" \in EventKinds /\ 0 \in 0..MaxRequests
  BY MqttAssumption DEF EventKinds
<1>3. Event("disconnected", 0) \in EventRecord
  BY <1>1, <1>2
<1>4. ASSUME NEW x \in EventRecord, NEW y \in EventRecord
      PROVE  /\ <<x>> \in Seq(EventRecord) /\ <<x, y>> \in Seq(EventRecord)
             /\ <<x>> \o <<y>> = <<x, y>> /\ <<x, y>> # <<>>
  <2>1. <<x>> \in Seq(EventRecord) /\ <<x, y>> \in Seq(EventRecord) /\ <<y>> \in Seq(EventRecord)
    OBVIOUS
  <2>2. <<x>> \o <<y>> \in Seq(EventRecord) /\ Len(<<x>> \o <<y>>) = 2
    BY <2>1
  <2>3. (<<x>> \o <<y>>)[1] = x /\ (<<x>> \o <<y>>)[2] = y
    OBVIOUS
  <2>4. <<x>> \o <<y>> = <<x, y>>
    <3> DEFINE s == <<x>> \o <<y>>
               z == <<x, y>>
    <3>1. s \in Seq(EventRecord) /\ z \in Seq(EventRecord) /\ Len(s) = 2 /\ Len(z) = 2
          /\ s[1] = z[1] /\ s[2] = z[2]
      BY <2>1, <2>2, <2>3
    <3> HIDE DEF s, z
    <3>2. \A i \in 1..Len(s) : s[i] = z[i]
      BY <3>1
    <3>3. s = z
      BY <3>1, <3>2, SeqEqual
    <3> QED BY <3>3 DEF s, z
  <2> QED BY <2>1, <2>4
<1> QED BY <1>1, <1>3, <1>4 DEF Disconnected

\* A thread that moves on keeps the threads' types ...
LEMMA DoingTyped ==
    ASSUME ThreadOK, NEW t \in Threads, NEW what, Proper(what), Doing(t, what)
    PROVE  ThreadOK'
BY DEF ThreadOK, Proper, Doing, At

\* ... and so does one that wakes the sleepers as it goes.
LEMMA BroadcastTyped ==
    ASSUME ThreadOK, NEW t \in Threads, NEW what, Proper(what), BroadcastThen(t, what)
    PROVE  ThreadOK'
<1> SUFFICES ASSUME NEW u \in Threads
             PROVE  Proper(thread'[u]) /\ thread' \in [Threads -> ThreadRecord]
  BY DEF ThreadOK, Proper, At
<1>1. \A v \in Threads : Proper(thread'[v])
  <2> SUFFICES ASSUME NEW v \in Threads PROVE Proper(thread'[v])
    OBVIOUS
  <2>1. CASE v = t
    BY <2>1 DEF BroadcastThen
  <2>2. CASE v # t /\ thread[v].pc = "asleep"
    <3>1. thread'[v] = [thread[v] EXCEPT !.pc = "woken"]
      BY <2>2 DEF BroadcastThen
    <3>2. thread[v] \in ThreadRecord /\ thread[v].call \in Calls
      BY <2>2 DEF ThreadOK
    <3> QED BY <3>1, <3>2 DEF Proper, ThreadRecord, Pcs
  <2>3. CASE v # t /\ thread[v].pc # "asleep"
    BY <2>3 DEF BroadcastThen, ThreadOK, Proper, At
  <2> QED BY <2>1, <2>2, <2>3
<1> QED BY <1>1 DEF BroadcastThen, Proper

\* A handler that finds nothing to do.
LEMMA PassTyped ==
    ASSUME ThreadOK, NEW t \in Threads, thread[t].pc \in Names, Pass(t)
    PROVE  ThreadOK'
<1>1. HandlerFrom(IndexOf(thread[t].pc) + 1) \in Names \cup {"idle", "deinit"}
  BY NextNames
<1> DEFINE h == HandlerFrom(IndexOf(thread[t].pc) + 1)
<1>2. Doing(t, [Idle EXCEPT !.pc = h])
  BY DEF Pass
<1> HIDE DEF h
<1>3. Proper([Idle EXCEPT !.pc = h])
  BY <1>1, ProperThings DEF h
<1> QED BY <1>2, <1>3, DoingTyped

\* A slot given up is idle, and its timed-out packet id is all it keeps.
LEMMA ReleasedTyped ==
    /\ NoRequest \in PendRecord /\ NoRequest.state = "idle"
    /\ \A p \in PendRecord : Released(p) \in PendRecord /\ Released(p).state = "idle"
                            /\ Released(p).req = 0
    /\ \A p \in PendRecord : [NoRequest EXCEPT !.tomb = p.pid] \in PendRecord
                            /\ [NoRequest EXCEPT !.tomb = p.pid].state = "idle"
                            /\ [NoRequest EXCEPT !.tomb = p.pid].req = 0
BY MqttAssumption DEF NoRequest, PendRecord, Released, PublishStates

TopicRecord == [active : BOOLEAN, confirmed : BOOLEAN, id : 0..(MidWidth - 1), req : 0..MaxRequests]

\* A topic slot given up is free, and its id stays behind the cleared flag.
LEMMA ForgetTyped ==
    \A s \in TopicRecord : /\ Forget(s) \in TopicRecord /\ ~Forget(s).active
                           /\ Forget(s).id = s.id
BY DEF Forget, TopicRecord

\* A closed connection is a connection with nothing under way.
LEMMA NoWireTyped ==
    NoWire \in [tx : Seq(SentRecord), rx : Seq(AnswerRecord), eof : BOOLEAN]
BY DEF NoWire

\* The end of a connection, whoever ends it.
LEMMA AbortTyped ==
    ASSUME Types, NEW t \in Threads, NEW events \in Seq(EventRecord), events # <<>>,
           NEW then \in {"idle", "deinit"}, AbortConnection(t, events, then)
    PROVE  Types'
<1>1. ThreadOK'
  BY ProperThings, BroadcastTyped DEF Types, AbortConnection
<1>2. WireOK'
  BY NoWireTyped DEF AbortConnection, WireOK
<1>3. GhostsOK'
  BY DEF AbortConnection, GhostsOK, Types, ghosts
<1>4. TypeOK'
  <2>1. \A k \in Kinds : pend'[k] \in PendRecord /\ pend'[k].state = "idle"
    BY ReleasedTyped DEF AbortConnection, Types, TypeOK
  <2>2. \A s \in Slots : topics'[s] \in TopicRecord
    BY ForgetTyped DEF AbortConnection, Types, TypeOK, TopicRecord
  <2>3. wire'.eof \in BOOLEAN
    BY DEF AbortConnection, NoWire
  <2>4. /\ pend' \in [Kinds -> PendRecord]
        /\ topics' \in [Slots -> TopicRecord]
    BY <2>1, <2>2 DEF AbortConnection
  <2> QED BY <2>1, <2>3, <2>4 DEF AbortConnection, Types, TypeOK, TopicRecord, Kinds,
             PublishStates, SubscribeStates, UnsubscribeStates
<1> QED BY <1>1, <1>2, <1>3, <1>4 DEF Types

\* The end of a connection a handler reports an error for.
LEMMA FailTyped ==
    ASSUME Types, NEW t \in Threads, NEW req \in 0..MaxRequests, Fail(t, req)
    PROVE  Types'
<1>1. <<Event("error", req)>> \o Disconnected \in Seq(EventRecord)
      /\ <<Event("error", req)>> \o Disconnected # <<>>
  BY ProperEvents DEF EventKinds, Completions
<1> QED BY <1>1, AbortTyped DEF Fail

\* init, connect, disconnect and deinit.
LEMMA LifeTyped ==
    ASSUME Types, NEW t \in Threads,
           InitClient(t) \/ Connect(t) \/ Disconnect(t) \/ Deinit(t) \/ DeinitEnds(t)
    PROVE  Types'
<1>1. CASE InitClient(t)
  <2>1. \A s \in Slots : topics'[s] \in TopicRecord
    BY <1>1, ForgetTyped DEF InitClient, Types, TypeOK, TopicRecord
  <2>2. TypeOK'
    <3>1. topics' \in [Slots -> TopicRecord]
      BY <1>1, <2>1 DEF InitClient
    <3>2. pend' \in [Kinds -> PendRecord] /\ \A k \in Kinds : pend'[k].state = "idle"
      BY <1>1, ReleasedTyped DEF InitClient
    <3>3. {active', connected', ping', wire'.eof} \subseteq BOOLEAN
      BY <1>1 DEF InitClient, NoWire
    <3>4. nextMid' \in 0..(MidWidth - 1) /\ nextPid' \in 0..(PidWidth - 1)
      BY <1>1, MqttAssumption DEF InitClient
    <3> QED BY <3>1, <3>2, <3>3, <3>4
            DEF TypeOK, TopicRecord, Kinds, PublishStates, SubscribeStates, UnsubscribeStates
  <2>3. WireOK'
    BY <1>1, NoWireTyped DEF InitClient, WireOK
  <2>4. ThreadOK' /\ GhostsOK'
    BY <1>1 DEF InitClient, ThreadOK, GhostsOK, Types, ghosts, At
  <2> QED BY <2>2, <2>3, <2>4 DEF Types
<1>2. CASE Connect(t)
  <2>0. "connected" \in EventKinds /\ 0 \in 0..MaxRequests
    BY MqttAssumption DEF EventKinds
  <2>1. <<Event("connected", 0)>> \in Seq(EventRecord) /\ <<Event("connected", 0)>> # <<>>
    BY <2>0, ProperEvents
  <2>2. ThreadOK'
    BY <1>2, <2>1, ProperThings, DoingTyped DEF Connect, Types
  <2>3. WireOK'
    BY <1>2, NoWireTyped DEF Connect, WireOK
  <2>4. TypeOK'
    BY <1>2 DEF Connect, Types, TypeOK, NoWire
  <2>5. GhostsOK'
    BY <1>2 DEF Connect, Types, GhostsOK
  <2> QED BY <2>2, <2>3, <2>4, <2>5 DEF Types
<1>3. CASE Disconnect(t)
  BY <1>3, ProperEvents, AbortTyped DEF Disconnect
<1>4. CASE Deinit(t)
  <2>1. CASE connected
    BY <1>4, <2>1, ProperEvents, AbortTyped DEF Deinit
  <2>2. CASE ~connected
    <3>1. ThreadOK'
      BY <1>4, <2>2, ProperThings, DoingTyped DEF Deinit, Types
    <3>2. TypeOK' /\ WireOK' /\ GhostsOK'
      BY <1>4, <2>2 DEF Deinit, Types, TypeOK, WireOK, GhostsOK, client, ghosts
    <3> QED BY <3>1, <3>2 DEF Types
  <2> QED BY <2>1, <2>2
<1>5. CASE DeinitEnds(t)
  <2>1. ThreadOK'
    BY <1>5, ProperThings, DoingTyped DEF DeinitEnds, Types
  <2>2. TypeOK' /\ WireOK' /\ GhostsOK'
    BY <1>5 DEF DeinitEnds, Types, TypeOK, WireOK, GhostsOK, ghosts
  <2> QED BY <2>1, <2>2 DEF Types
<1> QED BY <1>1, <1>2, <1>3, <1>4, <1>5

\* The delivery of one event.
LEMMA FireTyped ==
    ASSUME Types, NEW t \in Threads, FireEvent(t)
    PROVE  Types'
<1> DEFINE f == thread[t].fire
<1>1. thread[t] \in ThreadRecord /\ f \in Seq(EventRecord) /\ f # <<>> /\ thread[t].pc = "fire"
  BY DEF Types, ThreadOK, ThreadRecord, FireEvent, At
<1>2. Head(f) \in EventRecord /\ Tail(f) \in Seq(EventRecord) /\ Len(f) \in Nat /\ Len(Tail(f)) = Len(f) - 1
  BY <1>1
<1>3. ThreadOK'
  <2>1. CASE Len(f) > 1
    <3>1. Tail(f) # <<>>
      <4>1. Len(Tail(f)) # 0
        <5> DEFINE m == Len(Tail(f))
                   n == Len(f)
        <5>1. m = n - 1 /\ n > 1 /\ n \in Nat
          BY <1>2, <2>1
        <5> HIDE DEF m, n
        <5>2. m # 0
          BY <5>1
        <5> QED BY <5>2 DEF m
      <4> QED BY <4>1, EmptySeq
    <3>2. Doing(t, [thread[t] EXCEPT !.fire = Tail(f)])
      BY <2>1 DEF FireEvent
    <3> HIDE DEF f
    <3>3. Proper([thread[t] EXCEPT !.fire = Tail(f)])
      BY <1>1, <1>2, <3>1 DEF Proper, ThreadRecord, Pcs
    <3> QED BY <3>2, <3>3, DoingTyped DEF Types
  <2>2. CASE ~(Len(f) > 1)
    BY <1>1, <2>2, ProperThings, DoingTyped DEF FireEvent, Types, ThreadRecord
  <2> QED BY <2>1, <2>2
<1>4. GhostsOK'
  <2>1. Head(f).req \in 0..MaxRequests
    BY <1>2 DEF EventRecord
  <2>2. told' \in [Requests -> Nat]
    <3>1. told \in [Requests -> Nat]
      BY DEF Types, GhostsOK
    <3>2. Head(f).req # 0 => Head(f).req \in Requests
      BY <2>1, MqttAssumption DEF Requests
    <3>3. \/ told' = told
          \/ Head(f).req # 0 /\ told' = [told EXCEPT ![Head(f).req] = @ + 1]
      BY DEF FireEvent
    <3> HIDE DEF f
    <3> QED BY <3>1, <3>2, <3>3
  <2> QED BY <2>2 DEF FireEvent, Types, GhostsOK
<1>5. TypeOK' /\ WireOK'
  BY DEF FireEvent, Types, TypeOK, WireOK, client
<1> QED BY <1>3, <1>4, <1>5 DEF Types

\* A slot filled in by the request staged next.
LEMMA StageTyped ==
    ASSUME Types, NEW k \in Kinds, NEW request \in PendRecord,
           made < MaxRequests, Stage(k, request)
    PROVE  /\ made' \in 0..MaxRequests
           /\ pend' \in [Kinds -> PendRecord]
           /\ pend'[k].state = request.state
           /\ \A l \in Kinds \ {k} : pend'[l] = pend[l]
<1>1. made + 1 \in 0..MaxRequests /\ pend \in [Kinds -> PendRecord]
  BY MqttAssumption DEF Types, GhostsOK, TypeOK
<1>2. pend[k].tomb \in 0..(PidWidth - 1)
  BY <1>1 DEF PendRecord
<1> DEFINE r == [request EXCEPT !.req = made + 1, !.tomb = pend[k].tomb]
<1>3. r \in PendRecord /\ r.state = request.state
  BY <1>1, <1>2 DEF PendRecord
<1>4. pend' = [pend EXCEPT ![k] = r] /\ made' = made + 1
  BY DEF Stage
<1> HIDE DEF r
<1> QED BY <1>1, <1>3, <1>4

\* publish, subscribe and unsubscribe, from the wait loop on.
LEMMA ProceedTyped ==
    ASSUME Types, NEW t \in Threads, NEW call \in Calls, Proceed(t, call)
    PROVE  Types'
<1>1. ThreadOK'
  <2>1. Proper([Idle EXCEPT !.pc = "asleep", !.call = call]) /\ Proper(Idle)
    BY ProperThings
  <2> QED BY <2>1, DoingTyped DEF Proceed, Types
<1>2. WireOK'
  BY DEF Proceed, Types, WireOK
<1>3. served' = served /\ told' = told /\ links' = links /\ pushed' = pushed
      /\ active' = active /\ connected' = connected /\ wire' = wire /\ ping' = ping
  BY DEF Proceed
<1>4. NextPacketId \in 0..(PidWidth - 1)
  <2>1. nextPid \in Nat /\ PidWidth - 1 \in Nat /\ PidWidth - 1 > 0
    BY MqttAssumption DEF Types, TypeOK
  <2> DEFINE w == PidWidth - 1
  <2>2. (nextPid % w) + 1 \in 0..w
    <3>1. w \in Nat /\ w > 0
      BY <2>1
    <3> HIDE DEF w
    <3> QED BY <2>1, <3>1
  <2> QED BY <2>2 DEF NextPacketId
<1>5. NextMessageId \in 0..(MidWidth - 1)
  BY NextIdIsFree, MqttAssumption DEF Types
<1>6. \A id \in 1..(MidWidth - 1) : id \in 0..(MidWidth - 1)
  BY MqttAssumption
<1> DEFINE Same == UNCHANGED <<pend, topics, nextMid, nextPid, made>>
           Goal == /\ made' \in 0..MaxRequests
                   /\ pend' \in [Kinds -> PendRecord]
                   /\ pend'["publish"].state \in PublishStates
                   /\ pend'["subscribe"].state \in SubscribeStates
                   /\ pend'["unsubscribe"].state \in UnsubscribeStates
                   /\ topics' \in [Slots -> TopicRecord]
                   /\ nextMid' \in 0..(MidWidth - 1) /\ nextPid' \in 0..(PidWidth - 1)
<1>7. ASSUME Same PROVE Goal
  <2>1. TypeOK /\ made \in 0..MaxRequests
    BY DEF Types, GhostsOK
  <2>2. /\ pend' = pend /\ topics' = topics /\ nextMid' = nextMid /\ nextPid' = nextPid
        /\ made' = made
    BY <1>7
  <2> QED BY <2>1, <2>2 DEF TypeOK, TopicRecord
<1>8. made < MaxRequests
  BY DEF Proceed
<1>0. 0 \in 0..(PidWidth - 1) /\ 0 \in 0..(MidWidth - 1)
  BY MqttAssumption
<1>9. ASSUME NEW qos \in {"qos0", "qos1", "qos2"}, StagePublish(qos)
      PROVE  Goal
  <2> DEFINE request == [NoRequest EXCEPT !.state = qos, !.mid = NextMessageId,
                           !.pid = IF qos \in {"qos1", "qos2"} THEN NextPacketId ELSE 0]
  <2>1. request \in PendRecord /\ request.state = qos
    BY <1>4, <1>5, <1>0, ReleasedTyped DEF PendRecord, PublishStates
  <2>2. Stage("publish", request) /\ topics' = topics
    BY <1>9 DEF StagePublish
  <2> HIDE DEF request
  <2>3. /\ made' \in 0..MaxRequests
        /\ pend' \in [Kinds -> PendRecord]
        /\ pend'["publish"].state = qos
        /\ pend'["subscribe"] = pend["subscribe"]
        /\ pend'["unsubscribe"] = pend["unsubscribe"]
    BY <1>8, <2>1, <2>2, StageTyped DEF Kinds
  <2>4. nextMid' \in 0..(MidWidth - 1) /\ nextPid' \in 0..(PidWidth - 1)
    BY <1>4, <1>5, <1>9 DEF StagePublish, Types, TypeOK
  <2> QED BY <2>2, <2>3, <2>4 DEF Types, TypeOK, TopicRecord, PublishStates
<1>10. ASSUME StageSubscribe
       PROVE  Goal
  <2> DEFINE s == Min(TopicFree)
             request == [NoRequest EXCEPT !.state = "requesting", !.slot = s,
                           !.mid = NextMessageId, !.pid = NextPacketId]
  <2>0. s \in Slots
    <3>1. TopicFree \in SUBSET Slots /\ TopicFree # {}
      BY <1>10 DEF StageSubscribe, TopicFree
    <3> QED BY <3>1, ASlotOf
  <2>1. request \in PendRecord /\ request.state = "requesting"
    <3>1. s \in 0..Capacity
      BY <2>0 DEF Slots
    <3> HIDE DEF s
    <3> QED BY <3>1, <1>4, <1>5, <1>0, ReleasedTyped DEF PendRecord, SubscribeStates
  <2>2. /\ Stage("subscribe", request)
        /\ topics' = [topics EXCEPT ![s].active = TRUE, ![s].confirmed = FALSE]
        /\ nextMid' = NextMessageId /\ nextPid' = NextPacketId
    BY <1>10 DEF StageSubscribe
  <2> HIDE DEF request, s
  <2>3. /\ made' \in 0..MaxRequests
        /\ pend' \in [Kinds -> PendRecord]
        /\ pend'["subscribe"].state = "requesting"
        /\ pend'["publish"] = pend["publish"]
        /\ pend'["unsubscribe"] = pend["unsubscribe"]
    BY <1>8, <2>1, <2>2, StageTyped DEF Kinds
  <2>4. topics' \in [Slots -> TopicRecord]
    BY <2>0, <2>2 DEF Types, TypeOK, TopicRecord
  <2> QED BY <1>4, <1>5, <2>2, <2>3, <2>4 DEF Types, TypeOK, SubscribeStates
<1>11. ASSUME NEW id \in 1..(MidWidth - 1), StageUnsubscribe(id)
       PROVE  Goal
  <2> DEFINE s == Min(TopicFind(id))
             request == [NoRequest EXCEPT !.state = "requesting", !.mid = id,
                           !.slot = s, !.pid = NextPacketId]
  <2>0. s \in Slots
    <3>1. TopicFind(id) \in SUBSET Slots /\ TopicFind(id) # {}
      BY <1>11 DEF StageUnsubscribe, TopicFind
    <3> QED BY <3>1, ASlotOf
  <2>1. request \in PendRecord /\ request.state = "requesting"
    <3>1. s \in 0..Capacity
      BY <2>0 DEF Slots
    <3> HIDE DEF s
    <3> QED BY <3>1, <1>4, <1>6, <1>0, ReleasedTyped DEF PendRecord, SubscribeStates
  <2>2. /\ Stage("unsubscribe", request)
        /\ nextPid' = NextPacketId /\ topics' = topics /\ nextMid' = nextMid
    BY <1>11 DEF StageUnsubscribe
  <2> HIDE DEF request, s
  <2>3. /\ made' \in 0..MaxRequests
        /\ pend' \in [Kinds -> PendRecord]
        /\ pend'["unsubscribe"].state = "requesting"
        /\ pend'["publish"] = pend["publish"]
        /\ pend'["subscribe"] = pend["subscribe"]
    BY <1>8, <2>1, <2>2, StageTyped DEF Kinds
  <2> QED BY <1>4, <2>2, <2>3 DEF Types, TypeOK, UnsubscribeStates, TopicRecord
<1>12. \/ Same
       \/ \E qos \in {"qos0", "qos1", "qos2"} : StagePublish(qos)
       \/ StageSubscribe
       \/ \E id \in 1..(MidWidth - 1) : StageUnsubscribe(id)
  BY DEF Proceed, Calls, Call
<1> HIDE DEF Goal, Same
<1>13. Goal
  BY <1>7, <1>9, <1>10, <1>11, <1>12
<1>14. TypeOK' /\ GhostsOK'
  BY <1>3, <1>13 DEF Goal, Types, TypeOK, GhostsOK, TopicRecord
<1> QED BY <1>1, <1>2, <1>14 DEF Types

-----------------------------------------------------------------------------

\* A packet more on its way to the broker.
LEMMA WrittenTyped ==
    ASSUME WireOK, NEW p \in SentRecord
    PROVE  /\ [wire EXCEPT !.tx = Append(@, p)]
                \in [tx : Seq(SentRecord), rx : Seq(AnswerRecord), eof : BOOLEAN]
           /\ [wire EXCEPT !.tx = Append(@, p)].eof = wire.eof
<1>1. wire.tx \in Seq(SentRecord)
  BY DEF WireOK
<1>2. Append(wire.tx, p) \in Seq(SentRecord)
  BY <1>1
<1> QED BY <1>2 DEF WireOK

\* The handlers that write a staged request.
LEMMA SendTyped ==
    ASSUME Types, NEW t \in Threads, NEW k \in Kinds, PollSend(t, k)
    PROVE  Types'
<1>1. pend \in [Kinds -> PendRecord] /\ pend[k] \in PendRecord
      /\ pend[k].req \in 0..MaxRequests /\ pend[k].pid \in 0..(PidWidth - 1)
  BY DEF Types, TypeOK, PendRecord
<1>2. CASE pend[k].state \notin Staged
  <2>1. Pass(t) /\ thread[t].pc \in Names
    BY <1>2 DEF PollSend, At, SendOf, Kinds, Names
  <2> QED BY <2>1, PassTyped DEF Pass, Types, TypeOK, WireOK, GhostsOK, client, ghosts
<1>3. CASE pend[k].state \in Staged /\ Fail(t, pend[k].req)
  BY <1>1, <1>3, FailTyped
<1>4. CASE pend[k].state \in Staged /\ ~Fail(t, pend[k].req)
  <2>1. PacketOf(k) \in {"qos0", "qos1", "qos2", "subscribe", "unsubscribe"}
    BY <1>4 DEF PacketOf, Staged, Kinds, Types, TypeOK, PublishStates, SubscribeStates, UnsubscribeStates
  <2> DEFINE p == Packet(PacketOf(k), pend[k].pid, pend[k].req)
  <2>2. p \in SentRecord
    BY <1>1, <2>1 DEF Packet, SentRecord, Sent
  <2>3. wire' = [wire EXCEPT !.tx = Append(@, p)]
    BY <1>4 DEF PollSend, Write
  <2> HIDE DEF p
  <2>4. WireOK' /\ wire'.eof \in BOOLEAN
    BY <2>2, <2>3, WrittenTyped DEF Types, WireOK
  <2>5. CASE pend[k].state = "qos0"
    <3>1. /\ pend' = [pend EXCEPT ![k] = Released(pend[k])]
          /\ BroadcastThen(t, Deliver(<<Event("sent", pend[k].req)>>, "idle"))
          /\ served' = served \cup {pend[k].req}
          /\ UNCHANGED <<active, connected, topics, nextMid, nextPid, ping, told, made, links, pushed>>
      BY <1>4, <2>5 DEF PollSend
    <3>2. ThreadOK'
      <4>1. <<Event("sent", pend[k].req)>> \in Seq(EventRecord) /\ <<Event("sent", pend[k].req)>> # <<>>
        BY <1>1, ProperEvents DEF EventKinds, Completions
      <4> QED BY <3>1, <4>1, ProperThings, BroadcastTyped DEF Types
    <3>3. TypeOK'
      <4>1. Released(pend[k]) \in PendRecord /\ Released(pend[k]).state = "idle"
        BY <1>1, ReleasedTyped
      <4>2. pend' \in [Kinds -> PendRecord] /\ pend'[k].state = "idle" /\ \A l \in Kinds \ {k} : pend'[l] = pend[l]
        BY <1>1, <3>1, <4>1
      <4> QED BY <2>4, <3>1, <4>2 DEF Types, TypeOK, Kinds, PublishStates, SubscribeStates, UnsubscribeStates
    <3>4. GhostsOK'
      BY <1>1, <3>1 DEF Types, GhostsOK
    <3> QED BY <2>4, <3>2, <3>3, <3>4 DEF Types
  <2>6. CASE pend[k].state # "qos0"
    <3>1. /\ pend' = [pend EXCEPT ![k].state = SentState(k)]
          /\ Doing(t, Idle)
          /\ UNCHANGED <<served, active, connected, topics, nextMid, nextPid, ping, told, made, links, pushed>>
      BY <1>4, <2>6 DEF PollSend
    <3>2. ThreadOK'
      BY <3>1, ProperThings, DoingTyped DEF Types
    <3>3. /\ k = "publish" => SentState(k) \in PublishStates
          /\ k = "subscribe" => SentState(k) \in SubscribeStates
          /\ k = "unsubscribe" => SentState(k) \in UnsubscribeStates
      <4>1. k = "publish" => pend[k].state \in {"qos1", "qos2"}
        BY <1>4, <2>6 DEF Types, TypeOK, Staged, PublishStates
      <4> QED BY <4>1 DEF SentState, WaitState, PublishStates, SubscribeStates, UnsubscribeStates
    <3>4. pend' \in [Kinds -> PendRecord] /\ pend'[k].state = SentState(k) /\ \A l \in Kinds \ {k} : pend'[l] = pend[l]
      BY <1>1, <3>1, <3>3 DEF PendRecord, Kinds
    <3>5. TypeOK'
      BY <2>4, <3>1, <3>3, <3>4 DEF Types, TypeOK, Kinds
    <3>6. GhostsOK'
      BY <3>1 DEF Types, GhostsOK
    <3> QED BY <2>4, <3>2, <3>5, <3>6 DEF Types
  <2> QED BY <2>5, <2>6
<1> QED BY <1>2, <1>3, <1>4

\* The two handlers of the ping.
LEMMA PingTyped ==
    ASSUME Types, NEW t \in Threads, PingSend(t) \/ PingCheckTimeout(t)
    PROVE  Types'
<1>1. thread[t].pc \in Names
  BY DEF PingSend, PingCheckTimeout, At, Names
<1>2. CASE Pass(t)
  BY <1>1, <1>2, PassTyped DEF Pass, Types, TypeOK, WireOK, GhostsOK, client, ghosts
<1>3. CASE Fail(t, 0)
  BY <1>3, FailTyped, MqttAssumption
<1>4. CASE AbortConnection(t, Disconnected, "idle")
  BY <1>4, AbortTyped, ProperEvents
<1>5. CASE /\ Write("pingreq", 0, 0) /\ ping' = TRUE /\ Doing(t, Idle)
           /\ UNCHANGED <<active, connected, pend, topics, nextMid, nextPid, ghosts>>
  <2>1. Packet("pingreq", 0, 0) \in SentRecord
    BY MqttAssumption DEF Packet, SentRecord
  <2>2. WireOK' /\ wire'.eof \in BOOLEAN
    BY <1>5, <2>1, WrittenTyped DEF Write, Types, WireOK
  <2>3. ThreadOK'
    BY <1>5, ProperThings, DoingTyped DEF Types
  <2>4. TypeOK' /\ GhostsOK'
    BY <1>5, <2>2 DEF Types, TypeOK, GhostsOK, ghosts
  <2> QED BY <2>2, <2>3, <2>4 DEF Types
<1> QED BY <1>2, <1>3, <1>4, <1>5 DEF PingSend, PingCheckTimeout

\* A packet less from the broker.
LEMMA ConsumedTyped ==
    ASSUME WireOK, wire.rx # <<>>
    PROVE  /\ Consumed \in [tx : Seq(SentRecord), rx : Seq(AnswerRecord), eof : BOOLEAN]
           /\ Consumed.eof = wire.eof /\ Consumed.tx = wire.tx /\ Consumed.rx = Tail(wire.rx)
           /\ Got \in AnswerRecord
           /\ Got = wire.rx[1] /\ 1 \in DOMAIN wire.rx
<1>1. wire.rx \in Seq(AnswerRecord)
  BY DEF WireOK
<1>2. Tail(wire.rx) \in Seq(AnswerRecord) /\ Head(wire.rx) \in AnswerRecord
      /\ Head(wire.rx) = wire.rx[1] /\ 1 \in DOMAIN wire.rx
  <2>1. Len(wire.rx) \in Nat \ {0}
    BY <1>1, EmptySeq
  <2> QED BY <1>1, <2>1
<1> QED BY <1>2 DEF WireOK, Consumed, Got

\* The end of a request its reply brings about.
LEMMA CompleteTyped ==
    ASSUME Types, NEW t \in Threads, NEW k \in Kinds, NEW kind \in Completions,
           wire.rx # <<>>, Complete(t, k, kind), topics' \in [Slots -> TopicRecord]
    PROVE  Types'
<1>1. pend \in [Kinds -> PendRecord] /\ pend[k] \in PendRecord
      /\ pend[k].req \in 0..MaxRequests
  BY DEF Types, TypeOK, PendRecord
<1>2. WireOK' /\ wire'.eof \in BOOLEAN
  BY ConsumedTyped DEF Types, Complete, WireOK
<1>3. ThreadOK'
  <2>1. <<Event(kind, pend[k].req)>> \in Seq(EventRecord) /\ <<Event(kind, pend[k].req)>> # <<>>
    BY <1>1, ProperEvents DEF EventKinds
  <2> QED BY <2>1, ProperThings, BroadcastTyped DEF Types, Complete
<1>4. TypeOK'
  <2>1. Released(pend[k]) \in PendRecord /\ Released(pend[k]).state = "idle"
    BY <1>1, ReleasedTyped
  <2>2. pend' \in [Kinds -> PendRecord] /\ pend'[k].state = "idle" /\ \A l \in Kinds \ {k} : pend'[l] = pend[l]
    BY <1>1, <2>1 DEF Complete
  <2> QED BY <1>2, <2>2 DEF Types, TypeOK, Kinds, PublishStates, SubscribeStates, UnsubscribeStates,
                 Complete, StillConnected, TopicRecord
<1>5. GhostsOK'
  BY DEF Complete, StillConnected, Types, GhostsOK, ghosts
<1> QED BY <1>2, <1>3, <1>4, <1>5 DEF Types

\* A packet read and thrown away.
LEMMA DroppedTyped ==
    ASSUME Types, NEW t \in Threads, NEW what, Proper(what), Doing(t, what), wire.rx # <<>>,
           wire' = Consumed, StillConnected, UNCHANGED <<pend, topics>>, ping' \in BOOLEAN
    PROVE  Types'
<1>1. WireOK' /\ wire'.eof \in BOOLEAN
  BY ConsumedTyped DEF Types, WireOK
<1>2. ThreadOK'
  BY DoingTyped DEF Types
<1>3. TypeOK' /\ GhostsOK'
  BY <1>1 DEF StillConnected, Types, TypeOK, GhostsOK, ghosts
<1> QED BY <1>1, <1>2, <1>3 DEF Types

\* A reply that answers no outstanding request.
LEMMA UnmatchedTyped ==
    ASSUME Types, NEW t \in Threads, NEW k \in Kinds, wire.rx # <<>>, Unmatched(t, k)
    PROVE  Types'
<1>1. CASE Got.pid = pend[k].tomb
  BY <1>1, DroppedTyped, ProperThings DEF Unmatched, Types, TypeOK
<1>2. CASE Got.pid # pend[k].tomb
  BY <1>2, FailTyped, MqttAssumption DEF Unmatched
<1> QED BY <1>1, <1>2

\* The handlers of the packets read.
LEMMA ReadTyped ==
    ASSUME Types, NEW t \in Threads,
           \/ ReadPuback(t) \/ ReadPubrec(t) \/ ReadPubcomp(t) \/ ReadSuback(t)
           \/ ReadUnsuback(t) \/ ReadPublish(t) \/ ReadPingresp(t) \/ ReadDispatch(t)
    PROVE  Types'
<1>0. topics \in [Slots -> TopicRecord] /\ \A k \in Kinds : pend[k] \in PendRecord
      /\ ping \in BOOLEAN
  BY DEF Types, TypeOK, TopicRecord
<1>z. 0 \in 0..MaxRequests
  BY MqttAssumption
<1>1. CASE ReadPuback(t) \/ ReadPubcomp(t)
  BY <1>0, <1>1, CompleteTyped, UnmatchedTyped DEF ReadPuback, ReadPubcomp, Reading, Completions, Kinds
<1>2. CASE ReadPubrec(t)
  <2>1. wire.rx # <<>>
    BY <1>2 DEF ReadPubrec, Reading
  <2>2. CASE ~Matches("publish", "wait_pubrec")
    BY <1>2, <2>1, <2>2, UnmatchedTyped DEF ReadPubrec, Kinds
  <2>3. CASE Fail(t, pend["publish"].req)
    BY <1>0, <2>3, FailTyped DEF PendRecord, Kinds
  <2>4. CASE /\ wire' = [Consumed EXCEPT !.tx = Append(@, Packet("pubrel", Got.pid, Got.req))]
             /\ pend' = [pend EXCEPT !["publish"].state = "wait_pubcomp"]
             /\ Doing(t, Idle)
             /\ StillConnected /\ UNCHANGED <<topics, ping>>
    <3>1. Got \in AnswerRecord
      BY <2>1, ConsumedTyped DEF Types
    <3>2. Packet("pubrel", Got.pid, Got.req) \in SentRecord
      BY <3>1 DEF Packet, SentRecord, Sent, AnswerRecord
    <3>3. wire.tx \in Seq(SentRecord)
      BY DEF Types, WireOK
    <3>4. Append(wire.tx, Packet("pubrel", Got.pid, Got.req)) \in Seq(SentRecord)
      BY <3>2, <3>3
    <3>5. WireOK' /\ wire'.eof \in BOOLEAN
      BY <2>1, <2>4, <3>4, ConsumedTyped DEF Types, WireOK
    <3>6. ThreadOK'
      BY <2>4, ProperThings, DoingTyped DEF Types
    <3>7. pend' \in [Kinds -> PendRecord] /\ pend'["publish"].state = "wait_pubcomp"
          /\ pend'["subscribe"] = pend["subscribe"] /\ pend'["unsubscribe"] = pend["unsubscribe"]
      <4>1. pend \in [Kinds -> PendRecord] /\ "publish" \in Kinds
        BY DEF Types, TypeOK, Kinds
      <4>2. pend' = [pend EXCEPT !["publish"].state = "wait_pubcomp"]
        BY <2>4
      <4>3. [pend["publish"] EXCEPT !.state = "wait_pubcomp"] \in PendRecord
        <5>1. "wait_pubcomp" \in PublishStates
          BY DEF PublishStates
        <5>2. \A r \in PendRecord : [r EXCEPT !.state = "wait_pubcomp"] \in PendRecord
          BY <5>1 DEF PendRecord
        <5> QED BY <4>1, <5>2
      <4>4. pend' = [pend EXCEPT !["publish"] = [pend["publish"] EXCEPT !.state = "wait_pubcomp"]]
        BY <4>2
      <4>5. pend' \in [Kinds -> PendRecord]
        BY <4>1, <4>3, <4>4
      <4>6. pend'["publish"].state = "wait_pubcomp"
        BY <4>1, <4>2 DEF PendRecord
      <4>7. pend'["subscribe"] = pend["subscribe"] /\ pend'["unsubscribe"] = pend["unsubscribe"]
        BY <4>1, <4>4
      <4> QED BY <4>5, <4>6, <4>7
    <3>8. TypeOK' /\ GhostsOK'
      BY <2>4, <3>5, <3>7 DEF StillConnected, Types, TypeOK, GhostsOK, ghosts, PublishStates
    <3> QED BY <3>5, <3>6, <3>8 DEF Types
  <2> QED BY <1>2, <2>2, <2>3, <2>4 DEF ReadPubrec
<1>3. CASE ReadSuback(t)
  <2>1. wire.rx # <<>>
    BY <1>3 DEF ReadSuback, Reading
  <2>2. CASE ~Matches("subscribe", "wait_suback")
    BY <1>3, <2>1, <2>2, UnmatchedTyped DEF ReadSuback, Kinds
  <2>3. CASE Matches("subscribe", "wait_suback")
    <3> DEFINE s == pend["subscribe"].slot
               full == [active |-> TRUE, confirmed |-> TRUE,
                        id |-> pend["subscribe"].mid, req |-> pend["subscribe"].req]
    <3>1. full \in TopicRecord /\ \A x \in Slots : Forget(topics[x]) \in TopicRecord
      BY <1>0, ForgetTyped DEF TopicRecord, PendRecord, Kinds
    <3>2. \/ Complete(t, "subscribe", "error") /\ topics' = [topics EXCEPT ![s] = Forget(topics[s])]
          \/ Complete(t, "subscribe", "subscribed") /\ topics' = [topics EXCEPT ![s] = full]
      BY <1>3, <2>3 DEF ReadSuback
    <3> HIDE DEF s, full
    <3>3. topics' \in [Slots -> TopicRecord]
      BY <1>0, <3>1, <3>2
    <3> QED BY <2>1, <3>2, <3>3, CompleteTyped DEF Completions, Kinds
  <2> QED BY <2>2, <2>3
<1>4. CASE ReadUnsuback(t)
  <2>1. wire.rx # <<>>
    BY <1>4 DEF ReadUnsuback, Reading
  <2>2. CASE ~Matches("unsubscribe", "wait_unsuback")
    BY <1>4, <2>1, <2>2, UnmatchedTyped DEF ReadUnsuback, Kinds
  <2>3. CASE Matches("unsubscribe", "wait_unsuback")
    <3>1. topics' \in [Slots -> TopicRecord]
      BY <1>0, <1>4, <2>3, ForgetTyped DEF ReadUnsuback
    <3> QED BY <1>4, <2>1, <2>3, <3>1, CompleteTyped DEF ReadUnsuback, Completions, Kinds
  <2> QED BY <2>2, <2>3
<1>5. CASE ReadPublish(t)
  <2>0. "received" \in EventKinds
    BY DEF EventKinds
  <2>1. <<Event("received", 0)>> \in Seq(EventRecord) /\ <<Event("received", 0)>> # <<>>
    BY <1>z, <2>0, ProperEvents
  <2>2. Proper(Deliver(<<Event("received", 0)>>, "idle"))
    BY <2>1, ProperThings
  <2>3. CASE Fail(t, 0)
    BY <1>z, <2>3, FailTyped
  <2>4. CASE /\ wire' = Consumed
             /\ Doing(t, Deliver(<<Event("received", 0)>>, "idle"))
             /\ StillConnected /\ UNCHANGED <<pend, topics, ping>>
    <3>1. wire.rx # <<>>
      BY <1>5 DEF ReadPublish, Reading
    <3>2. UNCHANGED <<pend, topics>> /\ ping' = ping
      BY <2>4
    <3>3. ping' \in BOOLEAN
      BY <3>2 DEF Types, TypeOK
    <3> QED BY <2>2, <2>4, <3>1, <3>2, <3>3, DroppedTyped
  <2> QED BY <1>5, <2>3, <2>4 DEF ReadPublish
<1>6. CASE ReadPingresp(t)
  BY <1>6, DroppedTyped, ProperThings DEF ReadPingresp, Reading
<1>7. CASE ReadDispatch(t)
  <2>1. thread[t].pc \in Names
    BY <1>7 DEF ReadDispatch, At, Names
  <2>2. CASE Pass(t)
    BY <2>1, <2>2, PassTyped DEF Pass, Types, TypeOK, WireOK, GhostsOK, client, ghosts
  <2>3. CASE Fail(t, 0)
    BY <1>z, <2>3, FailTyped
  <2>4. CASE AbortConnection(t, Disconnected, "idle")
    BY <2>4, AbortTyped, ProperEvents
  <2> QED BY <1>7, <2>2, <2>3, <2>4 DEF ReadDispatch
<1> QED BY <1>1, <1>2, <1>3, <1>4, <1>5, <1>6, <1>7

\* The handlers of the time-outs.
LEMMA TimeOutTyped ==
    ASSUME Types, NEW t \in Threads, NEW k \in Kinds, CheckTimeout(t, k)
    PROVE  Types'
<1>1. CASE At(t, TimeoutOf[k]) /\ Pass(t)
  <2>1. thread[t].pc \in Names
    BY <1>1 DEF At, TimeoutOf, Names, Kinds
  <2> QED BY <1>1, <2>1, PassTyped DEF Pass, Types, TypeOK, WireOK, GhostsOK, client, ghosts
<1>2. CASE TimeOut(t, k)
  <2>1. pend \in [Kinds -> PendRecord] /\ pend[k] \in PendRecord /\ pend[k].req \in 0..MaxRequests
        /\ topics \in [Slots -> TopicRecord]
    BY DEF Types, TypeOK, PendRecord, TopicRecord
  <2>2. ThreadOK'
    <3>1. <<Event("error", pend[k].req)>> \in Seq(EventRecord) /\ <<Event("error", pend[k].req)>> # <<>>
      BY <2>1, ProperEvents DEF EventKinds, Completions
    <3> QED BY <1>2, <3>1, ProperThings, BroadcastTyped DEF Types, TimeOut
  <2>3. topics' \in [Slots -> TopicRecord]
    BY <1>2, <2>1, ForgetTyped DEF TimeOut
  <2>4. [NoRequest EXCEPT !.tomb = pend[k].pid] \in PendRecord
        /\ [NoRequest EXCEPT !.tomb = pend[k].pid].state = "idle"
    BY <2>1, ReleasedTyped
  <2>5. pend' \in [Kinds -> PendRecord] /\ pend'[k].state = "idle" /\ \A l \in Kinds \ {k} : pend'[l] = pend[l]
    BY <1>2, <2>1, <2>4 DEF TimeOut
  <2>6. TypeOK'
    BY <1>2, <2>3, <2>5 DEF TimeOut, Types, TypeOK, Kinds, PublishStates, SubscribeStates,
               UnsubscribeStates, TopicRecord
  <2>7. WireOK' /\ GhostsOK'
    BY <1>2 DEF TimeOut, Types, WireOK, GhostsOK, ghosts
  <2> QED BY <2>2, <2>6, <2>7 DEF Types
<1> QED BY <1>1, <1>2 DEF CheckTimeout

\* The broker.
LEMMA BrokerTyped ==
    ASSUME Types, Broker
    PROVE  Types'
<1>0. wire.tx \in Seq(SentRecord) /\ wire.rx \in Seq(AnswerRecord) /\ wire.eof \in BOOLEAN
      /\ wire \in [tx : Seq(SentRecord), rx : Seq(AnswerRecord), eof : BOOLEAN]
  BY DEF Types, WireOK
<1>1. CASE BrokerAnswers
  <2> DEFINE p == Head(wire.tx)
  <2>1. p \in SentRecord /\ Tail(wire.tx) \in Seq(SentRecord)
    BY <1>0, <1>1 DEF BrokerAnswers
  <2>2. PICK reply \in Reply[p.type] :
          wire' = [wire EXCEPT !.tx = Tail(@),
                     !.rx = IF reply = "none" THEN @ ELSE Append(@, Packet(reply, p.pid, p.req))]
    BY <1>1 DEF BrokerAnswers
  <2>3. reply # "none" => Packet(reply, p.pid, p.req) \in AnswerRecord
    BY <2>1, <2>2 DEF SentRecord, Sent, Reply, Packet, AnswerRecord, Answers
  <2>4. served' \subseteq 0..MaxRequests
    BY <1>1, <2>1 DEF BrokerAnswers, SentRecord, Types, GhostsOK
  <2> HIDE DEF p
  <2>5. reply # "none" => Append(wire.rx, Packet(reply, p.pid, p.req)) \in Seq(AnswerRecord)
    BY <1>0, <2>3
  <2>6. WireOK' /\ wire'.eof \in BOOLEAN
    BY <1>0, <2>1, <2>2, <2>5 DEF WireOK
  <2> QED BY <1>1, <2>4, <2>6 DEF BrokerAnswers, Types, TypeOK, ThreadOK, GhostsOK, At
<1>2. CASE BrokerPushes
  <2>1. Packet("message", 1, 0) \in AnswerRecord
    BY MqttAssumption DEF Packet, AnswerRecord
  <2>2. Append(wire.rx, Packet("message", 1, 0)) \in Seq(AnswerRecord)
    BY <1>0, <2>1
  <2>3. WireOK' /\ wire'.eof \in BOOLEAN
    BY <1>0, <1>2, <2>2 DEF BrokerPushes, WireOK
  <2> QED BY <1>2, <2>3 DEF BrokerPushes, Types, TypeOK, ThreadOK, GhostsOK, At
<1>3. CASE BrokerGoes
  <2>1. Packet("garbage", 0, 0) \in AnswerRecord
    BY MqttAssumption DEF Packet, AnswerRecord
  <2>2. PICK last \in {<<>>, <<Packet("garbage", 0, 0)>>} :
          wire' = [tx |-> <<>>, rx |-> wire.rx \o last, eof |-> TRUE]
    BY <1>3 DEF BrokerGoes
  <2>3. last \in Seq(AnswerRecord)
    <3>1. CASE last = <<>>
      BY <3>1, EmptySeq
    <3>2. CASE last = <<Packet("garbage", 0, 0)>>
      BY <2>1, <3>2
    <3> QED BY <3>1, <3>2
  <2>4. wire.rx \o last \in Seq(AnswerRecord)
    BY <1>0, <2>3
  <2>5. WireOK' /\ wire'.eof \in BOOLEAN
    BY <2>2, <2>4 DEF WireOK
  <2> QED BY <1>3, <2>5 DEF BrokerGoes, Types, TypeOK, ThreadOK, GhostsOK, At, ghosts
<1> QED BY <1>1, <1>2, <1>3 DEF Broker

\* What a thread may do, one lemma's worth at a time.
Lives(t) == InitClient(t) \/ Connect(t) \/ Disconnect(t) \/ Deinit(t)
Requesting(t) == \E call \in Calls : Proceed(t, call) /\ thread[t].pc \in {"idle", "woken"}
Reads(t) ==
  \/ ReadPuback(t) \/ ReadPubrec(t) \/ ReadPubcomp(t) \/ ReadSuback(t)
  \/ ReadUnsuback(t) \/ ReadPublish(t) \/ ReadPingresp(t) \/ ReadDispatch(t)

\* Every step is one of these.
LEMMA NextCases ==
    ASSUME Types, Next
    PROVE  \/ \E t \in Callers : Lives(t)
           \/ \E t \in Threads : DeinitEnds(t) \/ FireEvent(t) \/ GiveUp(t)
           \/ \E t \in Threads : Requesting(t) /\ (t \in Callers \/ thread[t].pc = "woken")
           \/ \E t \in Pollers : \/ Poll(t) \/ Reads(t) \/ PingSend(t) \/ PingCheckTimeout(t)
                                 \/ \E k \in Kinds : PollSend(t, k) \/ CheckTimeout(t, k)
           \/ Broker
<1>1. ASSUME NEW t \in Callers, Caller(t)
      PROVE  Lives(t) \/ Requesting(t)
  <2>1. \A qos \in {"qos0", "qos1", "qos2"} : Call(qos, 0) \in Calls
    BY DEF Calls
  <2>2. Call("subscribe", 0) \in Calls
    BY DEF Calls
  <2>3. \A id \in 1..(MidWidth - 1) : Call("unsubscribe", id) \in Calls
    BY DEF Calls
  <2> QED BY <1>1, <2>1, <2>2, <2>3
          DEF Caller, Lives, Requesting, Publish, Subscribe, Unsubscribe, At
<1>2. ASSUME NEW t \in Threads, Finish(t)
      PROVE  \/ DeinitEnds(t) \/ FireEvent(t) \/ GiveUp(t)
             \/ Requesting(t) /\ thread[t].pc = "woken"
  <2>1. CASE Resume(t)
    BY <2>1 DEF Resume, Requesting, At, Types, ThreadOK
  <2> QED BY <1>2, <2>1 DEF Finish
<1>3. ASSUME NEW t \in Pollers, Handle(t)
      PROVE  \/ Reads(t) \/ PingSend(t) \/ PingCheckTimeout(t)
             \/ \E k \in Kinds : PollSend(t, k) \/ CheckTimeout(t, k)
  <2>1. "publish" \in Kinds /\ "subscribe" \in Kinds /\ "unsubscribe" \in Kinds
    BY DEF Kinds
  <2> QED BY <1>3, <2>1 DEF Handle, Reads, PublishSend, SubscribeSend, UnsubscribeSend,
             PublishCheckTimeout, SubscribeCheckTimeout, UnsubscribeCheckTimeout
<1> QED BY <1>1, <1>2, <1>3 DEF Next, Threads

\* The types hold of a client before its initialisation ...
LEMMA TypesInit == Init => Types
<1> SUFFICES ASSUME Init PROVE Types
  OBVIOUS
<1>1. WireOK /\ wire.eof \in BOOLEAN
  BY NoWireTyped DEF Init, WireOK
<1>2. ThreadOK
  BY ProperThings DEF Init, ThreadOK, Proper, At, Idle
<1>3. pend \in [Kinds -> PendRecord] /\ \A k \in Kinds : pend[k].state = "idle"
  BY ReleasedTyped DEF Init
<1>4. topics \in [Slots -> TopicRecord]
  BY MqttAssumption DEF Init, FreeTopic, TopicRecord
<1>5. TypeOK
  <2>1. {active, connected, ping, wire.eof} \subseteq BOOLEAN
    BY <1>1 DEF Init
  <2>2. nextMid \in 0..(MidWidth - 1) /\ nextPid \in 0..(PidWidth - 1)
    BY MqttAssumption DEF Init
  <2> QED BY <1>3, <1>4, <2>1, <2>2
          DEF TypeOK, TopicRecord, Kinds, PublishStates, SubscribeStates, UnsubscribeStates
<1>6. GhostsOK
  BY MqttAssumption DEF Init, GhostsOK
<1> QED BY <1>1, <1>2, <1>5, <1>6 DEF Types

\* ... and after every step.
LEMMA TypesStep == Types /\ [Next]_vars => Types'
<1> SUFFICES ASSUME Types, [Next]_vars PROVE Types'
  OBVIOUS
<1>1. CASE UNCHANGED vars
  BY <1>1 DEF vars, client, ghosts, Types, TypeOK, ThreadOK, WireOK, GhostsOK, At
<1>2. CASE Next
  <2>1. ASSUME NEW t \in Threads, Lives(t) \/ DeinitEnds(t)
        PROVE  Types'
    BY <2>1, LifeTyped DEF Lives
  <2>2. ASSUME NEW t \in Threads, GiveUp(t)
        PROVE  Types'
    BY <2>2, DoingTyped, ProperThings DEF GiveUp, client, ghosts, Types, TypeOK, WireOK, GhostsOK
  <2>3. ASSUME NEW t \in Threads, Poll(t)
        PROVE  Types'
    <3> DEFINE h == HandlerFrom(1)
    <3>1. h \in Names \cup {"idle", "deinit"}
      BY HandlerFromName
    <3>2. Doing(t, [Idle EXCEPT !.pc = h]) /\ UNCHANGED <<client, ghosts>>
      BY <2>3 DEF Poll
    <3> HIDE DEF h
    <3> QED BY <3>1, <3>2, DoingTyped, ProperThings DEF client, ghosts, Types, TypeOK, WireOK, GhostsOK
  <2>4. ASSUME NEW t \in Threads, Requesting(t)
        PROVE  Types'
    BY <2>4, ProceedTyped DEF Requesting
  <2>5. ASSUME NEW t \in Pollers, Reads(t)
        PROVE  Types'
    BY <2>5, ReadTyped DEF Reads, Threads
  <2> QED BY <1>2, NextCases, <2>1, <2>2, <2>3, <2>4, <2>5, FireTyped, PingTyped, SendTyped,
             TimeOutTyped, BrokerTyped DEF Threads
<1> QED BY <1>1, <1>2

\* Every field of the handle keeps its type, and each of the three slots the
\* states of its own enum in private.h, whatever is called, read or timed out.
THEOREM TypeCorrect == Spec => []TypeOK
<1>1. Types => TypeOK
  BY DEF Types
<1> QED BY <1>1, TypesInit, TypesStep, PTL DEF Spec

-----------------------------------------------------------------------------
(* Nothing is outstanding on a dead connection.                            *)

\* _net_mqtt_abort_connection_locked() leaves nothing of the connection behind.
LEMMA AbortClears ==
    ASSUME Types, NEW t \in Threads, NEW events, NEW then, AbortConnection(t, events, then)
    PROVE  /\ connected' = FALSE /\ ping' = FALSE /\ wire' = NoWire
           /\ \A k \in Kinds : pend'[k].state = "idle" /\ pend'[k].req = 0
           /\ \A s \in Slots : ~topics'[s].active
BY ReleasedTyped, ForgetTyped DEF AbortConnection, Types, TypeOK, TopicRecord

\* Nothing is outstanding before the first connection.
LEMMA OutstandingInit == Init => OutstandingOnlyWhileConnected
BY DEF Init, OutstandingOnlyWhileConnected, NoRequest, FreeTopic

\* A request is staged, a ping written and a topic reserved under the lock of a
\* connection that is up, and whoever ends one clears all three under the lock.
LEMMA OutstandingStep ==
    Types /\ OutstandingOnlyWhileConnected /\ [Next]_vars => OutstandingOnlyWhileConnected'
<1> SUFFICES ASSUME Types, OutstandingOnlyWhileConnected, [Next]_vars
             PROVE  OutstandingOnlyWhileConnected'
  OBVIOUS
<1> USE DEF OutstandingOnlyWhileConnected
<1>0. ASSUME NEW t \in Threads, NEW events, NEW then, AbortConnection(t, events, then)
      PROVE  OutstandingOnlyWhileConnected'
  BY <1>0, AbortClears
<1>1. ASSUME NEW t \in Threads, NEW req, Fail(t, req)
      PROVE  OutstandingOnlyWhileConnected'
  BY <1>0, <1>1 DEF Fail
<1>2. CASE UNCHANGED vars
  BY <1>2 DEF vars, client
<1>3. ASSUME NEW t \in Threads, Lives(t)
      PROVE  OutstandingOnlyWhileConnected'
  <2>1. CASE InitClient(t)
    BY <2>1, ForgetTyped DEF InitClient, NoRequest, Types, TypeOK, TopicRecord
  <2> QED BY <1>0, <1>3, <2>1 DEF Lives, Connect, Disconnect, Deinit, client
<1>4. ASSUME NEW t \in Threads, DeinitEnds(t) \/ FireEvent(t) \/ GiveUp(t) \/ Poll(t)
      PROVE  OutstandingOnlyWhileConnected'
  BY <1>4 DEF DeinitEnds, FireEvent, GiveUp, Poll, client
<1>5. ASSUME NEW t \in Threads, Requesting(t)
      PROVE  OutstandingOnlyWhileConnected'
  BY <1>5 DEF Requesting, Proceed
<1>6. ASSUME NEW t \in Threads, Reads(t)
      PROVE  OutstandingOnlyWhileConnected'
  <2>1. CASE Pass(t)
    BY <2>1 DEF Pass, client
  <2> QED BY <1>0, <1>1, <1>6, <2>1
          DEF Reads, ReadPuback, ReadPubrec, ReadPubcomp, ReadSuback, ReadUnsuback, ReadPublish,
              ReadPingresp, ReadDispatch, Reading, Unmatched, Complete, StillConnected
<1>7. ASSUME NEW t \in Threads, PingSend(t) \/ PingCheckTimeout(t)
      PROVE  OutstandingOnlyWhileConnected'
  BY <1>0, <1>1, <1>7 DEF PingSend, PingCheckTimeout, Pass, client
<1>8. ASSUME NEW t \in Threads, NEW k \in Kinds, PollSend(t, k) \/ CheckTimeout(t, k)
      PROVE  OutstandingOnlyWhileConnected'
  <2>1. pend[k].state # "idle" => connected
    OBVIOUS
  <2>2. CASE PollSend(t, k)
    BY <1>1, <2>1, <2>2 DEF PollSend, Pass, client, Staged
  <2>3. CASE CheckTimeout(t, k)
    BY <2>1, <2>3 DEF CheckTimeout, TimeOut, Pass, client, Awaiting
  <2> QED BY <1>8, <2>2, <2>3
<1>9. CASE Broker
  BY <1>9 DEF Broker, BrokerAnswers, BrokerPushes, BrokerGoes
<1> QED BY <1>2, <1>3, <1>4, <1>5, <1>6, <1>7, <1>8, <1>9, NextCases DEF Threads

\* A request is outstanding, a ping unanswered or a topic in use on a live
\* connection only: what poll.c:284-295 takes for granted when it uses conn
\* without a test of connected.
THEOREM NothingOutlivesTheConnection == Spec => []OutstandingOnlyWhileConnected
BY TypesInit, TypesStep, OutstandingInit, OutstandingStep, PTL DEF Spec

-----------------------------------------------------------------------------
(* The table of subscriptions and the two requests that change it.         *)

\* An empty table and idle slots agree.
LEMMA OwnedWhenClear ==
    ASSUME \A k \in Kinds : pend[k].state = "idle", \A s \in Slots : ~topics[s].active
    PROVE  Owned
BY DEF Owned, TopicsOwned, Reserved, Fresh, Kinds, Confirmed

\* The request in slot k keeps what it holds of the table.
Holds(k) ==
  /\ pend'[k].state = "idle" <=> pend[k].state = "idle"
  /\ pend[k].state # "idle" => pend'[k].slot = pend[k].slot /\ pend'[k].mid = pend[k].mid

\* They go on agreeing while the table stays and the two requests keep theirs.
LEMMA OwnedKept ==
    ASSUME Owned, topics' = topics, Holds("subscribe"), Holds("unsubscribe")
    PROVE  Owned'
<1>1. TopicsOwned'
  BY DEF Owned, TopicsOwned, Confirmed, Holds
<1>2. Reserved'
  BY DEF Owned, Reserved, Holds
<1>3. Fresh'
  BY DEF Owned, Fresh, TopicIdInUse, Confirmed, Holds
<1> QED BY <1>1, <1>2, <1>3 DEF Owned

\* A subscribe reserves a free slot; a publish or subscribe takes an id no
\* subscription has; an unsubscribe remembers a subscription that is there.
LEMMA OwnedProceed ==
    ASSUME Types, Owned, NEW t \in Threads, NEW call \in Calls, Proceed(t, call)
    PROVE  Owned'
<1>0. /\ pend \in [Kinds -> PendRecord] /\ topics \in [Slots -> TopicRecord]
      /\ "publish" \in Kinds /\ "subscribe" \in Kinds /\ "unsubscribe" \in Kinds
  BY DEF Types, TypeOK, TopicRecord, Kinds
<1>1. CASE UNCHANGED <<pend, topics>>
  BY <1>1, OwnedKept DEF Holds
<1>2. ASSUME NEW qos, StagePublish(qos)
      PROVE  Owned'
  BY <1>0, <1>2, OwnedKept DEF Holds, StagePublish, Stage
<1>3. ASSUME StageSubscribe, pend["subscribe"].state = "idle"
      PROVE  Owned'
  <2> DEFINE s == Min(TopicFree)
  <2>1. s \in Slots /\ ~topics[s].active
    <3>1. TopicFree \in SUBSET Slots /\ TopicFree # {}
      BY <1>3 DEF StageSubscribe, TopicFree
    <3>2. s \in TopicFree
      BY <3>1, ASlotOf
    <3> QED BY <3>2 DEF TopicFree
  <2>2. ~TopicIdInUse(NextMessageId)
    BY NextIdIsFree DEF Types
  <2>3. /\ topics' = [topics EXCEPT ![s].active = TRUE, ![s].confirmed = FALSE]
        /\ pend'["subscribe"].state = "requesting" /\ pend'["subscribe"].slot = s
        /\ pend'["subscribe"].mid = NextMessageId
        /\ pend'["unsubscribe"] = pend["unsubscribe"]
    BY <1>0, <1>3 DEF StageSubscribe, Stage, NoRequest
  <2> HIDE DEF s
  <2>4. \A x \in Slots : /\ Confirmed(x)' <=> Confirmed(x)
                         /\ topics'[x].id = topics[x].id
                         /\ x # s => topics'[x] = topics[x]
    BY <1>0, <2>1, <2>3 DEF Confirmed, TopicRecord
  <2>5. topics'[s].active /\ ~topics'[s].confirmed
    BY <1>0, <2>1, <2>3 DEF TopicRecord
  <2>6. \A x \in Slots : ~(topics[x].active /\ ~topics[x].confirmed)
    BY <1>3 DEF Owned, TopicsOwned
  <2>7. TopicsOwned'
    <3>1. \A x \in Slots : topics'[x].active /\ ~topics'[x].confirmed
                             <=> pend'["subscribe"].state # "idle" /\ pend'["subscribe"].slot = x
      BY <2>1, <2>3, <2>4, <2>5, <2>6
    <3>2. pend["unsubscribe"].state # "idle" =>
            /\ pend["unsubscribe"].slot \in Slots
            /\ Confirmed(pend["unsubscribe"].slot)
            /\ topics[pend["unsubscribe"].slot].id = pend["unsubscribe"].mid
      BY DEF Owned, TopicsOwned, Reserved
    <3>3. pend'["unsubscribe"].state # "idle" =>
            /\ Confirmed(pend["unsubscribe"].slot)'
            /\ topics'[pend["unsubscribe"].slot].id = pend["unsubscribe"].mid
      BY <2>3, <2>4, <3>2 DEF Confirmed
    <3>4. \A x, y \in Slots : Confirmed(x)' /\ Confirmed(y)' /\ x # y
                                => topics'[x].id # topics'[y].id
      BY <2>4 DEF Owned, TopicsOwned
    <3> QED BY <2>3, <3>1, <3>3, <3>4 DEF TopicsOwned, Confirmed
  <2>8. Reserved'
    BY <2>1, <2>3 DEF Owned, Reserved
  <2>9. Fresh'
    BY <2>2, <2>3, <2>4 DEF Fresh, TopicIdInUse
  <2> QED BY <2>7, <2>8, <2>9 DEF Owned
<1>4. ASSUME NEW id, StageUnsubscribe(id), pend["unsubscribe"].state = "idle"
      PROVE  Owned'
  <2> DEFINE s == Min(TopicFind(id))
  <2>1. s \in Slots /\ Confirmed(s) /\ topics[s].id = id
    <3>1. TopicFind(id) \in SUBSET Slots /\ TopicFind(id) # {}
      BY <1>4 DEF StageUnsubscribe, TopicFind
    <3>2. s \in TopicFind(id)
      BY <3>1, ASlotOf
    <3> QED BY <3>2 DEF TopicFind
  <2>2. /\ topics' = topics
        /\ pend'["unsubscribe"].slot = s /\ pend'["unsubscribe"].mid = id
        /\ pend'["subscribe"] = pend["subscribe"]
    BY <1>0, <1>4 DEF StageUnsubscribe, Stage, NoRequest
  <2> HIDE DEF s
  <2>3. TopicsOwned' /\ Reserved' /\ Fresh'
    BY <2>1, <2>2 DEF Owned, TopicsOwned, Reserved, Fresh, TopicIdInUse, Confirmed
  <2> QED BY <2>3 DEF Owned
<1>5. \/ UNCHANGED <<pend, topics>>
      \/ \E qos : StagePublish(qos)
      \/ StageSubscribe /\ pend["subscribe"].state = "idle"
      \/ \E id : StageUnsubscribe(id) /\ pend["unsubscribe"].state = "idle"
  BY DEF Proceed, KindOf
<1> QED BY <1>1, <1>2, <1>3, <1>4, <1>5

\* A SUBACK confirms or frees the slot reserved, an UNSUBACK frees the one the
\* request found, and no other answer touches the table.
LEMMA OwnedRead ==
    ASSUME Types, Owned, NEW t \in Threads, Reads(t),
           ~(\E events, then : AbortConnection(t, events, then))
    PROVE  Owned'
<1>0. /\ pend \in [Kinds -> PendRecord] /\ topics \in [Slots -> TopicRecord]
      /\ "publish" \in Kinds /\ "subscribe" \in Kinds /\ "unsubscribe" \in Kinds
      /\ NoRequest.state = "idle"
      /\ \A k \in Kinds : Released(pend[k]).state = "idle"
  BY ReleasedTyped DEF Types, TypeOK, TopicRecord, Kinds
<1>1. ~Fail(t, 0) /\ ~Fail(t, pend["publish"].req)
  BY DEF Fail
<1>2. CASE UNCHANGED <<pend, topics>>
  BY <1>2, OwnedKept DEF Holds
<1>3. CASE Complete(t, "publish", "sent") /\ UNCHANGED topics
  BY <1>0, <1>3, OwnedKept DEF Holds, Complete
<1>4. CASE pend' = [pend EXCEPT !["publish"].state = "wait_pubcomp"] /\ UNCHANGED topics
  BY <1>0, <1>4, OwnedKept DEF Holds
<1>5. CASE ReadSuback(t) /\ Matches("subscribe", "wait_suback")
  <2> DEFINE s == pend["subscribe"].slot
             full == [active |-> TRUE, confirmed |-> TRUE,
                      id |-> pend["subscribe"].mid, req |-> pend["subscribe"].req]
  <2>1. s \in Slots /\ topics[s].active /\ ~topics[s].confirmed
        /\ ~TopicIdInUse(pend["subscribe"].mid)
    BY <1>5 DEF Matches, Owned, TopicsOwned, Reserved, Fresh
  <2>2. \A x \in Slots \ {s} : ~(topics[x].active /\ ~topics[x].confirmed)
    BY DEF Owned, TopicsOwned
  <2>3. pend'["subscribe"].state = "idle" /\ pend'["unsubscribe"] = pend["unsubscribe"]
    BY <1>0, <1>5 DEF ReadSuback, Complete
  <2>4. \/ topics' = [topics EXCEPT ![s] = Forget(topics[s])]
        \/ topics' = [topics EXCEPT ![s] = full]
    BY <1>5 DEF ReadSuback
  <2>5. ~Forget(topics[s]).active /\ Forget(topics[s]).id = topics[s].id
    BY <1>0, <2>1, ForgetTyped
  <2>6. full.active /\ full.confirmed /\ full.id = pend["subscribe"].mid
    OBVIOUS
  <2> HIDE DEF s, full
  <2>7. \A x \in Slots \ {s} : topics'[x] = topics[x]
    BY <1>0, <2>1, <2>4
  <2>a. topics'[s] = Forget(topics[s]) \/ topics'[s] = full
    BY <1>0, <2>1, <2>4
  <2>b. /\ ~(topics'[s].active /\ ~topics'[s].confirmed)
        /\ topics'[s].active => topics'[s].id = pend["subscribe"].mid
    BY <2>a, <2>5, <2>6
  <2>8. TopicsOwned'
    <3>1. \A x \in Slots : ~(topics'[x].active /\ ~topics'[x].confirmed)
      BY <2>2, <2>7, <2>b
    <3>2. pend["unsubscribe"].state # "idle" =>
            LET u == pend["unsubscribe"] IN
            u.slot \in Slots \ {s} /\ Confirmed(u.slot) /\ topics[u.slot].id = u.mid
      BY <2>1 DEF Owned, TopicsOwned, Reserved, Confirmed
    <3>3. \A x \in Slots \ {s} : Confirmed(x) => topics[x].id # pend["subscribe"].mid
      BY <2>1 DEF TopicIdInUse
    <3>4. \A x, y \in Slots : Confirmed(x)' /\ Confirmed(y)' /\ x # y
                                => topics'[x].id # topics'[y].id
      BY <2>7, <2>b, <3>3 DEF Owned, TopicsOwned, Confirmed
    <3> QED BY <2>3, <2>7, <3>1, <3>2, <3>4 DEF TopicsOwned, Confirmed
  <2>9. Reserved' /\ Fresh'
    BY <2>3 DEF Owned, Reserved, Fresh
  <2> QED BY <2>8, <2>9 DEF Owned
<1>6. CASE ReadUnsuback(t) /\ Matches("unsubscribe", "wait_unsuback")
  <2> DEFINE s == pend["unsubscribe"].slot
  <2>1. s \in Slots /\ Confirmed(s)
    BY <1>6 DEF Matches, Owned, TopicsOwned, Reserved
  <2>2. pend'["unsubscribe"].state = "idle" /\ pend'["subscribe"] = pend["subscribe"]
    BY <1>0, <1>6 DEF ReadUnsuback, Complete
  <2>3. topics' = [topics EXCEPT ![s] = Forget(topics[s])] /\ ~Forget(topics[s]).active
    BY <1>0, <1>6, <2>1, ForgetTyped DEF ReadUnsuback
  <2> HIDE DEF s
  <2>4. ~topics'[s].active /\ \A x \in Slots \ {s} : topics'[x] = topics[x]
    BY <1>0, <2>1, <2>3
  <2>5. TopicsOwned'
    <3>1. \A x \in Slots : topics'[x].active /\ ~topics'[x].confirmed
                             <=> pend'["subscribe"].state # "idle" /\ pend'["subscribe"].slot = x
      BY <2>1, <2>2, <2>4 DEF Owned, TopicsOwned, Confirmed
    <3>2. \A x, y \in Slots : Confirmed(x)' /\ Confirmed(y)' /\ x # y
                                => topics'[x].id # topics'[y].id
      BY <2>4 DEF Owned, TopicsOwned, Confirmed
    <3> QED BY <2>2, <3>1, <3>2 DEF TopicsOwned, Confirmed
  <2>6. Reserved' /\ Fresh'
    BY <2>2, <2>4 DEF Owned, Reserved, Fresh, TopicIdInUse, Confirmed
  <2> QED BY <2>5, <2>6 DEF Owned
<1>7. ASSUME NEW k, Unmatched(t, k)
      PROVE  UNCHANGED <<pend, topics>>
  BY <1>1, <1>7 DEF Unmatched
<1> QED BY <1>1, <1>2, <1>3, <1>4, <1>5, <1>6, <1>7
        DEF Reads, ReadPuback, ReadPubrec, ReadPubcomp, ReadSuback, ReadUnsuback, ReadPublish,
            ReadPingresp, ReadDispatch, Pass, client

\* They agree before the first connection ...
LEMMA OwnedInit == Init => Owned
BY OwnedWhenClear DEF Init, NoRequest, FreeTopic

\* ... and after every step.
LEMMA OwnedStep == Types /\ Owned /\ [Next]_vars => Owned'
<1> SUFFICES ASSUME Types, Owned, [Next]_vars PROVE Owned'
  OBVIOUS
<1>z. /\ pend \in [Kinds -> PendRecord] /\ topics \in [Slots -> TopicRecord]
      /\ "publish" \in Kinds /\ "subscribe" \in Kinds /\ "unsubscribe" \in Kinds
  BY DEF Types, TypeOK, TopicRecord, Kinds
<1>0. ASSUME NEW t \in Threads, NEW events, NEW then, AbortConnection(t, events, then)
      PROVE  Owned'
  <2>1. (\A k \in Kinds : pend[k].state = "idle")' /\ (\A s \in Slots : ~topics[s].active)'
    BY <1>0, AbortClears
  <2> QED BY <2>1 DEF Owned, TopicsOwned, Reserved, Fresh, Kinds, Confirmed
<1>1. ASSUME NEW t \in Threads, NEW req, Fail(t, req)
      PROVE  Owned'
  BY <1>0, <1>1 DEF Fail
<1>2. CASE UNCHANGED <<pend, topics>>
  BY <1>2, OwnedKept DEF Holds
<1>3. ASSUME NEW t \in Threads, Lives(t)
      PROVE  Owned'
  <2>1. CASE InitClient(t)
    <3>1. (\A k \in Kinds : pend[k].state = "idle")' /\ (\A s \in Slots : ~topics[s].active)'
      BY <1>z, <2>1, ForgetTyped, ReleasedTyped DEF InitClient
    <3> QED BY <3>1 DEF Owned, TopicsOwned, Reserved, Fresh, Kinds, Confirmed
  <2> QED BY <1>0, <1>2, <1>3, <2>1 DEF Lives, Connect, Disconnect, Deinit, client
<1>4. ASSUME NEW t \in Threads, DeinitEnds(t) \/ FireEvent(t) \/ GiveUp(t) \/ Poll(t) \/ Pass(t)
      PROVE  Owned'
  BY <1>2, <1>4 DEF DeinitEnds, FireEvent, GiveUp, Poll, Pass, client
<1>5. ASSUME NEW t \in Threads, Requesting(t)
      PROVE  Owned'
  BY <1>5, OwnedProceed DEF Requesting
<1>6. ASSUME NEW t \in Threads, Reads(t)
      PROVE  Owned'
  BY <1>0, <1>6, OwnedRead
<1>7. ASSUME NEW t \in Threads, PingSend(t) \/ PingCheckTimeout(t)
      PROVE  Owned'
  BY <1>0, <1>1, <1>2, <1>4, <1>7 DEF PingSend, PingCheckTimeout
<1>8. ASSUME NEW t \in Threads, NEW k \in Kinds, PollSend(t, k)
      PROVE  Owned'
  <2>1. CASE Pass(t) \/ Fail(t, pend[k].req)
    BY <1>1, <1>4, <2>1
  <2>2. CASE pend[k].state = "qos0" /\ topics' = topics
             /\ pend' = [pend EXCEPT ![k] = Released(pend[k])]
    <3>1. k = "publish"
      BY <2>2 DEF Types, TypeOK, SubscribeStates, UnsubscribeStates, Kinds
    <3> QED BY <1>z, <2>2, <3>1, OwnedKept DEF Holds
  <2>3. CASE pend[k].state \in Staged \ {"qos0"} /\ topics' = topics
             /\ pend' = [pend EXCEPT ![k].state = SentState(k)]
    <3>1. pend[k].state # "idle" /\ SentState(k) # "idle"
      BY <2>3 DEF Staged, SentState, WaitState, Kinds, Types, TypeOK, PublishStates
    <3>2. \A l \in Kinds : Holds(l)
      BY <1>z, <2>3, <3>1 DEF Holds, PendRecord
    <3> QED BY <1>z, <2>3, <3>2, OwnedKept
  <2> QED BY <1>8, <2>1, <2>2, <2>3 DEF PollSend
<1>9. ASSUME NEW t \in Threads, NEW k \in Kinds, CheckTimeout(t, k)
      PROVE  Owned'
  <2>1. CASE Pass(t)
    BY <1>4, <2>1
  <2>2. CASE TimeOut(t, k) /\ k # "subscribe"
    <3>1. topics' = topics /\ pend'["subscribe"] = pend["subscribe"]
          /\ \/ pend'["unsubscribe"] = pend["unsubscribe"]
             \/ pend'["unsubscribe"].state = "idle"
      BY <1>z, <2>2, ReleasedTyped DEF TimeOut, Kinds
    <3> QED BY <3>1 DEF Owned, TopicsOwned, Reserved, Fresh, TopicIdInUse, Confirmed
  <2>3. CASE TimeOut(t, k) /\ k = "subscribe"
    <3> DEFINE s == pend["subscribe"].slot
    <3>1. s \in Slots /\ topics[s].active /\ ~topics[s].confirmed
      BY <2>3 DEF TimeOut, Awaiting, Owned, TopicsOwned, Reserved
    <3>2. topics' = [topics EXCEPT ![s] = Forget(topics[s])] /\ ~Forget(topics[s]).active
          /\ pend'["subscribe"].state = "idle" /\ pend'["unsubscribe"] = pend["unsubscribe"]
      BY <1>z, <2>3, <3>1, ReleasedTyped, ForgetTyped DEF TimeOut
    <3> HIDE DEF s
    <3>3. ~topics'[s].active /\ \A x \in Slots \ {s} : topics'[x] = topics[x]
      BY <1>z, <3>1, <3>2
    <3>4. \A x \in Slots : Confirmed(x)' <=> Confirmed(x)
      BY <3>1, <3>3 DEF Confirmed
    <3>5. \A x \in Slots \ {s} : ~(topics[x].active /\ ~topics[x].confirmed)
      BY DEF Owned, TopicsOwned, s
    <3>6. \A x \in Slots : Confirmed(x) => x # s
      BY <3>1 DEF Confirmed
    <3>7. TopicsOwned'
      <4>1. \A x \in Slots : ~(topics'[x].active /\ ~topics'[x].confirmed)
        BY <3>3, <3>5
      <4>2. pend["unsubscribe"].state # "idle" =>
              LET u == pend["unsubscribe"] IN
              u.slot \in Slots \ {s} /\ Confirmed(u.slot) /\ topics[u.slot].id = u.mid
        BY <3>6 DEF Owned, TopicsOwned, Reserved
      <4>3. \A x, y \in Slots : Confirmed(x)' /\ Confirmed(y)' /\ x # y
                                  => topics'[x].id # topics'[y].id
        BY <3>3, <3>4, <3>6 DEF Owned, TopicsOwned
      <4> QED BY <3>2, <3>3, <4>1, <4>2, <4>3 DEF TopicsOwned, Confirmed
    <3>8. Reserved' /\ Fresh'
      BY <3>2 DEF Owned, Reserved, Fresh
    <3> QED BY <3>7, <3>8 DEF Owned
  <2> QED BY <1>9, <2>1, <2>2, <2>3 DEF CheckTimeout
<1>10. CASE Broker
  BY <1>2, <1>10 DEF Broker, BrokerAnswers, BrokerPushes, BrokerGoes
<1>11. CASE UNCHANGED vars
  BY <1>2, <1>11 DEF vars, client
<1> QED BY <1>3, <1>4, <1>5, <1>6, <1>7, <1>8, <1>9, <1>10, <1>11, NextCases DEF Threads

\* No reserved topic slot leaks, the outstanding unsubscribe frees the
\* subscription it was asked to and no other, and no two subscriptions share an
\* id, for tables of any size and whatever the broker answers.
THEOREM TopicsKept == Spec => []TopicsOwned
<1>1. Owned => TopicsOwned
  BY DEF Owned
<1> QED BY <1>1, TypesInit, TypesStep, OwnedInit, OwnedStep, PTL DEF Spec

-----------------------------------------------------------------------------
(* Every request is reported at most once.                                 *)

\* The fields of what a thread is put at.
LEMMA WhatIsDelivered ==
    /\ \A events, then : /\ Deliver(events, then).fire = events
                         /\ Deliver(events, then).pc = "fire"
                         /\ Deliver(events, then).then = then
    /\ Idle.fire = <<>> /\ Idle.then = "idle" /\ Idle.pc = "idle"
    /\ \A h : /\ [Idle EXCEPT !.pc = h].fire = <<>> /\ [Idle EXCEPT !.pc = h].then = "idle"
              /\ [Idle EXCEPT !.pc = h].pc = h
    /\ \A h, c : /\ [Idle EXCEPT !.pc = h, !.call = c].fire = <<>>
                /\ [Idle EXCEPT !.pc = h, !.call = c].then = "idle"
                /\ [Idle EXCEPT !.pc = h, !.call = c].pc = h
                /\ [Idle EXCEPT !.pc = h, !.call = c].call = c
BY DEF Deliver, Idle

\* These steps leave nothing to deliver.
LEMMA NothingToDeliver ==
    ASSUME NEW t \in Threads, Pass(t) \/ Poll(t) \/ GiveUp(t) \/ DeinitEnds(t)
    PROVE  \E what : Doing(t, what) /\ what.fire = <<>>
<1>1. \A what : Doing(t, what) /\ what.fire = <<>> => \E w : Doing(t, w) /\ w.fire = <<>>
  OBVIOUS
<1>2. CASE Pass(t)
  BY <1>1, <1>2, WhatIsDelivered DEF Pass
<1>3. CASE Poll(t)
  BY <1>1, <1>3, WhatIsDelivered DEF Poll
<1>4. CASE GiveUp(t) \/ DeinitEnds(t)
  BY <1>1, <1>4, WhatIsDelivered DEF GiveUp, DeinitEnds
<1> QED BY <1>2, <1>3, <1>4

\* One thread moves; the others' events are the same.
LEMMA Firing ==
    ASSUME Types, NEW t \in Threads, NEW what, Doing(t, what) \/ BroadcastThen(t, what)
    PROVE  /\ thread'[t] = what
           /\ \A u \in Threads \ {t} : thread'[u].fire = thread[u].fire
<1>1. thread \in [Threads -> ThreadRecord]
  BY DEF Types, ThreadOK
<1>2. CASE Doing(t, what)
  BY <1>1, <1>2 DEF Doing
<1>3. CASE BroadcastThen(t, what)
  BY <1>1, <1>3 DEF BroadcastThen, ThreadRecord
<1> QED BY <1>2, <1>3

\* A step that reports, with one event first in line, the requests it drops.
LEMMA OnceMoved ==
    ASSUME Types, Once, NEW t \in Threads, told' = told, made' = made,
           \A k \in Kinds : pend'[k].req \in {0, pend[k].req},
           \A u \in Threads \ {t} : thread'[u].fire = thread[u].fire,
           \A r \in Requests, i \in Nat : Delivering(t, i, r)' =>
             i = 1 /\ (\E k \in Kinds : pend[k].req = r) /\ \A k \in Kinds : pend'[k].req # r
    PROVE  Once'
<1>1. \A r \in Requests : r # 0
  BY DEF Requests
<1>2. \A u \in Threads \ {t}, i \in Nat, r \in Requests : Delivering(u, i, r)' <=> Delivering(u, i, r)
  BY DEF Delivering
<1>3. \A r \in Requests, k \in Kinds : pend'[k].req = r => pend[k].req = r
  BY <1>1
<1>4. \A r \in Requests : Told(r)' <=> Told(r)
  BY DEF Told
<1>5. \A r \in Requests, i \in Nat : Delivering(t, i, r)' =>
        /\ i = 1
        /\ ~Told(r) /\ ~(r > made)
        /\ \A u \in Threads, j \in Nat : ~Delivering(u, j, r)
        /\ \A k \in Kinds : pend'[k].req # r
  BY DEF Once
<1> HIDE DEF Delivering, Told
<1>a. \A r \in Requests : told'[r] <= 1
  BY DEF Once
<1>b. \A r \in Requests : r > made' =>
        /\ ~Told(r)'
        /\ \A k \in Kinds : pend'[k].req # r
        /\ \A u \in Threads : \A i \in Nat : ~Delivering(u, i, r)'
  BY <1>2, <1>3, <1>4, <1>5 DEF Once
<1>c. \A r \in Requests : Told(r)' =>
        /\ \A k \in Kinds : pend'[k].req # r
        /\ \A u \in Threads : \A i \in Nat : ~Delivering(u, i, r)'
  BY <1>2, <1>3, <1>4, <1>5 DEF Once
<1>d. \A r \in Requests : \A k \in Kinds : \A u \in Threads : \A i \in Nat :
        ~(pend'[k].req = r /\ Delivering(u, i, r)')
  BY <1>2, <1>3, <1>5 DEF Once
<1>e. \A r \in Requests : \A k, l \in Kinds : pend'[k].req = r /\ pend'[l].req = r => k = l
  BY <1>3 DEF Once
<1>f. \A r \in Requests : \A u, v \in Threads : \A i, j \in Nat :
        Delivering(u, i, r)' /\ Delivering(v, j, r)' => u = v /\ i = j
  BY <1>2, <1>5 DEF Once
<1> QED BY <1>a, <1>b, <1>c, <1>d, <1>e, <1>f DEF Once

\* A step that reports nothing and drops what it likes.
LEMMA OnceDropped ==
    ASSUME Types, Once, told' = told, made' = made, thread' = thread,
           \A k \in Kinds : pend'[k].req \in {0, pend[k].req}
    PROVE  Once'
<1>1. \A r \in Requests : r # 0
  BY DEF Requests
<1>2. \A r \in Requests, k \in Kinds : pend'[k].req = r => pend[k].req = r
  BY <1>1
<1> QED BY <1>2 DEF Once, Told, Delivering

\* A thread with no event to deliver reports nothing.
LEMMA NoneToDeliver ==
    ASSUME NEW t \in Threads, thread'[t].fire = <<>>, NEW r \in Requests, NEW i \in Nat
    PROVE  ~Delivering(t, i, r)'
<1>1. DOMAIN <<>> = {}
  OBVIOUS
<1> QED BY <1>1 DEF Delivering

\* A thread with one report to deliver reports that and nothing else.
LEMMA OneToDeliver ==
    ASSUME NEW t \in Threads, NEW kind, NEW req,
           \/ thread'[t].fire = <<Event(kind, req)>>
           \/ thread'[t].fire = <<Event(kind, req), Event("disconnected", 0)>>,
           NEW r \in Requests, NEW i \in Nat, Delivering(t, i, r)'
    PROVE  i = 1 /\ req = r
<1>1. r # 0
  BY DEF Requests
<1>2. CASE thread'[t].fire = <<Event(kind, req)>>
  BY <1>2 DEF Delivering, Event
<1>3. CASE thread'[t].fire = <<Event(kind, req), Event("disconnected", 0)>>
  <2>1. i \in {1, 2} /\ thread'[t].fire[i].req = r
    BY <1>3 DEF Delivering
  <2>2. thread'[t].fire[1] = Event(kind, req) /\ thread'[t].fire[2] = Event("disconnected", 0)
    BY <1>3
  <2> QED BY <1>1, <2>1, <2>2 DEF Event
<1> QED BY <1>2, <1>3

\* The end of a connection drops all requests and reports at most one.
LEMMA OnceAborted ==
    ASSUME Types, Once, NEW t \in Threads, NEW then,
           \/ AbortConnection(t, Disconnected, then)
           \/ Fail(t, 0)
           \/ \E k \in Kinds : Fail(t, pend[k].req)
    PROVE  Once'
<1>1. PICK events, th : AbortConnection(t, events, th) /\
           \/ events = Disconnected
           \/ events = <<Event("error", 0)>> \o Disconnected
           \/ \E k \in Kinds : events = <<Event("error", pend[k].req)>> \o Disconnected
  BY DEF Fail
<1>2. told' = told /\ made' = made
  BY <1>1 DEF AbortConnection, ghosts
<1>3. \A k \in Kinds : pend'[k].req = 0
  BY <1>1, AbortClears
<1>4. thread'[t].fire = events /\ \A u \in Threads \ {t} : thread'[u].fire = thread[u].fire
  <2>1. BroadcastThen(t, Deliver(events, th))
    BY <1>1 DEF AbortConnection
  <2> QED BY <2>1, Firing, WhatIsDelivered
<1>5. ASSUME NEW r \in Requests, NEW i \in Nat, Delivering(t, i, r)'
      PROVE  i = 1 /\ (\E k \in Kinds : pend[k].req = r)
  <2>0. r # 0
    BY DEF Requests
  <2>z. 0 \in 0..MaxRequests /\ "error" \in EventKinds /\ \A k \in Kinds : pend[k].req \in 0..MaxRequests
    BY MqttAssumption DEF EventKinds, Completions, Types, TypeOK, PendRecord
  <2>1. CASE events = Disconnected
    BY <1>4, <1>5, <2>0, <2>1, OneToDeliver DEF Disconnected
  <2>2. CASE events = <<Event("error", 0)>> \o Disconnected
    <3>1. events = <<Event("error", 0), Event("disconnected", 0)>>
      BY <2>2, <2>z, ProperEvents
    <3> QED BY <1>4, <1>5, <2>0, <3>1, OneToDeliver
  <2>3. CASE \E k \in Kinds : events = <<Event("error", pend[k].req)>> \o Disconnected
    <3>1. PICK k \in Kinds : events = <<Event("error", pend[k].req), Event("disconnected", 0)>>
      BY <2>3, <2>z, ProperEvents
    <3>2. i = 1 /\ pend[k].req = r
      BY <1>4, <1>5, <3>1, OneToDeliver
    <3> QED BY <3>2
  <2> QED BY <1>1, <2>1, <2>2, <2>3
<1>6. \A r \in Requests : r # 0
  BY DEF Requests
<1> QED BY <1>2, <1>3, <1>4, <1>5, <1>6, OnceMoved

\* A step of a thread with nothing to deliver afterwards.
LEMMA OnceQuiet ==
    ASSUME Types, Once, NEW t \in Threads, NEW what, Doing(t, what) \/ BroadcastThen(t, what),
           \/ what.fire = <<>>
           \/ \E kind : what.fire = <<Event(kind, 0)>>,
           told' = told, made' = made,
           \A k \in Kinds : pend'[k].req \in {0, pend[k].req}
    PROVE  Once'
<1>1. thread'[t].fire = what.fire /\ \A u \in Threads \ {t} : thread'[u].fire = thread[u].fire
  BY Firing
<1>2. \A r \in Requests, i \in Nat : ~Delivering(t, i, r)'
  <2>1. \A r \in Requests : r # 0
    BY DEF Requests
  <2> QED BY <1>1, <2>1, NoneToDeliver, OneToDeliver
<1> QED BY <1>1, <1>2, OnceMoved

\* The step that ends the request in slot k and reports it.
LEMMA OnceReported ==
    ASSUME Types, Once, NEW t \in Threads, NEW k \in Kinds, NEW kind, NEW p,
           p.req = 0, pend' = [pend EXCEPT ![k] = p],
           BroadcastThen(t, Deliver(<<Event(kind, pend[k].req)>>, "idle")),
           told' = told, made' = made
    PROVE  Once'
<1>0. pend \in [Kinds -> PendRecord]
  BY DEF Types, TypeOK
<1>1. thread'[t].fire = <<Event(kind, pend[k].req)>>
      /\ \A u \in Threads \ {t} : thread'[u].fire = thread[u].fire
  BY Firing, WhatIsDelivered
<1>2. pend'[k].req = 0 /\ \A l \in Kinds \ {k} : pend'[l] = pend[l]
  BY <1>0
<1>3. \A r \in Requests : r # 0
  BY DEF Requests
<1>4. ASSUME NEW r \in Requests, NEW i \in Nat, Delivering(t, i, r)'
      PROVE  i = 1 /\ pend[k].req = r /\ \A l \in Kinds : pend'[l].req # r
  <2>1. i = 1 /\ pend[k].req = r
    BY <1>1, <1>4, OneToDeliver
  <2>2. \A l \in Kinds : pend[l].req = r => l = k
    BY <2>1 DEF Once
  <2> QED BY <1>2, <1>3, <2>1, <2>2
<1>5. \A l \in Kinds : pend'[l].req \in {0, pend[l].req}
  BY <1>2
<1> QED BY <1>1, <1>4, <1>5, OnceMoved

\* The request staged next is new to everybody.
LEMMA OnceStaged ==
    ASSUME Types, Once, NEW t \in Threads, NEW call \in Calls, Proceed(t, call)
    PROVE  Once'
<1>0. pend \in [Kinds -> PendRecord] /\ made \in Nat
      /\ "publish" \in Kinds /\ "subscribe" \in Kinds /\ "unsubscribe" \in Kinds
  BY MqttAssumption DEF Types, TypeOK, GhostsOK, Kinds
<1>1. /\ thread'[t].fire = <<>> /\ \A u \in Threads \ {t} : thread'[u].fire = thread[u].fire
      /\ told' = told
  <2>1. \E what : Doing(t, what) /\ what.fire = <<>>
    <3>1. Doing(t, Idle) \/ Doing(t, [Idle EXCEPT !.pc = "asleep", !.call = call])
      BY DEF Proceed
    <3>2. Idle.fire = <<>> /\ [Idle EXCEPT !.pc = "asleep", !.call = call].fire = <<>>
      BY WhatIsDelivered
    <3> QED BY <3>1, <3>2
  <2> QED BY <2>1, Firing DEF Proceed
<1>2. CASE made' = made /\ pend' = pend
  <2>1. \A r \in Requests, i \in Nat : ~Delivering(t, i, r)'
    BY <1>1, NoneToDeliver
  <2> QED BY <1>1, <1>2, <2>1, OnceMoved
<1>3. ASSUME NEW k \in Kinds, NEW p, pend' = [pend EXCEPT ![k] = p], p.req = made + 1, made' = made + 1
      PROVE  Once'
  <2>1. pend'[k].req = made + 1 /\ \A l \in Kinds \ {k} : pend'[l] = pend[l]
    BY <1>0, <1>3
  <2>2. \A r \in Requests : \A u \in Threads, i \in Nat : Delivering(u, i, r)' => Delivering(u, i, r)
    <3>1. \A r \in Requests, i \in Nat : ~Delivering(t, i, r)'
      BY <1>1, NoneToDeliver
    <3> QED BY <1>1, <3>1 DEF Delivering
  <2>3. \A r \in Requests : Told(r)' <=> Told(r)
    BY <1>1 DEF Told
  <2>4. \A r \in Requests : r \in Int /\ (r > made + 1 => r > made /\ r # made + 1)
    BY <1>0, MqttAssumption DEF Requests
  <2>5. made + 1 > made
    BY <1>0
  <2> HIDE DEF Delivering, Told
  <2>a. \A r \in Requests : told'[r] <= 1
    BY <1>1 DEF Once
  <2>b. \A r \in Requests : r > made' =>
          /\ ~Told(r)'
          /\ \A l \in Kinds : pend'[l].req # r
          /\ \A u \in Threads : \A i \in Nat : ~Delivering(u, i, r)'
    BY <1>3, <2>1, <2>2, <2>3, <2>4 DEF Once
  <2>6. made + 1 \in Requests =>
          /\ ~Told(made + 1) /\ \A l \in Kinds : pend[l].req # made + 1
          /\ \A u \in Threads : \A i \in Nat : ~Delivering(u, i, made + 1)
    BY <2>5 DEF Once
  <2>c. \A r \in Requests : Told(r)' =>
          /\ \A l \in Kinds : pend'[l].req # r
          /\ \A u \in Threads : \A i \in Nat : ~Delivering(u, i, r)'
    BY <2>1, <2>2, <2>3, <2>6 DEF Once
  <2>d. \A r \in Requests : \A l \in Kinds : \A u \in Threads : \A i \in Nat :
          ~(pend'[l].req = r /\ Delivering(u, i, r)')
    BY <2>1, <2>2, <2>6 DEF Once
  <2>e. \A r \in Requests : \A l, m \in Kinds : pend'[l].req = r /\ pend'[m].req = r => l = m
    BY <2>1, <2>6 DEF Once
  <2>f. \A r \in Requests : \A u, v \in Threads : \A i, j \in Nat :
          Delivering(u, i, r)' /\ Delivering(v, j, r)' => u = v /\ i = j
    BY <2>2 DEF Once
  <2> QED BY <2>a, <2>b, <2>c, <2>d, <2>e, <2>f DEF Once
<1>4. ASSUME NEW k \in Kinds, NEW request \in PendRecord, Stage(k, request)
      PROVE  Once'
  <2>1. [request EXCEPT !.req = made + 1, !.tomb = pend[k].tomb].req = made + 1
    BY DEF PendRecord
  <2> QED BY <1>3, <1>4, <2>1 DEF Stage
<1>5. \/ made' = made /\ pend' = pend
      \/ \E k \in Kinds : \E request : Stage(k, request) /\ DOMAIN request = DOMAIN NoRequest
  <2>1. CASE \E qos : StagePublish(qos)
    <3>1. PICK qos : StagePublish(qos)
      BY <2>1
    <3>2. \E x, y : Stage("publish", [NoRequest EXCEPT !.state = qos, !.mid = x, !.pid = y])
      BY <3>1 DEF StagePublish
    <3> QED BY <1>0, <3>2 DEF NoRequest
  <2>2. CASE StageSubscribe
    <3>1. \E s, x, y : Stage("subscribe", [NoRequest EXCEPT !.state = "requesting", !.slot = s,
                                            !.mid = x, !.pid = y])
      BY <2>2 DEF StageSubscribe
    <3> QED BY <1>0, <3>1 DEF NoRequest
  <2>3. CASE \E id : StageUnsubscribe(id)
    <3>1. \E s, x, y : Stage("unsubscribe", [NoRequest EXCEPT !.state = "requesting", !.mid = x,
                                              !.slot = s, !.pid = y])
      BY <2>3 DEF StageUnsubscribe
    <3> QED BY <1>0, <3>1 DEF NoRequest
  <2>4. \/ UNCHANGED <<pend, made>>
        \/ \E qos : StagePublish(qos)
        \/ StageSubscribe
        \/ \E id : StageUnsubscribe(id)
    BY DEF Proceed
  <2> QED BY <2>1, <2>2, <2>3, <2>4
<1>6. ASSUME NEW k \in Kinds, NEW request, Stage(k, request), DOMAIN request = DOMAIN NoRequest
      PROVE  Once'
  <2>1. "req" \in DOMAIN NoRequest
    BY DEF NoRequest
  <2>2. [request EXCEPT !.req = made + 1, !.tomb = pend[k].tomb].req = made + 1
    BY <1>6, <2>1
  <2> QED BY <1>3, <1>6, <2>2 DEF Stage
<1> QED BY <1>2, <1>5, <1>6

\* An event goes to the callback and leaves the line.
LEMMA OnceFired ==
    ASSUME Types, Once, NEW t \in Threads, FireEvent(t)
    PROVE  Once'
<1> DEFINE f == thread[t].fire
           e == Head(f)
<1>0. thread \in [Threads -> ThreadRecord] /\ f \in Seq(EventRecord) /\ f # <<>>
      /\ thread[t] \in ThreadRecord
  BY DEF Types, ThreadOK, ThreadRecord, FireEvent, At
<1>1. e \in EventRecord /\ e = f[1] /\ 1 \in DOMAIN f /\ Tail(f) \in Seq(EventRecord)
      /\ \A i \in DOMAIN Tail(f) : i \in Nat /\ i + 1 \in DOMAIN f /\ i + 1 # 1 /\ Tail(f)[i] = f[i + 1]
  <2>1. Len(f) \in Nat \ {0}
    BY <1>0, EmptySeq
  <2> QED BY <1>0, <2>1
<1>2. /\ \/ thread'[t].fire = Tail(f)
         \/ thread'[t].fire = <<>>
      /\ \A u \in Threads \ {t} : thread'[u].fire = thread[u].fire
      /\ pend' = pend /\ made' = made
  <2>1. \E what : Doing(t, what) /\ what.fire \in {Tail(f), <<>>}
    <3>1. [thread[t] EXCEPT !.fire = Tail(f)].fire = Tail(f)
      BY <1>0 DEF ThreadRecord
    <3>2. [Idle EXCEPT !.pc = thread[t].then].fire = <<>>
      BY WhatIsDelivered
    <3>3. \/ Doing(t, [thread[t] EXCEPT !.fire = Tail(f)])
          \/ Doing(t, [Idle EXCEPT !.pc = thread[t].then])
      BY DEF FireEvent
    <3> QED BY <3>1, <3>2, <3>3
  <2> QED BY <2>1, Firing DEF FireEvent, client
<1>3. told' = told \/ (e.req \in Requests /\ told' = [told EXCEPT ![e.req] = @ + 1])
  BY <1>1, MqttAssumption DEF FireEvent, EventRecord, Requests
<1>4. ASSUME NEW r \in Requests, NEW i \in Nat, Delivering(t, i, r)'
      PROVE  Delivering(t, i + 1, r) /\ i + 1 # 1 /\ i + 1 \in Nat
  <2>1. thread'[t].fire = Tail(f)
    BY <1>2, <1>4, NoneToDeliver
  <2> QED BY <1>1, <1>4, <2>1 DEF Delivering
<1>5. \A r \in Requests : \A u \in Threads \ {t}, i \in Nat : Delivering(u, i, r)' <=> Delivering(u, i, r)
  BY <1>2 DEF Delivering
<1>6. e.req \in Requests => Delivering(t, 1, e.req)
  BY <1>1 DEF Delivering
<1>7. \A i, j \in Nat : i + 1 = j + 1 => i = j
  OBVIOUS
<1>8. told \in [Requests -> Nat]
  BY DEF Types, GhostsOK
<1> HIDE DEF e, f, Delivering
<1>9. CASE told' = told
  <2>1. \A r \in Requests : Told(r)' <=> Told(r)
    BY <1>9 DEF Told
  <2> HIDE DEF Told
  <2>2. \A r \in Requests, u \in Threads, i \in Nat : Delivering(u, i, r)' =>
          \E j \in Nat : Delivering(u, j, r)
    BY <1>4, <1>5
  <2>f. \A r \in Requests : \A u, v \in Threads : \A i, j \in Nat :
          Delivering(u, i, r)' /\ Delivering(v, j, r)' => u = v /\ i = j
    <3> SUFFICES ASSUME NEW r \in Requests, NEW u \in Threads, NEW v \in Threads, NEW i \in Nat, NEW j \in Nat,
                        Delivering(u, i, r)', Delivering(v, j, r)'
                 PROVE  u = v /\ i = j
      OBVIOUS
    <3>1. u = v
      BY <2>2 DEF Once
    <3>2. CASE u = t
      <4>1. Delivering(t, i + 1, r) /\ Delivering(t, j + 1, r) /\ i + 1 \in Nat /\ j + 1 \in Nat
        BY <1>4, <3>1, <3>2
      <4>2. i + 1 = j + 1
        BY <4>1 DEF Once
      <4> QED BY <1>7, <3>1, <4>2
    <3>3. CASE u # t
      BY <1>5, <3>1, <3>3 DEF Once
    <3> QED BY <3>2, <3>3
  <2> QED BY <1>2, <1>9, <2>1, <2>2, <2>f DEF Once
<1>10. CASE e.req \in Requests /\ told' = [told EXCEPT ![e.req] = @ + 1]
  <2>0. PICK q \in Requests : q = e.req
    BY <1>10
  <2>1. q \in Requests /\ Delivering(t, 1, q) /\ 1 \in Nat
    BY <1>6, <2>0
  <2>2. /\ ~Told(q) /\ ~(q > made) /\ \A k \in Kinds : pend[k].req # q
        /\ \A u \in Threads, j \in Nat : Delivering(u, j, q) => u = t /\ j = 1
    BY <2>1 DEF Once
  <2>3. \A u \in Threads, j \in Nat : ~Delivering(u, j, q)'
    <3> SUFFICES ASSUME NEW u \in Threads, NEW j \in Nat, Delivering(u, j, q)'
                 PROVE  FALSE
      OBVIOUS
    <3>1. CASE u = t
      <4>1. Delivering(t, j + 1, q) /\ j + 1 # 1 /\ j + 1 \in Nat
        BY <1>4, <2>1, <3>1
      <4> QED BY <2>2, <4>1
    <3>2. CASE u # t
      BY <1>5, <2>1, <2>2, <3>2
    <3> QED BY <3>1, <3>2
  <2>4. told'[q] = 1 /\ \A r \in Requests \ {q} : told'[r] = told[r]
    BY <1>8, <1>10, <2>0, <2>2 DEF Told
  <2>5. \A r \in Requests \ {q} : Told(r)' <=> Told(r)
    BY <2>4 DEF Told
  <2> HIDE DEF Told
  <2>6. \A r \in Requests, u \in Threads, i \in Nat : Delivering(u, i, r)' =>
          \E j \in Nat : Delivering(u, j, r)
    BY <1>4, <1>5
  <2>a. \A r \in Requests : told'[r] <= 1
    BY <2>4 DEF Once
  <2>b. \A r \in Requests : r > made' =>
          /\ ~Told(r)'
          /\ \A k \in Kinds : pend'[k].req # r
          /\ \A u \in Threads : \A i \in Nat : ~Delivering(u, i, r)'
    <3>1. \A r \in Requests : r > made' => r # q /\ r > made
      BY <1>2, <2>2
    <3> QED BY <1>2, <2>5, <2>6, <3>1 DEF Once
  <2>c. \A r \in Requests : Told(r)' =>
          /\ \A k \in Kinds : pend'[k].req # r
          /\ \A u \in Threads : \A i \in Nat : ~Delivering(u, i, r)'
    <3> SUFFICES ASSUME NEW r \in Requests, Told(r)'
                 PROVE  /\ \A k \in Kinds : pend'[k].req # r
                        /\ \A u \in Threads : \A i \in Nat : ~Delivering(u, i, r)'
      OBVIOUS
    <3>1. CASE r = q
      BY <1>2, <2>2, <2>3, <3>1
    <3>2. CASE r # q
      BY <1>2, <2>5, <2>6, <3>2 DEF Once
    <3> QED BY <3>1, <3>2
  <2>d. \A r \in Requests : \A k \in Kinds : \A u \in Threads : \A i \in Nat :
          ~(pend'[k].req = r /\ Delivering(u, i, r)')
    BY <1>2, <2>6 DEF Once
  <2>e. \A r \in Requests : \A k, l \in Kinds : pend'[k].req = r /\ pend'[l].req = r => k = l
    BY <1>2 DEF Once
  <2>f. \A r \in Requests : \A u, v \in Threads : \A i, j \in Nat :
          Delivering(u, i, r)' /\ Delivering(v, j, r)' => u = v /\ i = j
    <3> SUFFICES ASSUME NEW r \in Requests, NEW u \in Threads, NEW v \in Threads, NEW i \in Nat, NEW j \in Nat,
                        Delivering(u, i, r)', Delivering(v, j, r)'
                 PROVE  u = v /\ i = j
      OBVIOUS
    <3>1. u = v
      BY <2>6 DEF Once
    <3>2. CASE u = t
      <4>1. Delivering(t, i + 1, r) /\ Delivering(t, j + 1, r) /\ i + 1 \in Nat /\ j + 1 \in Nat
        BY <1>4, <3>1, <3>2
      <4>2. i + 1 = j + 1
        BY <4>1 DEF Once
      <4> QED BY <1>7, <3>1, <4>2
    <3>3. CASE u # t
      BY <1>5, <3>1, <3>3 DEF Once
    <3> QED BY <3>2, <3>3
  <2> QED BY <2>a, <2>b, <2>c, <2>d, <2>e, <2>f DEF Once
<1> QED BY <1>3, <1>9, <1>10

\* Nothing is reported at first ...
LEMMA OnceInit == Init => Once
<1> SUFFICES ASSUME Init PROVE Once
  OBVIOUS
<1>1. \A r \in Requests : r # 0
  BY DEF Requests
<1>2. \A r \in Requests : ~Told(r) /\ told[r] <= 1
  BY DEF Init, Told
<1>3. \A r \in Requests, k \in Kinds : pend[k].req # r
  BY <1>1 DEF Init, NoRequest
<1>4. \A r \in Requests, t \in Threads, i \in Nat : ~Delivering(t, i, r)
  <2>1. DOMAIN <<>> = {}
    OBVIOUS
  <2> QED BY <2>1 DEF Init, Delivering, Idle
<1> QED BY <1>2, <1>3, <1>4 DEF Once

\* ... and nothing twice later.
LEMMA OnceStep == Types /\ Once /\ [Next]_vars => Once'
<1> SUFFICES ASSUME Types, Once, [Next]_vars PROVE Once'
  OBVIOUS
<1>z. /\ pend \in [Kinds -> PendRecord]
      /\ "publish" \in Kinds /\ "subscribe" \in Kinds /\ "unsubscribe" \in Kinds
  BY DEF Types, TypeOK, Kinds
<1>0. ASSUME NEW t \in Threads, Pass(t) \/ Poll(t) \/ GiveUp(t) \/ DeinitEnds(t)
      PROVE  Once'
  <2>1. \E what : Doing(t, what) /\ what.fire = <<>>
    BY <1>0, NothingToDeliver
  <2>2. told' = told /\ made' = made /\ pend' = pend
    BY <1>0 DEF Pass, Poll, GiveUp, DeinitEnds, client, ghosts
  <2> QED BY <2>1, <2>2, OnceQuiet
<1>1. ASSUME NEW t \in Threads, Lives(t)
      PROVE  Once'
  <2>1. CASE InitClient(t)
    <3>1. \A k \in Kinds : pend'[k].req = 0
      BY <2>1, ReleasedTyped DEF InitClient, NoRequest
    <3> QED BY <2>1, <3>1, OnceDropped DEF InitClient, ghosts
  <2>2. CASE Connect(t)
    <3>1. Deliver(<<Event("connected", 0)>>, "idle").fire = <<Event("connected", 0)>>
      BY WhatIsDelivered
    <3> QED BY <2>2, <3>1, OnceQuiet DEF Connect
  <2>3. CASE Disconnect(t)
    BY <2>3, OnceAborted DEF Disconnect
  <2>4. CASE Deinit(t) /\ connected
    BY <2>4, OnceAborted DEF Deinit
  <2>5. CASE Deinit(t) /\ ~connected
    <3>1. [Idle EXCEPT !.pc = "deinit"].fire = <<>>
      BY WhatIsDelivered
    <3> QED BY <2>5, <3>1, OnceQuiet DEF Deinit, client, ghosts
  <2> QED BY <1>1, <2>1, <2>2, <2>3, <2>4, <2>5 DEF Lives
<1>2. ASSUME NEW t \in Threads, Requesting(t)
      PROVE  Once'
  BY <1>2, OnceStaged DEF Requesting
<1>3. ASSUME NEW t \in Threads, NEW k \in Kinds, Complete(t, k, "sent") \/ Complete(t, k, "subscribed")
                    \/ Complete(t, k, "unsubscribed") \/ Complete(t, k, "error")
      PROVE  Once'
  <2>1. Released(pend[k]).req = 0
    BY <1>z, ReleasedTyped
  <2> QED BY <1>3, <2>1, OnceReported DEF Complete, StillConnected, ghosts
<1>4. ASSUME NEW t \in Threads, NEW k \in Kinds, Unmatched(t, k)
      PROVE  Once'
  <2>1. Idle.fire = <<>>
    BY WhatIsDelivered
  <2> QED BY <1>4, <2>1, OnceQuiet, OnceAborted DEF Unmatched, StillConnected, ghosts
<1>5. ASSUME NEW t \in Threads, Reads(t)
      PROVE  Once'
  <2>1. CASE ReadPuback(t) \/ ReadPubcomp(t) \/ ReadSuback(t) \/ ReadUnsuback(t)
    BY <1>z, <1>3, <1>4, <2>1 DEF ReadPuback, ReadPubcomp, ReadSuback, ReadUnsuback
  <2>2. CASE ReadPubrec(t)
    <3>1. CASE /\ pend' = [pend EXCEPT !["publish"].state = "wait_pubcomp"]
               /\ Doing(t, Idle) /\ StillConnected
      <4>1. \A k \in Kinds : pend'[k].req = pend[k].req
        BY <1>z, <3>1 DEF PendRecord
      <4>2. Idle.fire = <<>>
        BY WhatIsDelivered
      <4> QED BY <3>1, <4>1, <4>2, OnceQuiet DEF StillConnected, ghosts
    <3> QED BY <1>z, <1>4, <2>2, <3>1, OnceAborted DEF ReadPubrec
  <2>3. CASE ReadPublish(t)
    <3>1. Deliver(<<Event("received", 0)>>, "idle").fire = <<Event("received", 0)>>
      BY WhatIsDelivered
    <3> QED BY <2>3, <3>1, OnceQuiet, OnceAborted DEF ReadPublish, StillConnected, ghosts
  <2>4. CASE ReadPingresp(t)
    <3>1. Idle.fire = <<>>
      BY WhatIsDelivered
    <3> QED BY <2>4, <3>1, OnceQuiet DEF ReadPingresp, StillConnected, ghosts
  <2>5. CASE ReadDispatch(t)
    BY <1>0, <2>5, OnceAborted DEF ReadDispatch
  <2> QED BY <1>5, <2>1, <2>2, <2>3, <2>4, <2>5 DEF Reads
<1>6. ASSUME NEW t \in Threads, PingSend(t) \/ PingCheckTimeout(t)
      PROVE  Once'
  <2>1. Idle.fire = <<>>
    BY WhatIsDelivered
  <2> QED BY <1>0, <1>6, <2>1, OnceQuiet, OnceAborted DEF PingSend, PingCheckTimeout, ghosts
<1>7. ASSUME NEW t \in Threads, NEW k \in Kinds, PollSend(t, k)
      PROVE  Once'
  <2>1. CASE Pass(t) \/ Fail(t, pend[k].req)
    BY <1>0, <2>1, OnceAborted
  <2>2. CASE /\ pend' = [pend EXCEPT ![k] = Released(pend[k])]
             /\ BroadcastThen(t, Deliver(<<Event("sent", pend[k].req)>>, "idle"))
             /\ told' = told /\ made' = made
    <3>1. Released(pend[k]).req = 0
      BY <1>z, ReleasedTyped
    <3> QED BY <2>2, <3>1, OnceReported
  <2>3. CASE pend' = [pend EXCEPT ![k].state = SentState(k)] /\ Doing(t, Idle)
             /\ told' = told /\ made' = made
    <3>1. \A l \in Kinds : pend'[l].req = pend[l].req
      BY <1>z, <2>3 DEF PendRecord
    <3>2. Idle.fire = <<>>
      BY WhatIsDelivered
    <3> QED BY <2>3, <3>1, <3>2, OnceQuiet
  <2> QED BY <1>7, <2>1, <2>2, <2>3 DEF PollSend
<1>8. ASSUME NEW t \in Threads, NEW k \in Kinds, CheckTimeout(t, k)
      PROVE  Once'
  <2>1. CASE TimeOut(t, k)
    <3>1. [NoRequest EXCEPT !.tomb = pend[k].pid].req = 0
      BY DEF NoRequest
    <3> QED BY <2>1, <3>1, OnceReported DEF TimeOut, ghosts
  <2> QED BY <1>0, <1>8, <2>1 DEF CheckTimeout
<1>9. CASE Broker
  <2>1. told' = told /\ made' = made /\ thread' = thread /\ pend' = pend
    BY <1>9 DEF Broker, BrokerAnswers, BrokerPushes, BrokerGoes, ghosts
  <2> QED BY <2>1, OnceDropped
<1>10. CASE UNCHANGED vars
  <2>1. told' = told /\ made' = made /\ thread' = thread /\ pend' = pend
    BY <1>10 DEF vars, client, ghosts
  <2> QED BY <2>1, OnceDropped
<1> QED BY <1>0, <1>1, <1>2, <1>5, <1>6, <1>7, <1>8, <1>9, <1>10, NextCases, OnceFired DEF Threads

\* A set whose elements are all the same has at most one.
LEMMA AtMostOneElement ==
    ASSUME NEW S, \A x, y \in S : x = y
    PROVE  Cardinality(S) \in {0, 1} /\ (S = {} => Cardinality(S) = 0)
<1>1. CASE S = {}
  BY <1>1, FS_EmptySet
<1>2. CASE S # {}
  <2>1. PICK x : S = {x}
    BY <1>2
  <2> QED BY <1>2, <2>1, FS_Singleton
<1> QED BY <1>1, <1>2

\* Counted as module Mqtt counts it: reports made, to be made, and requests yet
\* to be reported are at most one between them.
LEMMA OnceIsOnce == Types /\ Once => ReportedOnce
<1> SUFFICES ASSUME Types, Once, NEW r \in Requests
             PROVE  told[r] + Cardinality(ToDeliver(r)) + Cardinality(Outstanding(r)) <= 1
  BY DEF ReportedOnce
<1>1. told[r] \in {0, 1}
  BY DEF Once, Types, GhostsOK
<1>2. \A x \in ToDeliver(r) : \E t \in Threads, i \in Nat : x = <<t, i>> /\ Delivering(t, i, r)
  <2> SUFFICES ASSUME NEW x \in ToDeliver(r)
               PROVE  \E t \in Threads, i \in Nat : x = <<t, i>> /\ Delivering(t, i, r)
    OBVIOUS
  <2>1. PICK t \in Threads : x \in {<<t, j>> : j \in DOMAIN thread[t].fire}
    BY DEF ToDeliver
  <2>2. PICK i \in DOMAIN thread[t].fire : x = <<t, i>>
    BY <2>1
  <2>3. thread[t].fire[i].req = r
    BY <2>2 DEF ToDeliver
  <2>4. i \in Nat
    BY DEF Types, ThreadOK, ThreadRecord
  <2> QED BY <2>2, <2>3, <2>4 DEF Delivering
<1>3. \A x, y \in ToDeliver(r) : x = y
  BY <1>2 DEF Once
<1>4. \A x, y \in Outstanding(r) : x = y
  BY DEF Outstanding, Once
<1>5. ToDeliver(r) = {} \/ Outstanding(r) = {}
  BY <1>2 DEF Outstanding, Once
<1>6. told[r] = 1 => ToDeliver(r) = {} /\ Outstanding(r) = {}
  BY <1>2 DEF Outstanding, Once, Told
<1> QED BY <1>1, <1>3, <1>4, <1>5, <1>6, AtMostOneElement

\* A request is reported at most once, by one event, whether its reply, its
\* time-out and the loss of its connection come together or not, and whichever
\* thread sees which.
THEOREM ReportsAreOnce == Spec => []ReportedOnce
BY TypesInit, TypesStep, OnceInit, OnceStep, OnceIsOnce, PTL DEF Spec

-----------------------------------------------------------------------------
(* No lost wakeup.                                                         *)

\* A thread goes on, not to sleep, and takes nobody's reason to sleep away.
LEMMA WakefulDoing ==
    ASSUME Types, Wakeful, NEW t \in Threads, NEW what, Doing(t, what),
           what.pc # "asleep",
           t \in Pollers => what.pc \notin {"woken", "deinit"} /\ what.then = "idle",
           connected => connected',
           \A k \in Kinds : pend[k].state # "idle" => pend'[k].state # "idle"
    PROVE  Wakeful'
<1>1. thread'[t] = what /\ \A u \in Threads \ {t} : thread'[u] = thread[u]
  BY DEF Doing, Types, ThreadOK
<1>2. PollersAwake'
  BY <1>1 DEF Wakeful, PollersAwake, Threads
<1>3. SleepersHaveCause'
  <2> SUFFICES ASSUME NEW u \in Threads, thread'[u].pc = "asleep"
               PROVE  connected' /\ pend'[KindOf(thread'[u].call)].state # "idle"
    BY DEF SleepersHaveCause, At, KindOf
  <2>1. u # t /\ thread'[u] = thread[u]
    BY <1>1
  <2>2. connected /\ pend[KindOf(thread[u].call)].state # "idle"
    BY <2>1 DEF Wakeful, SleepersHaveCause, At
  <2>3. KindOf(thread[u].call) \in Kinds
    BY DEF KindOf, Kinds
  <2> QED BY <2>1, <2>2, <2>3
<1> QED BY <1>2, <1>3 DEF Wakeful

\* Nobody sleeps after a broadcast.
LEMMA WakefulBroadcast ==
    ASSUME Types, Wakeful, NEW t \in Threads, NEW what, BroadcastThen(t, what),
           what.pc # "asleep",
           t \in Pollers => what.pc \notin {"woken", "deinit"} /\ what.then = "idle"
    PROVE  Wakeful'
<1>1. \A u \in Threads : thread'[u].pc # "asleep"
  BY DEF BroadcastThen, Types, ThreadOK, ThreadRecord
<1>2. \A u \in Pollers : u # t => thread'[u] = thread[u]
  BY DEF BroadcastThen, Wakeful, PollersAwake, Threads
<1>3. thread'[t] = what
  BY Firing
<1>4. PollersAwake'
  BY <1>2, <1>3 DEF Wakeful, PollersAwake
<1> QED BY <1>1, <1>4 DEF Wakeful, SleepersHaveCause, At

\* The end of a connection is broadcast.
LEMMA WakefulAbort ==
    ASSUME Types, Wakeful, NEW t \in Threads,
           \/ \E events : AbortConnection(t, events, "idle")
           \/ \E req : Fail(t, req)
           \/ t \in Callers /\ \E events, then : AbortConnection(t, events, then)
    PROVE  Wakeful'
<1>1. PICK events, then : AbortConnection(t, events, then) /\ (t \in Pollers => then = "idle")
  <2>1. t \in Callers => t \notin Pollers
    BY MqttAssumption
  <2> QED BY <2>1 DEF Fail
<1>2. BroadcastThen(t, Deliver(events, then))
  BY <1>1 DEF AbortConnection
<1> QED BY <1>1, <1>2, WakefulBroadcast, WhatIsDelivered

\* What leaves threads, slots and the connection leaves the sleepers.
LEMMA WakefulStill ==
    ASSUME Wakeful, thread' = thread, connected' = connected,
           \A k \in Kinds : pend'[k].state = pend[k].state
    PROVE  Wakeful'
<1>1. \A t \in Threads : KindOf(thread[t].call) \in Kinds
  BY DEF KindOf, Kinds
<1> QED BY <1>1 DEF Wakeful, SleepersHaveCause, PollersAwake, At, KindOf

\* A call goes to sleep on a slot that is taken on a connection that is up.
LEMMA WakefulProceed ==
    ASSUME Types, Wakeful, NEW t \in Callers, NEW call \in Calls, Proceed(t, call)
    PROVE  Wakeful'
<1>0. t \in Threads /\ t \notin Pollers /\ pend \in [Kinds -> PendRecord]
      /\ "publish" \in Kinds /\ "subscribe" \in Kinds /\ "unsubscribe" \in Kinds
  BY MqttAssumption DEF Threads, Types, TypeOK, Kinds
<1>1. CASE connected /\ pend[KindOf(call)].state # "idle"
  <2>1. /\ Doing(t, [Idle EXCEPT !.pc = "asleep", !.call = call])
        /\ pend' = pend /\ connected' = connected
    BY <1>1 DEF Proceed
  <2>2. /\ thread'[t].pc = "asleep" /\ thread'[t].call = call
        /\ \A u \in Threads \ {t} : thread'[u] = thread[u]
    BY <1>0, <2>1, WhatIsDelivered DEF Doing, Types, ThreadOK
  <2>3. PollersAwake'
    BY <1>0, <2>2 DEF Wakeful, PollersAwake, Threads
  <2>4. SleepersHaveCause'
    BY <1>1, <2>1, <2>2 DEF Wakeful, SleepersHaveCause, At, KindOf
  <2> QED BY <2>3, <2>4 DEF Wakeful
<1>2. CASE ~(connected /\ pend[KindOf(call)].state # "idle")
  <2>1. Doing(t, Idle) /\ connected' = connected
    BY <1>2 DEF Proceed
  <2>2. ASSUME NEW k \in Kinds, NEW request, Stage(k, request), DOMAIN request = DOMAIN NoRequest,
               request.state # "idle", NEW l \in Kinds, pend[l].state # "idle"
        PROVE  pend'[l].state # "idle"
    <3>1. pend' = [pend EXCEPT ![k] = [request EXCEPT !.req = made + 1, !.tomb = pend[k].tomb]]
      BY <2>2 DEF Stage
    <3>2. [request EXCEPT !.req = made + 1, !.tomb = pend[k].tomb].state = request.state
      BY <2>2 DEF NoRequest
    <3> QED BY <1>0, <2>2, <3>1, <3>2
  <2>3. \/ pend' = pend
        \/ \E k \in Kinds : \E request : Stage(k, request) /\ DOMAIN request = DOMAIN NoRequest
                                     /\ request.state # "idle"
    <3>1. ASSUME NEW qos \in {"qos0", "qos1", "qos2"}, StagePublish(qos)
          PROVE  \E request : Stage("publish", request) /\ DOMAIN request = DOMAIN NoRequest
                              /\ request.state # "idle"
      <4>1. PICK x, y : Stage("publish", [NoRequest EXCEPT !.state = qos, !.mid = x, !.pid = y])
        BY <3>1 DEF StagePublish
      <4> DEFINE r == [NoRequest EXCEPT !.state = qos, !.mid = x, !.pid = y]
      <4>2. Stage("publish", r)
        BY <4>1
      <4>3. DOMAIN r = DOMAIN NoRequest /\ r.state # "idle"
        BY DEF NoRequest
      <4> QED BY <4>2, <4>3
    <3>2. ASSUME StageSubscribe
          PROVE  \E request : Stage("subscribe", request) /\ DOMAIN request = DOMAIN NoRequest
                              /\ request.state # "idle"
      <4>1. PICK s, x, y : Stage("subscribe", [NoRequest EXCEPT !.state = "requesting", !.slot = s, !.mid = x, !.pid = y])
        BY <3>2 DEF StageSubscribe
      <4> DEFINE r == [NoRequest EXCEPT !.state = "requesting", !.slot = s, !.mid = x, !.pid = y]
      <4>2. Stage("subscribe", r)
        BY <4>1
      <4>3. DOMAIN r = DOMAIN NoRequest /\ r.state # "idle"
        BY DEF NoRequest
      <4> QED BY <4>2, <4>3
    <3>3. ASSUME NEW id, StageUnsubscribe(id)
          PROVE  \E request : Stage("unsubscribe", request) /\ DOMAIN request = DOMAIN NoRequest
                              /\ request.state # "idle"
      <4>1. PICK s, x, y : Stage("unsubscribe", [NoRequest EXCEPT !.state = "requesting", !.mid = x, !.slot = s, !.pid = y])
        BY <3>3 DEF StageUnsubscribe
      <4> DEFINE r == [NoRequest EXCEPT !.state = "requesting", !.mid = x, !.slot = s, !.pid = y]
      <4>2. Stage("unsubscribe", r)
        BY <4>1
      <4>3. DOMAIN r = DOMAIN NoRequest /\ r.state # "idle"
        BY DEF NoRequest
      <4> QED BY <4>2, <4>3
    <3>4. \/ pend' = pend
          \/ \E qos \in {"qos0", "qos1", "qos2"} : StagePublish(qos)
          \/ StageSubscribe
          \/ \E id : StageUnsubscribe(id)
      BY DEF Proceed, Calls, Call
    <3> QED BY <1>0, <3>1, <3>2, <3>3, <3>4
  <2>4. \A l \in Kinds : pend[l].state # "idle" => pend'[l].state # "idle"
    BY <2>2, <2>3
  <2> QED BY <1>0, <2>1, <2>4, WakefulDoing, WhatIsDelivered
<1> QED BY <1>1, <1>2

\* Nobody sleeps at first ...
LEMMA WakefulInit == Init => Wakeful
BY WhatIsDelivered DEF Init, Wakeful, SleepersHaveCause, PollersAwake, At, Threads

\* ... nor later without cause.  net_mqtt_init() empties the slots without a
\* broadcast: with a single caller nobody sleeps then, for a poller never does.
LEMMA WakefulStep ==
    ASSUME OneCaller
    PROVE  Types /\ Wakeful /\ [Next]_vars => Wakeful'
<1> SUFFICES ASSUME Types, Wakeful, [Next]_vars PROVE Wakeful'
  OBVIOUS
<1>z. /\ pend \in [Kinds -> PendRecord] /\ Callers \subseteq Threads /\ Pollers \subseteq Threads
      /\ "publish" \in Kinds /\ "subscribe" \in Kinds /\ "unsubscribe" \in Kinds
      /\ \A t \in Callers : t \notin Pollers
  BY MqttAssumption DEF Types, TypeOK, Kinds, Threads
<1>p. ASSUME NEW t \in Pollers, Pass(t) \/ Poll(t), thread[t].pc \in Names \/ Poll(t)
      PROVE  Wakeful'
  <2>1. HandlerFrom(1) \in Names \cup {"idle"}
    BY HandlerFromName
  <2>2. thread[t].pc \in Names => HandlerFrom(IndexOf(thread[t].pc) + 1) \in Names \cup {"idle"}
    BY <1>z, NextNames
  <2>3. \E h \in Names \cup {"idle"} : Doing(t, [Idle EXCEPT !.pc = h])
    BY <1>p, <2>1, <2>2 DEF Pass, Poll
  <2>4. \A h \in Names \cup {"idle"} : h \notin {"asleep", "woken", "deinit"}
    BY DEF Names
  <2>5. connected' = connected /\ pend' = pend
    BY <1>p DEF Pass, Poll, client
  <2>6. PICK h \in Names \cup {"idle"} : Doing(t, [Idle EXCEPT !.pc = h])
    BY <2>3
  <2>7. [Idle EXCEPT !.pc = h].pc = h /\ [Idle EXCEPT !.pc = h].then = "idle"
    BY WhatIsDelivered
  <2> QED BY <1>z, <2>4, <2>5, <2>6, <2>7, WakefulDoing
<1>0. ASSUME NEW t \in Threads, DeinitEnds(t) \/ FireEvent(t) \/ GiveUp(t)
      PROVE  Wakeful'
  <2>1. CASE DeinitEnds(t) \/ GiveUp(t)
    BY <2>1, WakefulDoing, WhatIsDelivered DEF DeinitEnds, GiveUp, client
  <2>2. CASE FireEvent(t)
    <3>1. thread[t] \in ThreadRecord /\ thread[t].pc = "fire"
      BY <2>2 DEF FireEvent, At, Types, ThreadOK
    <3>2. t \in Pollers => thread[t].then = "idle"
      BY DEF Wakeful, PollersAwake
    <3>3. thread[t].then \in {"idle", "deinit"}
      BY <3>1 DEF ThreadRecord
    <3>4. \/ Doing(t, [thread[t] EXCEPT !.fire = Tail(@)])
          \/ Doing(t, [Idle EXCEPT !.pc = thread[t].then])
      BY <2>2 DEF FireEvent
    <3>5. [thread[t] EXCEPT !.fire = Tail(@)].pc = "fire" /\ [thread[t] EXCEPT !.fire = Tail(@)].then = thread[t].then
      BY <3>1 DEF ThreadRecord
    <3>6. connected' = connected /\ pend' = pend
      BY <2>2 DEF FireEvent, client
    <3> QED BY <3>2, <3>3, <3>4, <3>5, <3>6, WakefulDoing, WhatIsDelivered
  <2> QED BY <1>0, <2>1, <2>2
<1>1. ASSUME NEW t \in Callers, Lives(t)
      PROVE  Wakeful'
  <2>1. CASE InitClient(t)
    <3>1. thread' = thread /\ thread[t].pc = "idle"
      BY <2>1 DEF InitClient, At
    <3>2. \A u \in Threads : thread[u].pc # "asleep"
      BY <3>1 DEF Wakeful, PollersAwake, OneCaller, Threads
    <3> QED BY <3>1, <3>2 DEF Wakeful, SleepersHaveCause, PollersAwake, At
  <2>2. CASE Connect(t)
    BY <1>z, <2>2, WakefulDoing, WhatIsDelivered DEF Connect
  <2>3. CASE Disconnect(t) \/ (Deinit(t) /\ connected)
    BY <1>z, <2>3, WakefulAbort DEF Disconnect, Deinit
  <2>4. CASE Deinit(t) /\ ~connected
    <3>1. Doing(t, [Idle EXCEPT !.pc = "deinit"]) /\ connected' = connected /\ pend' = pend
      BY <2>4 DEF Deinit, client
    <3>2. [Idle EXCEPT !.pc = "deinit"].pc = "deinit"
      BY WhatIsDelivered
    <3> QED BY <1>z, <3>1, <3>2, WakefulDoing
  <2> QED BY <1>1, <2>1, <2>2, <2>3, <2>4 DEF Lives
<1>2. ASSUME NEW t \in Threads, Requesting(t), t \in Callers \/ thread[t].pc = "woken"
      PROVE  Wakeful'
  <2>1. t \in Callers
    BY <1>2 DEF Wakeful, PollersAwake, Threads
  <2> QED BY <1>2, <2>1, WakefulProceed DEF Requesting
<1>3. ASSUME NEW t \in Pollers, NEW k \in Kinds, NEW kind, Complete(t, k, kind)
      PROVE  Wakeful'
  BY <1>z, <1>3, WakefulBroadcast, WhatIsDelivered DEF Complete
<1>4. ASSUME NEW t \in Pollers, NEW k \in Kinds, Unmatched(t, k)
      PROVE  Wakeful'
  BY <1>z, <1>4, WakefulDoing, WakefulAbort, WhatIsDelivered DEF Unmatched, StillConnected
<1>5. ASSUME NEW t \in Pollers, Reads(t)
      PROVE  Wakeful'
  <2>1. CASE ReadPuback(t) \/ ReadPubcomp(t) \/ ReadSuback(t) \/ ReadUnsuback(t)
    BY <1>z, <1>3, <1>4, <2>1 DEF ReadPuback, ReadPubcomp, ReadSuback, ReadUnsuback
  <2>2. CASE ReadPubrec(t)
    <3>1. CASE /\ pend' = [pend EXCEPT !["publish"].state = "wait_pubcomp"]
               /\ Doing(t, Idle) /\ StillConnected
      <4>1. \A k \in Kinds : pend[k].state # "idle" => pend'[k].state # "idle"
        BY <1>z, <3>1 DEF PendRecord
      <4> QED BY <1>z, <3>1, <4>1, WakefulDoing, WhatIsDelivered DEF StillConnected
    <3> QED BY <1>z, <1>4, <2>2, <3>1, WakefulAbort DEF ReadPubrec
  <2>3. CASE ReadPublish(t)
    BY <1>z, <2>3, WakefulDoing, WakefulAbort, WhatIsDelivered DEF ReadPublish, StillConnected
  <2>4. CASE ReadPingresp(t)
    BY <1>z, <2>4, WakefulDoing, WhatIsDelivered DEF ReadPingresp, StillConnected
  <2>5. CASE ReadDispatch(t)
    <3>1. thread[t].pc \in Names
      BY <2>5 DEF ReadDispatch, At, Names
    <3> QED BY <1>z, <1>p, <2>5, <3>1, WakefulAbort DEF ReadDispatch
  <2> QED BY <1>5, <2>1, <2>2, <2>3, <2>4, <2>5 DEF Reads
<1>6. ASSUME NEW t \in Pollers, PingSend(t) \/ PingCheckTimeout(t)
      PROVE  Wakeful'
  <2>1. thread[t].pc \in Names
    BY <1>6 DEF PingSend, PingCheckTimeout, At, Names
  <2> QED BY <1>z, <1>p, <1>6, <2>1, WakefulDoing, WakefulAbort, WhatIsDelivered
          DEF PingSend, PingCheckTimeout
<1>7. ASSUME NEW t \in Pollers, NEW k \in Kinds, PollSend(t, k)
      PROVE  Wakeful'
  <2>0. thread[t].pc \in Names
    BY <1>7 DEF PollSend, At, SendOf, Kinds, Names
  <2>1. CASE Pass(t) \/ Fail(t, pend[k].req)
    BY <1>z, <1>p, <2>0, <2>1, WakefulAbort
  <2>2. CASE BroadcastThen(t, Deliver(<<Event("sent", pend[k].req)>>, "idle"))
    BY <1>z, <2>2, WakefulBroadcast, WhatIsDelivered
  <2>3. CASE /\ pend[k].state \in Staged \ {"qos0"}
             /\ pend' = [pend EXCEPT ![k].state = SentState(k)] /\ Doing(t, Idle)
             /\ connected' = connected
    <3>1. SentState(k) # "idle"
      BY <2>3 DEF Staged, SentState, WaitState, Kinds, Types, TypeOK, PublishStates
    <3>2. \A l \in Kinds : pend[l].state # "idle" => pend'[l].state # "idle"
      BY <1>z, <2>3, <3>1 DEF PendRecord
    <3> QED BY <1>z, <2>3, <3>2, WakefulDoing, WhatIsDelivered
  <2> QED BY <1>7, <2>1, <2>2, <2>3 DEF PollSend
<1>8. ASSUME NEW t \in Pollers, NEW k \in Kinds, CheckTimeout(t, k)
      PROVE  Wakeful'
  <2>1. CASE TimeOut(t, k)
    BY <1>z, <2>1, WakefulBroadcast, WhatIsDelivered DEF TimeOut
  <2>2. CASE At(t, TimeoutOf[k]) /\ Pass(t)
    <3>1. thread[t].pc \in Names
      BY <2>2 DEF At, TimeoutOf, Kinds, Names
    <3> QED BY <1>p, <2>2, <3>1
  <2> QED BY <1>8, <2>1, <2>2 DEF CheckTimeout
<1>9. CASE Broker
  BY <1>9, WakefulStill DEF Broker, BrokerAnswers, BrokerPushes, BrokerGoes
<1>10. CASE UNCHANGED vars
  BY <1>10, WakefulStill DEF vars, client
<1> QED BY <1>p, <1>0, <1>1, <1>2, <1>5, <1>6, <1>7, <1>8, <1>9, <1>10, NextCases

\* No lost wakeup, with any number of pollers and one calling thread: while a
\* call sleeps on publish_cond its slot is taken and its connection is up.
THEOREM SleepersAreWoken ==
    ASSUME OneCaller
    PROVE  Spec => []SleepersHaveCause
<1>1. Wakeful => SleepersHaveCause
  BY DEF Wakeful
<1> QED BY <1>1, TypesInit, TypesStep, WakefulInit, WakefulStep, PTL DEF Spec

-----------------------------------------------------------------------------
(* What is reported done was carried out.                                  *)

\* The packets of a connection, as packets are added and taken.
LEMMA RangeOfSeqs ==
    /\ Range(<<>>) = {}
    /\ \A x, y : Range(<<x>>) = {x} /\ Range(<<x, y>>) = {x, y}
    /\ \A S : \A s \in Seq(S) :
         /\ \A x \in S : Range(Append(s, x)) = Range(s) \cup {x}
         /\ s # <<>> => Range(Tail(s)) \subseteq Range(s) /\ Head(s) \in Range(s)
<1>1. Range(<<>>) = {}
  BY DEF Range
<1>2. \A x, y : Range(<<x>>) = {x} /\ Range(<<x, y>>) = {x, y}
  <2> SUFFICES ASSUME NEW x, NEW y PROVE Range(<<x>>) = {x} /\ Range(<<x, y>>) = {x, y}
    OBVIOUS
  <2>1. DOMAIN <<x>> = {1} /\ DOMAIN <<x, y>> = {1, 2}
    OBVIOUS
  <2> QED BY <2>1 DEF Range
<1>3. ASSUME NEW S, NEW s \in Seq(S), NEW x \in S
      PROVE  Range(Append(s, x)) = Range(s) \cup {x}
  <2> DEFINE a == Append(s, x)
  <2>1. /\ Len(s) \in Nat /\ DOMAIN s = 1..Len(s) /\ DOMAIN a = 1..(Len(s) + 1)
        /\ \A i \in 1..Len(s) : a[i] = s[i]
        /\ a[Len(s) + 1] = x
    BY AppendProperties, LenProperties
  <2> HIDE DEF a
  <2>2. Range(a) \subseteq Range(s) \cup {x}
    <3> SUFFICES ASSUME NEW i \in DOMAIN a PROVE a[i] \in Range(s) \cup {x}
      BY DEF Range
    <3>1. i \in 1..Len(s) \/ i = Len(s) + 1
      BY <2>1
    <3> QED BY <2>1, <3>1 DEF Range
  <2>3. Range(s) \cup {x} \subseteq Range(a)
    <3>1. \A i \in DOMAIN s : i \in DOMAIN a
      BY <2>1
    <3>2. Len(s) + 1 \in DOMAIN a
      BY <2>1
    <3> QED BY <2>1, <3>1, <3>2 DEF Range
  <2> QED BY <2>2, <2>3 DEF a
<1>4. ASSUME NEW S, NEW s \in Seq(S), s # <<>>
      PROVE  Range(Tail(s)) \subseteq Range(s) /\ Head(s) \in Range(s)
  <2>1. Len(s) \in Nat \ {0} /\ DOMAIN s = 1..Len(s) /\ Head(s) = s[1]
    BY <1>4, EmptySeq, LenProperties
  <2>2. \A i \in DOMAIN Tail(s) : i + 1 \in DOMAIN s /\ Tail(s)[i] = s[i + 1]
    BY <2>1, <1>4
  <2>3. 1 \in DOMAIN s
    BY <2>1
  <2> QED BY <2>1, <2>2, <2>3 DEF Range
<1> QED BY <1>1, <1>2, <1>3, <1>4

\* Numbers that are given up do no harm.
LEMMA TagsKept ==
    ASSUME Numbered, Tagged, Tags' \subseteq Tags, nextPid' = nextPid, made' = made
    PROVE  Numbered' /\ Tagged'
BY DEF Numbered, Tagged

\* Nothing new on the wire, no request with a new packet id.
LEMMA TagsOf ==
    ASSUME \A p \in Range(wire'.tx) : p.type \in Sent => p \in Range(wire.tx) \/ <<p.pid, p.req>> \in Tags,
           \A p \in Range(wire'.rx) : p.type \in Answers => p \in Range(wire.rx) \/ <<p.pid, p.req>> \in Tags,
           \A k \in Kinds : pend'[k].state \notin {"idle", "qos0"} =>
             <<pend'[k].pid, pend'[k].req>> \in Tags
    PROVE  Tags' \subseteq Tags
<1> SUFFICES ASSUME NEW g \in Tags' PROVE g \in Tags
  OBVIOUS
<1>1. CASE g \in PendTags'
  BY <1>1 DEF PendTags
<1>2. CASE g \in WireTags'
  <2>1. PICK p \in {q \in Range(wire'.tx) : q.type \in Sent}
                     \cup {q \in Range(wire'.rx) : q.type \in Answers} : g = <<p.pid, p.req>>
    BY <1>2 DEF WireTags
  <2>2. <<p.pid, p.req>> \in WireTags \/ <<p.pid, p.req>> \in Tags
    BY <2>1 DEF WireTags
  <2> QED BY <2>1, <2>2 DEF Tags
<1> QED BY <1>1, <1>2 DEF Tags

\* Whoever does not complete a request keeps what is reported true.
LEMMA DoneKept ==
    ASSUME Types, DoneMeansServed, NEW t \in Threads, NEW what,
           Doing(t, what) \/ BroadcastThen(t, what), served \subseteq served',
           \A i \in DOMAIN what.fire : what.fire[i].kind \in Completions \ {"error"}
                                       => what.fire[i].req \in served'
    PROVE  DoneMeansServed'
<1>1. thread'[t] = what /\ \A u \in Threads \ {t} : thread'[u].fire = thread[u].fire
  BY Firing
<1> SUFFICES ASSUME NEW u \in Threads, NEW i \in DOMAIN thread'[u].fire,
                    thread'[u].fire[i].kind \in Completions \ {"error"}
             PROVE  thread'[u].fire[i].req \in served'
  BY DEF DoneMeansServed
<1>2. CASE u = t
  BY <1>1, <1>2
<1>3. CASE u # t
  BY <1>1, <1>3 DEF DoneMeansServed
<1> QED BY <1>2, <1>3

\* What is not the end of a request reports none as done.
LEMMA NothingDone ==
    ASSUME NEW what, \/ what.fire = <<>>
                     \/ \E kind \in EventKinds \ (Completions \ {"error"}), req \in 0..MaxRequests :
                          \/ what.fire = <<Event(kind, req)>>
                          \/ what.fire = <<Event(kind, req), Event("disconnected", 0)>>
    PROVE  \A i \in DOMAIN what.fire : what.fire[i].kind \notin Completions \ {"error"}
<1>1. CASE what.fire = <<>>
  BY <1>1
<1>2. ASSUME NEW kind \in EventKinds \ (Completions \ {"error"}), NEW req \in 0..MaxRequests,
             \/ what.fire = <<Event(kind, req)>>
             \/ what.fire = <<Event(kind, req), Event("disconnected", 0)>>
      PROVE  \A i \in DOMAIN what.fire : what.fire[i].kind \notin Completions \ {"error"}
  <2>1. CASE what.fire = <<Event(kind, req)>>
    BY <2>1 DEF Event
  <2>2. CASE what.fire = <<Event(kind, req), Event("disconnected", 0)>>
    <3>1. \A i \in DOMAIN what.fire : what.fire[i].kind \in {kind, "disconnected"}
      <4>1. DOMAIN what.fire = {1, 2}
        BY <2>2
      <4> QED BY <2>2, <4>1 DEF Event
    <3> QED BY <3>1 DEF Completions
  <2> QED BY <1>2, <2>1, <2>2
<1> QED BY <1>1, <1>2

\* The end of a connection reports nothing as done.
LEMMA FaithfulAbort ==
    ASSUME Types, Faithful, NEW t \in Threads, NEW then,
           \/ AbortConnection(t, Disconnected, then)
           \/ Fail(t, 0)
           \/ \E k \in Kinds : Fail(t, pend[k].req)
    PROVE  Faithful'
<1>0. /\ 0 \in 0..MaxRequests /\ "error" \in EventKinds \ (Completions \ {"error"})
      /\ "disconnected" \in EventKinds \ (Completions \ {"error"})
      /\ \A k \in Kinds : pend[k].req \in 0..MaxRequests
  BY MqttAssumption DEF EventKinds, Completions, Types, TypeOK, PendRecord
<1>1. PICK events, th : AbortConnection(t, events, th) /\
           \/ events = <<Event("disconnected", 0)>>
           \/ \E req \in 0..MaxRequests : events = <<Event("error", req)>> \o Disconnected
  BY <1>0 DEF Fail, Disconnected
<1>2. \/ events = <<Event("disconnected", 0)>>
      \/ \E req \in 0..MaxRequests : events = <<Event("error", req), Event("disconnected", 0)>>
  BY <1>0, <1>1, ProperEvents
<1> DEFINE what == Deliver(events, th)
<1>3. what.fire = events /\ BroadcastThen(t, what) /\ served' = served /\ nextPid' = nextPid /\ made' = made
  BY <1>1, WhatIsDelivered DEF AbortConnection, ghosts
<1> HIDE DEF what
<1>4. \A i \in DOMAIN what.fire : what.fire[i].kind \notin Completions \ {"error"}
  BY <1>0, <1>2, <1>3, NothingDone
<1>5. DoneMeansServed'
  BY <1>3, <1>4, DoneKept DEF Faithful
<1>6. wire'.tx = <<>> /\ wire'.rx = <<>> /\ \A k \in Kinds : pend'[k].state = "idle"
  <2>1. wire' = NoWire /\ \A k \in Kinds : pend'[k].state = "idle"
    BY <1>1, AbortClears
  <2> QED BY <2>1 DEF NoWire
<1>7. Tags' \subseteq Tags /\ Answered'
  BY <1>6, RangeOfSeqs, TagsOf DEF Answered
<1> QED BY <1>3, <1>5, <1>7, TagsKept DEF Faithful

\* A request staged next gets a packet id nothing under way has.
LEMMA FaithfulStaged ==
    ASSUME NoWrap, Types, Faithful, NEW t \in Threads, NEW call \in Calls, Proceed(t, call)
    PROVE  Faithful'
<1>0. pend \in [Kinds -> PendRecord] /\ made \in Nat /\ nextPid \in Nat
      /\ "publish" \in Kinds /\ "subscribe" \in Kinds /\ "unsubscribe" \in Kinds
  BY MqttAssumption DEF Types, TypeOK, GhostsOK, Kinds
<1>1. wire' = wire /\ served' = served /\ made < MaxRequests
  BY DEF Proceed
<1>2. DoneMeansServed'
  <2>1. PICK what : Doing(t, what) /\ what.fire = <<>>
    <3>1. Doing(t, Idle) \/ Doing(t, [Idle EXCEPT !.pc = "asleep", !.call = call])
      BY DEF Proceed
    <3>2. Idle.fire = <<>> /\ [Idle EXCEPT !.pc = "asleep", !.call = call].fire = <<>>
      BY WhatIsDelivered
    <3> QED BY <3>1, <3>2
  <2>2. \A i \in DOMAIN what.fire : what.fire[i].kind \notin Completions \ {"error"}
    BY <2>1, NothingDone
  <2> QED BY <1>1, <2>1, <2>2, DoneKept DEF Faithful
<1>3. Answered'
  BY <1>1 DEF Faithful, Answered
<1>4. NextPacketId = nextPid + 1
  <2>1. nextPid <= made /\ PidWidth \in Nat /\ MaxRequests \in Nat /\ MaxRequests < PidWidth
    BY MqttAssumption DEF Faithful, Numbered, NoWrap
  <2>2. nextPid \in 0..(PidWidth - 2) /\ PidWidth - 1 > 0
    BY <1>0, <1>1, <2>1
  <2> DEFINE w == PidWidth - 1
  <2>3. nextPid % w = nextPid
    <3>1. nextPid \in Nat /\ w \in Nat /\ nextPid < w
      BY <1>0, <2>1, <2>2
    <3> HIDE DEF w
    <3> QED BY <3>1
  <2> QED BY <2>3 DEF NextPacketId
<1>5. CASE made' = made /\ nextPid' = nextPid /\ pend' = pend
  <2>1. Tags' = Tags
    BY <1>1, <1>5 DEF Tags, WireTags, PendTags
  <2> QED BY <1>2, <1>3, <1>5, <2>1, TagsKept DEF Faithful
<1>6. ASSUME NEW k \in Kinds, NEW request, Stage(k, request), DOMAIN request = DOMAIN NoRequest,
             \/ request.state = "qos0" /\ nextPid' = nextPid
             \/ request.state # "qos0" /\ request.pid = nextPid + 1 /\ nextPid' = nextPid + 1
      PROVE  Faithful'
  <2> DEFINE p == [request EXCEPT !.req = made + 1, !.tomb = pend[k].tomb]
  <2>1. p.state = request.state /\ p.pid = request.pid /\ p.req = made + 1
    BY <1>6 DEF NoRequest
  <2>2. pend' = [pend EXCEPT ![k] = p] /\ made' = made + 1
    BY <1>6 DEF Stage
  <2> HIDE DEF p
  <2>3. pend'[k] = p /\ \A l \in Kinds \ {k} : pend'[l] = pend[l]
    BY <1>0, <2>2
  <2>4. WireTags' = WireTags
    BY <1>1 DEF WireTags
  <2>5. CASE request.state = "qos0" /\ nextPid' = nextPid
    <3>1. \A l \in Kinds : pend'[l].state \notin {"idle", "qos0"} => pend'[l] = pend[l]
      BY <2>1, <2>3, <2>5
    <3>2. Tags' \subseteq Tags
      BY <2>4, <3>1 DEF Tags, PendTags
    <3>3. nextPid' <= made'
      BY <1>0, <2>2, <2>5 DEF Faithful, Numbered
    <3> QED BY <1>2, <1>3, <2>5, <3>2, <3>3 DEF Faithful, Numbered, Tagged
  <2>6. CASE request.pid = nextPid + 1 /\ nextPid' = nextPid + 1
    <3>1. \A l \in Kinds : pend'[l] = pend[l] \/ (pend'[l].pid = nextPid + 1 /\ pend'[l].req = made + 1)
      BY <2>1, <2>3, <2>6
    <3>2. Tags' \subseteq Tags \cup {<<nextPid + 1, made + 1>>}
      BY <2>4, <3>1 DEF Tags, PendTags
    <3>3. \A g \in Tags : g[1] \in 1..nextPid
      BY DEF Faithful, Numbered
    <3>4. \A g \in Tags' : g = <<nextPid + 1, made + 1>> \/ (g \in Tags /\ g[1] # nextPid + 1)
      BY <1>0, <3>2, <3>3
    <3>5. Tagged'
      BY <3>4 DEF Faithful, Tagged
    <3>6. \A g \in Tags' : g[1] \in 1..nextPid'
      <4>1. <<nextPid + 1, made + 1>>[1] = nextPid + 1
        OBVIOUS
      <4> QED BY <1>0, <2>6, <3>3, <3>4, <4>1
    <3>7. nextPid' <= made'
      BY <1>0, <2>2, <2>6 DEF Faithful, Numbered
    <3> QED BY <1>2, <1>3, <3>5, <3>6, <3>7 DEF Faithful, Numbered
  <2> QED BY <1>6, <2>5, <2>6
<1>7. ASSUME NEW qos \in {"qos0", "qos1", "qos2"}, StagePublish(qos)
      PROVE  Faithful'
  <2> DEFINE request == [NoRequest EXCEPT !.state = qos, !.mid = NextMessageId,
                           !.pid = IF qos \in {"qos1", "qos2"} THEN NextPacketId ELSE 0]
  <2>1. Stage("publish", request)
        /\ nextPid' = IF qos \in {"qos1", "qos2"} THEN NextPacketId ELSE nextPid
    BY <1>7 DEF StagePublish
  <2>2. /\ DOMAIN request = DOMAIN NoRequest /\ request.state = qos
        /\ request.pid = IF qos \in {"qos1", "qos2"} THEN NextPacketId ELSE 0
    BY DEF NoRequest
  <2> HIDE DEF request
  <2> QED BY <1>0, <1>4, <1>6, <2>1, <2>2
<1>8. ASSUME StageSubscribe
      PROVE  Faithful'
  <2>1. PICK s, x : Stage("subscribe", [NoRequest EXCEPT !.state = "requesting", !.slot = s,
                                        !.mid = x, !.pid = NextPacketId])
        /\ nextPid' = NextPacketId
    BY <1>8 DEF StageSubscribe
  <2> DEFINE request == [NoRequest EXCEPT !.state = "requesting", !.slot = s, !.mid = x, !.pid = NextPacketId]
  <2>2. Stage("subscribe", request)
    BY <2>1
  <2>3. DOMAIN request = DOMAIN NoRequest /\ request.state = "requesting" /\ request.pid = NextPacketId
    BY DEF NoRequest
  <2> HIDE DEF request
  <2> QED BY <1>0, <1>4, <1>6, <2>1, <2>2, <2>3
<1>9. ASSUME NEW id, StageUnsubscribe(id)
      PROVE  Faithful'
  <2>1. PICK s : Stage("unsubscribe", [NoRequest EXCEPT !.state = "requesting", !.mid = id,
                                       !.slot = s, !.pid = NextPacketId])
        /\ nextPid' = NextPacketId
    BY <1>9 DEF StageUnsubscribe
  <2> DEFINE request == [NoRequest EXCEPT !.state = "requesting", !.mid = id, !.slot = s, !.pid = NextPacketId]
  <2>2. Stage("unsubscribe", request)
    BY <2>1
  <2>3. DOMAIN request = DOMAIN NoRequest /\ request.state = "requesting" /\ request.pid = NextPacketId
    BY DEF NoRequest
  <2> HIDE DEF request
  <2> QED BY <1>0, <1>4, <1>6, <2>1, <2>2, <2>3
<1>10. \/ made' = made /\ nextPid' = nextPid /\ pend' = pend
       \/ \E qos \in {"qos0", "qos1", "qos2"} : StagePublish(qos)
       \/ StageSubscribe
       \/ \E id : StageUnsubscribe(id)
  BY DEF Proceed, Calls, Call
<1> QED BY <1>5, <1>7, <1>8, <1>9, <1>10

\* A step that reports nothing as done and numbers nothing.
LEMMA FaithfulQuiet ==
    ASSUME Types, Faithful, NEW t \in Threads, NEW what, Doing(t, what) \/ BroadcastThen(t, what),
           \/ what.fire = <<>>
           \/ \E kind \in EventKinds \ (Completions \ {"error"}), req \in 0..MaxRequests :
                what.fire = <<Event(kind, req)>>,
           served \subseteq served', nextPid' = nextPid, made' = made,
           Tags' \subseteq Tags, Answered'
    PROVE  Faithful'
<1>1. \A i \in DOMAIN what.fire : what.fire[i].kind \notin Completions \ {"error"}
  BY NothingDone
<1>2. DoneMeansServed'
  BY <1>1, DoneKept DEF Faithful
<1> QED BY <1>2, TagsKept DEF Faithful

\* The connection is left alone.
LEMMA WireKept ==
    ASSUME Types, Faithful, wire' = wire, served \subseteq served',
           \A k \in Kinds : pend'[k].state \notin {"idle", "qos0"} => <<pend'[k].pid, pend'[k].req>> \in Tags
    PROVE  Tags' \subseteq Tags /\ Answered'
<1>1. Tags' \subseteq Tags
  BY TagsOf
<1> QED BY <1>1 DEF Faithful, Answered

\* A packet is read.
LEMMA WireConsumed ==
    ASSUME Types, Faithful, wire.rx # <<>>, wire' = Consumed, served \subseteq served',
           \A k \in Kinds : pend'[k].state \notin {"idle", "qos0"} => <<pend'[k].pid, pend'[k].req>> \in Tags
    PROVE  Tags' \subseteq Tags /\ Answered'
<1>1. Range(wire'.rx) \subseteq Range(wire.rx) /\ wire'.tx = wire.tx
  <2>1. wire.rx \in Seq(AnswerRecord)
    BY DEF Types, WireOK
  <2>2. wire'.rx = Tail(wire.rx) /\ wire'.tx = wire.tx
    BY ConsumedTyped DEF Types
  <2> QED BY <2>1, <2>2, RangeOfSeqs
<1>2. Tags' \subseteq Tags
  BY <1>1, TagsOf
<1> QED BY <1>1, <1>2 DEF Faithful, Answered

\* A numbered request is among those numbered.
LEMMA PendIsTagged ==
    \A k \in Kinds : pend[k].state \notin {"idle", "qos0"} => <<pend[k].pid, pend[k].req>> \in Tags
BY DEF Tags, PendTags

\* So is the packet at hand, if it answers one.
LEMMA GotIsTagged ==
    ASSUME Types, wire.rx # <<>>, Got.type \in Answers
    PROVE  <<Got.pid, Got.req>> \in Tags /\ Got \in Range(wire.rx)
<1>1. Got \in Range(wire.rx)
  BY RangeOfSeqs DEF Types, WireOK, Got
<1> QED BY <1>1 DEF Tags, WireTags

\* The answer that ends a request answers that request.
LEMMA FaithfulComplete ==
    ASSUME Types, Faithful, NEW t \in Threads, NEW k \in Kinds, NEW kind \in Completions,
           wire.rx # <<>>, Complete(t, k, kind),
           kind # "error" => /\ Got.type \in Answers \ {"pubrec"}
                             /\ pend[k].state \notin {"idle", "qos0"} /\ pend[k].pid = Got.pid
    PROVE  Faithful'
<1>0. pend \in [Kinds -> PendRecord] /\ Released(pend[k]).state = "idle"
  BY ReleasedTyped DEF Types, TypeOK
<1>1. kind # "error" => pend[k].req \in served
  <2> SUFFICES ASSUME kind # "error" PROVE pend[k].req \in served
    OBVIOUS
  <2>1. <<pend[k].pid, pend[k].req>> \in Tags
    BY PendIsTagged
  <2>2. <<Got.pid, Got.req>> \in Tags /\ Got \in Range(wire.rx)
    BY GotIsTagged
  <2>3. pend[k].req = Got.req
    <3> DEFINE g == <<pend[k].pid, pend[k].req>>
               h == <<Got.pid, Got.req>>
    <3>1. g[1] = h[1] /\ g[2] = pend[k].req /\ h[2] = Got.req
      OBVIOUS
    <3> HIDE DEF g, h
    <3>2. g \in Tags /\ h \in Tags
      BY <2>1, <2>2 DEF g, h
    <3> QED BY <3>1, <3>2 DEF Faithful, Tagged
  <2> QED BY <2>2, <2>3 DEF Faithful, Answered
<1> DEFINE what == Deliver(<<Event(kind, pend[k].req)>>, "idle")
<1>2. what.fire = <<Event(kind, pend[k].req)>>
  BY WhatIsDelivered
<1>3. BroadcastThen(t, what) /\ wire' = Consumed /\ pend' = [pend EXCEPT ![k] = Released(pend[k])]
      /\ served' = served /\ nextPid' = nextPid /\ made' = made
  BY DEF Complete, StillConnected, ghosts
<1> HIDE DEF what
<1>4. \A i \in DOMAIN what.fire : what.fire[i].kind \in Completions \ {"error"} => what.fire[i].req \in served'
  BY <1>1, <1>2, <1>3 DEF Event
<1>5. DoneMeansServed'
  BY <1>3, <1>4, DoneKept DEF Faithful
<1>6. \A l \in Kinds : pend'[l].state \notin {"idle", "qos0"} => <<pend'[l].pid, pend'[l].req>> \in Tags
  <2>1. \A l \in Kinds : pend'[l].state \notin {"idle", "qos0"} => pend'[l] = pend[l]
    BY <1>0, <1>3
  <2> QED BY <2>1, PendIsTagged
<1>7. Tags' \subseteq Tags /\ Answered'
  BY <1>3, <1>6, WireConsumed
<1> QED BY <1>3, <1>5, <1>7, TagsKept DEF Faithful

\* The steps that neither read, write nor change a slot.
LEMMA FaithfulIdle ==
    ASSUME Types, Faithful, NEW t \in Threads,
           Pass(t) \/ Poll(t) \/ GiveUp(t) \/ DeinitEnds(t) \/ FireEvent(t)
    PROVE  Faithful'
<1>1. wire' = wire /\ pend' = pend /\ served' = served /\ nextPid' = nextPid /\ made' = made
  BY DEF Pass, Poll, GiveUp, DeinitEnds, FireEvent, client, ghosts
<1>2. Tags' = Tags /\ Answered'
  BY <1>1 DEF Tags, WireTags, PendTags, Faithful, Answered
<1>3. CASE ~FireEvent(t)
  <2>1. \E what : Doing(t, what) /\ what.fire = <<>>
    BY <1>3, NothingToDeliver
  <2> QED BY <1>1, <1>2, <2>1, FaithfulQuiet
<1>4. CASE FireEvent(t)
  <2> DEFINE f == thread[t].fire
  <2>0. thread[t] \in ThreadRecord /\ f \in Seq(EventRecord) /\ f # <<>>
    BY <1>4 DEF Types, ThreadOK, ThreadRecord, FireEvent, At
  <2>1. PICK what : Doing(t, what) /\ (what.fire = <<>> \/ what.fire = Tail(f))
    <3>1. [thread[t] EXCEPT !.fire = Tail(f)].fire = Tail(f)
      BY <2>0 DEF ThreadRecord
    <3>2. [Idle EXCEPT !.pc = thread[t].then].fire = <<>>
      BY WhatIsDelivered
    <3>3. \/ Doing(t, [thread[t] EXCEPT !.fire = Tail(f)])
          \/ Doing(t, [Idle EXCEPT !.pc = thread[t].then])
      BY <1>4 DEF FireEvent
    <3> QED BY <3>1, <3>2, <3>3
  <2>2. \A i \in DOMAIN f : f[i].kind \in Completions \ {"error"} => f[i].req \in served
    BY DEF Faithful, DoneMeansServed
  <2>3. \A i \in DOMAIN Tail(f) : i + 1 \in DOMAIN f /\ Tail(f)[i] = f[i + 1]
    <3>1. Len(f) \in Nat \ {0}
      BY <2>0, EmptySeq
    <3> QED BY <2>0, <3>1
  <2>4. \A i \in DOMAIN what.fire : what.fire[i].kind \in Completions \ {"error"} => what.fire[i].req \in served'
    <3>1. CASE what.fire = <<>>
      BY <3>1
    <3>2. CASE what.fire = Tail(f)
      <4> HIDE DEF f
      <4> QED BY <1>1, <2>2, <2>3, <3>2
    <3> QED BY <2>1, <3>1, <3>2
  <2>5. DoneMeansServed'
    BY <1>1, <2>1, <2>4, DoneKept DEF Faithful
  <2> QED BY <1>1, <1>2, <2>5, TagsKept DEF Faithful
<1> QED BY <1>3, <1>4

\* init, connect, disconnect and deinit start or end with an empty connection.
LEMMA FaithfulLife ==
    ASSUME Types, Faithful, NEW t \in Threads, Lives(t)
    PROVE  Faithful'
<1>1. CASE InitClient(t)
  <2>1. wire'.tx = <<>> /\ wire'.rx = <<>> /\ \A k \in Kinds : pend'[k].state = "idle"
    BY <1>1 DEF InitClient, NoWire, NoRequest
  <2>2. Tags' = {} /\ Answered'
    BY <2>1, RangeOfSeqs DEF Answered, Tags, WireTags, PendTags
  <2>3. nextPid' <= made'
    BY <1>1 DEF InitClient, ghosts, Types, GhostsOK
  <2>4. DoneMeansServed'
    BY <1>1 DEF InitClient, ghosts, Faithful, DoneMeansServed
  <2> QED BY <2>2, <2>3, <2>4 DEF Faithful, Numbered, Tagged
<1>2. CASE Connect(t)
  <2>1. wire'.tx = <<>> /\ wire'.rx = <<>> /\ pend' = pend
        /\ served' = served /\ made' = made /\ nextPid' = nextPid
    BY <1>2 DEF Connect, NoWire
  <2>2. Tags' \subseteq Tags /\ Answered'
    BY <2>1, RangeOfSeqs, TagsOf, PendIsTagged DEF Answered
  <2>3. Doing(t, Deliver(<<Event("connected", 0)>>, "idle"))
    BY <1>2 DEF Connect
  <2>4. Deliver(<<Event("connected", 0)>>, "idle").fire = <<Event("connected", 0)>>
    BY WhatIsDelivered
  <2>5. "connected" \in EventKinds \ (Completions \ {"error"}) /\ 0 \in 0..MaxRequests
    BY MqttAssumption DEF EventKinds, Completions
  <2> QED BY <2>1, <2>2, <2>3, <2>4, <2>5, FaithfulQuiet
<1>3. CASE Disconnect(t) \/ (Deinit(t) /\ connected)
  BY <1>3, FaithfulAbort DEF Disconnect, Deinit
<1>4. CASE Deinit(t) /\ ~connected
  <2>1. Doing(t, [Idle EXCEPT !.pc = "deinit"]) /\ UNCHANGED <<client, ghosts>>
    BY <1>4 DEF Deinit
  <2>2. [Idle EXCEPT !.pc = "deinit"].fire = <<>>
    BY WhatIsDelivered
  <2>3. wire' = wire /\ pend' = pend /\ served' = served /\ nextPid' = nextPid /\ made' = made
    BY <2>1 DEF client, ghosts
  <2>4. Tags' \subseteq Tags /\ Answered'
    BY <2>3, WireKept, PendIsTagged
  <2> QED BY <2>1, <2>2, <2>3, <2>4, FaithfulQuiet
<1> QED BY <1>1, <1>2, <1>3, <1>4 DEF Lives

\* A staged request is written with the packet id it was given.
LEMMA FaithfulSend ==
    ASSUME Types, Faithful, NEW t \in Threads, NEW k \in Kinds, PollSend(t, k)
    PROVE  Faithful'
<1>0. pend \in [Kinds -> PendRecord] /\ wire.tx \in Seq(SentRecord) /\ wire.rx \in Seq(AnswerRecord)
      /\ wire \in [tx : Seq(SentRecord), rx : Seq(AnswerRecord), eof : BOOLEAN]
  BY DEF Types, TypeOK, WireOK
<1>1. CASE Pass(t) \/ Fail(t, pend[k].req)
  BY <1>1, FaithfulIdle, FaithfulAbort
<1>2. CASE pend[k].state \in Staged /\ ~Fail(t, pend[k].req)
  <2> DEFINE p == Packet(PacketOf(k), pend[k].pid, pend[k].req)
  <2>0. /\ PacketOf(k) \in {"qos0", "qos1", "qos2", "subscribe", "unsubscribe"}
        /\ PacketOf(k) = "qos0" <=> pend[k].state = "qos0"
    BY <1>2 DEF PacketOf, Staged, Kinds, Types, TypeOK, PublishStates, SubscribeStates, UnsubscribeStates
  <2>1. p \in SentRecord /\ p.type = PacketOf(k) /\ p.pid = pend[k].pid /\ p.req = pend[k].req
    BY <1>0, <2>0 DEF Packet, SentRecord, Sent, PendRecord
  <2>2. wire' = [wire EXCEPT !.tx = Append(@, p)]
    BY <1>2 DEF PollSend, Write
  <2> HIDE DEF p
  <2>3. wire'.rx = wire.rx /\ wire'.tx = Append(wire.tx, p)
    BY <1>0, <2>2
  <2>4. Range(wire'.tx) = Range(wire.tx) \cup {p}
    BY <1>0, <2>1, <2>3, RangeOfSeqs
  <2>5. p.type \in Sent => <<p.pid, p.req>> \in Tags
    BY <1>2, <2>0, <2>1, PendIsTagged DEF Sent, Staged
  <2>6. ASSUME \A l \in Kinds : pend'[l].state \notin {"idle", "qos0"} => <<pend'[l].pid, pend'[l].req>> \in Tags,
               served \subseteq served'
        PROVE  Tags' \subseteq Tags /\ Answered'
    <3>1. Tags' \subseteq Tags
      BY <2>3, <2>4, <2>5, <2>6, TagsOf
    <3> QED BY <2>3, <2>6, <3>1 DEF Faithful, Answered
  <2>7. CASE pend[k].state = "qos0"
    <3> DEFINE what == Deliver(<<Event("sent", pend[k].req)>>, "idle")
    <3>1. /\ pend' = [pend EXCEPT ![k] = Released(pend[k])]
          /\ BroadcastThen(t, what)
          /\ served' = served \cup {pend[k].req} /\ nextPid' = nextPid /\ made' = made
      BY <1>2, <2>7 DEF PollSend
    <3>2. what.fire = <<Event("sent", pend[k].req)>>
      BY WhatIsDelivered
    <3> HIDE DEF what
    <3>3. \A i \in DOMAIN what.fire : what.fire[i].req \in served'
      BY <3>1, <3>2 DEF Event
    <3>4. DoneMeansServed'
      BY <3>1, <3>3, DoneKept DEF Faithful
    <3>5. Released(pend[k]).state = "idle"
      BY <1>0, ReleasedTyped
    <3>6. \A l \in Kinds : pend'[l].state # "idle" => pend'[l] = pend[l]
      BY <1>0, <3>1, <3>5
    <3>7. Tags' \subseteq Tags /\ Answered'
      BY <2>6, <3>1, <3>6, PendIsTagged
    <3> QED BY <3>1, <3>4, <3>7, TagsKept DEF Faithful
  <2>8. CASE pend[k].state # "qos0"
    <3>1. /\ pend' = [pend EXCEPT ![k].state = SentState(k)]
          /\ Doing(t, Idle) /\ served' = served /\ nextPid' = nextPid /\ made' = made
      BY <1>2, <2>8 DEF PollSend
    <3>2. Idle.fire = <<>>
      BY WhatIsDelivered
    <3>3. pend[k].state \notin {"idle", "qos0"}
      BY <1>2, <2>8 DEF Staged
    <3>4. \A l \in Kinds : /\ pend'[l].pid = pend[l].pid /\ pend'[l].req = pend[l].req
                           /\ pend'[l].state \notin {"idle", "qos0"} => pend[l].state \notin {"idle", "qos0"}
      BY <1>0, <3>1, <3>3 DEF PendRecord
    <3>5. Tags' \subseteq Tags /\ Answered'
      BY <2>6, <3>1, <3>4, PendIsTagged
    <3> QED BY <3>1, <3>2, <3>5, FaithfulQuiet
  <2> QED BY <2>7, <2>8
<1> QED BY <1>1, <1>2 DEF PollSend

\* The handlers of the packets read.
LEMMA FaithfulRead ==
    ASSUME Types, Faithful, NEW t \in Threads, Reads(t)
    PROVE  Faithful'
<1>0. pend \in [Kinds -> PendRecord] /\ wire.tx \in Seq(SentRecord)
      /\ "publish" \in Kinds /\ "subscribe" \in Kinds /\ "unsubscribe" \in Kinds
      /\ Idle.fire = <<>>
  BY WhatIsDelivered DEF Types, TypeOK, WireOK, Kinds
<1>1. ASSUME NEW what, Doing(t, what), what.fire = <<>> \/ what.fire = <<Event("received", 0)>>,
             wire.rx # <<>>, wire' = Consumed, StillConnected, pend' = pend
      PROVE  Faithful'
  <2>1. served' = served /\ nextPid' = nextPid /\ made' = made
    BY <1>1 DEF StillConnected, ghosts
  <2>2. Tags' \subseteq Tags /\ Answered'
    BY <1>1, <2>1, WireConsumed, PendIsTagged
  <2>3. "received" \in EventKinds \ (Completions \ {"error"}) /\ 0 \in 0..MaxRequests
    BY MqttAssumption DEF EventKinds, Completions
  <2> QED BY <1>1, <2>1, <2>2, <2>3, FaithfulQuiet
<1>2. ASSUME NEW k \in Kinds, wire.rx # <<>>, Unmatched(t, k)
      PROVE  Faithful'
  BY <1>0, <1>1, <1>2, FaithfulAbort DEF Unmatched
<1>3. CASE ReadPuback(t) \/ ReadPubcomp(t) \/ ReadUnsuback(t)
  <2>1. wire.rx # <<>> /\ Got.type \in {"puback", "pubcomp", "unsuback"}
    BY <1>3 DEF ReadPuback, ReadPubcomp, ReadUnsuback, Reading, Got
  <2> QED BY <1>0, <1>2, <1>3, <2>1, FaithfulComplete
          DEF ReadPuback, ReadPubcomp, ReadUnsuback, Matches, Completions, Answers
<1>4. CASE ReadSuback(t)
  <2>1. wire.rx # <<>> /\ Got.type \in {"suback", "suback_refused"}
    BY <1>4 DEF ReadSuback, Reading, Got
  <2> QED BY <1>0, <1>2, <1>4, <2>1, FaithfulComplete DEF ReadSuback, Matches, Completions, Answers
<1>5. CASE ReadPubrec(t)
  <2>1. wire.rx # <<>> /\ Got.type = "pubrec"
    BY <1>5 DEF ReadPubrec, Reading, Got
  <2>2. CASE /\ Matches("publish", "wait_pubrec")
             /\ wire' = [Consumed EXCEPT !.tx = Append(@, Packet("pubrel", Got.pid, Got.req))]
             /\ pend' = [pend EXCEPT !["publish"].state = "wait_pubcomp"]
             /\ Doing(t, Idle) /\ StillConnected
    <3> DEFINE p == Packet("pubrel", Got.pid, Got.req)
    <3>1. p \in SentRecord /\ p.pid = Got.pid /\ p.req = Got.req
      BY <2>1, ConsumedTyped DEF Types, Packet, SentRecord, Sent, AnswerRecord
    <3>2. wire'.rx = Tail(wire.rx) /\ wire'.tx = Append(wire.tx, p)
      BY <2>1, <2>2, ConsumedTyped DEF Types
    <3>3. <<Got.pid, Got.req>> \in Tags
      BY <2>1, GotIsTagged DEF Answers
    <3> HIDE DEF p
    <3>4. Range(wire'.rx) \subseteq Range(wire.rx) /\ Range(wire'.tx) = Range(wire.tx) \cup {p}
      BY <1>0, <2>1, <3>1, <3>2, RangeOfSeqs DEF Types, WireOK
    <3>5. \A l \in Kinds : /\ pend'[l].pid = pend[l].pid /\ pend'[l].req = pend[l].req
                           /\ pend'[l].state \notin {"idle", "qos0"} => pend[l].state \notin {"idle", "qos0"}
      BY <1>0, <2>2 DEF PendRecord, Matches
    <3>a. \A q \in Range(wire'.tx) : q \in Range(wire.tx) \/ <<q.pid, q.req>> \in Tags
      BY <3>1, <3>3, <3>4
    <3>b. \A l \in Kinds : pend'[l].state \notin {"idle", "qos0"} => <<pend'[l].pid, pend'[l].req>> \in Tags
      <4> SUFFICES ASSUME NEW l \in Kinds, pend'[l].state \notin {"idle", "qos0"}
                   PROVE  <<pend'[l].pid, pend'[l].req>> \in Tags
        OBVIOUS
      <4>1. pend'[l].pid = pend[l].pid /\ pend'[l].req = pend[l].req
        BY <3>5
      <4>2. pend[l].state \notin {"idle", "qos0"}
        BY <3>5
      <4>3. <<pend[l].pid, pend[l].req>> \in Tags
        BY <4>2, PendIsTagged
      <4> QED BY <4>1, <4>3
    <3>6. Tags' \subseteq Tags
      BY <3>4, <3>a, <3>b, TagsOf
    <3>7. served' = served /\ nextPid' = nextPid /\ made' = made
      BY <2>2 DEF StillConnected, ghosts
    <3>8. Answered'
      BY <3>4, <3>7 DEF Faithful, Answered
    <3> QED BY <1>0, <2>2, <3>6, <3>7, <3>8, FaithfulQuiet
  <2> QED BY <1>0, <1>2, <1>5, <2>1, <2>2, FaithfulAbort DEF ReadPubrec
<1>6. CASE ReadPublish(t)
  <2>1. wire.rx # <<>>
    BY <1>6 DEF ReadPublish, Reading
  <2>2. Deliver(<<Event("received", 0)>>, "idle").fire = <<Event("received", 0)>>
    BY WhatIsDelivered
  <2> QED BY <1>1, <1>6, <2>1, <2>2, FaithfulAbort DEF ReadPublish
<1>7. CASE ReadPingresp(t)
  BY <1>0, <1>1, <1>7 DEF ReadPingresp, Reading
<1>8. CASE ReadDispatch(t)
  BY <1>8, FaithfulIdle, FaithfulAbort DEF ReadDispatch
<1> QED BY <1>3, <1>4, <1>5, <1>6, <1>7, <1>8 DEF Reads

\* The time-outs report an error, which claims nothing.
LEMMA FaithfulTimes ==
    ASSUME Types, Faithful, NEW t \in Threads,
           \/ PingSend(t) \/ PingCheckTimeout(t)
           \/ \E k \in Kinds : CheckTimeout(t, k)
    PROVE  Faithful'
<1>0. pend \in [Kinds -> PendRecord] /\ wire.tx \in Seq(SentRecord)
      /\ wire \in [tx : Seq(SentRecord), rx : Seq(AnswerRecord), eof : BOOLEAN]
  BY DEF Types, TypeOK, WireOK
<1>1. CASE Pass(t) \/ Fail(t, 0) \/ AbortConnection(t, Disconnected, "idle")
  BY <1>1, FaithfulIdle, FaithfulAbort
<1>2. CASE /\ Write("pingreq", 0, 0) /\ Doing(t, Idle)
           /\ UNCHANGED <<active, connected, pend, topics, nextMid, nextPid, ghosts>>
  <2> DEFINE p == Packet("pingreq", 0, 0)
  <2>1. p \in SentRecord /\ p.type \notin Sent
    BY MqttAssumption DEF Packet, SentRecord, Sent
  <2>2. wire'.rx = wire.rx /\ wire'.tx = Append(wire.tx, p)
    BY <1>0, <1>2 DEF Write
  <2> HIDE DEF p
  <2>3. Range(wire'.tx) = Range(wire.tx) \cup {p}
    BY <1>0, <2>1, <2>2, RangeOfSeqs
  <2>4. served' = served /\ nextPid' = nextPid /\ made' = made /\ pend' = pend
    BY <1>2 DEF ghosts
  <2>5. Tags' \subseteq Tags /\ Answered'
    <3>1. Tags' \subseteq Tags
      BY <2>1, <2>2, <2>3, <2>4, TagsOf, PendIsTagged
    <3> QED BY <2>2, <2>4, <3>1 DEF Faithful, Answered
  <2> QED BY <1>2, <2>4, <2>5, FaithfulQuiet, WhatIsDelivered
<1>3. ASSUME NEW k \in Kinds, TimeOut(t, k)
      PROVE  Faithful'
  <2> DEFINE what == Deliver(<<Event("error", pend[k].req)>>, "idle")
             p == [NoRequest EXCEPT !.tomb = pend[k].pid]
  <2>1. /\ pend' = [pend EXCEPT ![k] = p] /\ BroadcastThen(t, what) /\ wire' = wire
        /\ served' = served /\ nextPid' = nextPid /\ made' = made
    BY <1>3 DEF TimeOut, ghosts
  <2>2. what.fire = <<Event("error", pend[k].req)>> /\ p.state = "idle"
    BY WhatIsDelivered DEF NoRequest
  <2>3. "error" \in EventKinds \ (Completions \ {"error"}) /\ pend[k].req \in 0..MaxRequests
    BY <1>0 DEF EventKinds, Completions, PendRecord
  <2> HIDE DEF what, p
  <2>4. \A l \in Kinds : pend'[l].state # "idle" => pend'[l] = pend[l]
    BY <1>0, <2>1, <2>2
  <2>5. Tags' \subseteq Tags /\ Answered'
    BY <2>1, <2>4, WireKept, PendIsTagged
  <2> QED BY <2>1, <2>2, <2>3, <2>5, FaithfulQuiet
<1> QED BY <1>1, <1>2, <1>3 DEF PingSend, PingCheckTimeout, CheckTimeout

\* The broker answers the packets it gets with the packet ids they came with.
LEMMA FaithfulBroker ==
    ASSUME Types, Faithful, Broker
    PROVE  Faithful'
<1>0. wire.tx \in Seq(SentRecord) /\ wire.rx \in Seq(AnswerRecord)
      /\ wire \in [tx : Seq(SentRecord), rx : Seq(AnswerRecord), eof : BOOLEAN]
  BY DEF Types, WireOK
<1>1. pend' = pend /\ thread' = thread /\ nextPid' = nextPid /\ made' = made /\ served \subseteq served'
  BY DEF Broker, BrokerAnswers, BrokerPushes, BrokerGoes, ghosts
<1>2. DoneMeansServed'
  BY <1>1 DEF Faithful, DoneMeansServed
<1>3. CASE BrokerAnswers
  <2> DEFINE p == Head(wire.tx)
  <2>1. p \in SentRecord /\ p \in Range(wire.tx) /\ Range(Tail(wire.tx)) \subseteq Range(wire.tx)
    BY <1>0, <1>3, RangeOfSeqs DEF BrokerAnswers
  <2>2. PICK reply \in Reply[p.type] :
          wire' = [wire EXCEPT !.tx = Tail(@),
                     !.rx = IF reply = "none" THEN @ ELSE Append(@, Packet(reply, p.pid, p.req))]
    BY <1>3 DEF BrokerAnswers
  <2> DEFINE q == Packet(reply, p.pid, p.req)
  <2>3. /\ reply # "none" => q \in AnswerRecord
        /\ q.type = reply /\ q.pid = p.pid /\ q.req = p.req
        /\ reply \in Answers => p.type \in Sent
        /\ reply \in Answers \ {"pubrec"} => p.type \in Carried
    BY <2>1, <2>2 DEF SentRecord, Sent, Reply, Packet, AnswerRecord, Answers, Carried
  <2>4. p.type \in Carried => p.req \in served'
    BY <1>3 DEF BrokerAnswers
  <2> HIDE DEF p, q
  <2>5. wire'.tx = Tail(wire.tx) /\ wire'.rx = IF reply = "none" THEN wire.rx ELSE Append(wire.rx, q)
    BY <1>0, <2>2 DEF q
  <2>6. Range(wire'.rx) \subseteq Range(wire.rx) \/ (reply # "none" /\ Range(wire'.rx) = Range(wire.rx) \cup {q})
    BY <1>0, <2>3, <2>5, RangeOfSeqs
  <2>7. p.type \in Sent => <<p.pid, p.req>> \in Tags
    BY <2>1 DEF Tags, WireTags
  <2>8. Tags' \subseteq Tags
    BY <1>1, <2>1, <2>3, <2>5, <2>6, <2>7, TagsOf, PendIsTagged
  <2>9. Answered'
    BY <1>1, <2>3, <2>4, <2>6 DEF Faithful, Answered
  <2> QED BY <1>1, <1>2, <2>8, <2>9, TagsKept DEF Faithful
<1>4. CASE BrokerPushes
  <2> DEFINE q == Packet("message", 1, 0)
  <2>1. q \in AnswerRecord /\ q.type \notin Answers
    <3>1. 1 \in 0..(PidWidth - 1) /\ 0 \in 0..MaxRequests
      BY MqttAssumption
    <3> QED BY <3>1 DEF Packet, AnswerRecord, Answers
  <2>2. wire'.tx = wire.tx /\ wire'.rx = Append(wire.rx, q)
    BY <1>0, <1>4 DEF BrokerPushes
  <2> HIDE DEF q
  <2>3. Range(wire'.rx) = Range(wire.rx) \cup {q}
    BY <1>0, <2>1, <2>2, RangeOfSeqs
  <2>4. Tags' \subseteq Tags
    BY <1>1, <2>1, <2>2, <2>3, TagsOf, PendIsTagged
  <2>5. Answered'
    BY <1>1, <2>1, <2>3 DEF Faithful, Answered
  <2> QED BY <1>1, <1>2, <2>4, <2>5, TagsKept DEF Faithful
<1>5. CASE BrokerGoes
  <2> DEFINE q == Packet("garbage", 0, 0)
  <2>1. q \in AnswerRecord /\ q.type \notin Answers
    BY MqttAssumption DEF Packet, AnswerRecord, Answers
  <2>2. PICK last \in {<<>>, <<q>>} : wire' = [tx |-> <<>>, rx |-> wire.rx \o last, eof |-> TRUE]
    BY <1>5 DEF BrokerGoes
  <2> HIDE DEF q
  <2>3. wire'.rx = wire.rx \/ wire'.rx = Append(wire.rx, q)
    <3>1. CASE last = <<>>
      <4>1. wire.rx \o <<>> = wire.rx
        BY <1>0, ConcatEmptySeq
      <4> QED BY <2>2, <3>1, <4>1
    <3>2. CASE last = <<q>>
      <4>1. Append(wire.rx, q) = wire.rx \o <<q>>
        BY <1>0, <2>1, AppendIsConcat
      <4> QED BY <2>2, <3>2, <4>1
    <3> QED BY <3>1, <3>2
  <2>4. Range(wire'.rx) \subseteq Range(wire.rx) \cup {q} /\ Range(wire'.tx) = {}
    <3>1. wire'.tx = <<>>
      BY <2>2
    <3>2. Range(Append(wire.rx, q)) = Range(wire.rx) \cup {q}
      BY <1>0, <2>1, RangeOfSeqs
    <3> QED BY <2>3, <3>1, <3>2, RangeOfSeqs
  <2>5. Tags' \subseteq Tags
    BY <1>1, <2>1, <2>4, TagsOf, PendIsTagged
  <2>6. Answered'
    BY <1>1, <2>1, <2>4 DEF Faithful, Answered
  <2> QED BY <1>1, <1>2, <2>5, <2>6, TagsKept DEF Faithful
<1> QED BY <1>3, <1>4, <1>5 DEF Broker

\* Nothing is reported at first ...
LEMMA FaithfulInit == Init => Faithful
<1> SUFFICES ASSUME Init PROVE Faithful
  OBVIOUS
<1>1. wire.tx = <<>> /\ wire.rx = <<>> /\ \A k \in Kinds : pend[k].state = "idle"
  BY DEF Init, NoWire, NoRequest
<1>2. Tags = {} /\ Answered
  BY <1>1, RangeOfSeqs DEF Answered, Tags, WireTags, PendTags
<1>3. DoneMeansServed
  BY WhatIsDelivered DEF Init, DoneMeansServed
<1> QED BY <1>2, <1>3 DEF Init, Faithful, Numbered, Tagged

\* ... and later nothing but what was carried out.
LEMMA FaithfulStep ==
    ASSUME NoWrap
    PROVE  Types /\ Faithful /\ [Next]_vars => Faithful'
<1> SUFFICES ASSUME Types, Faithful, [Next]_vars PROVE Faithful'
  OBVIOUS
<1>1. CASE UNCHANGED vars
  <2>1. /\ wire' = wire /\ pend' = pend /\ thread' = thread /\ served' = served
        /\ nextPid' = nextPid /\ made' = made
    BY <1>1 DEF vars, client, ghosts
  <2>2. Tags' \subseteq Tags /\ Answered' /\ DoneMeansServed'
    BY <2>1 DEF Tags, WireTags, PendTags, Faithful, Answered, DoneMeansServed
  <2> QED BY <2>1, <2>2, TagsKept DEF Faithful
<1>2. CASE Next
  <2>1. Callers \subseteq Threads /\ Pollers \subseteq Threads
    BY DEF Threads
  <2>2. ASSUME NEW t \in Threads, Requesting(t)
        PROVE  Faithful'
    BY <2>2, FaithfulStaged DEF Requesting
  <2> QED BY <1>2, <2>1, <2>2, NextCases, FaithfulLife, FaithfulIdle, FaithfulSend, FaithfulRead,
             FaithfulTimes, FaithfulBroker
<1> QED BY <1>1, <1>2

\* Until packet ids come round again, a request reported as done has been carried
\* out by the broker: a late reply to a request given up is never taken for that
\* of the next one in its slot, over all reconnections.
THEOREM ReportsAreTrue ==
    ASSUME NoWrap
    PROVE  Spec => []DoneMeansServed
<1>1. Faithful => DoneMeansServed
  BY DEF Faithful
<1> QED BY <1>1, TypesInit, TypesStep, FaithfulInit, FaithfulStep, PTL DEF Spec

=============================================================================
