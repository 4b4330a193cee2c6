----------------------------- MODULE EventQueueProofs -----------------------------
(***************************************************************************)
(* What holds of the event queue for every number of threads, every set of *)
(* payloads, every capacity and both builds.                               *)
(***************************************************************************)
EXTENDS EventQueue, SequenceTheorems, TLAPS

-----------------------------------------------------------------------------
(* The arithmetic of ring positions. *)

\* A position less than a turn further on is a slot of the ring.
LEMMA PlaceType ==
  ASSUME NEW i \in Index, NEW k \in Index
  PROVE  Place(i, k) \in Index
BY CapacityAssumption DEF Place, Index

\* Positions less than a turn apart are different slots.
LEMMA PlaceInjective ==
  ASSUME NEW i \in Index, NEW j \in Index, NEW k \in Index, Place(i, j) = Place(i, k)
  PROVE  j = k
BY CapacityAssumption DEF Place, Index

\* A cursor never leaves the ring.
LEMMA NextType ==
  ASSUME NEW i \in Index
  PROVE  NextIndex(i) \in Index
BY CapacityAssumption DEF Index, NextIndex

\* Moving a cursor one slot on moves every position after it one slot on.
LEMMA PlaceNext ==
  ASSUME NEW i \in Index, NEW k \in Index
  PROVE  /\ Place(NextIndex(i), k) = Place(i, k + 1)
         /\ NextIndex(Place(i, k)) = Place(i, k + 1)
BY CapacityAssumption DEF Place, Index, NextIndex

\* No turn and a full turn lead back to the same slot.
LEMMA PlaceHome ==
  ASSUME NEW i \in Index
  PROVE  Place(i, 0) = i /\ Place(i, Capacity) = i
BY CapacityAssumption DEF Place, Index

-----------------------------------------------------------------------------
(* Type correctness, by itself inductive: a push leaves count within the   *)
(* capacity only because of what its test found, so that part needs ActInv.*)

IInv == TypeOK /\ LockInv /\ RingInv /\ ActInv /\ CallInv

\* The invariant holds of an empty queue.
LEMMA InitInv == Init => IInv
<1> SUFFICES ASSUME Init PROVE IInv
  OBVIOUS
<1>1. TypeOK
  <2>1. reply \in [Threads -> [call : AllCalls \cup {"none"},
                             value : Events \cup {NoEvent} \cup BOOLEAN]]
    BY DEF Init, NoReply
  <2>2. 0 \in Index
    BY CapacityAssumption DEF Index
  <2>3. /\ items \in [Index -> Events \cup {NoEvent}]
        /\ head \in Index /\ tail \in Index /\ count \in 0 .. Capacity
    BY <2>2, CapacityAssumption DEF Init
  <2>4. pc \in [Threads -> Pcs]
    BY DEF Init, Pcs
  <2> QED BY <2>1, <2>3, <2>4 DEF Init, TypeOK
<1>2. LockInv
  BY NoThreadAssumption DEF Init, LockInv, MutexPcs, PoolPcs, RingPcs, HandPcs
<1>3. RingInv
  <2>1. 0 \in Index
    BY CapacityAssumption DEF Index
  <2>2. head = Slot(count)
    BY <2>1, PlaceHome DEF Init, Slot
  <2>3. \A k \in Index : items[Slot(k)] = NoEvent /\ ~(k < count)
    BY <2>1, PlaceType, CapacityAssumption DEF Init, Slot, Index
  <2> QED BY <2>2, <2>3 DEF RingInv
<1>4. ActInv /\ CallInv
  BY DEF Init, ActInv, CallInv, Unanswered, Pushes, WaitPcs
<1> QED BY <1>1, <1>2, <1>3, <1>4 DEF IInv

Step(t) ==
    \/ Call(t) \/ Enter(t) \/ Leave(t) \/ Broadcast(t)
    \/ PushTest(t) \/ PushAct(t) \/ TryPushAct(t)
    \/ PopTest(t) \/ PopAct(t) \/ EmptyTest(t) \/ ShutdownAct(t)
    \/ GiveUp(t) \/ LockToWait(t) \/ Wait(t) \/ TimeOut(t)
    \/ Relock(t) \/ Unwait(t) \/ Expire(t)
    \/ LockToPeek(t) \/ Peek(t) \/ UnlockPeek(t)

\* Every step is one action of one thread.
LEMMA StepCases == Next => \E t \in Threads : Step(t)
BY DEF Next, Locking, Working, Step

\* An answer is of its type, whichever thread and call it goes to.
Replies == [Threads -> [call : AllCalls \cup {"none"},
                        value : Events \cup {NoEvent} \cup BOOLEAN]]

\* What a call answers with has the type of an answer.
LEMMA AnswerType ==
  ASSUME NEW t \in Threads, reply \in Replies, op[t] \in AllCalls,
         NEW v \in Events \cup {NoEvent} \cup BOOLEAN, Answer(t, v)
  PROVE  reply' \in Replies
BY DEF Answer, Replies

\* The types hold after every step.
LEMMA TypeStep ==
  ASSUME IInv, Next
  PROVE  TypeOK'
<1> USE DEF IInv, TypeOK, vars, ring, locks, Goto, Then, Pcs
<1>1. PICK t \in Threads : Step(t)
  BY StepCases
<1>2. CASE Call(t)
  BY <1>2, CallsAssumption DEF Call, NoReply
<1>3. CASE Enter(t)
  BY <1>3 DEF Enter, AcquireRing, AcquireMutex, RingPcs
<1>4. CASE Leave(t)
  BY <1>4 DEF Leave, ReleaseRing, ReleaseMutex
<1>5. CASE Broadcast(t)
  BY <1>5 DEF Broadcast
<1>6. CASE PushTest(t) \/ PopTest(t) \/ EmptyTest(t) \/ ShutdownAct(t)
  <2>1. reply' \in Replies
    <3>1. \/ UNCHANGED reply
          \/ \E v \in {NoEvent} \cup BOOLEAN : Answer(t, v)
      BY <1>6 DEF PushTest, PopTest, EmptyTest, ShutdownAct
    <3>2. op[t] \in AllCalls
      BY <1>6 DEF PushTest, PopTest, EmptyTest, ShutdownAct, Pushes, Pops, AllCalls
    <3> QED BY <3>1, <3>2, AnswerType DEF Replies
  <2>2. pc' \in [Threads -> Pcs] /\ exit' \in [Threads -> {"idle", "broadcast", "again"}]
    BY <1>6 DEF PushTest, PopTest, EmptyTest, ShutdownAct, RingPcs
  <2> QED BY <1>6, <2>1, <2>2 DEF PushTest, PopTest, EmptyTest, ShutdownAct, Replies
<1>7. CASE PushAct(t) \/ TryPushAct(t)
  <2>1. Answer(t, TRUE) /\ op[t] \in Pushes /\ pc[t] = "act"
    BY <1>7 DEF PushAct, TryPushAct, Pushes
  <2>2. reply' \in Replies
    <3>1. op[t] \in AllCalls /\ TRUE \in BOOLEAN
      BY <2>1 DEF Pushes, AllCalls
    <3> QED BY <2>1, <3>1, AnswerType DEF Replies
  <2>3. items' \in [Index -> Events \cup {NoEvent}]
    BY <1>7, <2>1 DEF PushAct, TryPushAct, CallInv
  <2>4. head' \in Index /\ tail' \in Index
    <3>1. NextIndex(head) \in Index
      BY NextType
    <3>2. CASE PushAct(t)
      BY <3>1, <3>2 DEF PushAct
    <3>3. CASE TryPushAct(t)
      BY <3>1, <3>3 DEF TryPushAct
    <3> QED BY <1>7, <3>2, <3>3
  <2>5. count' \in 0 .. Capacity
    <3>1. CASE PushAct(t)
      BY <3>1, CapacityAssumption DEF PushAct
    <3>2. CASE TryPushAct(t)
      BY SMTT(30), <3>2, CapacityAssumption DEF TryPushAct, ActInv, Pops
    <3> QED BY <1>7, <3>1, <3>2
  <2>6. pc' \in [Threads -> Pcs]
    BY <1>7 DEF PushAct, TryPushAct, RingPcs
  <2> QED BY <1>7, <2>2, <2>3, <2>4, <2>5, <2>6 DEF PushAct, TryPushAct, Replies
<1>10. CASE PopAct(t)
  <2>1. Answer(t, items[tail]) /\ op[t] \in Pops
    BY <1>10 DEF PopAct
  <2>2. reply' \in Replies
    BY <2>1, AnswerType DEF Replies, Pops, AllCalls
  <2>3. tail' \in Index
    BY <1>10, NextType DEF PopAct
  <2>4. count' \in 0 .. Capacity
    BY <1>10, CapacityAssumption DEF PopAct, ActInv, Pops
  <2>5. pc' \in [Threads -> Pcs]
    BY <1>10 DEF PopAct, RingPcs
  <2> QED BY <1>10, <2>2, <2>3, <2>4, <2>5 DEF PopAct, Replies
<1>13. CASE GiveUp(t)
  BY <1>13 DEF GiveUp, Answer
<1>14. CASE LockToWait(t) \/ Relock(t) \/ LockToPeek(t)
  BY <1>14 DEF LockToWait, Relock, LockToPeek, AcquireMutex, HandPcs
<1>15. CASE Wait(t) \/ Unwait(t) \/ UnlockPeek(t)
  BY <1>15 DEF Wait, Unwait, UnlockPeek, ReleaseMutex
<1>16. CASE TimeOut(t) \/ Expire(t)
  BY <1>16 DEF TimeOut, Expire
<1>17. CASE Peek(t)
  BY <1>17 DEF Peek, Answer, HandPcs
<1> QED BY <1>1, <1>2, <1>3, <1>4, <1>5, <1>6, <1>7, <1>10, <1>13, <1>14,
           <1>15, <1>16, <1>17 DEF Step

\* Ownership follows the program counters through every step.
LEMMA LockStep ==
  ASSUME IInv, Next
  PROVE  LockInv'
<1> USE NoThreadAssumption, PoolLockAssumption DEF IInv, TypeOK, LockInv, locks, Goto,
        MutexPcs, PoolPcs, RingPcs, HandPcs
<1>1. PICK t \in Threads : Step(t)
  BY StepCases
<1>2. CASE Call(t) \/ GiveUp(t) \/ TimeOut(t) \/ Expire(t)
  BY SMTT(30), <1>2 DEF Call, GiveUp, TimeOut, Expire
<1>3. CASE Enter(t)
  BY <1>3 DEF Enter, AcquireRing, AcquireMutex
<1>4. CASE Leave(t)
  BY <1>4 DEF Leave, ReleaseRing, ReleaseMutex
<1>5. CASE Broadcast(t)
  BY <1>5 DEF Broadcast
<1>6. CASE \/ PushTest(t) \/ PopTest(t) \/ EmptyTest(t) \/ ShutdownAct(t)
           \/ PushAct(t) \/ TryPushAct(t) \/ PopAct(t)
  <2>1. /\ pc[t] \in RingPcs
        /\ \E place \in RingPcs : pc' = [pc EXCEPT ![t] = place]
        /\ UNCHANGED <<mutex, pool>>
    BY <1>6 DEF PushTest, PopTest, EmptyTest, ShutdownAct, PushAct, TryPushAct, PopAct
  <2> QED BY <2>1
<1>8. CASE LockToWait(t) \/ Relock(t) \/ LockToPeek(t)
  <2>1. /\ pc[t] \in {"again", "relock", "enter"} /\ mutex = NoThread
        /\ \E place \in HandPcs : pc' = [pc EXCEPT ![t] = place]
        /\ mutex' = t /\ pool' = pool
    BY <1>8 DEF LockToWait, Relock, LockToPeek, AcquireMutex
  <2> QED BY <2>1
<1>9. CASE Wait(t) \/ Unwait(t) \/ UnlockPeek(t)
  <2>1. /\ pc[t] \in HandPcs
        /\ \E place \in {"waiting", "enter", "idle"} : pc' = [pc EXCEPT ![t] = place]
        /\ mutex' = NoThread /\ pool' = pool
    BY <1>9 DEF Wait, Unwait, UnlockPeek, ReleaseMutex
  <2>2. mutex = t /\ \A u \in Threads \ {t} : pc[u] \notin MutexPcs
    BY <2>1
  <2>3. pc'[t] \notin MutexPcs /\ pc'[t] \notin PoolPcs /\ pc[t] \notin PoolPcs
    BY <2>1
  <2>4. \A u \in Threads \ {t} : pc'[u] = pc[u]
    BY <2>1
  <2> HIDE DEF MutexPcs, PoolPcs, RingPcs, HandPcs
  <2> QED BY <2>1, <2>2, <2>3, <2>4
<1>10. CASE Peek(t)
  BY <1>10 DEF Peek
<1> QED BY <1>1, <1>2, <1>3, <1>4, <1>5, <1>6, <1>8, <1>9, <1>10 DEF Step

\* At most one thread is between owning the ring's fields and giving them up.
LEMMA OneInRing ==
  ASSUME TypeOK, LockInv, NEW t \in Threads, NEW u \in Threads,
         pc[t] \in RingPcs, pc[u] \in RingPcs
  PROVE  t = u
BY DEF TypeOK, LockInv, MutexPcs, PoolPcs

\* The cursors and the slots stay in step when a push or a pop moves them.
LEMMA RingStep ==
  ASSUME IInv, Next
  PROVE  RingInv'
<1> USE DEF IInv, TypeOK, RingInv, Slot
<1>1. PICK t \in Threads : Step(t)
  BY StepCases
<1>2. ASSUME UNCHANGED <<items, head, tail, count>>
      PROVE  RingInv'
  BY <1>2
\* Filling the slot after the last event.
<1>3. ASSUME arg[t] \in Events, count < Capacity,
             items' = [items EXCEPT ![head] = arg[t]], head' = NextIndex(head),
             count' = count + 1, tail' = tail
      PROVE  RingInv'
  <2>1. count \in Index /\ head = Place(tail, count)
    BY <1>3, CapacityAssumption DEF Index
  <2>2. head' = Place(tail', count')
    BY <1>3, <2>1, PlaceNext
  <2>3. ASSUME NEW k \in Index
        PROVE  items'[Place(tail', k)] # NoEvent <=> k < count'
    <3>1. Place(tail, k) \in Index /\ (Place(tail, k) = head <=> k = count)
      BY <2>1, PlaceType, PlaceInjective
    <3>2. items'[Place(tail, k)] = IF k = count THEN arg[t] ELSE items[Place(tail, k)]
      BY <1>3, <3>1
    <3> QED BY <1>3, <2>1, <3>1, <3>2, NoEventAssumption, CapacityAssumption DEF Index
  <2> QED BY <2>2, <2>3
\* Overwriting the oldest event of a full ring.
<1>4. ASSUME arg[t] \in Events, count = Capacity,
             items' = [items EXCEPT ![head] = arg[t]], head' = NextIndex(head),
             count' = count, tail' = NextIndex(head)
      PROVE  RingInv'
  <2>1. head = tail
    BY <1>4, PlaceHome
  <2>2. NextIndex(tail) \in Index
    BY NextType
  <2>3. head' = Place(tail', count')
    BY <1>4, <2>1, <2>2, PlaceHome
  <2>4. ASSUME NEW k \in Index
        PROVE  items'[Place(tail', k)] # NoEvent <=> k < count'
    <3>1. Place(tail', k) \in Index
      BY <1>4, <2>1, <2>2, PlaceType
    <3>2. \A i \in Index : items[i] # NoEvent
      <4>1. ASSUME NEW i \in Index PROVE \E j \in Index : Place(tail, j) = i
        <5>1. CASE i >= tail
          <6>1. i - tail \in Index /\ Place(tail, i - tail) = i
            BY <5>1, CapacityAssumption DEF Index, Place
          <6> QED BY <6>1
        <5>2. CASE i < tail
          <6>1. i - tail + Capacity \in Index /\ Place(tail, i - tail + Capacity) = i
            BY <5>2, CapacityAssumption DEF Index, Place
          <6> QED BY <6>1
        <5> QED BY <5>1, <5>2, CapacityAssumption DEF Index
      <4>2. \A j \in Index : j < count
        BY <1>4, CapacityAssumption DEF Index
      <4> QED BY <4>1, <4>2
    <3>3. items'[Place(tail', k)] # NoEvent
      BY <1>4, <3>1, <3>2, NoEventAssumption
    <3> QED BY <1>4, <3>3, CapacityAssumption DEF Index
  <2> QED BY <2>3, <2>4
\* Emptying the slot of the oldest event.
<1>5. ASSUME count > 0, items' = [items EXCEPT ![tail] = NoEvent],
             tail' = NextIndex(tail), count' = count - 1, head' = head
      PROVE  RingInv'
  <2>1. count - 1 \in Index /\ 0 \in Index
    BY <1>5, CapacityAssumption DEF Index
  <2>2. head' = Place(tail', count')
    BY <1>5, <2>1, PlaceNext
  <2>3. ASSUME NEW k \in Index
        PROVE  items'[Place(tail', k)] # NoEvent <=> k < count'
    <3>1. Place(tail', k) = Place(tail, k + 1)
      BY <1>5, PlaceNext
    <3>2. CASE k + 1 = Capacity
      <4>1. Place(tail', k) = tail
        BY <3>1, <3>2, PlaceHome
      <4> QED BY <1>5, <3>2, <4>1, CapacityAssumption DEF Index
    <3>3. CASE k + 1 # Capacity
      <4>1. k + 1 \in Index /\ k + 1 # 0
        BY <3>3, CapacityAssumption DEF Index
      <4>2. Place(tail, k + 1) \in Index /\ Place(tail, k + 1) # tail
        BY <2>1, <4>1, PlaceType, PlaceHome, PlaceInjective
      <4>3. items'[Place(tail', k)] = items[Place(tail, k + 1)]
        BY <1>5, <3>1, <4>1, <4>2
      <4> QED BY <1>5, <4>1, <4>3, CapacityAssumption DEF Index
    <3> QED BY <3>2, <3>3
  <2> QED BY <2>2, <2>3
<1>6. CASE PushAct(t)
  BY <1>3, <1>4, <1>6, CapacityAssumption DEF PushAct, CallInv, Pushes
<1>7. CASE TryPushAct(t)
  BY <1>3, <1>7 DEF TryPushAct, CallInv, ActInv, Pushes, Pops
<1>8. CASE PopAct(t)
  BY <1>5, <1>8 DEF PopAct, ActInv, Pops
<1>9. CASE \/ Call(t) \/ Enter(t) \/ Leave(t) \/ Broadcast(t)
           \/ PushTest(t) \/ PopTest(t) \/ EmptyTest(t) \/ ShutdownAct(t)
  BY <1>2, <1>9 DEF Call, Enter, Leave, Broadcast, PushTest, PopTest, EmptyTest,
                    ShutdownAct, ring
<1>10. CASE \/ GiveUp(t) \/ LockToWait(t) \/ Wait(t) \/ TimeOut(t)
            \/ Relock(t) \/ Unwait(t) \/ Expire(t)
            \/ LockToPeek(t) \/ Peek(t) \/ UnlockPeek(t)
  BY <1>2, <1>10 DEF GiveUp, LockToWait, Wait, TimeOut, Relock, Unwait, Expire,
                     LockToPeek, Peek, UnlockPeek, ring
<1> QED BY <1>1, <1>6, <1>7, <1>8, <1>9, <1>10 DEF Step

\* What a thread found in its test is not undone before it acts: the fields
\* change only in a thread that owns the ring, and one thread owns it.
LEMMA ActStep ==
  ASSUME IInv, Next
  PROVE  ActInv'
<1> USE DEF IInv, TypeOK, ActInv, Goto
<1>1. PICK t \in Threads : Step(t)
  BY StepCases
\* A step of t inside the ring: no other thread is about to act.
<1>2. ASSUME pc[t] \in RingPcs, pc'[t] # "act", \A u \in Threads \ {t} : pc'[u] = pc[u]
      PROVE  ActInv'
  BY <1>2, OneInRing DEF RingPcs
\* A step that leaves count and shutdown alone and lets nobody act.
<1>3. ASSUME UNCHANGED <<count, shutdown>>,
             \A u \in Threads : pc'[u] = "act" => pc[u] = "act" /\ op'[u] = op[u]
      PROVE  ActInv'
  BY <1>3
<1>4. CASE PushTest(t)
  <2>1. CASE RefusesPush(t)
    BY <1>2, <1>4, <2>1 DEF PushTest, RingPcs
  <2>2. CASE ~RefusesPush(t)
    <3>1. count <= Capacity /\ count # Capacity => count < Capacity
      BY CapacityAssumption
    <3> QED BY <1>4, <2>2, <3>1 DEF PushTest, RefusesPush, Pushes, ring
  <2> QED BY <2>1, <2>2
<1>5. CASE PopTest(t)
  <2>1. CASE count > 0
    BY <1>4, <1>5, <2>1 DEF PopTest, ring
  <2>2. CASE ~(count > 0)
    BY <1>2, <1>5, <2>2 DEF PopTest, RingPcs
  <2> QED BY <2>1, <2>2
<1>6. CASE PushAct(t) \/ TryPushAct(t) \/ PopAct(t) \/ EmptyTest(t) \/ ShutdownAct(t)
  BY <1>2, <1>6 DEF PushAct, TryPushAct, PopAct, EmptyTest, ShutdownAct, RingPcs
<1>7. CASE Call(t) \/ Enter(t) \/ Leave(t) \/ Broadcast(t)
  BY <1>3, <1>7 DEF Call, Enter, Leave, Broadcast, ring
<1>8. CASE \/ GiveUp(t) \/ LockToWait(t) \/ Wait(t) \/ TimeOut(t)
           \/ Relock(t) \/ Unwait(t) \/ Expire(t)
           \/ LockToPeek(t) \/ Peek(t) \/ UnlockPeek(t)
  BY <1>3, <1>8 DEF GiveUp, LockToWait, Wait, TimeOut, Relock, Unwait, Expire,
                    LockToPeek, Peek, UnlockPeek, ring
<1> QED BY <1>1, <1>4, <1>5, <1>6, <1>7, <1>8 DEF Step

\* A step of one call leaves the others' books alone and keeps its own.
LEMMA CallStep ==
  ASSUME IInv, Next
  PROVE  CallInv'
<1> USE DEF IInv, TypeOK, CallInv, Unanswered, WaitPcs, Goto, Then
<1>1. PICK t \in Threads : Step(t)
  BY StepCases
<1>2. CASE Call(t)
  BY <1>2, CallsAssumption DEF Call, Pushes, AllCalls
<1>3. CASE Enter(t) \/ LockToWait(t) \/ Relock(t) \/ LockToPeek(t)
  BY <1>3 DEF Enter, LockToWait, Relock, LockToPeek
<1>4. CASE Leave(t)
  BY <1>4 DEF Leave
<1>5. CASE Broadcast(t)
  BY <1>5 DEF Broadcast
<1>6. CASE PushTest(t) \/ PushAct(t) \/ TryPushAct(t)
  BY <1>6 DEF PushTest, PushAct, TryPushAct, Answer, Pushes
<1>7. CASE PopTest(t) \/ PopAct(t)
  BY <1>7 DEF PopTest, PopAct, Answer, Pops
<1>8. CASE EmptyTest(t) \/ ShutdownAct(t)
  BY <1>8 DEF EmptyTest, ShutdownAct, Answer
<1>9. CASE GiveUp(t) \/ Peek(t)
  BY <1>9 DEF GiveUp, Peek, Answer
<1>10. CASE Wait(t) \/ Unwait(t) \/ UnlockPeek(t) \/ TimeOut(t) \/ Expire(t)
  BY <1>10 DEF Wait, Unwait, UnlockPeek, TimeOut, Expire
<1> QED BY <1>1, <1>2, <1>3, <1>4, <1>5, <1>6, <1>7, <1>8, <1>9, <1>10 DEF Step

\* The inductive invariant holds in every reachable state.
THEOREM Inductive == Spec => []IInv
<1>1. IInv /\ [Next]_vars => IInv'
  <2>1. ASSUME IInv, Next PROVE IInv'
    BY <2>1, TypeStep, LockStep, RingStep, ActStep, CallStep DEF IInv
  <2>2. ASSUME IInv, UNCHANGED vars PROVE IInv'
    BY <2>2 DEF IInv, TypeOK, LockInv, RingInv, ActInv, CallInv, Unanswered, Slot,
                vars, ring, locks
  <2> QED BY <2>1, <2>2
<1> QED BY InitInv, <1>1, PTL DEF Spec

\* Type correctness of the ring, the locks and every thread's variables.
THEOREM TypeCorrect == Spec => []TypeOK
BY Inductive, PTL DEF IInv

\* Head, tail, count and the slots never disagree, whatever threads push, pop
\* and overwrite at once.
THEOREM RingCorrect == Spec => []RingInv
BY Inductive, PTL DEF IInv

\* No try_push overwrites, no pop takes from an empty ring, and no event enters
\* a queue that is shut down: the tests hold when they are acted on.
THEOREM ActCorrect == Spec => []ActInv
BY Inductive, PTL DEF IInv

-----------------------------------------------------------------------------
(* The ring implements the abstract queue. *)

\* The slots from the tail on are a sequence of count events.
LEMMA ContentsType ==
  ASSUME IInv
  PROVE  Contents \in Seq(Events) /\ Len(Contents) = count
<1> USE DEF IInv, TypeOK, RingInv
<1>1. count \in Nat
  BY CapacityAssumption
<1>2. ASSUME NEW k \in 1 .. count PROVE items[Slot(k - 1)] \in Events
  <2>1. k - 1 \in Index /\ k - 1 < count
    BY <1>1, CapacityAssumption DEF Index
  <2>2. Slot(k - 1) \in Index
    BY <2>1, PlaceType DEF Slot
  <2> QED BY <2>1, <2>2
<1>3. Contents \in [1 .. count -> Events]
  BY <1>2 DEF Contents
<1>4. [1 .. count -> Events] \subseteq Seq(Events)
  BY <1>1
<1> QED BY <1>1, <1>3, <1>4

\* Two sequences of events with the same length and elements are one: the form
\* in which the sequences below are compared.
LEMMA SameSequence ==
  ASSUME NEW n \in Nat, NEW f \in [1 .. n -> Events], NEW s \in Seq(Events), Len(s) = n,
         \A k \in 1 .. n : f[k] = s[k]
  PROVE  f = s
<1>1. f \in Seq(Events) /\ Len(f) = n
  OBVIOUS
<1> QED BY <1>1, SeqEqual

\* What does not touch the ring does not touch what it stands for.
LEMMA ContentsSame ==
  ASSUME UNCHANGED <<items, tail, count>>
  PROVE  Contents' = Contents
BY DEF Contents, Slot

\* Filling the slot after the last event appends.
LEMMA ContentsAppend ==
  ASSUME IInv, NEW e \in Events, count < Capacity,
         items' = [items EXCEPT ![head] = e], tail' = tail, count' = count + 1
  PROVE  Contents' = Append(Contents, e)
<1> USE DEF IInv, TypeOK, RingInv
<1>1. count \in Index /\ count \in Nat /\ head = Place(tail, count)
  BY CapacityAssumption DEF Slot, Index
<1>2. ASSUME NEW k \in 1 .. count + 1
      PROVE  items'[Place(tail, k - 1)] = IF k = count + 1 THEN e ELSE items[Place(tail, k - 1)]
  <2>1. k - 1 \in Index
    BY <1>1, CapacityAssumption DEF Index
  <2>2. Place(tail, k - 1) \in Index
    BY <2>1, PlaceType
  <2>3. Place(tail, k - 1) = head <=> k - 1 = count
    BY <1>1, <2>1, PlaceInjective
  <2> QED BY <1>1, <2>2, <2>3
<1>3. Contents' = [k \in 1 .. count + 1 |-> items'[Place(tail, k - 1)]]
  BY DEF Contents, Slot
<1>4. Contents \in Seq(Events) /\ Len(Contents) = count
  BY ContentsType
<1>5. /\ Append(Contents, e) \in Seq(Events) /\ Len(Append(Contents, e)) = count + 1
      /\ \A k \in 1 .. count : Append(Contents, e)[k] = Contents[k]
      /\ Append(Contents, e)[count + 1] = e
  BY <1>4, AppendProperties
<1>6. \A k \in 1 .. count : Contents[k] = items[Place(tail, k - 1)] /\ Contents[k] \in Events
  BY <1>4, ElementOfSeq DEF Contents, Slot
<1>7. \A k \in 1 .. count + 1 : Contents'[k] = Append(Contents, e)[k] /\ Contents'[k] \in Events
  <2>1. \A k \in 1 .. count + 1 : k = count + 1 \/ (k # count + 1 /\ k \in 1 .. count)
    BY <1>1
  <2> QED BY <1>2, <1>3, <1>5, <1>6, <2>1
<1>8. Contents' \in [1 .. count + 1 -> Events]
  BY <1>3, <1>7
<1> QED BY <1>1, <1>5, <1>7, <1>8, SameSequence

\* Overwriting the oldest slot of a full ring drops the head and appends.
LEMMA ContentsOverwrite ==
  ASSUME IInv, NEW e \in Events, count = Capacity,
         items' = [items EXCEPT ![head] = e], tail' = NextIndex(head), count' = count
  PROVE  Contents' = Append(Tail(Contents), e)
<1> USE DEF IInv, TypeOK, RingInv
<1>1. head = tail /\ count \in Nat \ {0}
  BY PlaceHome, CapacityAssumption DEF Slot
<1>2. ASSUME NEW k \in 1 .. count
      PROVE  items'[Place(tail', k - 1)] = IF k = count THEN e ELSE items[Place(tail, k)]
  <2>1. k - 1 \in Index /\ 0 \in Index /\ (k - 1) + 1 = k
    BY <1>1, CapacityAssumption DEF Index
  <2>2. Place(tail', k - 1) = Place(tail, k)
    BY <1>1, <2>1, PlaceNext
  <2>3. CASE k = count
    BY <1>1, <2>2, <2>3, PlaceHome
  <2>4. CASE k # count
    <3>1. k \in Index /\ k # 0
      BY <1>1, <2>4, CapacityAssumption DEF Index
    <3>2. Place(tail, k) \in Index /\ Place(tail, k) # tail
      BY <2>1, <3>1, PlaceType, PlaceHome, PlaceInjective
    <3> QED BY <1>1, <2>2, <2>4, <3>2
  <2> QED BY <2>3, <2>4
<1>3. Contents' = [k \in 1 .. count |-> items'[Place(tail', k - 1)]]
  BY DEF Contents, Slot
<1>4. Contents \in Seq(Events) /\ Len(Contents) = count
  BY ContentsType
<1>5. /\ Tail(Contents) \in Seq(Events) /\ Len(Tail(Contents)) = count - 1
      /\ \A k \in 1 .. count - 1 : Tail(Contents)[k] = Contents[k + 1]
  <2>1. Contents # <<>>
    BY <1>1, <1>4
  <2> QED BY <1>4, <2>1, HeadTailProperties
<1>6. /\ Append(Tail(Contents), e) \in Seq(Events) /\ Len(Append(Tail(Contents), e)) = count
      /\ \A k \in 1 .. count - 1 : Append(Tail(Contents), e)[k] = Contents[k + 1]
      /\ Append(Tail(Contents), e)[count] = e
  BY <1>1, <1>5, AppendProperties
<1>7. ASSUME NEW k \in 1 .. count - 1
      PROVE  Contents[k + 1] = items[Place(tail, k)] /\ Contents[k + 1] \in Events
  <2>1. k + 1 \in 1 .. count /\ (k + 1) - 1 = k
    BY <1>1
  <2> QED BY <1>4, <2>1, ElementOfSeq DEF Contents, Slot
<1>8. \A k \in 1 .. count :
        Contents'[k] = Append(Tail(Contents), e)[k] /\ Contents'[k] \in Events
  <2>1. \A k \in 1 .. count : k = count \/ k \in 1 .. count - 1
    BY <1>1
  <2> QED BY <1>2, <1>3, <1>6, <1>7, <2>1
<1>9. Contents' \in [1 .. count -> Events]
  BY <1>3, <1>8
<1> QED BY <1>1, <1>6, <1>8, <1>9, SameSequence

\* Emptying the slot at the tail hands out the head of the queue.
LEMMA ContentsPop ==
  ASSUME IInv, count > 0,
         items' = [items EXCEPT ![tail] = NoEvent], tail' = NextIndex(tail),
         count' = count - 1
  PROVE  /\ Contents # <<>>
         /\ Head(Contents) = items[tail]
         /\ Contents' = Tail(Contents)
<1> USE DEF IInv, TypeOK, RingInv
<1>1. Contents \in Seq(Events) /\ Len(Contents) = count /\ count \in Nat \ {0}
  BY ContentsType, CapacityAssumption
<1>2. Head(Contents) = items[tail]
  <2>1. Head(Contents) = Contents[1]
    BY <1>1
  <2> QED BY <1>1, <2>1, PlaceHome DEF Contents, Slot
<1>3. ASSUME NEW k \in 1 .. count - 1
      PROVE  items'[Place(tail', k - 1)] = Contents[k + 1]
  <2>1. k \in Index /\ k # 0 /\ k - 1 \in Index /\ 0 \in Index /\ (k - 1) + 1 = k
    BY <1>1, CapacityAssumption DEF Index
  <2>2. Place(tail', k - 1) = Place(tail, k)
    BY <2>1, PlaceNext
  <2>3. Place(tail, k) \in Index /\ Place(tail, k) # tail
    BY <2>1, PlaceType, PlaceHome, PlaceInjective
  <2>4. k + 1 \in 1 .. count /\ (k + 1) - 1 = k
    BY <1>1
  <2> QED BY <2>2, <2>3, <2>4 DEF Contents, Slot
<1>4. Contents' = [k \in 1 .. count - 1 |-> Contents[k + 1]]
  BY <1>3 DEF Contents, Slot
<1>5. /\ Contents # <<>>
      /\ Tail(Contents) \in Seq(Events) /\ Len(Tail(Contents)) = count - 1
      /\ \A k \in 1 .. count - 1 : Tail(Contents)[k] = Contents[k + 1]
  <2>1. Contents # <<>>
    BY <1>1
  <2> QED BY <1>1, <2>1, HeadTailProperties
<1>6. \A k \in 1 .. count - 1 : k + 1 \in 1 .. count
  BY <1>1
<1>7. Contents' \in [1 .. count - 1 -> Events] /\ count - 1 \in Nat
  BY <1>1, <1>4, <1>6, ElementOfSeq
<1>8. Contents' = Tail(Contents)
  BY ZenonT(40), <1>4, <1>5, <1>7, SameSequence
<1> QED BY <1>2, <1>5, <1>8

\* Everything but the steps that decide an answer is invisible from outside.
LEMMA Stutter ==
  ASSUME UNCHANGED <<items, tail, count, shutdown, reply>>
  PROVE  UNCHANGED Queue!vars
BY ContentsSame DEF Queue!vars

\* Every step of the ring buffer is a step of the abstract queue or stutters.
LEMMA RefinesStep ==
  ASSUME IInv, Next
  PROVE  [Queue!Next]_(Queue!vars)
<1> USE DEF IInv, TypeOK, CallInv, Unanswered, ring, locks, NoReply
<1>1. PICK t \in Threads : Step(t)
  BY StepCases
<1>2. Contents \in Seq(Events) /\ Len(Contents) = count
  BY ContentsType
<1>3. (Contents = <<>> <=> count = 0) /\ (Queue!HasRoom(Contents) <=> count < Capacity)
  BY <1>2 DEF Queue!HasRoom
<1>4. ASSUME NEW v, Answer(t, v), Unanswered(t)
      PROVE  Queue!Answer(t, op[t], v)
  BY <1>4 DEF Answer, Queue!Answer
<1>5. CASE Call(t)
  <2>1. Contents' = Contents
    BY <1>5, ContentsSame DEF Call
  <2>2. Queue!Begin(t)
    BY <1>5, <2>1 DEF Call, Queue!Begin, Queue!NoReply
  <2> QED BY <2>2 DEF Queue!Next
<1>6. CASE PushTest(t)
  <2>1. CASE RefusesPush(t)
    <3>1. Queue!Answer(t, op[t], FALSE) /\ Contents' = Contents
      BY <1>4, <1>6, <2>1, ContentsSame DEF PushTest
    <3>2. UNCHANGED <<Contents, shutdown>>
      BY <1>6, <3>1 DEF PushTest
    <3>3. CASE op[t] = "push" /\ shutdown
      BY <3>1, <3>2, <3>3 DEF Queue!RefusePush, Queue!Next
    <3>4. CASE op[t] = "try_push" /\ (shutdown \/ count = Capacity)
      <4>1. shutdown \/ ~Queue!HasRoom(Contents)
        BY <1>3, <3>4, CapacityAssumption
      <4> QED BY <3>1, <3>2, <3>4, <4>1 DEF Queue!RefuseTryPush, Queue!Next
    <3> QED BY <2>1, <3>3, <3>4 DEF RefusesPush
  <2>2. CASE ~RefusesPush(t)
    BY <1>6, <2>2, Stutter DEF PushTest
  <2> QED BY <2>1, <2>2
<1>7. CASE PushAct(t)
  <2>1. arg[t] \in Events /\ ~shutdown /\ Queue!Answer(t, "push", TRUE)
    BY <1>4, <1>7 DEF PushAct, ActInv, Pushes, Pops
  <2>2. CASE count = Capacity
    <3>1. Contents' = Append(Tail(Contents), arg[t])
      BY <1>7, <2>1, <2>2, ContentsOverwrite DEF PushAct
    <3>2. Contents' = Queue!Overwriting(Contents, arg[t])
      BY <1>2, <2>2, <3>1, CapacityAssumption DEF Queue!Overwriting
    <3>3. Queue!Push(t)
      BY <1>7, <2>1, <3>2 DEF PushAct, Queue!Push
    <3> QED BY <3>3 DEF Queue!Next
  <2>3. CASE count # Capacity
    <3>1. count < Capacity
      BY <2>3, CapacityAssumption
    <3>2. Contents' = Append(Contents, arg[t])
      <4>1. /\ items' = [items EXCEPT ![head] = arg[t]]
            /\ tail' = tail /\ count' = count + 1
        BY <1>7, <2>3 DEF PushAct
      <4> QED BY <2>1, <3>1, <4>1, ContentsAppend
    <3>3. Contents' = Queue!Overwriting(Contents, arg[t])
      BY <1>2, <3>1, <3>2 DEF Queue!Overwriting
    <3>4. Queue!Push(t)
      BY <1>7, <2>1, <3>3 DEF PushAct, Queue!Push
    <3> QED BY <3>4 DEF Queue!Next
  <2> QED BY <2>2, <2>3
<1>8. CASE TryPushAct(t)
  <2>1. arg[t] \in Events /\ ~shutdown /\ count < Capacity /\ Queue!Answer(t, "try_push", TRUE)
    BY <1>4, <1>8 DEF TryPushAct, ActInv, Pushes, Pops
  <2>2. Contents' = Append(Contents, arg[t])
    BY <1>8, <2>1, ContentsAppend DEF TryPushAct
  <2>3. Queue!TryPush(t)
    BY <1>3, <1>8, <2>1, <2>2 DEF TryPushAct, Queue!TryPush
  <2> QED BY <2>3 DEF Queue!Next
<1>9. CASE PopTest(t)
  <2>1. Contents' = Contents
    BY <1>9, ContentsSame DEF PopTest
  <2>2. CASE count > 0 \/ UNCHANGED reply
    BY <1>9, <2>2, Stutter DEF PopTest
  <2>3. CASE count = 0 /\ (shutdown \/ op[t] = "try_pop") /\ Answer(t, NoEvent)
    <3>1. Queue!Answer(t, op[t], NoEvent)
      BY <1>4, <1>9, <2>3 DEF PopTest
    <3>2. Queue!PopDrained(t) \/ Queue!TryPopEmpty(t) \/ Queue!TimedPopNothing(t)
      BY <1>3, <1>9, <2>1, <2>3, <3>1
         DEF PopTest, Pops, Queue!PopDrained, Queue!TryPopEmpty, Queue!TimedPopNothing
    <3> QED BY <3>2 DEF Queue!Next
  <2> QED BY <1>9, <2>2, <2>3 DEF PopTest
<1>10. CASE PopAct(t)
  <2>1. count > 0 /\ op[t] \in Pops /\ Queue!Answer(t, op[t], items[tail])
    BY <1>4, <1>10 DEF PopAct, ActInv, Pops
  <2>2. /\ Contents # <<>> /\ Head(Contents) = items[tail] /\ Contents' = Tail(Contents)
    BY <1>10, <2>1, ContentsPop DEF PopAct
  <2>3. Queue!Pop(t)
    BY <1>10, <2>1, <2>2 DEF PopAct, Pops, Queue!Pop
  <2> QED BY <2>3 DEF Queue!Next
<1>11. CASE EmptyTest(t)
  <2>1. Contents' = Contents /\ Queue!Answer(t, "empty", count = 0)
    BY <1>4, <1>11, ContentsSame DEF EmptyTest
  <2>2. Queue!Empty(t)
    BY <1>3, <1>11, <2>1 DEF EmptyTest, Queue!Empty
  <2> QED BY <2>2 DEF Queue!Next
<1>12. CASE ShutdownAct(t)
  <2>1. Contents' = Contents /\ Queue!Answer(t, "shutdown", TRUE)
    BY <1>4, <1>12, ContentsSame DEF ShutdownAct
  <2>2. Queue!Shutdown(t)
    BY <1>12, <2>1 DEF ShutdownAct, Queue!Shutdown
  <2> QED BY <2>2 DEF Queue!Next
<1>13. CASE GiveUp(t)
  <2>1. Contents' = Contents /\ Queue!Answer(t, "timed_pop", NoEvent)
    BY <1>4, <1>13, ContentsSame DEF GiveUp, WaitPcs
  <2>2. Queue!TimedPopNothing(t)
    BY <1>13, <2>1 DEF GiveUp, Queue!TimedPopNothing
  <2> QED BY <2>2 DEF Queue!Next
<1>14. CASE Peek(t)
  <2>1. count > 0 => Head(Contents) = items[tail]
    <3>1. count > 0 => Head(Contents) = Contents[1] /\ 1 \in 1 .. count
      BY <1>2, CapacityAssumption
    <3> QED BY <3>1, PlaceHome DEF Contents, Slot
  <2>2. Contents' = Contents
        /\ Queue!Answer(t, "peek", IF count = 0 THEN NoEvent ELSE items[tail])
    BY <1>4, <1>14, ContentsSame DEF Peek
  <2>3. Queue!Peek(t)
    BY <1>3, <1>14, <2>1, <2>2, CapacityAssumption DEF Peek, Queue!Peek
  <2> QED BY <2>3 DEF Queue!Next
<1>15. CASE \/ Enter(t) \/ Leave(t) \/ Broadcast(t) \/ LockToWait(t) \/ Wait(t) \/ TimeOut(t)
            \/ Relock(t) \/ Unwait(t) \/ Expire(t) \/ LockToPeek(t) \/ UnlockPeek(t)
  BY <1>15, Stutter DEF Enter, Leave, Broadcast, LockToWait, Wait, TimeOut, Relock,
                        Unwait, Expire, LockToPeek, UnlockPeek
<1> QED BY <1>1, <1>5, <1>6, <1>7, <1>8, <1>9, <1>10, <1>11, <1>12, <1>13, <1>14, <1>15 DEF Step

\* The ring buffer with its lock, its missed wake-ups and its time-outs is the
\* first-in first-out queue event.h describes, for any number of callers.
THEOREM Refines == Spec => Implements
<1>1. Init => Queue!Init
  <2> SUFFICES ASSUME Init PROVE Queue!Init
    OBVIOUS
  <2>1. IInv
    BY InitInv
  <2>2. Contents = <<>>
    BY <2>1, ContentsType DEF Init
  <2> QED BY <2>2 DEF Init, Queue!Init, NoReply, Queue!NoReply
<1>2. IInv /\ [Next]_vars => [Queue!Next]_(Queue!vars)
  BY RefinesStep, Stutter DEF vars, ring
<1> QED BY Inductive, <1>1, <1>2, PTL DEF Spec, Implements, Queue!Spec
=============================================================================
