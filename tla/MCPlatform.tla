----------------------------- MODULE MCPlatform ------------------------------
(***************************************************************************)
(* Timers, wait groups, handles, the application and the flash pause, for   *)
(* TLC: a behaviour is one of the parts instantiated here, as Init chooses. *)
(* Only one part is there at a time, so they all have the same variables.   *)
(* The theorem at the end is about the parts with any values of their       *)
(* constants.                                                               *)
(***************************************************************************)
EXTENDS Integers, FiniteSetTheorems, SequenceTheorems, TLAPS

CONSTANTS
  Users, Contexts, TimerSlots, MaxTimers, TimerBuilds, Prompt, Waiters, Owner,
  GroupBuilds, Settled, IntMax, Deltas, Groups, Lockers, Builds, Slots, Jobs,
  ThreadSlots, HashSlots, Chunk, MaxBytes, Sizes, MaxUpdates,
  Disciplined, Platforms, Flags, Backends, MaxEvents, Handlers, Discipline

VARIABLES
  which, \* the part whose behaviour this is
  v1, v2, v3, v4, v5, v6, v7, v8, v9, v10, v11, v12, v13, v14 \* its variables, in the order in which it declares them

Timers == INSTANCE Timer WITH Slots <- TimerSlots, Builds <- TimerBuilds,
    build <- v1, init <- v2, running <- v3, active <- v4, owner <- v5,
    oneShot <- v6, made <- v7, armed <- v8, pc <- v9, slot <- v10,
    timer <- v11, inside <- v12, doomed <- v13, retired <- v14
WaitGroups == INSTANCE WaitGroup WITH Threads <- Waiters,
    Builds <- GroupBuilds, permits <- v1, counter <- v2, waiters <- v3,
    init <- v4, sem <- v5, working <- v6, pc <- v7, sawZero <- v8, group <- v9,
    mine <- v10
Handles == INSTANCE SysHandles WITH Threads <- Lockers, Platforms <- Builds, platform <- v1,
    mutex <- v2, next <- v3, at <- v4, knows <- v5, slots <- v6, job <- v7,
    fifo <- v8, core1 <- v9, hash <- v10, hashLock <- v11, updates <- v12
Application == INSTANCE App WITH platform <- v1, flags <- v2, board <- v3,
    up <- v4, pc <- v5, place <- v6, worker <- v7, events <- v8,
    stopping <- v9, started <- v10, unserved <- v11
Pause == INSTANCE FlashPause WITH requested <- v1, acknowledged <- v2,
    worker_active <- v3, latch <- v4, lock <- v5, pc0 <- v6, pc1 <- v7

\* What the parts need of their constants.
ASSUME Bounds ==
  /\ Users \cap Contexts = {} /\ MaxTimers \in Nat /\ TimerBuilds \subseteq {"linux", "pico"}
  /\ Owner \in Waiters /\ GroupBuilds \subseteq {"pthread", "pico"}
  /\ IntMax \in Nat /\ Deltas \subseteq Nat /\ Groups \in Nat \ {0}
  /\ Builds \subseteq {"host", "pico", "openssl", "mbedtls"} /\ "none" \notin Lockers \cup Jobs
  /\ Platforms \subseteq {"posix", "pico"}
  /\ {Slots, ThreadSlots, HashSlots, Chunk} \subseteq Nat \ {0}
  /\ {MaxBytes, MaxUpdates} \cup Sizes \subseteq Nat /\ MaxEvents \in Nat
  /\ {Prompt, Settled, Disciplined} \subseteq BOOLEAN
  /\ Discipline \subseteq {"launched", "settled"}

\* The variables a part of so many has no use for.
After13 == v14
After12 == <<v13, After13>>
After11 == <<v12, After12>>
After10 == <<v11, After11>>
After7 == <<v8, v9, v10, After10>>
Unused13 == v14 = 0
Unused12 == v13 = 0 /\ Unused13
Unused11 == v12 = 0 /\ Unused12
Unused10 == v11 = 0 /\ Unused11
Unused7 == v8 = 0 /\ v9 = 0 /\ v10 = 0 /\ Unused10

Init ==
  \/ which = "timer" /\ Timers!Init
  \/ which = "group" /\ WaitGroups!Init /\ Unused10
  \/ which = "handles" /\ Handles!Init /\ Unused12
  \/ which = "app" /\ Application!Init /\ Unused11
  \/ which = "pause" /\ Pause!Init /\ Unused7

Next ==
  /\ which' = which
  /\ \/ which = "timer" /\ Timers!Next
     \/ which = "group" /\ WaitGroups!Next /\ UNCHANGED After10
     \/ which = "handles" /\ Handles!Next /\ UNCHANGED After12
     \/ which = "app" /\ Application!Next /\ UNCHANGED After11
     \/ which = "pause" /\ Pause!Next /\ UNCHANGED After7

vars == <<which, v1, v2, v3, v4, v5, v6, v7, v8, v9, v10, v11, v12, v13, v14>>

\* Calls and callbacks of timers go on, workers finish, a thread that can go on does,
\* each core runs on, and the flash's spin lock does not starve core 1.
Only(part, A, rest) == which = part /\ A /\ UNCHANGED <<which, rest>>
Fairness ==
  /\ \A t \in Timers!Threads : SF_vars(Only("timer", Timers!Working(t), <<>>))
  /\ WF_vars(Only("group", WaitGroups!Done, After10)) /\ WF_vars(Only("group", WaitGroups!Reset, After10))
  /\ \A t \in Waiters : WF_vars(Only("group", WaitGroups!Acquire(t) \/ WaitGroups!Return(t), After10))
  /\ WF_vars(Only("pause", Pause!Core0, After7)) /\ WF_vars(Only("pause", Pause!Core1, After7))
  /\ SF_vars(Only("pause", Pause!Read, After7))
Spec == Init /\ [][Next]_vars /\ Fairness

(* Timer: callbacks of a timer do not overlap, none runs once its timer is      *)
(* deinitialised, and no alarm outlives its slot.  WaitGroup: a wait returns    *)
(* only at zero, and none is left behind.  SysHandles: a handle is its owner's  *)
(* until it is given back.  App: what is called has been set up, and is taken   *)
(* down in reverse.  FlashPause: core 1 is parked while core 0 works on the     *)
(* flash.                                                                       *)
PlatformSound ==
  /\ which = "timer" =>
       Timers!TypeOK /\ Timers!Serialised /\ Timers!QuietAfterDeinit /\ Timers!NoStrayAlarm
  /\ which = "group" =>
       WaitGroups!TypeOK /\ WaitGroups!ReturnsAtZero /\ WaitGroups!StragglersLeave
  /\ which = "handles" => Handles!HandlesSound
  /\ which = "app" => Application!Stands
  /\ which = "pause" => Pause!TypeOK /\ Pause!ParkedWhileFlashing

(* Timer and WaitGroup: sys_timer_deinit returns, from a callback too, and so   *)
(* does every wait for a group.  FlashPause: no wake-up of core 1 is lost, and  *)
(* an operation on the flash ends.                                              *)
CallsReturn ==
  /\ \A t \in Timers!Threads : (which = "timer" /\ Timers!InDeinit(t)) ~> (which = "timer" /\ ~Timers!InDeinit(t))
  /\ \A t \in Waiters : (which = "group" /\ WaitGroups!Engaged(t)) ~> (which = "group" /\ ~WaitGroups!Engaged(t))
  /\ (which = "pause" /\ v7 \in Pause!Pausing) ~> (which = "pause" /\ v7 = "run")
  /\ (which = "pause" /\ v6 # "idle") ~> (which = "pause" /\ v6 = "idle")

------------------------------------------------------------------------------
(* Timers.  No callback of a timer overlaps another or outlives the timer,  *)
(* because one thread at a time has the timer of a slot in hand.            *)
LEMMA TimersInit == Timers!Init => Timers!IInv
BY Bounds DEF Timers!Init, Timers!IInv, Timers!Threads, Timers!Pico, Timers!Deiniting, Timers!CallbackPcs,
   Timers!Holds, Timers!Calling, Timers!TypeOK, Timers!NumbersInv, Timers!HeldByOne, Timers!UsersInv,
   Timers!ContextsInv, Timers!StoppedInv, Timers!Serialised, Timers!QuietAfterDeinit, Timers!NoStrayAlarm

LEMMA TimersStep ==
  ASSUME Prompt, Timers!IInv, Timers!Next \/ UNCHANGED Timers!vars
  PROVE  Timers!IInv'
<1> DEFINE init == v2  running == v3  active == v4  made == v7  armed == v8
           pc == v9  slot == v10  timer == v11  retired == v14
<1> USE Bounds DEF Timers!IInv, Timers!Threads, Timers!Pico, Timers!Goto, Timers!pool, Timers!Deiniting, Timers!CallbackPcs,
          Timers!Holds, Timers!Calling, Timers!TypeOK, Timers!NumbersInv, Timers!HeldByOne, Timers!UsersInv,
          Timers!ContextsInv, Timers!StoppedInv, Timers!Serialised, Timers!QuietAfterDeinit, Timers!NoStrayAlarm
<1>1. ASSUME NEW u \in Users, Timers!InitTimer(u) PROVE Timers!IInv'
  <2>1. Timers!TypeOK' BY <1>1 DEF Timers!InitTimer, Timers!Free
  <2>2. Timers!NumbersInv' BY <1>1 DEF Timers!InitTimer, Timers!Free
  <2>3. Timers!HeldByOne' BY <1>1 DEF Timers!InitTimer, Timers!Free
  <2>4. Timers!UsersInv' BY <1>1 DEF Timers!InitTimer, Timers!Free
  <2>5. Timers!ContextsInv' BY <1>1 DEF Timers!InitTimer, Timers!Free
  <2>6. Timers!StoppedInv'
    <3>1. ASSUME NEW w \in Timers!Threads, pc'[w] \in Timers!Deiniting \ {"stop"}
          PROVE  IF Timers!Pico THEN ~running'[slot'[w]]
                 ELSE timer'[w] < made'[slot'[w]] \/ (timer'[w] = made'[slot'[w]] /\ ~init'[slot'[w]])
      BY <1>1, <3>1, SMTT(30) DEF Timers!InitTimer
    <3>2. ASSUME NEW w \in Users, pc'[w] = "finish"
          PROVE  /\ Timers!Pico => ~active'[slot'[w]]
                 /\ \A n \in Contexts : pc'[n] \in Timers!CallbackPcs => <<slot'[n], timer'[n]>> # <<slot'[w], timer'[w]>>
      BY <1>1, <3>2 DEF Timers!InitTimer
    <3>3. ASSUME NEW x \in retired' PROVE x[2] < made'[x[1]] \/ (x[2] = made'[x[1]] /\ ~init'[x[1]])
      BY <1>1, <3>3 DEF Timers!InitTimer
    <3> QED BY <1>1, <3>1, <3>2, <3>3 DEF Timers!InitTimer
  <2>7. Timers!Serialised' BY <1>1 DEF Timers!InitTimer, Timers!Free
  <2>8. Timers!QuietAfterDeinit' BY <1>1 DEF Timers!InitTimer, Timers!Free
  <2>9. Timers!NoStrayAlarm' BY <1>1 DEF Timers!InitTimer, Timers!Free
  <2> QED BY <2>1, <2>2, <2>3, <2>4, <2>5, <2>6, <2>7, <2>8, <2>9
<1>2. ASSUME NEW u \in Users, Timers!Start(u) PROVE Timers!IInv'
  <2>1. Timers!TypeOK' BY <1>2 DEF Timers!Start
  <2>2. Timers!NumbersInv' BY <1>2 DEF Timers!Start
  <2>3. Timers!HeldByOne'
    <3>1. ASSUME NEW t \in Timers!Threads, Timers!Holds(t)' PROVE Timers!Holds(t)
      BY <1>2, <3>1 DEF Timers!Start
    <3> HIDE DEF Timers!Holds
    <3> QED BY <1>2, <3>1 DEF Timers!Start
  <2>4. Timers!UsersInv' BY <1>2 DEF Timers!Start
  <2>5. Timers!ContextsInv' BY <1>2 DEF Timers!Start
  <2>6. Timers!StoppedInv' BY <1>2 DEF Timers!Start
  <2>7. Timers!Serialised' BY <1>2 DEF Timers!Start
  <2>8. Timers!QuietAfterDeinit' BY <1>2 DEF Timers!Start
  <2>9. Timers!NoStrayAlarm' BY <1>2 DEF Timers!Start
  <2> QED BY <2>1, <2>2, <2>3, <2>4, <2>5, <2>6, <2>7, <2>8, <2>9
<1>3. ASSUME NEW u \in Users, Timers!Arm(u) PROVE Timers!IInv'
  <2>1. Timers!TypeOK'
    <3>1. <<slot[u], timer[u]>> \in TimerSlots \X (1 .. MaxTimers)
      BY <1>3 DEF Timers!Arm
    <3>2. armed' \subseteq TimerSlots \X (1 .. MaxTimers)
      BY <1>3, <3>1 DEF Timers!Arm
    <3>3. Timers!TypeOK OBVIOUS
    <3> HIDE DEF Timers!IInv
    <3> QED BY <1>3, <3>2, <3>3 DEF Timers!Arm
  <2>2. Timers!NumbersInv' BY <1>3 DEF Timers!Arm
  <2>3. Timers!HeldByOne' BY <1>3 DEF Timers!Arm
  <2>4. Timers!UsersInv' BY <1>3 DEF Timers!Arm
  <2>5. Timers!ContextsInv' BY <1>3 DEF Timers!Arm
  <2>6. Timers!StoppedInv' BY <1>3 DEF Timers!Arm
  <2>7. Timers!Serialised' BY <1>3 DEF Timers!Arm
  <2>8. Timers!QuietAfterDeinit' BY <1>3 DEF Timers!Arm
  <2>9. Timers!NoStrayAlarm' BY <1>3 DEF Timers!Arm
  <2> QED BY <2>1, <2>2, <2>3, <2>4, <2>5, <2>6, <2>7, <2>8, <2>9
<1>4. ASSUME NEW t \in Timers!Threads, Timers!BeginDeinit(t) PROVE Timers!IInv'
  BY <1>4 DEF Timers!BeginDeinit
<1>5. ASSUME NEW t \in Timers!Threads, Timers!Stop(t) PROVE Timers!IInv'
  <2>1. Timers!TypeOK' BY <1>5 DEF Timers!Stop
  <2>2. Timers!NumbersInv' BY <1>5 DEF Timers!Stop
  <2>3. Timers!HeldByOne' BY <1>5 DEF Timers!Stop
  <2>4. Timers!UsersInv' BY <1>5 DEF Timers!Stop
  <2>5. Timers!ContextsInv' BY <1>5 DEF Timers!Stop
  <2>6. Timers!StoppedInv'
    <3>1. ASSUME NEW w \in Timers!Threads, pc'[w] \in Timers!Deiniting \ {"stop"}
          PROVE  IF Timers!Pico THEN ~running'[slot'[w]]
                 ELSE timer'[w] < made'[slot'[w]] \/ (timer'[w] = made'[slot'[w]] /\ ~init'[slot'[w]])
      BY <1>5, <3>1, ZenonT(40) DEF Timers!Stop
    <3>2. ASSUME NEW w \in Users, pc'[w] = "finish"
          PROVE  /\ Timers!Pico => ~active'[slot'[w]]
                 /\ \A n \in Contexts : pc'[n] \in Timers!CallbackPcs => <<slot'[n], timer'[n]>> # <<slot'[w], timer'[w]>>
      BY <1>5, <3>2 DEF Timers!Stop
    <3>3. ASSUME NEW x \in retired' PROVE x[2] < made'[x[1]] \/ (x[2] = made'[x[1]] /\ ~init'[x[1]])
      BY <1>5, <3>3 DEF Timers!Stop
    <3> QED BY <1>5, <3>1, <3>2, <3>3 DEF Timers!Stop
  <2>7. Timers!Serialised' BY <1>5 DEF Timers!Stop
  <2>8. Timers!QuietAfterDeinit' BY <1>5 DEF Timers!Stop
  <2>9. Timers!NoStrayAlarm' BY <1>5 DEF Timers!Stop
  <2> QED BY <2>1, <2>2, <2>3, <2>4, <2>5, <2>6, <2>7, <2>8, <2>9
<1>6. ASSUME NEW t \in Timers!Threads, Timers!Delete(t) PROVE Timers!IInv'
  BY <1>6 DEF Timers!Delete
<1>7. ASSUME NEW t \in Timers!Threads, Timers!Wait(t) PROVE Timers!IInv'
  BY <1>7 DEF Timers!Wait
<1>8. ASSUME NEW t \in Timers!Threads, Timers!Finish(t) PROVE Timers!IInv'
  <2>1. Timers!TypeOK'
    <3>1. <<slot[t], timer[t]>> \in TimerSlots \X (1 .. MaxTimers)
      BY <1>8 DEF Timers!Finish
    <3>2. retired' \subseteq TimerSlots \X (1 .. MaxTimers)
      BY <1>8, <3>1 DEF Timers!Finish
    <3>3. Timers!TypeOK OBVIOUS
    <3> HIDE DEF Timers!IInv
    <3> QED BY <1>8, <3>2, <3>3, ZenonT(40) DEF Timers!Finish
  <2>2. Timers!NumbersInv' BY <1>8 DEF Timers!Finish
  <2>3. Timers!HeldByOne' BY <1>8 DEF Timers!Finish
  <2>4. Timers!UsersInv' BY <1>8 DEF Timers!Finish
  <2>5. Timers!ContextsInv' BY <1>8 DEF Timers!Finish
  <2>6. Timers!StoppedInv' BY <1>8 DEF Timers!Finish
  <2>7. Timers!Serialised' BY <1>8 DEF Timers!Finish
  <2>8. Timers!QuietAfterDeinit' BY <1>8 DEF Timers!Finish
  <2>9. Timers!NoStrayAlarm' BY <1>8 DEF Timers!Finish
  <2> QED BY <2>1, <2>2, <2>3, <2>4, <2>5, <2>6, <2>7, <2>8, <2>9
<1>9. ASSUME NEW n \in Contexts, Timers!Expire(n) PROVE Timers!IInv'
  BY <1>9 DEF Timers!Expire
<1>10. ASSUME NEW n \in Timers!Threads, Timers!Enter(n) PROVE Timers!IInv'
  <2>1. Timers!TypeOK' BY <1>10 DEF Timers!Enter
  <2>2. Timers!NumbersInv' BY <1>10 DEF Timers!Enter
  <2>3. Timers!HeldByOne' BY <1>10 DEF Timers!Enter
  <2>4. Timers!UsersInv' BY <1>10 DEF Timers!Enter
  <2>5. Timers!ContextsInv' BY <1>10 DEF Timers!Enter
  <2>6. Timers!StoppedInv' BY <1>10 DEF Timers!Enter
  <2>7. Timers!Serialised' BY <1>10 DEF Timers!Enter
  <2>8. Timers!QuietAfterDeinit' BY <1>10 DEF Timers!Enter
  <2>9. Timers!NoStrayAlarm' BY <1>10 DEF Timers!Enter
  <2> QED BY <2>1, <2>2, <2>3, <2>4, <2>5, <2>6, <2>7, <2>8, <2>9
<1>11. ASSUME NEW n \in Timers!Threads, Timers!EnterNot(n) PROVE Timers!IInv'
  BY <1>11 DEF Timers!EnterNot, Timers!Reschedule
<1>12. ASSUME NEW n \in Timers!Threads, Timers!Return(n) PROVE Timers!IInv'
  BY <1>12 DEF Timers!Return
<1>13. ASSUME NEW n \in Timers!Threads, Timers!Leave(n) PROVE Timers!IInv'
  <2>1. Timers!TypeOK' BY <1>13 DEF Timers!Leave, Timers!Reschedule
  <2>2. Timers!NumbersInv' BY <1>13 DEF Timers!Leave, Timers!Reschedule
  <2>3. Timers!HeldByOne' BY <1>13 DEF Timers!Leave, Timers!Reschedule
  <2>4. Timers!UsersInv' BY <1>13 DEF Timers!Leave, Timers!Reschedule
  <2>5. Timers!ContextsInv' BY <1>13 DEF Timers!Leave, Timers!Reschedule
  <2>6. Timers!StoppedInv' BY <1>13 DEF Timers!Leave, Timers!Reschedule
  <2>7. Timers!Serialised' BY <1>13 DEF Timers!Leave, Timers!Reschedule
  <2>8. Timers!QuietAfterDeinit' BY <1>13 DEF Timers!Leave, Timers!Reschedule
  <2>9. Timers!NoStrayAlarm' BY <1>13 DEF Timers!Leave, Timers!Reschedule
  <2> QED BY <2>1, <2>2, <2>3, <2>4, <2>5, <2>6, <2>7, <2>8, <2>9
<1>14. ASSUME UNCHANGED Timers!vars PROVE Timers!IInv'
  BY <1>14 DEF Timers!vars
<1> HIDE DEF Timers!IInv, Timers!Pico, Timers!Goto, Timers!pool, Timers!Deiniting, Timers!CallbackPcs
<1> QED
  BY <1>1, <1>2, <1>3, <1>4, <1>5, <1>6, <1>7, <1>8, <1>9, <1>10, <1>11, <1>12, <1>13, <1>14
  DEF Timers!Next, Timers!Working, Timers!Over

------------------------------------------------------------------------------
(* Wait groups.  A wait returns only once the counter was seen at zero. *)
LEMMA GroupsCardinality == \A S : WaitGroups!Cardinality(S) = Cardinality(S)
BY DEF WaitGroups!Cardinality, Cardinality

LEMMA GroupsInit == WaitGroups!Init => WaitGroups!IInv
<1> SUFFICES ASSUME WaitGroups!Init PROVE WaitGroups!IInv
  OBVIOUS
<1>1. WaitGroups!Inside = {} /\ WaitGroups!Blocked = {}
  BY DEF WaitGroups!Init, WaitGroups!Inside, WaitGroups!Blocked
<1> QED
  BY <1>1, FS_EmptySet, GroupsCardinality, Bounds DEF WaitGroups!Init, WaitGroups!IInv, WaitGroups!TypeOK, WaitGroups!CounterInv,
     WaitGroups!WaitsInv, WaitGroups!PermitsInv, WaitGroups!ReturnsAtZero, WaitGroups!StragglersLeave

LEMMA GroupsStep ==
  ASSUME Settled, IsFiniteSet(Waiters), WaitGroups!IInv, WaitGroups!Next \/ UNCHANGED WaitGroups!vars
  PROVE  WaitGroups!IInv'
<1> DEFINE permits == v1  counter == v2  waiters == v3  sem == v5  working == v6  pc == v7  sawZero == v8
           Inside == WaitGroups!Inside  Blocked == WaitGroups!Blocked
<1> USE Bounds
<1> WaitGroups!TypeOK /\ WaitGroups!CounterInv /\ WaitGroups!WaitsInv /\ WaitGroups!PermitsInv
    /\ WaitGroups!ReturnsAtZero /\ WaitGroups!StragglersLeave
  BY DEF WaitGroups!IInv
<1>0. /\ WaitGroups!Cardinality(Inside) \in Nat /\ WaitGroups!Cardinality(Blocked) \in Nat
      /\ WaitGroups!Cardinality(Inside) = 0 <=> Inside = {}
      /\ WaitGroups!Cardinality(Blocked) = 0 <=> Blocked = {}
      /\ \A t : WaitGroups!Cardinality(Inside \cup {t}) = IF t \in Inside THEN WaitGroups!Cardinality(Inside) ELSE WaitGroups!Cardinality(Inside) + 1
      /\ \A t : WaitGroups!Cardinality(Inside \ {t}) = IF t \in Inside THEN WaitGroups!Cardinality(Inside) - 1 ELSE WaitGroups!Cardinality(Inside)
      /\ \A t : WaitGroups!Cardinality(Blocked \ {t}) = IF t \in Blocked THEN WaitGroups!Cardinality(Blocked) - 1 ELSE WaitGroups!Cardinality(Blocked)
  <2>1. Inside \subseteq Waiters /\ Blocked \subseteq Waiters
    BY DEF WaitGroups!Inside, WaitGroups!Blocked
  <2> QED BY <2>1, GroupsCardinality, FS_Subset, FS_CardinalityType, FS_EmptySet, FS_AddElement, FS_RemoveElement
<1>m. /\ Inside \subseteq Waiters /\ Blocked \subseteq Waiters
      /\ \A t \in Waiters : (t \in Inside <=> pc[t] \in {"blocked", "woken"}) /\ (t \in Blocked <=> pc[t] = "blocked")
  BY DEF WaitGroups!Inside, WaitGroups!Blocked
<1>1. ASSUME WaitGroups!Add PROVE WaitGroups!IInv'
  <2>0. Inside' = Inside /\ Blocked' = Blocked /\ Inside = {}
    BY <1>1 DEF WaitGroups!Add, WaitGroups!Inside, WaitGroups!Blocked
  <2>1. WaitGroups!TypeOK'
    <3>1. counter' \in 0 .. IntMax /\ working' \in 0 .. IntMax
      <4>1. PICK d \in Deltas : IF counter > IntMax - d THEN counter' = counter /\ working' = working
                                                       ELSE counter' = counter + d /\ working' = working + d
        BY <1>1 DEF WaitGroups!Add
      <4> QED BY <4>1 DEF WaitGroups!TypeOK, WaitGroups!CounterInv
    <3> QED BY <1>1, <3>1 DEF WaitGroups!Add, WaitGroups!TypeOK, WaitGroups!owners
  <2>2. WaitGroups!CounterInv' BY <1>1 DEF WaitGroups!Add, WaitGroups!TypeOK, WaitGroups!CounterInv
  <2>3. WaitGroups!WaitsInv'
    BY <1>1, <1>m, <2>0 DEF WaitGroups!Add, WaitGroups!WaitsInv, WaitGroups!Blocked
  <2>4. WaitGroups!PermitsInv'
    <3>1. Blocked = {} BY <1>m, <2>0 DEF WaitGroups!Blocked
    <3> QED BY <1>0, <1>1, <2>0, <3>1 DEF WaitGroups!Add, WaitGroups!TypeOK, WaitGroups!PermitsInv, WaitGroups!CounterInv, WaitGroups!owners
  <2> QED BY <1>1, <2>1, <2>2, <2>3, <2>4 DEF WaitGroups!Add, WaitGroups!IInv, WaitGroups!ReturnsAtZero, WaitGroups!StragglersLeave, WaitGroups!owners
<1>2. ASSUME WaitGroups!Done PROVE WaitGroups!IInv'
  <2>0. Inside' = Inside /\ Blocked' = IF counter = 1 /\ ~permits THEN {} ELSE Blocked
    BY <1>2 DEF WaitGroups!Done, WaitGroups!WakeAll, WaitGroups!TypeOK, WaitGroups!Inside, WaitGroups!Blocked, WaitGroups!CounterInv
  <2>1. WaitGroups!TypeOK'
    <3>1. counter' \in 0 .. IntMax /\ working' \in 0 .. IntMax /\ sem' \in Nat
      BY <1>0, <1>2 DEF WaitGroups!Done, WaitGroups!WakeAll, WaitGroups!TypeOK, WaitGroups!CounterInv, WaitGroups!PermitsInv
    <3> QED BY <1>2, <3>1 DEF WaitGroups!Done, WaitGroups!WakeAll, WaitGroups!TypeOK, WaitGroups!owners
  <2>2. WaitGroups!CounterInv'
    BY <1>2 DEF WaitGroups!Done, WaitGroups!WakeAll, WaitGroups!TypeOK, WaitGroups!CounterInv
  <2>3. WaitGroups!WaitsInv'
    <3>1. CASE counter = 1
      <4>1. counter' = 0 /\ sawZero' = [t \in Waiters |-> TRUE] /\ permits' = permits
        BY <1>2, <3>1 DEF WaitGroups!Done, WaitGroups!WakeAll, WaitGroups!TypeOK, WaitGroups!CounterInv, WaitGroups!owners
      <4> QED BY <1>m, <2>0, <3>1, <4>1 DEF WaitGroups!WaitsInv
    <3>2. CASE counter > 1
      BY <1>2, <2>0, <3>2 DEF WaitGroups!Done, WaitGroups!TypeOK, WaitGroups!CounterInv, WaitGroups!WaitsInv
    <3> QED BY <1>2, <3>1, <3>2 DEF WaitGroups!Done, WaitGroups!TypeOK, WaitGroups!CounterInv
  <2>4. WaitGroups!PermitsInv'
    BY <1>0, <1>2, <2>0 DEF WaitGroups!Done, WaitGroups!WakeAll, WaitGroups!TypeOK, WaitGroups!PermitsInv, WaitGroups!CounterInv, WaitGroups!WaitsInv, WaitGroups!owners
  <2>5. WaitGroups!ReturnsAtZero' /\ WaitGroups!StragglersLeave'
    BY <1>2 DEF WaitGroups!Done, WaitGroups!WakeAll, WaitGroups!TypeOK, WaitGroups!ReturnsAtZero, WaitGroups!StragglersLeave, WaitGroups!owners
  <2> QED BY <2>1, <2>2, <2>3, <2>4, <2>5 DEF WaitGroups!IInv
<1>3. ASSUME WaitGroups!Deinit PROVE WaitGroups!IInv'
  <2>0. Inside' = Inside /\ Blocked' = IF permits THEN Blocked ELSE {}
    BY <1>3 DEF WaitGroups!Deinit, WaitGroups!Goto, WaitGroups!TypeOK, WaitGroups!Inside, WaitGroups!Blocked
  <2>1. WaitGroups!TypeOK' /\ WaitGroups!CounterInv'
    BY <1>0, <1>3 DEF WaitGroups!Deinit, WaitGroups!Goto, WaitGroups!TypeOK, WaitGroups!CounterInv, WaitGroups!PermitsInv, WaitGroups!owners
  <2>2. WaitGroups!WaitsInv'
    BY <1>3, <1>m, <2>0 DEF WaitGroups!Deinit, WaitGroups!TypeOK, WaitGroups!WaitsInv, WaitGroups!owners
  <2>3. WaitGroups!PermitsInv'
    BY <1>3, <2>0 DEF WaitGroups!Deinit, WaitGroups!Goto, WaitGroups!TypeOK, WaitGroups!PermitsInv, WaitGroups!owners
  <2>4. WaitGroups!ReturnsAtZero' /\ WaitGroups!StragglersLeave'
    BY <1>3 DEF WaitGroups!Deinit, WaitGroups!Goto, WaitGroups!TypeOK, WaitGroups!ReturnsAtZero, WaitGroups!StragglersLeave, WaitGroups!owners
  <2> QED BY <2>1, <2>2, <2>3, <2>4 DEF WaitGroups!IInv
<1>4. ASSUME WaitGroups!Reset PROVE WaitGroups!IInv'
  <2>0. Inside' = Inside /\ Blocked' = Blocked /\ Blocked = {} /\ (permits => Inside = {})
    <3>1. Inside' = Inside /\ Blocked' = Blocked
      BY <1>4 DEF WaitGroups!Reset, WaitGroups!Goto, WaitGroups!TypeOK, WaitGroups!Inside, WaitGroups!Blocked
    <3>2. permits => Inside = {}
      BY <1>0, <1>4 DEF WaitGroups!Reset, WaitGroups!PermitsInv
    <3>3. Blocked \subseteq Inside BY DEF WaitGroups!Inside, WaitGroups!Blocked
    <3> QED BY <1>4, <3>1, <3>2, <3>3 DEF WaitGroups!Reset, WaitGroups!CounterInv, WaitGroups!WaitsInv
  <2>1. WaitGroups!TypeOK'
    <3>1. pc' \in [Waiters -> {"idle", "blocked", "woken", "drain"}]
      BY <1>4 DEF WaitGroups!Reset, WaitGroups!Goto, WaitGroups!TypeOK
    <3>2. counter' \in 0 .. IntMax /\ waiters' \in Int /\ waiters' >= 0 /\ sem' \in Nat /\ working' \in 0 .. IntMax
      BY <1>4 DEF WaitGroups!Reset, WaitGroups!TypeOK
    <3> QED BY <1>4, <3>1, <3>2, Zenon DEF WaitGroups!Reset, WaitGroups!TypeOK, WaitGroups!owners
  <2>4. WaitGroups!CounterInv'
    BY <1>4 DEF WaitGroups!Reset, WaitGroups!Goto, WaitGroups!TypeOK, WaitGroups!CounterInv
  <2>2. WaitGroups!WaitsInv' /\ WaitGroups!PermitsInv'
    BY <1>0, <1>4, <2>0 DEF WaitGroups!Reset, WaitGroups!WaitsInv, WaitGroups!PermitsInv, WaitGroups!CounterInv, WaitGroups!owners
  <2>3. WaitGroups!ReturnsAtZero' /\ WaitGroups!StragglersLeave'
    BY <1>4, <1>m, <2>0 DEF WaitGroups!Reset, WaitGroups!Goto, WaitGroups!TypeOK, WaitGroups!ReturnsAtZero, WaitGroups!StragglersLeave, WaitGroups!owners
  <2> QED BY <2>1, <2>2, <2>3, <2>4 DEF WaitGroups!IInv
<1>5. ASSUME WaitGroups!Reinit PROVE WaitGroups!IInv'
  <2>0. Inside' = Inside /\ Blocked' = Blocked /\ Blocked = {}
    BY <1>5 DEF WaitGroups!Reinit, WaitGroups!StragglersLeave, WaitGroups!Inside, WaitGroups!Blocked
  <2>1. WaitGroups!TypeOK' /\ WaitGroups!CounterInv'
    BY <1>5 DEF WaitGroups!Reinit, WaitGroups!TypeOK, WaitGroups!CounterInv
  <2>2. WaitGroups!WaitsInv' /\ WaitGroups!PermitsInv'
    BY <1>0, <1>5, <2>0 DEF WaitGroups!Reinit, WaitGroups!WaitsInv, WaitGroups!PermitsInv, WaitGroups!CounterInv
  <2>3. WaitGroups!ReturnsAtZero' /\ WaitGroups!StragglersLeave'
    BY <1>5, <1>m, <2>0 DEF WaitGroups!Reinit, WaitGroups!ReturnsAtZero, WaitGroups!StragglersLeave
  <2> QED BY <2>1, <2>2, <2>3 DEF WaitGroups!IInv
<1>6. ASSUME NEW t \in Waiters, WaitGroups!Wait(t) PROVE WaitGroups!IInv'
  <2>0. /\ Inside' = IF counter > 0 \/ permits THEN Inside \cup {t} ELSE Inside
        /\ Blocked' = IF counter > 0 THEN Blocked \cup {t} ELSE Blocked
        /\ t \notin Inside
    BY <1>6 DEF WaitGroups!Wait, WaitGroups!Goto, WaitGroups!TypeOK, WaitGroups!Inside, WaitGroups!Blocked
  <2>1. WaitGroups!TypeOK' /\ WaitGroups!CounterInv'
    BY <1>6 DEF WaitGroups!Wait, WaitGroups!Goto, WaitGroups!TypeOK, WaitGroups!CounterInv, WaitGroups!owners
  <2>2. WaitGroups!WaitsInv'
    <3>1. v2' = v2 /\ v1' = v1 /\ counter \in Nat /\ sawZero' = [sawZero EXCEPT ![t] = counter = 0] /\ sawZero \in [Waiters -> BOOLEAN]
      BY <1>6 DEF WaitGroups!Wait, WaitGroups!TypeOK, WaitGroups!IInv
    <3>2. Inside \subseteq Waiters BY DEF WaitGroups!Inside
    <3>3. CASE counter > 0
      BY <1>m, <2>0, <3>1, <3>3 DEF WaitGroups!WaitsInv
    <3>4. CASE counter = 0
      <4>1. /\ \A w \in Inside : sawZero[w]
            /\ ~permits => Blocked = {}
        BY <3>4 DEF WaitGroups!IInv, WaitGroups!WaitsInv
      <4>2. Inside' \subseteq Inside \cup {t} /\ Blocked' = Blocked
        BY <2>0, <3>4
      <4>3. \A w \in Inside' : sawZero'[w]
        <5>1. \A w \in Waiters : sawZero'[w] = IF w = t THEN counter = 0 ELSE sawZero[w]
          BY <3>1
        <5>2. \A w \in Inside \cup {t} : sawZero'[w]
          BY <3>2, <3>4, <4>1, <5>1, Zenon
        <5> QED BY <4>2, <5>2
      <4> QED BY <3>1, <3>4, <4>1, <4>2, <4>3 DEF WaitGroups!WaitsInv
    <3> QED BY <3>1, <3>3, <3>4
  <2>3. WaitGroups!PermitsInv'
    BY <1>0, <1>6, <2>0 DEF WaitGroups!Wait, WaitGroups!Goto, WaitGroups!TypeOK, WaitGroups!PermitsInv
  <2>4. WaitGroups!ReturnsAtZero' /\ WaitGroups!StragglersLeave'
    BY <1>6 DEF WaitGroups!Wait, WaitGroups!Goto, WaitGroups!TypeOK, WaitGroups!ReturnsAtZero, WaitGroups!StragglersLeave
  <2> QED BY <2>1, <2>2, <2>3, <2>4 DEF WaitGroups!IInv
<1>7. ASSUME NEW t \in Waiters, WaitGroups!Acquire(t) PROVE WaitGroups!IInv'
  <2>0. Inside' = Inside /\ Blocked' = Blocked \ {t} /\ t \in Blocked /\ t \in Inside /\ counter = 0
    <3>1. counter = 0
      BY <1>7 DEF WaitGroups!Acquire, WaitGroups!TypeOK, WaitGroups!PermitsInv, WaitGroups!CounterInv
    <3> QED BY <1>7, <3>1 DEF WaitGroups!Acquire, WaitGroups!Goto, WaitGroups!TypeOK, WaitGroups!Inside, WaitGroups!Blocked
  <2>1. WaitGroups!TypeOK' /\ WaitGroups!CounterInv'
    BY <1>7 DEF WaitGroups!Acquire, WaitGroups!Goto, WaitGroups!TypeOK, WaitGroups!CounterInv, WaitGroups!owners
  <2>2. WaitGroups!WaitsInv'
    BY <1>7, <1>m, <2>0 DEF WaitGroups!Acquire, WaitGroups!Goto, WaitGroups!TypeOK, WaitGroups!WaitsInv, WaitGroups!owners
  <2>3. WaitGroups!PermitsInv'
    BY <1>0, <1>7, <2>0 DEF WaitGroups!Acquire, WaitGroups!Goto, WaitGroups!TypeOK, WaitGroups!PermitsInv, WaitGroups!owners
  <2>4. WaitGroups!ReturnsAtZero' /\ WaitGroups!StragglersLeave'
    BY <1>7, <1>m, <2>0 DEF WaitGroups!Acquire, WaitGroups!Goto, WaitGroups!TypeOK, WaitGroups!WaitsInv, WaitGroups!ReturnsAtZero, WaitGroups!StragglersLeave, WaitGroups!owners
  <2> QED BY <2>1, <2>2, <2>3, <2>4 DEF WaitGroups!IInv
<1>8. ASSUME NEW t \in Waiters, WaitGroups!Return(t) PROVE WaitGroups!IInv'
  <2>0. Inside' = Inside \ {t} /\ Blocked' = Blocked /\ t \in Inside /\ t \notin Blocked /\ counter = 0
    <3>1. counter = 0
      BY <1>8, <1>m DEF WaitGroups!Return, WaitGroups!TypeOK, WaitGroups!WaitsInv
    <3> QED BY <1>8, <3>1 DEF WaitGroups!Return, WaitGroups!Goto, WaitGroups!TypeOK, WaitGroups!Inside, WaitGroups!Blocked
  <2>1. WaitGroups!TypeOK' /\ WaitGroups!CounterInv'
    BY <1>0, <1>8, <2>0 DEF WaitGroups!Return, WaitGroups!Goto, WaitGroups!TypeOK, WaitGroups!CounterInv, WaitGroups!PermitsInv, WaitGroups!owners
  <2>2. WaitGroups!WaitsInv'
    BY <1>8, <1>m, <2>0 DEF WaitGroups!Return, WaitGroups!Goto, WaitGroups!TypeOK, WaitGroups!WaitsInv, WaitGroups!owners
  <2>3. WaitGroups!PermitsInv'
    BY <1>0, <1>8, <2>0 DEF WaitGroups!Return, WaitGroups!Goto, WaitGroups!TypeOK, WaitGroups!PermitsInv, WaitGroups!owners
  <2>4. WaitGroups!ReturnsAtZero' /\ WaitGroups!StragglersLeave'
    BY <1>8, <2>0 DEF WaitGroups!Return, WaitGroups!Goto, WaitGroups!TypeOK, WaitGroups!ReturnsAtZero, WaitGroups!StragglersLeave, WaitGroups!owners
  <2> QED BY <2>1, <2>2, <2>3, <2>4 DEF WaitGroups!IInv
<1>9. ASSUME UNCHANGED WaitGroups!vars PROVE WaitGroups!IInv'
  BY <1>9 DEF WaitGroups!vars, WaitGroups!fields, WaitGroups!owners, WaitGroups!IInv, WaitGroups!TypeOK, WaitGroups!CounterInv, WaitGroups!WaitsInv,
     WaitGroups!PermitsInv, WaitGroups!ReturnsAtZero, WaitGroups!StragglersLeave, WaitGroups!Inside, WaitGroups!Blocked
<1> QED
  BY <1>1, <1>2, <1>3, <1>4, <1>5, <1>6, <1>7, <1>8, <1>9 DEF WaitGroups!Next, WaitGroups!Finished

------------------------------------------------------------------------------
(* Mutexes, threads and hashes. *)
LEMMA HandlesInit == Handles!Init => Handles!IInv
<1> USE Bounds DEF Handles!Unused, Handles!Idle, Handles!NoSlot, Handles!NoDigest, Handles!Cleared, Handles!NoHash, Handles!NoThread, Handles!NoJob
<1> SUFFICES ASSUME Handles!Init PROVE Handles!IInv
  OBVIOUS
<1>1. Handles!MutexTypes
  <2>1. 0 \in 0 .. Slots - 1 BY DEF Bounds
  <2>2. [init |-> FALSE, owner |-> "none"] \in [init : BOOLEAN, owner : Lockers \cup {"none"}]
    OBVIOUS
  <2> QED BY <2>1, <2>2 DEF Handles!Init, Handles!MutexTypes, Handles!Hashes, Handles!Names, Handles!Calls
<1>2. Handles!JobTypes /\ Handles!HashTypes
  BY DEF Handles!Init, Handles!JobTypes, Handles!HashTypes
<1>3. Handles!PartsInv /\ Handles!MutexInv
  BY DEF Handles!Init, Handles!PartsInv, Handles!MutexInv, Handles!Held
<1>4. Handles!JobsInv
  BY DEF Handles!Init, Handles!JobsInv
<1>5. Handles!UpdatesInv /\ Handles!DigestsInv
  BY DEF Handles!Init, Handles!UpdatesInv, Handles!DigestsInv, Handles!FedInv, Handles!DigestInv
<1> QED BY <1>1, <1>2, <1>3, <1>4, <1>5 DEF Handles!IInv

\* Without hashes there is nothing to say of them.
LEMMA HandlesParts ==
  ASSUME Handles!MutexTypes', Handles!HashTypes', Handles!PartsInv', ~Handles!Hashes'
  PROVE  Handles!UpdatesInv' /\ Handles!DigestsInv'
<1>1. /\ \A t \in Lockers : v4'[t].op # "update"
      /\ v12' = <<>> /\ DOMAIN v12' = {} /\ \A s \in DOMAIN v10' : v10'[s].fed = <<>> /\ DOMAIN v10'[s].fed = {}
      /\ \A s \in DOMAIN v10' : ~v10'[s].init /\ ~v10'[s].live /\ v10'[s].told = Handles!NoDigest
  BY SMTT(30) DEF Handles!MutexTypes, Handles!PartsInv, Handles!Calls, Handles!NoHash
<1> QED BY <1>1 DEF Handles!UpdatesInv, Handles!DigestsInv, Handles!FedInv, Handles!DigestInv

LEMMA MutexesStep ==
  ASSUME Disciplined, Handles!IInv, NEW t \in Lockers,
         \/ Handles!MutexInit(t) \/ Handles!MutexDeinit(t)
         \/ \E op \in {"lock", "trylock", "unlock"} : Handles!Begin(t, op)
         \/ Handles!Lock(t) \/ Handles!TryLock(t) \/ Handles!Unlock(t)
  PROVE  /\ Handles!MutexTypes' /\ Handles!PartsInv' /\ Handles!MutexInv'
         /\ ~Handles!Hashes' /\ UNCHANGED <<v1, Handles!threads>>
<1> DEFINE platform == v1  mutex == v2  at == v4  knows == v5
           Record == [init : BOOLEAN, owner : Lockers \cup {Handles!NoThread}]
<1> USE Bounds
<1> Handles!MutexTypes /\ Handles!PartsInv /\ Handles!MutexInv
  BY DEF Handles!IInv
<1>0. ~Handles!Hashes
  BY SMTT(30) DEF Handles!MutexInit, Handles!MutexDeinit, Handles!Begin, Handles!Lock, Handles!TryLock, Handles!Unlock, Handles!Hashes,
     Handles!MutexTypes, Handles!Updates, Handles!Idle
<1>1. /\ mutex \in [0 .. Slots - 1 -> Record] /\ v3 \in Nat /\ at \in [Lockers -> Handles!Calls]
      /\ knows \in [Lockers -> SUBSET (0 .. Slots - 1)] /\ Slots \in Nat \ {0}
  BY <1>0 DEF Handles!MutexTypes, Handles!Names
<1>2. SUFFICES
        /\ mutex' \in [0 .. Slots - 1 -> Record] /\ v3' \in Nat /\ at' \in [Lockers -> Handles!Calls]
        /\ knows' \in [Lockers -> SUBSET (0 .. Slots - 1)]
        /\ Handles!MutexInv' /\ platform' = platform /\ UNCHANGED Handles!threads
  BY <1>0, <1>2 DEF Handles!MutexTypes, Handles!PartsInv, Handles!Hashes, Handles!Names, Handles!threads, Handles!hashes
<1>3. CASE Handles!MutexInit(t)
  <2>1. CASE UNCHANGED <<mutex, v3, knows>>
    BY <1>1, <1>3, <2>1 DEF Handles!MutexInit, Handles!MutexInv, Handles!Held
  <2>2. CASE ~UNCHANGED <<mutex, v3, knows>>
    <3>0. Handles!FirstFree \subseteq 0 .. Slots - 1
      BY <1>1 DEF Handles!FirstFree, Handles!FirstOf
    <3>1. PICK s \in 0 .. Slots - 1 : /\ mutex' = [mutex EXCEPT ![s] = [init |-> TRUE, owner |-> Handles!NoThread]]
                                      /\ v3' = (s + 1) % Slots
                                      /\ knows' = [u \in Lockers |-> knows[u] \cup {s}]
                                      /\ UNCHANGED <<at, Handles!threads, platform>>
      BY <1>3, <2>2, <3>0 DEF Handles!MutexInit
    <3>2. mutex' \in [0 .. Slots - 1 -> Record]
      <4>1. [init |-> TRUE, owner |-> Handles!NoThread] \in Record OBVIOUS
      <4> QED BY <1>1, <3>1, <4>1
    <3>3. v3' \in Nat /\ knows' \in [Lockers -> SUBSET (0 .. Slots - 1)]
      BY <1>1, <3>1
    <3>4. Handles!MutexInv'
      BY <1>1, <3>1, <3>2 DEF Handles!MutexInv, Handles!Held, Handles!Calls
    <3> QED BY <1>1, <3>1, <3>2, <3>3, <3>4
  <2> QED BY <2>1, <2>2
<1>4. CASE Handles!MutexDeinit(t)
  <2>1. PICK s \in knows[t] :
          /\ \A u \in Lockers : at[u].slot # s \/ at[u].op = "none"
          /\ mutex' = (IF mutex[s].init /\ Handles!CanFree(s) THEN [mutex EXCEPT ![s].init = FALSE] ELSE mutex)
          /\ knows' = [u \in Lockers |-> knows[u] \ {s}]
          /\ platform = "host" \/ ~Handles!Held(s)
          /\ UNCHANGED <<v3, at, Handles!threads, platform>>
    BY <1>4 DEF Handles!MutexDeinit
  <2>2. s \in 0 .. Slots - 1 BY <1>1
  <2>3. mutex' \in [0 .. Slots - 1 -> Record] /\ knows' \in [Lockers -> SUBSET (0 .. Slots - 1)]
    BY <1>1, <2>1, <2>2, ZenonT(40)
  <2>4. Handles!MutexInv'
    <3>1. \A r \in 0 .. Slots - 1 : mutex'[r].owner = mutex[r].owner /\ (r # s => mutex'[r].init = mutex[r].init)
      BY <1>1, <2>1, <2>2
    <3>2. Handles!Held(s) => mutex' = mutex
      BY <2>1 DEF Handles!CanFree
    <3> QED BY <1>1, <2>1, <2>2, <2>3, <3>1, <3>2 DEF Handles!MutexInv, Handles!Held, Handles!Calls
  <2> QED BY <1>1, <2>1, <2>3, <2>4
<1>5. CASE \E op \in {"lock", "trylock", "unlock"} : Handles!Begin(t, op)
  BY <1>1, <1>5 DEF Handles!Begin, Handles!MutexInv, Handles!Held, Handles!Calls
<1>6. CASE Handles!Lock(t) \/ Handles!TryLock(t) \/ Handles!Unlock(t)
  <2> DEFINE s == at[t].slot
  <2>1. /\ at[t].op \in {"lock", "trylock", "unlock"} /\ at' = [at EXCEPT ![t] = Handles!Idle]
        /\ UNCHANGED <<v3, knows, Handles!threads, platform>>
        /\ mutex' = mutex \/ \E o \in Lockers \cup {Handles!NoThread} : mutex' = [mutex EXCEPT ![s].owner = o]
    BY <1>6 DEF Handles!Lock, Handles!TryLock, Handles!Unlock, Handles!Done
  <2>2. s \in 0 .. Slots - 1 /\ mutex[s].init
    BY <1>1, <2>1 DEF Handles!MutexInv, Handles!Calls
  <2>3. mutex' \in [0 .. Slots - 1 -> Record] /\ \A r \in 0 .. Slots - 1 : mutex'[r].init = mutex[r].init /\ (r # s => mutex'[r] = mutex[r])
    <3>1. CASE mutex' = mutex BY <1>1, <3>1
    <3>2. CASE mutex' # mutex
      <4>1. PICK o \in Lockers \cup {Handles!NoThread} : mutex' = [mutex EXCEPT ![s].owner = o]
        BY <2>1, <3>2
      <4> QED BY <1>1, <2>2, <4>1, SMTT(30)
    <3> QED BY <3>1, <3>2
  <2>4. at' \in [Lockers -> Handles!Calls] /\ \A u \in Lockers : at'[u] = at[u] \/ at'[u].op = "none"
    BY <1>1, <2>1 DEF Handles!Idle, Handles!Calls
  <2>5. Handles!MutexInv'
    <3>1. \A r \in DOMAIN mutex' : mutex'[r].owner # Handles!NoThread => mutex'[r].init
      <4> SUFFICES ASSUME NEW r \in 0 .. Slots - 1, mutex'[r].owner # Handles!NoThread PROVE mutex'[r].init
        BY <2>3
      <4>1. CASE r = s BY <2>2, <2>3, <4>1
      <4>2. CASE r # s BY <1>1, <2>3, <4>2 DEF Handles!MutexInv, Handles!Held
      <4> QED BY <4>1, <4>2
    <3>2. ASSUME NEW u \in Lockers, at'[u].op \in {"lock", "trylock", "unlock"}
          PROVE  mutex'[at'[u].slot].init /\ at'[u].slot \in knows'[u]
      <4>1. at'[u] = at[u] BY <2>4, <3>2
      <4>2. mutex[at[u].slot].init /\ at[u].slot \in knows[u]
        BY <3>2, <4>1 DEF Handles!MutexInv
      <4>3. at[u].slot \in 0 .. Slots - 1 BY <1>1, <4>2
      <4> QED BY <2>1, <2>3, <4>1, <4>2, <4>3
    <3> QED BY <3>1, <3>2 DEF Handles!MutexInv, Handles!Held
  <2> QED BY <1>1, <2>1, <2>3, <2>4, <2>5
<1> QED BY <1>3, <1>4, <1>5, <1>6

LEMMA JobsStep ==
  ASSUME Handles!IInv,
         \/ \E j \in Jobs : Handles!Create(j) \/ Handles!CreateOnCore1(j)
         \/ \E s \in DOMAIN v6 : Handles!Runs(s) \/ Handles!Release(s)
         \/ Handles!Core1Takes \/ Handles!Core1Returns
  PROVE  /\ Handles!JobTypes' /\ Handles!JobsInv' 
         /\ ~Handles!Hashes' /\ UNCHANGED <<Handles!mutexes, Handles!hashes, v1>>
<1> DEFINE platform == v1  slots == v6  job == v7  fifo == v8  core1 == v9
           Slot == [in : BOOLEAN, job : Jobs \cup {Handles!NoJob}]
           Core == [started : BOOLEAN, busy : BOOLEAN, job : Jobs \cup {Handles!NoJob}]
           States == {"none", "made", "running", "ended"}
<1> USE Bounds DEF Handles!NoJob
<1>0. /\ slots \in [1 .. ThreadSlots -> Slot] /\ job \in [Jobs -> States]
      /\ fifo \in {<<>>} \cup {Handles!Given(j) : j \in Jobs} /\ core1 \in Core
  BY DEF Handles!IInv, Handles!JobTypes
<1> Handles!JobTypes /\ Handles!JobsInv
  BY DEF Handles!IInv
<1>1. CASE \E j \in Jobs : Handles!Create(j)
  <2>1. PICK j \in Jobs, s \in 1 .. ThreadSlots :
          /\ platform = "host" /\ job[j] = "none" /\ ~slots[s].in
          /\ \/ slots' = [slots EXCEPT ![s] = [in |-> TRUE, job |-> j]] /\ job' = [job EXCEPT ![j] = "made"]
             \/ UNCHANGED <<slots, job>>
          /\ UNCHANGED <<fifo, core1, Handles!mutexes, Handles!hashes, platform>>
    BY <1>0, <1>1 DEF Handles!Create
  <2>2. CASE UNCHANGED <<slots, job>>
    BY <2>1, <2>2 DEF Handles!JobTypes, Handles!JobsInv, Handles!Hashes
  <2>3. CASE slots' = [slots EXCEPT ![s] = [in |-> TRUE, job |-> j]] /\ job' = [job EXCEPT ![j] = "made"]
    <3>1. slots' \in [1 .. ThreadSlots -> Slot] /\ job' \in [Jobs -> States]
      <4>1. [in |-> TRUE, job |-> j] \in Slot OBVIOUS
      <4> QED BY <1>0, <2>3, <4>1
    <3>2. Handles!JobTypes'
      BY <2>1, <3>1 DEF Handles!JobTypes
    <3>3. Handles!JobsInv'
      <4>1. /\ slots'[s].in /\ slots'[s].job = j /\ \A r \in 1 .. ThreadSlots : r # s => slots'[r] = slots[r]
            /\ DOMAIN slots' = 1 .. ThreadSlots /\ DOMAIN slots = 1 .. ThreadSlots
            /\ \A k \in Jobs : k # j => job'[k] = job[k]
        BY <1>0, <2>3
      <4>2. \A k \in Jobs, r \in 1 .. ThreadSlots : slots[r].in /\ slots[r].job = k => slots'[r].in /\ slots'[r].job = k
        BY <2>1, <4>1
      <4> QED BY <2>1, <4>1, <4>2 DEF Handles!JobsInv
    <3> QED BY <2>1, <3>2, <3>3 DEF Handles!Hashes
  <2> QED BY <2>1, <2>2, <2>3
<1>2. CASE \E j \in Jobs : Handles!CreateOnCore1(j)
  <2>1. PICK j \in Jobs : Handles!CreateOnCore1(j) BY <1>2
  <2>2. fifo = <<>> /\ core1.job = Handles!NoJob /\ ~core1.busy
    BY <2>1 DEF Handles!CreateOnCore1, Handles!Idle1, Handles!JobsInv
  <2>3. /\ fifo' = Handles!Given(j) /\ job' = [job EXCEPT ![j] = "made"] /\ platform = "pico"
        /\ core1' = [core1 EXCEPT !.started = TRUE, !.busy = TRUE]
        /\ UNCHANGED <<slots, Handles!mutexes, Handles!hashes, platform>>
    BY <2>1, <2>2 DEF Handles!CreateOnCore1, Handles!Given
  <2>4. core1' \in Core /\ core1'.busy /\ core1'.job = Handles!NoJob
    BY <1>0, <2>2, <2>3
  <2>5. Handles!JobTypes'
    BY <1>0, <2>3, <2>4 DEF Handles!JobTypes
  <2>6. Handles!JobsInv'
    BY <1>0, <2>2, <2>3, <2>4 DEF Handles!JobsInv
  <2> QED BY <2>3, <2>5, <2>6 DEF Handles!Hashes
<1>3. CASE \E s \in DOMAIN v6 : Handles!Runs(s)
  BY <1>0, <1>3 DEF Handles!Runs, Handles!JobTypes, Handles!JobsInv, Handles!Hashes
<1>4. CASE \E s \in DOMAIN v6 : Handles!Release(s)
  BY <1>0, <1>4 DEF Handles!Release, Handles!JobTypes, Handles!JobsInv, Handles!Hashes, Handles!NoSlot
<1>5. CASE Handles!Core1Takes
  <2>1. PICK j \in Jobs : fifo = Handles!Given(j)
    BY <1>0, <1>5 DEF Handles!Core1Takes
  <2>2. fifo[1][2] = j /\ SubSeq(fifo, 3, Len(fifo)) = <<>> /\ fifo # <<>>
    BY <2>1 DEF Handles!Given
  <2>3. /\ fifo' = <<>> /\ job' = [job EXCEPT ![j] = "running"] /\ core1' = [core1 EXCEPT !.job = j]
        /\ UNCHANGED <<slots, Handles!mutexes, Handles!hashes, platform>>
    BY <1>5, <2>2 DEF Handles!Core1Takes
  <2>4. core1' \in Core /\ core1'.busy = core1.busy /\ core1'.job = j
    BY <1>0, <2>3
  <2>5. core1.busy /\ platform = "pico" /\ core1.job = Handles!NoJob
    BY <1>5, <2>2 DEF Handles!Core1Takes, Handles!JobsInv
  <2>6. Handles!JobTypes'
    BY <1>0, <2>3, <2>4 DEF Handles!JobTypes
  <2>7. Handles!JobsInv'
    <3>1. \A k \in Jobs : Handles!Given(k) = Handles!Given(j) => k = j
      BY DEF Handles!Given
    <3> QED BY <1>0, <2>1, <2>3, <2>4, <2>5, <3>1 DEF Handles!JobsInv
  <2> QED BY <2>3, <2>5, <2>6, <2>7 DEF Handles!Hashes
<1>6. CASE Handles!Core1Returns
  <2>1. fifo = <<>> /\ core1.job \in Jobs /\ core1.busy /\ platform = "pico"
    BY <1>0, <1>6 DEF Handles!Core1Returns, Handles!JobsInv
  <2>2. /\ job' = [job EXCEPT ![core1.job] = "ended"] /\ core1' = [core1 EXCEPT !.job = Handles!NoJob, !.busy = FALSE]
        /\ UNCHANGED <<slots, fifo, Handles!mutexes, Handles!hashes, platform>>
    BY <1>6 DEF Handles!Core1Returns
  <2>3. core1' \in Core /\ ~core1'.busy /\ core1'.job = Handles!NoJob
    BY <1>0, <2>2
  <2>4. Handles!JobTypes'
    BY <1>0, <2>1, <2>2, <2>3 DEF Handles!JobTypes
  <2>5. \A k \in Jobs : Handles!Given(k) # <<>>
    BY DEF Handles!Given
  <2>6. Handles!JobsInv'
    BY <1>0, <2>1, <2>2, <2>3, <2>5 DEF Handles!JobsInv
  <2> QED BY <2>1, <2>2, <2>4, <2>6 DEF Handles!Hashes
<1> QED BY <1>1, <1>2, <1>3, <1>4, <1>5, <1>6

LEMMA HandlesCardinality == \A S : Handles!Cardinality(S) = Cardinality(S)
BY DEF Handles!Cardinality, Cardinality

\* The bytes of a hash are put after those it has.
LEMMA FedGrows ==
  ASSUME NEW fed \in Seq(Nat), NEW id \in Nat, NEW got \in Nat \ {0},
         NEW grown, grown = fed \o [k \in 1 .. got |-> id]
  PROVE  /\ grown \in Seq(Nat) /\ Len(grown) = Len(fed) + got
         /\ \A k \in 1 .. Len(fed) : grown[k] = fed[k]
         /\ \A k \in Len(fed) + 1 .. Len(fed) + got : grown[k] = id
<1>1. [k \in 1 .. got |-> id] \in Seq(Nat) /\ Len([k \in 1 .. got |-> id]) = got
  OBVIOUS
<1> DEFINE more == [k \in 1 .. got |-> id]
<1>2. \A k \in 1 .. got : more[k] = id
  OBVIOUS
<1> HIDE DEF more
<1> QED BY <1>1, <1>2 DEF more

LEMMA FedCounted ==
  ASSUME NEW fed \in Seq(Nat), NEW id \in Nat, NEW got \in Nat \ {0},
         NEW grown \in Seq(Nat), Len(grown) = Len(fed) + got,
         \A k \in 1 .. Len(fed) : grown[k] = fed[k],
         \A k \in Len(fed) + 1 .. Len(fed) + got : grown[k] = id
  PROVE  /\ Handles!Bytes(grown, id) = Handles!Bytes(fed, id) + got /\ Handles!Bytes(fed, id) \in Nat
         /\ \A i : i # id => Handles!Bytes(grown, i) = Handles!Bytes(fed, i)
<1> DEFINE Old == {k \in DOMAIN fed : fed[k] = id}
           New == Len(fed) + 1 .. Len(fed) + got
<1>1. /\ DOMAIN fed = 1 .. Len(fed) /\ DOMAIN grown = 1 .. Len(fed) + got /\ Len(fed) \in Nat
      /\ \A k \in 1 .. Len(fed) : grown[k] = fed[k]
      /\ \A k \in New : grown[k] = id
  BY LenProperties
<1>2. {k \in DOMAIN grown : grown[k] = id} = Old \cup New /\ Old \cap New = {}
  BY <1>1, SMTT(30)
<1>3. IsFiniteSet(New) /\ Cardinality(New) = got
  BY <1>1, FS_Interval
<1>4. IsFiniteSet(Old) /\ Cardinality(Old) \in Nat
  <2>1. Old \subseteq 1 .. Len(fed) BY <1>1
  <2> HIDE DEF Old
  <2>2. IsFiniteSet(1 .. Len(fed)) BY <1>1, FS_Interval
  <2> QED BY <2>1, <2>2, FS_Subset, FS_CardinalityType
<1>5. Cardinality(Old \cup New) = Cardinality(Old) + got
  <2> HIDE DEF Old, New
  <2>1. Cardinality(Old \cap New) = 0 BY <1>2, FS_EmptySet
  <2>2. Cardinality(Old \cup New) = Cardinality(Old) + Cardinality(New) - Cardinality(Old \cap New)
    BY <1>3, <1>4, FS_Union
  <2> QED BY <1>3, <1>4, <2>1, <2>2
<1>6. ASSUME NEW i, i # id PROVE Handles!Bytes(grown, i) = Handles!Bytes(fed, i)
  <2>1. {k \in DOMAIN grown : grown[k] = i} = {k \in DOMAIN fed : fed[k] = i}
    BY <1>1, <1>6
  <2> QED BY <2>1, Zenon DEF Handles!Bytes
<1>7. Handles!Bytes(fed, id) = Cardinality(Old)
  BY HandlesCardinality DEF Handles!Bytes
<1>8. Handles!Bytes(grown, id) = Cardinality(Old \cup New)
  <2>1. Handles!Bytes(grown, id) = Handles!Cardinality(Old \cup New) BY <1>2, Zenon DEF Handles!Bytes
  <2> QED BY <2>1, HandlesCardinality
<1> HIDE DEF Old, New
<1> QED BY <1>4, <1>5, <1>6, <1>7, <1>8

LEMMA BytesCounted ==
  ASSUME NEW fed \in Seq(Nat), NEW id
  PROVE  Handles!Bytes(fed, id) \in Nat
<1> DEFINE Old == {k \in DOMAIN fed : fed[k] = id}
<1>1. Old \subseteq 1 .. Len(fed) /\ Len(fed) \in Nat BY LenProperties
<1> HIDE DEF Old
<1>2. IsFiniteSet(1 .. Len(fed)) BY <1>1, FS_Interval
<1>3. Cardinality(Old) \in Nat BY <1>1, <1>2, FS_Subset, FS_CardinalityType
<1> QED BY <1>3, HandlesCardinality DEF Old, Handles!Bytes

LEMMA FedKept ==
  ASSUME NEW s, NEW h, NEW old, NEW new, Handles!FedInv(s, h, old), DOMAIN old \subseteq DOMAIN new,
         \A i \in DOMAIN new : new[i].slot = s /\ new[i].ok => i \in DOMAIN old /\ new[i] = old[i]
  PROVE  Handles!FedInv(s, h, new)
<1> DEFINE fed == h.fed
<1>1. /\ \A k \in DOMAIN fed : fed[k] \in DOMAIN old
      /\ \A j, k \in DOMAIN fed : j <= k => fed[j] <= fed[k]
      /\ \A i \in DOMAIN old : old[i].slot = s /\ old[i].ok => h.init /\ Handles!Bytes(fed, i) = old[i].bytes
  BY DEF Handles!FedInv
<1>2. \A i \in DOMAIN new : new[i].slot = s /\ new[i].ok => h.init /\ Handles!Bytes(fed, i) = new[i].bytes
  BY <1>1
<1> HIDE DEF fed
<1>3. \A k \in DOMAIN fed : fed[k] \in DOMAIN new
  BY <1>1
<1> QED BY <1>1, <1>2, <1>3 DEF fed, Handles!FedInv

LEMMA FedOfNone ==
  ASSUME NEW s, NEW h, NEW all, h.fed = <<>>, \A i \in DOMAIN all : all[i].slot = s => ~all[i].ok
  PROVE  Handles!FedInv(s, h, all)
BY DEF Handles!FedInv

LEMMA UpdateKept ==
  ASSUME NEW c, NEW h, NEW old, NEW new, Handles!UpdateInv(c, h, old), c.id \in DOMAIN new, new[c.id] = old[c.id]
  PROVE  Handles!UpdateInv(c, h, new)
BY DEF Handles!UpdateInv

LEMMA HashesStep ==
  ASSUME Disciplined, Handles!IInv, NEW t \in Lockers,
         \/ Handles!HashInit(t) \/ Handles!HashDeinit(t) \/ Handles!UpdateBegins(t)
         \/ Handles!UpdateReads(t) \/ Handles!Finalize(t)
  PROVE  /\ Handles!MutexTypes' /\ Handles!HashTypes' /\ Handles!UpdatesInv' /\ Handles!DigestsInv'
         /\ Handles!Hashes' /\ UNCHANGED Handles!Shared
<1> DEFINE platform == v1  at == v4  knows == v5  hash == v10  hashLock == v11  updates == v12
           HashNames == 0 .. HashSlots - 1
           Record == [init : BOOLEAN, live : BOOLEAN, fed : Seq(Nat), digest : Seq(Int), told : Seq(Int)]
           Update == [slot : HashNames, ok : BOOLEAN, bytes : Nat]
           Fresh == [init |-> TRUE, live |-> TRUE, fed |-> <<>>, digest |-> Handles!Cleared, told |-> Handles!NoDigest]
<1>0. /\ platform \in {"openssl", "mbedtls"} /\ Handles!Hashes
      /\ at \in [Lockers -> Handles!Updates \cup {Handles!Idle}]
      /\ knows \in [Lockers -> SUBSET HashNames] /\ v3 \in Nat /\ HashSlots \in Nat \ {0}
      /\ hash \in [HashNames -> Record] /\ hashLock \in Lockers \cup {"none"}
      /\ updates \in Seq(Update)
  <2>1. platform \in {"openssl", "mbedtls"}
    BY DEF Handles!IInv, Handles!MutexTypes, Handles!HashInit, Handles!HashDeinit, Handles!UpdateBegins, Handles!UpdateReads,
           Handles!Finalize, Handles!Hashes, Handles!Calls
  <2> QED BY <2>1, Bounds DEF Handles!IInv, Handles!MutexTypes, Handles!HashTypes, Handles!Hashes, Handles!Names, Handles!NoThread, Bounds
<1>1. /\ \A u \in Lockers : at[u].op = "update" =>
           /\ Handles!UpdateInv(at[u], hash[at[u].slot], updates) /\ (platform = "openssl" => hashLock = u)
           /\ \A v \in Lockers : at[v].op = "update" /\ at[v].slot = at[u].slot => v = u
      /\ \A s \in HashNames : Handles!FedInv(s, hash[s], updates) /\ Handles!DigestInv(hash[s])
  BY <1>0 DEF Handles!IInv, Handles!UpdatesInv, Handles!DigestsInv
<1>2. \A u \in Lockers : at[u].op = "update" => at[u] \in Handles!Updates /\ at[u].slot \in HashNames
  BY <1>0 DEF Handles!Idle, Handles!Updates
<1>3. \A s \in HashNames : Handles!Free(t, s) => at[t] = Handles!Idle /\ \A u \in Lockers : at[u].op = "update" => at[u].slot # s
  <2> SUFFICES ASSUME NEW s \in HashNames, Handles!Free(t, s), NEW u \in Lockers, at[u].op = "update" PROVE at[u].slot # s
    BY DEF Handles!Free
  <2>1. CASE platform = "openssl"
    <3>1. hashLock = u BY <1>1, <2>1
    <3>2. hashLock = "none" BY <2>1 DEF Handles!Free, Handles!NoThread
    <3> QED BY <3>1, <3>2, Bounds DEF Bounds
  <2>2. CASE platform = "mbedtls"
    <3>1. at[u] # Handles!Idle BY DEF Handles!Idle
    <3> QED BY <2>2, <3>1 DEF Handles!Free
  <2> QED BY <1>0, <2>1, <2>2
<1> DEFINE NextSound ==
            /\ at' \in [Lockers -> Handles!Updates \cup {Handles!Idle}]
            /\ knows' \in [Lockers -> SUBSET HashNames] /\ v3' \in Nat
            /\ hash' \in [HashNames -> Record] /\ hashLock' \in Lockers \cup {"none"}
            /\ updates' \in Seq(Update)
            /\ \A u \in Lockers : at'[u].op = "update" =>
                 /\ Handles!UpdateInv(at'[u], hash'[at'[u].slot], updates') /\ (platform = "openssl" => hashLock' = u)
                 /\ \A v \in Lockers : at'[v].op = "update" /\ at'[v].slot = at'[u].slot => v = u
            /\ \A s \in HashNames : Handles!FedInv(s, hash'[s], updates') /\ Handles!DigestInv(hash'[s])
            /\ UNCHANGED Handles!Shared
<1>4. SUFFICES NextSound
  <2>1. platform' = platform BY <1>4 DEF Handles!Shared
  <2>2. DOMAIN hash' = HashNames BY <1>4
  <2>3. Handles!Hashes' BY <1>0, <2>1 DEF Handles!Hashes
  <2>4. v2' = v2 BY <1>4 DEF Handles!Shared
  <2>5. Handles!MutexTypes' 
    BY <1>0, <1>4, <2>1, <2>3, <2>4 DEF Handles!IInv, Handles!MutexTypes, Handles!Names
  <2>6. Handles!HashTypes' /\ Handles!UpdatesInv' /\ Handles!DigestsInv'
    BY <1>4, <2>1, <2>2 DEF Handles!HashTypes, Handles!NoThread, Handles!UpdatesInv, Handles!DigestsInv
  <2> QED BY <1>4, <2>3, <2>5, <2>6
<1>5. CASE Handles!HashInit(t)
  <2>1. PICK s \in HashNames :
          /\ ~hash[s].init /\ Handles!Free(t, s)
          /\ \/ /\ hash' = [hash EXCEPT ![s] = Fresh]
                /\ v3' = (s + 1) % HashSlots
                /\ knows' = [u \in Lockers |-> knows[u] \cup {s}]
             \/ UNCHANGED <<hash, v3, knows>>
          /\ UNCHANGED <<at, hashLock, updates, Handles!Shared>>
    <3>1. \A s \in Handles!FirstOf(hash, HashSlots) : s \in HashNames /\ ~hash[s].init
      BY <1>0 DEF Handles!FirstOf
    <3> QED BY <1>5, <3>1 DEF Handles!HashInit
  <2>2. CASE UNCHANGED <<hash, v3, knows>>
    BY <1>0, <1>1, <2>1, <2>2
  <2>3. CASE hash' = [hash EXCEPT ![s] = Fresh] /\ v3' = (s + 1) % HashSlots /\ knows' = [u \in Lockers |-> knows[u] \cup {s}]
    <3>1. Fresh \in Record
      BY DEF Handles!Cleared, Handles!NoDigest
    <3>2. hash' \in [HashNames -> Record] /\ hash'[s] = Fresh /\ \A r \in HashNames : r # s => hash'[r] = hash[r]
      <4> HIDE DEF Fresh, Record
      <4> QED BY <1>0, <2>3, <3>1
    <3>3. \A u \in Lockers : at[u].op = "update" => hash'[at[u].slot] = hash[at[u].slot]
      BY <1>2, <1>3, <2>1, <3>2
    <3>4. Handles!FedInv(s, Fresh, updates) /\ Handles!DigestInv(Fresh)
      BY <1>1, <2>1 DEF Handles!FedInv, Handles!DigestInv
    <3>5. v3' \in Nat /\ knows' \in [Lockers -> SUBSET HashNames]
      BY <1>0, <2>3
    <3> HIDE DEF Fresh, Record, Update
    <3> QED BY <1>0, <1>1, <2>1, <3>2, <3>3, <3>4, <3>5
  <2> QED BY <2>1, <2>2, <2>3
<1>6. CASE Handles!HashDeinit(t)
  <2>1. PICK s \in HashNames :
          /\ Handles!Free(t, s) /\ hash' = [hash EXCEPT ![s] = IF @.init THEN Handles!NoHash ELSE @]
          /\ knows' = [u \in Lockers |-> knows[u] \ {s}]
          /\ updates' = [i \in DOMAIN updates |-> IF updates[i].slot = s THEN [updates[i] EXCEPT !.ok = FALSE] ELSE updates[i]]
          /\ UNCHANGED <<v3, at, hashLock, Handles!Shared>>
    BY <1>0, <1>6 DEF Handles!HashDeinit
  <2>2. Handles!NoHash \in Record /\ ~Handles!NoHash.init /\ Handles!NoHash.fed = <<>> /\ Handles!NoHash.told = Handles!NoDigest
    BY DEF Handles!NoHash, Handles!Cleared, Handles!NoDigest
  <2>3. /\ hash' \in [HashNames -> Record] /\ \A r \in HashNames : r # s => hash'[r] = hash[r]
        /\ hash'[s] = IF hash[s].init THEN Handles!NoHash ELSE hash[s]
    <3> HIDE DEF Record
    <3> QED BY <1>0, <2>1, <2>2
  <2>4. /\ updates' \in Seq(Update) /\ DOMAIN updates' = DOMAIN updates
        /\ \A i \in DOMAIN updates : /\ updates'[i].slot = updates[i].slot
                                     /\ updates[i].slot # s => updates'[i] = updates[i]
                                     /\ updates[i].slot = s => ~updates'[i].ok
    <3>1. \A i \in DOMAIN updates : updates[i] \in Update
      <4> HIDE DEF Update
      <4> QED BY <1>0, LenProperties
    <3>2. \A i \in DOMAIN updates : /\ updates'[i].slot = updates[i].slot
                                    /\ updates[i].slot # s => updates'[i] = updates[i]
                                    /\ updates[i].slot = s => ~updates'[i].ok
                                    /\ updates'[i] \in Update
      BY <2>1, <3>1
    <3>3. DOMAIN updates = 1 .. Len(updates) /\ Len(updates) \in Nat /\ DOMAIN updates' = DOMAIN updates
      BY <1>0, <2>1
    <3> HIDE DEF Update
    <3>4. updates' \in [1 .. Len(updates) -> Update]
      BY <2>1, <3>2, <3>3
    <3>5. updates' \in Seq(Update)
      BY <3>3, <3>4, SeqDef
    <3> QED BY <3>2, <3>3, <3>5
  <2>5. ASSUME NEW r \in HashNames PROVE Handles!FedInv(r, hash'[r], updates') /\ Handles!DigestInv(hash'[r])
    <3>0. Handles!FedInv(r, hash[r], updates) /\ Handles!DigestInv(hash[r])
      BY <1>1
    <3>1. CASE r # s
      <4>1. Handles!FedInv(r, hash[r], updates') BY <2>4, <3>0, <3>1, FedKept
      <4> QED BY <2>3, <3>0, <3>1, <4>1
    <3>2. CASE r = s
      <4>1. CASE hash[s].init
        <5>1. Handles!DigestInv(Handles!NoHash) BY <2>2 DEF Handles!DigestInv, Handles!NoHash
        <5>2. Handles!FedInv(s, Handles!NoHash, updates')
          BY <2>2, <2>4, FedOfNone
        <5> QED BY <2>3, <3>2, <4>1, <5>1, <5>2
      <4>2. CASE ~hash[s].init
        <5>1. Handles!FedInv(s, hash[s], updates') BY <2>4, <3>0, <3>2, FedKept
        <5> QED BY <2>3, <3>0, <3>2, <4>2, <5>1
      <4> QED BY <4>1, <4>2
    <3> QED BY <3>1, <3>2
  <2>6. ASSUME NEW u \in Lockers, at[u].op = "update" PROVE Handles!UpdateInv(at[u], hash'[at[u].slot], updates')
    <3>1. at[u].slot # s /\ hash'[at[u].slot] = hash[at[u].slot]
      BY <1>2, <1>3, <2>1, <2>3, <2>6
    <3>2. Handles!UpdateInv(at[u], hash[at[u].slot], updates)
      BY <1>1, <2>6
    <3>3. at[u].id \in DOMAIN updates /\ updates[at[u].id].slot = at[u].slot
      BY <3>2 DEF Handles!UpdateInv
    <3>4. at[u].id \in DOMAIN updates' /\ updates'[at[u].id] = updates[at[u].id]
      BY <2>4, <3>1, <3>3
    <3> QED BY <3>1, <3>2, <3>4, UpdateKept
  <2>7. knows' \in [Lockers -> SUBSET HashNames]
    BY <1>0, <2>1
  <2> HIDE DEF Record, Update
  <2> QED BY <1>0, <1>1, <2>1, <2>3, <2>4, <2>5, <2>6, <2>7, ZenonT(40)
<1>7. CASE Handles!UpdateBegins(t)
  <2> DEFINE n == Len(updates) + 1
  <2>1. PICK s \in HashNames, size \in Sizes, has \in 0 .. MaxBytes :
          /\ Handles!Free(t, s) /\ Handles!Live(s)
          /\ updates' = Append(updates, [slot |-> s, ok |-> FALSE, bytes |-> IF size = 0 THEN has ELSE size])
          /\ at' = [at EXCEPT ![t] = [op |-> "update", slot |-> s, all |-> size = 0, left |-> size, has |-> has, id |-> n]]
          /\ hashLock' = (IF platform = "openssl" THEN t ELSE Handles!NoThread) /\ UNCHANGED <<v3, knows, hash, Handles!Shared>>
    BY <1>0, <1>7 DEF Handles!UpdateBegins, Handles!TakesLock
  <2> DEFINE new == [slot |-> s, ok |-> FALSE, bytes |-> IF size = 0 THEN has ELSE size]
             c == [op |-> "update", slot |-> s, all |-> size = 0, left |-> size, has |-> has, id |-> n]
  <2>2. size \in Nat /\ has \in Nat /\ n \in Nat \ {0}
    BY <1>0, Bounds DEF Bounds
  <2>3. new \in Update /\ c \in Handles!Updates
    BY <2>2 DEF Handles!Updates
  <2>4. /\ updates' \in Seq(Update) /\ DOMAIN updates = 1 .. n - 1 /\ DOMAIN updates' = 1 .. n /\ updates'[n] = new
        /\ \A i \in 1 .. n - 1 : updates'[i] = updates[i]
    <3> HIDE DEF new, Update
    <3> QED BY <1>0, <2>1, <2>3 DEF new
  <2>5. at' \in [Lockers -> Handles!Updates \cup {Handles!Idle}] /\ at'[t] = c /\ \A u \in Lockers : u # t => at'[u] = at[u]
    <3> HIDE DEF c
    <3> QED BY <1>0, <2>1, <2>3 DEF c
  <2>6. ASSUME NEW r \in HashNames PROVE Handles!FedInv(r, hash[r], updates')
    <3>1. Handles!FedInv(r, hash[r], updates) BY <1>1
    <3>2. ~updates'[n].ok BY <2>4
    <3>3. \A i \in 1 .. n : i = n \/ i \in 1 .. n - 1 BY <2>2
    <3> HIDE DEF new, Update, c, n
    <3> QED BY <2>2, <2>4, <3>1, <3>2, <3>3, FedKept
  <2>7. ASSUME NEW u \in Lockers, u # t, at[u].op = "update" PROVE Handles!UpdateInv(at[u], hash[at[u].slot], updates') /\ at[u].slot # s
    <3>1. Handles!UpdateInv(at[u], hash[at[u].slot], updates) BY <1>1, <2>7
    <3>2. at[u].slot # s BY <1>3, <2>1, <2>7
    <3>3. at[u].id \in DOMAIN updates BY <3>1 DEF Handles!UpdateInv
    <3> HIDE DEF new, Update, c, n
    <3>4. at[u].id \in DOMAIN updates' /\ updates'[at[u].id] = updates[at[u].id]
      BY <2>2, <2>4, <3>3
    <3> QED BY <3>1, <3>2, <3>4, UpdateKept
  <2>8. Handles!UpdateInv(c, hash[s], updates')
    <3>1. \A k \in DOMAIN hash[s].fed : hash[s].fed[k] \in 1 .. n - 1
      BY <1>1, <2>4 DEF Handles!FedInv
    <3>2. {k \in DOMAIN hash[s].fed : hash[s].fed[k] = n} = {}
      BY <2>2, <3>1
    <3>3. Handles!Bytes(hash[s].fed, n) = 0
      BY <3>2, HandlesCardinality, FS_EmptySet DEF Handles!Bytes
    <3>4. hash[s].init /\ hash[s].live BY <2>1 DEF Handles!Live
    <3>5. n \in DOMAIN updates' /\ ~updates'[n].ok /\ updates'[n].slot = s /\ updates'[n].bytes = IF size = 0 THEN has ELSE size
      BY <2>2, <2>4
    <3>6. \A k \in DOMAIN hash[s].fed : hash[s].fed[k] <= n
      BY <2>2, <3>1
    <3>7. c.id = n /\ c.slot = s /\ (c.all <=> size = 0) /\ c.left = size /\ c.has = has
      OBVIOUS
    <3>8. Handles!Bytes(hash[s].fed, n) + (IF c.all THEN c.has ELSE c.left) = updates'[n].bytes
      <4> HIDE DEF new, c, n
      <4>1. CASE size = 0 BY <2>2, <3>3, <3>5, <3>7, <4>1
      <4>2. CASE size # 0 BY <2>2, <3>3, <3>5, <3>7, <4>2
      <4> QED BY <4>1, <4>2
    <3> HIDE DEF new, c, n
    <3> QED BY <3>4, <3>5, <3>6, <3>7, <3>8 DEF Handles!UpdateInv
  <2>9. \A u \in Lockers : at'[u].op = "update" =>
          /\ Handles!UpdateInv(at'[u], hash[at'[u].slot], updates') /\ (platform = "openssl" => hashLock' = u)
          /\ \A v \in Lockers : at'[v].op = "update" /\ at'[v].slot = at'[u].slot => v = u
    <3>1. c.slot = s OBVIOUS
    <3>2. \A u \in Lockers : at[u].op = "update" /\ platform = "openssl" => FALSE
      <4>1. platform = "openssl" => hashLock = Handles!NoThread BY <2>1 DEF Handles!Free
      <4> QED BY <1>1, <4>1, Bounds DEF Handles!NoThread, Bounds
    <3> HIDE DEF c
    <3> QED BY <1>1, <2>1, <2>5, <2>7, <2>8, <3>1, <3>2
  <2>10. hashLock' \in Lockers \cup {"none"}
    BY <2>1 DEF Handles!NoThread
  <2> HIDE DEF Record, Update, c, new
  <2> QED BY <1>0, <1>1, <2>1, <2>4, <2>5, <2>6, <2>9, <2>10
<1>8. CASE Handles!UpdateReads(t)
  <2> DEFINE c == at[t]  s == at[t].slot  n == at[t].id
             want == IF c.all \/ c.left > Chunk THEN Chunk ELSE c.left
  <2>1. /\ c \in Handles!Updates /\ s \in HashNames /\ c.op = "update" /\ n \in Nat \ {0}
        /\ c.left \in Nat /\ c.has \in Nat /\ c.all \in BOOLEAN
    <3>1. c.op = "update" BY <1>8 DEF Handles!UpdateReads
    <3> QED BY <1>2, <3>1 DEF Handles!Updates
  <2>2. /\ Handles!UpdateInv(c, hash[s], updates)
        /\ \A u \in Lockers : at[u].op = "update" /\ u # t => Handles!UpdateInv(at[u], hash[at[u].slot], updates) /\ at[u].slot # s
    BY <1>1, <2>1
  <2>3. /\ n \in DOMAIN updates /\ updates[n].slot = s /\ ~updates[n].ok /\ hash[s].init /\ hash[s].live
        /\ Handles!Bytes(hash[s].fed, n) + (IF c.all THEN c.has ELSE c.left) = updates[n].bytes
        /\ \A k \in DOMAIN hash[s].fed : hash[s].fed[k] <= n
    BY <2>2 DEF Handles!UpdateInv
  <2>4. \A u \in Lockers : at[u].op = "update" /\ u # t => at[u].id \in DOMAIN updates /\ at[u].id # n
    BY <2>2, <2>3 DEF Handles!UpdateInv
  <2>5. hash[s] \in Record /\ hash[s].fed \in Seq(Nat) /\ Chunk \in Nat \ {0}
    BY <1>0, <2>1, Bounds DEF Bounds
  <2>6. /\ UNCHANGED <<v3, knows, Handles!Shared>>
        /\ \/ \E ok \in BOOLEAN : /\ Handles!UpdateEnds(t, ok) /\ hash' = hash
                                  /\ ok => (IF c.all THEN c.has ELSE c.left) = 0
           \/ \E got \in Nat \ {0} :
                /\ got <= c.has /\ (~c.all => got <= c.left)
                /\ hash' = [hash EXCEPT ![s].fed = @ \o [k \in 1 .. got |-> n]]
                /\ at' = [at EXCEPT ![t].has = @ - got, ![t].left = IF c.all THEN 0 ELSE @ - got]
                /\ UNCHANGED <<updates, hashLock>>
    <3>1. UNCHANGED <<v3, knows, Handles!Shared>> BY <1>8 DEF Handles!UpdateReads
    <3>2. CASE want = 0 /\ Handles!UpdateEnds(t, TRUE) /\ hash' = hash
      BY <2>1, <2>5, <3>1, <3>2
    <3>3. CASE c.has = 0 /\ Handles!UpdateEnds(t, c.all) /\ hash' = hash
      BY <2>1, <3>1, <3>3
    <3>4. CASE Handles!UpdateEnds(t, FALSE) /\ hash' = hash
      BY <3>1, <3>4
    <3>5. ASSUME NEW got \in 1 .. want, got <= c.has,
                 hash' = [hash EXCEPT ![s].fed = @ \o [k \in 1 .. got |-> n]],
                 at' = [at EXCEPT ![t].has = @ - got, ![t].left = IF c.all THEN 0 ELSE @ - got],
                 UNCHANGED <<updates, hashLock>>
          PROVE  \E g \in Nat \ {0} :
                   /\ g <= c.has /\ (~c.all => g <= c.left)
                   /\ hash' = [hash EXCEPT ![s].fed = @ \o [k \in 1 .. g |-> n]]
                   /\ at' = [at EXCEPT ![t].has = @ - g, ![t].left = IF c.all THEN 0 ELSE @ - g]
                   /\ UNCHANGED <<updates, hashLock>>
      <4>1. got \in Nat \ {0} /\ (~c.all => got <= c.left)
        BY <2>1, <2>5
      <4> QED BY <3>5, <4>1
    <3> QED BY <1>8, <3>1, <3>2, <3>3, <3>4, <3>5 DEF Handles!UpdateReads
  <2> HIDE DEF want
  <2>7. ASSUME NEW ok \in BOOLEAN, Handles!UpdateEnds(t, ok), hash' = hash, ok => (IF c.all THEN c.has ELSE c.left) = 0
        PROVE  NextSound
    <3>1. /\ updates' = [updates EXCEPT ![n].ok = ok] /\ at' = [at EXCEPT ![t] = Handles!Idle]
          /\ hashLock' = Handles!NoThread
      BY <2>7 DEF Handles!UpdateEnds
    <3>2. /\ updates' \in Seq(Update) /\ DOMAIN updates' = DOMAIN updates
          /\ \A i \in DOMAIN updates : i # n => updates'[i] = updates[i]
          /\ updates'[n].slot = s /\ updates'[n].ok = ok /\ updates'[n].bytes = updates[n].bytes
      <4>1. updates[n] \in Update
        <5> HIDE DEF Update
        <5> QED BY <1>0, <2>3, LenProperties
      <4>2. /\ [updates[n] EXCEPT !.ok = ok] \in Update /\ [updates[n] EXCEPT !.ok = ok].slot = s
            /\ [updates[n] EXCEPT !.ok = ok].ok = ok /\ [updates[n] EXCEPT !.ok = ok].bytes = updates[n].bytes
        BY <2>3, <4>1
      <4>3. updates' = [updates EXCEPT ![n] = [updates[n] EXCEPT !.ok = ok]]
        BY <3>1
      <4> DEFINE new == [updates[n] EXCEPT !.ok = ok]
      <4> HIDE DEF Update, new
      <4>4. updates' \in Seq(Update) /\ DOMAIN updates' = DOMAIN updates /\ updates'[n] = new
            /\ \A i \in DOMAIN updates : i # n => updates'[i] = updates[i]
        <5>1. updates' = [updates EXCEPT ![n] = new] BY <4>3 DEF new
        <5>2. new \in Update BY <4>2 DEF new
        <5> QED BY <1>0, <2>3, <5>1, <5>2, LenProperties
      <4> QED BY <4>2, <4>4 DEF new
    <3>3. at'[t] = Handles!Idle /\ at' \in [Lockers -> Handles!Updates \cup {Handles!Idle}] /\ \A u \in Lockers : u # t => at'[u] = at[u]
      BY <1>0, <3>1
    <3>4. ASSUME NEW u \in Lockers, at'[u].op = "update"
          PROVE  /\ u # t /\ at'[u] = at[u]
                 /\ Handles!UpdateInv(at[u], hash[at[u].slot], updates') /\ platform # "openssl"
      <4>1. u # t /\ at'[u] = at[u] BY <3>3, <3>4 DEF Handles!Idle
      <4>2. Handles!UpdateInv(at[u], hash[at[u].slot], updates) BY <2>2, <3>4, <4>1
      <4>3. at[u].id \in DOMAIN updates' /\ updates'[at[u].id] = updates[at[u].id]
        BY <2>4, <3>2, <3>4, <4>1
      <4>4. platform # "openssl" BY <1>1, <2>1, <3>4, <4>1
      <4> QED BY <4>1, <4>2, <4>3, <4>4, UpdateKept
    <3>5. ASSUME NEW r \in HashNames PROVE Handles!FedInv(r, hash[r], updates')
      <4>1. Handles!FedInv(r, hash[r], updates) BY <1>1
      <4>2. CASE r # s
        <5>1. \A i \in DOMAIN updates' : updates'[i].slot = r /\ updates'[i].ok => i \in DOMAIN updates /\ updates'[i] = updates[i]
          BY <3>2, <4>2
        <5> QED BY <3>2, <4>1, <5>1, FedKept
      <4>3. CASE r = s /\ ok
        <5>1. Handles!Bytes(hash[s].fed, n) = updates[n].bytes
          <6>1. Handles!Bytes(hash[s].fed, n) + 0 = updates[n].bytes BY <2>3, <2>7, <4>3
          <6>2. Handles!Bytes(hash[s].fed, n) \in Nat BY <2>5, BytesCounted
          <6> QED BY <6>1, <6>2
        <5> HIDE DEF s, n, c
        <5>2. \A i \in DOMAIN updates' : updates'[i].slot = s /\ updates'[i].ok =>
                hash[s].init /\ Handles!Bytes(hash[s].fed, i) = updates'[i].bytes
          <6>1. \A i \in DOMAIN updates : updates[i].slot = s /\ updates[i].ok =>
                  hash[s].init /\ Handles!Bytes(hash[s].fed, i) = updates[i].bytes
            BY <4>1, <4>3 DEF Handles!FedInv
          <6> QED BY <2>3, <3>2, <5>1, <6>1
        <5>3. /\ \A k \in DOMAIN hash[s].fed : hash[s].fed[k] \in DOMAIN updates'
              /\ \A j, k \in DOMAIN hash[s].fed : j <= k => hash[s].fed[j] <= hash[s].fed[k]
          BY <3>2, <4>1, <4>3 DEF Handles!FedInv
        <5> QED BY <4>3, <5>2, <5>3 DEF Handles!FedInv
      <4>4. CASE r = s /\ ~ok
        <5>1. \A i \in DOMAIN updates' : updates'[i].slot = r /\ updates'[i].ok => i \in DOMAIN updates /\ updates'[i] = updates[i]
          BY <3>2, <4>4
        <5> QED BY <3>2, <4>1, <5>1, FedKept
      <4> QED BY <4>2, <4>3, <4>4
    <3>6. hashLock' \in Lockers \cup {"none"} BY <3>1 DEF Handles!NoThread
    <3> HIDE DEF Record, Update
    <3> QED BY <1>0, <1>1, <2>6, <2>7, <3>2, <3>3, <3>4, <3>5, <3>6, SMTT(30)
  <2>8. ASSUME NEW got \in Nat \ {0}, got <= c.has, ~c.all => got <= c.left,
               hash' = [hash EXCEPT ![s].fed = @ \o [k \in 1 .. got |-> n]],
               at' = [at EXCEPT ![t].has = @ - got, ![t].left = IF c.all THEN 0 ELSE @ - got],
               UNCHANGED <<updates, hashLock>>
        PROVE  NextSound
    <3> DEFINE fed == hash[s].fed
               grown == fed \o [k \in 1 .. got |-> n]
               more == [hash[s] EXCEPT !.fed = grown]
               d == [c EXCEPT !.has = @ - got, !.left = IF c.all THEN 0 ELSE @ - got]
    <3>1. /\ grown \in Seq(Nat) /\ Len(grown) = Len(fed) + got /\ Len(fed) \in Nat
          /\ DOMAIN fed = 1 .. Len(fed) /\ DOMAIN grown = 1 .. Len(fed) + got
          /\ \A k \in 1 .. Len(fed) : grown[k] = fed[k]
          /\ \A k \in Len(fed) + 1 .. Len(fed) + got : grown[k] = n
      <4>1. fed \in Seq(Nat) /\ n \in Nat /\ grown = fed \o [k \in 1 .. got |-> n] BY <2>1, <2>5
      <4> HIDE DEF fed, grown, n
      <4>2. /\ grown \in Seq(Nat) /\ Len(grown) = Len(fed) + got
            /\ \A k \in 1 .. Len(fed) : grown[k] = fed[k]
            /\ \A k \in Len(fed) + 1 .. Len(fed) + got : grown[k] = n
        BY <4>1, FedGrows
      <4>3. DOMAIN grown = 1 .. Len(grown) /\ DOMAIN fed = 1 .. Len(fed) /\ Len(fed) \in Nat BY <4>1, <4>2, LenProperties
      <4> QED BY <4>2, <4>3
    <3>2. /\ Handles!Bytes(grown, n) = Handles!Bytes(fed, n) + got /\ Handles!Bytes(fed, n) \in Nat
          /\ \A i : i # n => Handles!Bytes(grown, i) = Handles!Bytes(fed, i)
      <4>1. fed \in Seq(Nat) /\ n \in Nat BY <2>1, <2>5
      <4> HIDE DEF fed, grown, n
      <4>2. PICK f \in Seq(Nat), m \in Nat, g \in Seq(Nat) : f = fed /\ m = n /\ g = grown
        BY <3>1, <4>1
      <4>3. /\ Len(g) = Len(f) + got /\ \A k \in 1 .. Len(f) : g[k] = f[k]
            /\ \A k \in Len(f) + 1 .. Len(f) + got : g[k] = m
        BY <3>1, <4>2
      <4>4. Handles!Bytes(g, m) = Handles!Bytes(f, m) + got
        BY <4>3, FedCounted, ZenonT(40)
      <4>5. Handles!Bytes(f, m) \in Nat
        BY <4>3, FedCounted, ZenonT(40)
      <4>6. \A i : i # m => Handles!Bytes(g, i) = Handles!Bytes(f, i)
        BY <4>3, FedCounted, ZenonT(40)
      <4> QED BY <4>2, <4>4, <4>5, <4>6
    <3>3. /\ d \in Handles!Updates /\ d.slot = s /\ d.id = n /\ d.all = c.all /\ d.op = "update"
          /\ (IF d.all THEN d.has ELSE d.left) = (IF c.all THEN c.has ELSE c.left) - got
      <4> DEFINE left == IF c.all THEN 0 ELSE c.left - got
                 has == c.has - got
      <4>0. c.left \in Nat /\ c.has \in Nat /\ c \in Handles!Updates
        BY <2>1
      <4>1. left \in Nat /\ has \in Nat
        <5> HIDE DEF c
        <5>1. has \in Nat BY <2>8, <4>0
        <5>2. CASE c.all BY <5>1, <5>2
        <5>3. CASE ~c.all BY <2>8, <4>0, <5>1, <5>3
        <5> QED BY <5>2, <5>3
      <4>2. d = [c EXCEPT !.has = has, !.left = left]
        OBVIOUS
      <4>3. (IF c.all THEN has ELSE left) = (IF c.all THEN c.has ELSE c.left) - got
        OBVIOUS
      <4> HIDE DEF c, d, left, has
      <4>4. /\ d \in Handles!Updates /\ d.slot = c.slot /\ d.id = c.id /\ d.all = c.all /\ d.op = "update"
            /\ d.has = has /\ d.left = left
        BY <4>0, <4>1, <4>2 DEF Handles!Updates
      <4>5. (IF d.all THEN d.has ELSE d.left) = (IF c.all THEN has ELSE left)
        BY <4>4
      <4> QED BY <4>3, <4>4, <4>5 DEF c
    <3>4. /\ more \in Record /\ more.fed = grown /\ more.init = hash[s].init /\ more.live = hash[s].live
          /\ more.told = hash[s].told /\ more.digest = hash[s].digest
      <4> HIDE DEF grown, fed
      <4> QED BY <2>5, <3>1
    <3>5. /\ hash' \in [HashNames -> Record] /\ hash'[s] = more /\ \A r \in HashNames : r # s => hash'[r] = hash[r]
      <4>1. hash' = [hash EXCEPT ![s] = more] BY <2>8
      <4> HIDE DEF more, Record
      <4> QED BY <1>0, <2>1, <3>4, <4>1
    <3>6. /\ at' \in [Lockers -> Handles!Updates \cup {Handles!Idle}] /\ at'[t] = d /\ \A u \in Lockers : u # t => at'[u] = at[u]
      <4>1. at' = [at EXCEPT ![t] = d] BY <2>8
      <4> HIDE DEF d
      <4> QED BY <1>0, <3>3, <4>1
    <3> HIDE DEF d, more, grown
    <3>11. n \in Nat /\ (\A k \in DOMAIN fed : fed[k] \in Nat /\ fed[k] <= n) /\ fed = hash[s].fed
      <4>1. n \in Nat /\ fed = hash[s].fed /\ fed \in Seq(Nat) BY <2>1, <2>5
      <4>2. \A k \in DOMAIN fed : fed[k] <= n BY <2>3
      <4> HIDE DEF fed, n, s
      <4>3. \A k \in DOMAIN fed : fed[k] \in Nat BY <3>1, <4>1, ElementOfSeq
      <4> QED BY <4>1, <4>2, <4>3
    <3> HIDE DEF fed, n, s, c
    <3>12. \A k \in DOMAIN grown : (k \in DOMAIN fed /\ grown[k] = fed[k]) \/ (k \in Len(fed) + 1 .. Len(fed) + got /\ grown[k] = n)
      <4>1. /\ DOMAIN grown = 1 .. Len(fed) + got /\ DOMAIN fed = 1 .. Len(fed) /\ Len(fed) \in Nat
            /\ \A k \in 1 .. Len(fed) : grown[k] = fed[k]
            /\ \A k \in Len(fed) + 1 .. Len(fed) + got : grown[k] = n
        BY <3>1
      <4>2. \A k \in 1 .. Len(fed) + got : k \in 1 .. Len(fed) \/ k \in Len(fed) + 1 .. Len(fed) + got
        BY <4>1
      <4>3. SUFFICES ASSUME NEW k \in DOMAIN grown
                     PROVE (k \in DOMAIN fed /\ grown[k] = fed[k]) \/ (k \in Len(fed) + 1 .. Len(fed) + got /\ grown[k] = n)
        OBVIOUS
      <4>4. CASE k \in 1 .. Len(fed) 
        <5>1. k \in DOMAIN fed BY <4>1, <4>4
        <5>2. grown[k] = fed[k] BY <4>1, <4>4
        <5> QED BY <5>1, <5>2
      <4>5. CASE k \in Len(fed) + 1 .. Len(fed) + got BY <4>1, <4>5
      <4> QED BY <4>1, <4>2, <4>4, <4>5
    <3>7. Handles!UpdateInv(d, more, updates)
      <4>1. \A k \in DOMAIN more.fed : more.fed[k] <= n
        <5>1. \A k \in DOMAIN grown : grown[k] <= n
          BY <3>11, <3>12
        <5> QED BY <3>4, <5>1
      <4>2. Handles!Bytes(more.fed, n) + (IF d.all THEN d.has ELSE d.left) = updates[n].bytes
        <5>1. (IF c.all THEN c.has ELSE c.left) \in Nat BY <2>1
        <5>2. Handles!Bytes(fed, n) + (IF c.all THEN c.has ELSE c.left) = updates[n].bytes BY <2>3, <3>11
        <5> DEFINE rest == IF c.all THEN c.has ELSE c.left
                   less == IF d.all THEN d.has ELSE d.left
        <5>3. rest \in Nat /\ less = rest - got /\ Handles!Bytes(fed, n) + rest = updates[n].bytes BY <3>3, <5>1, <5>2
        <5> HIDE DEF rest, less
        <5>4. Handles!Bytes(more.fed, n) + less = updates[n].bytes BY <3>2, <3>4, <5>3
        <5> QED BY <5>4 DEF less
      <4> QED BY <2>3, <3>3, <3>4, <4>1, <4>2 DEF Handles!UpdateInv
    <3>8. Handles!FedInv(s, more, updates)
      <4>1. Handles!FedInv(s, hash[s], updates) BY <1>1, <2>1
      <4>2. \A k \in DOMAIN grown : grown[k] \in DOMAIN updates
        BY <2>3, <3>11, <3>12, <4>1 DEF Handles!FedInv
      <4>4. \A j, k \in DOMAIN fed : j <= k => fed[j] <= fed[k]
        BY <3>11, <4>1 DEF Handles!FedInv
      <4>5. ASSUME NEW j \in DOMAIN grown, NEW k \in DOMAIN grown, j <= k PROVE grown[j] <= grown[k]
        <5>1. CASE k \in DOMAIN fed
          <6>1. j \in DOMAIN fed BY <3>1, <4>5, <5>1
          <6> QED BY <3>1, <4>4, <4>5, <5>1, <6>1
        <5>2. CASE k \notin DOMAIN fed
          BY <3>11, <3>12, <5>2
        <5> QED BY <5>1, <5>2
      <4>6. \A i \in DOMAIN updates : updates[i].slot = s /\ updates[i].ok => more.init /\ Handles!Bytes(grown, i) = updates[i].bytes
        BY <2>3, <3>2, <3>4, <3>11, <4>1 DEF Handles!FedInv
      <4> QED BY <3>4, <4>2, <4>5, <4>6 DEF Handles!FedInv
    <3>9. Handles!DigestInv(more)
      BY <1>1, <2>1, <2>3, <3>4 DEF Handles!DigestInv
    <3>10. \A u \in Lockers : u # t /\ at[u].op = "update" => at[u].slot # s /\ hash'[at[u].slot] = hash[at[u].slot]
      BY <1>2, <2>2, <3>5
    <3> HIDE DEF Record, Update
    <3>13. \A u \in Lockers : at'[u].op = "update" => at[u].op = "update" /\ at'[u].slot = at[u].slot
      BY <2>1, <3>3, <3>6 DEF c, s
    <3>14. ASSUME NEW u \in Lockers, at'[u].op = "update" PROVE Handles!UpdateInv(at'[u], hash'[at'[u].slot], updates)
      <4>1. CASE u = t BY <3>3, <3>5, <3>6, <3>7, <4>1
      <4>2. CASE u # t BY <1>1, <3>6, <3>10, <3>14, <4>2
      <4> QED BY <4>1, <4>2
    <3>15. \A r \in HashNames : Handles!FedInv(r, hash'[r], updates) /\ Handles!DigestInv(hash'[r])
      BY <1>1, <3>5, <3>8, <3>9
    <3>16. ASSUME NEW u \in Lockers, at'[u].op = "update"
           PROVE  /\ platform = "openssl" => hashLock' = u
                  /\ \A v \in Lockers : at'[v].op = "update" /\ at'[v].slot = at'[u].slot => v = u
      BY <1>1, <2>8, <3>13, <3>16, ZenonT(40)
    <3>17. knows' \in [Lockers -> SUBSET HashNames] /\ v3' \in Nat /\ hashLock' \in Lockers \cup {"none"} /\ updates' \in Seq(Update)
      BY <1>0, <2>6, <2>8
    <3>18. updates' = updates BY <2>8
    <3> QED BY <2>6, <3>5, <3>6, <3>14, <3>15, <3>16, <3>17, <3>18
  <2> QED BY <2>6, <2>7, <2>8
<1>9. CASE Handles!Finalize(t)
  <2>1. PICK s \in HashNames :
          /\ Handles!Free(t, s) /\ hash[s].init
          /\ IF hash[s].live
             THEN \/ hash' = [hash EXCEPT ![s].live = FALSE, ![s].digest = hash[s].fed, ![s].told = hash[s].fed]
                  \/ hash' = [hash EXCEPT ![s].live = FALSE, ![s].digest = Handles!Cleared]
             ELSE hash' = [hash EXCEPT ![s].told = hash[s].digest]
          /\ UNCHANGED <<v3, at, knows, hashLock, updates, Handles!Shared>>
    BY <1>0, <1>9 DEF Handles!Finalize
  <2> DEFINE h == hash[s]
             new == IF h.live
                    THEN {[h EXCEPT !.live = FALSE, !.digest = h.fed, !.told = h.fed], [h EXCEPT !.live = FALSE, !.digest = Handles!Cleared]}
                    ELSE {[h EXCEPT !.told = h.digest]}
  <2>2. PICK g \in new : hash' = [hash EXCEPT ![s] = g]
    BY <2>1
  <2>3. h \in Record /\ h.init /\ Handles!DigestInv(h) /\ Handles!FedInv(s, h, updates)
    BY <1>0, <1>1, <2>1
  <2>4. g \in Record /\ g.fed = h.fed /\ g.init = h.init /\ Handles!DigestInv(g)
    <3>0. Handles!Cleared \in Seq(Int) /\ h.fed \in Seq(Int)
      BY <2>3 DEF Handles!Cleared
    <3>1. CASE h.live /\ g = [h EXCEPT !.live = FALSE, !.digest = h.fed, !.told = h.fed]
      BY <2>3, <3>0, <3>1 DEF Handles!DigestInv
    <3>2. CASE h.live /\ g = [h EXCEPT !.live = FALSE, !.digest = Handles!Cleared]
      BY <2>3, <3>0, <3>2 DEF Handles!DigestInv
    <3>3. CASE ~h.live /\ g = [h EXCEPT !.told = h.digest]
      BY <2>3, <3>0, <3>3 DEF Handles!DigestInv
    <3> QED BY <3>1, <3>2, <3>3
  <2> HIDE DEF new, h
  <2>5. hash' \in [HashNames -> Record] /\ hash'[s] = g /\ \A r \in HashNames : r # s => hash'[r] = hash[r]
    <3> HIDE DEF Record
    <3> QED BY <1>0, <2>2, <2>4
  <2>6. Handles!FedInv(s, g, updates)
    BY <2>3, <2>4 DEF Handles!FedInv
  <2>7. \A u \in Lockers : at[u].op = "update" => hash'[at[u].slot] = hash[at[u].slot]
    BY <1>2, <1>3, <2>1, <2>5
  <2> HIDE DEF Record, Update
  <2> QED BY <1>0, <1>1, <2>1, <2>4, <2>5, <2>6, <2>7
<1> QED BY <1>5, <1>6, <1>7, <1>8, <1>9

LEMMA HandlesStep ==
  ASSUME Disciplined, Handles!IInv, Handles!Next \/ UNCHANGED Handles!vars
  PROVE  Handles!IInv'
<1> DEFINE OfMutexes(t) == \/ Handles!MutexInit(t) \/ Handles!MutexDeinit(t)
                           \/ \E op \in {"lock", "trylock", "unlock"} : Handles!Begin(t, op)
                           \/ Handles!Lock(t) \/ Handles!TryLock(t) \/ Handles!Unlock(t)
           OfHashes(t) == \/ Handles!HashInit(t) \/ Handles!HashDeinit(t) \/ Handles!UpdateBegins(t)
                          \/ Handles!UpdateReads(t) \/ Handles!Finalize(t)
           OfJobs == \/ \E j \in Jobs : Handles!Create(j) \/ Handles!CreateOnCore1(j)
                     \/ \E s \in DOMAIN v6 : Handles!Runs(s) \/ Handles!Release(s)
                     \/ Handles!Core1Takes \/ Handles!Core1Returns
<1>1. /\ Handles!MutexTypes /\ Handles!JobTypes /\ Handles!HashTypes /\ Handles!PartsInv
      /\ Handles!MutexInv /\ Handles!JobsInv /\ Handles!UpdatesInv /\ Handles!DigestsInv
  BY DEF Handles!IInv
<1>2. ASSUME NEW t \in Lockers, OfMutexes(t) PROVE Handles!IInv'
  <2>1. /\ Handles!MutexTypes' /\ Handles!PartsInv' /\ Handles!MutexInv'
        /\ ~Handles!Hashes' /\ UNCHANGED <<v1, Handles!threads>>
    BY <1>2, MutexesStep
  <2>2. Handles!JobTypes' /\ Handles!JobsInv' /\ Handles!HashTypes'
    BY <1>1, <2>1 DEF Handles!threads, Handles!hashes, Handles!JobTypes, Handles!JobsInv, Handles!HashTypes
  <2>3. Handles!UpdatesInv' /\ Handles!DigestsInv'
    BY <2>1, <2>2, HandlesParts
  <2> QED BY <2>1, <2>2, <2>3 DEF Handles!IInv
<1>3. ASSUME OfJobs PROVE Handles!IInv'
  <2>1. /\ Handles!JobTypes' /\ Handles!JobsInv'
        /\ ~Handles!Hashes' /\ UNCHANGED <<Handles!mutexes, Handles!hashes, v1>>
    BY <1>3, JobsStep
  <2>2. Handles!MutexTypes' /\ Handles!HashTypes' /\ Handles!MutexInv' /\ Handles!PartsInv'
    BY <1>1, <2>1 DEF Handles!mutexes, Handles!hashes, Handles!MutexTypes, Handles!HashTypes, Handles!MutexInv, Handles!PartsInv,
       Handles!Hashes, Handles!Names, Handles!Held
  <2>3. Handles!UpdatesInv' /\ Handles!DigestsInv'
    BY <2>1, <2>2, HandlesParts
  <2> QED BY <2>1, <2>2, <2>3 DEF Handles!IInv
<1>4. ASSUME NEW t \in Lockers, OfHashes(t) PROVE Handles!IInv'
  <2>1. /\ Handles!MutexTypes' /\ Handles!HashTypes' /\ Handles!UpdatesInv' /\ Handles!DigestsInv'
        /\ Handles!Hashes' /\ UNCHANGED Handles!Shared
    BY <1>4, HashesStep
  <2>2. UNCHANGED <<v2, v6, v7, v8, v9, v1>> BY <2>1 DEF Handles!Shared
  <2>3. Handles!Hashes BY <2>1, <2>2 DEF Handles!Hashes
  <2>4. Handles!PartsInv' BY <1>1, <2>1, <2>2, <2>3 DEF Handles!PartsInv, Handles!Held
  <2>5. Handles!JobTypes' /\ Handles!JobsInv'
    BY <1>1, <2>2 DEF Handles!JobTypes, Handles!JobsInv
  <2>6. \A t1 \in Lockers : v4'[t1].op \in {"update", "none"}
    BY <2>1 DEF Handles!MutexTypes, Handles!Updates, Handles!Idle
  <2>7. Handles!MutexInv'
    BY <1>1, <2>2, <2>6 DEF Handles!MutexInv, Handles!Held
  <2> QED BY <2>1, <2>4, <2>5, <2>7 DEF Handles!IInv
<1>5. CASE UNCHANGED Handles!vars
  <2>1. UNCHANGED <<v1, v2, v3, v4, v5, v6, v7, v8, v9, v10, v11, v12>>
    BY <1>5 DEF Handles!vars
  <2>2. Handles!MutexTypes' /\ Handles!JobTypes' /\ Handles!HashTypes' /\ Handles!PartsInv'
    BY <1>1, <2>1 DEF Handles!MutexTypes, Handles!JobTypes, Handles!HashTypes, Handles!PartsInv, Handles!Hashes, Handles!Names, Handles!Held
  <2>3. Handles!MutexInv' /\ Handles!JobsInv' /\ Handles!UpdatesInv' /\ Handles!DigestsInv'
    BY <1>1, <2>1 DEF Handles!MutexInv, Handles!JobsInv, Handles!UpdatesInv, Handles!DigestsInv, Handles!Held
  <2> QED BY <2>2, <2>3 DEF Handles!IInv
<1> QED BY <1>2, <1>3, <1>4, <1>5 DEF Handles!Next

LEMMA HandlesImplied == Handles!IInv => Handles!HandlesSound
<1> DEFINE platform == v1  at == v4  job == v7  slots == v6  fifo == v8  core1 == v9  hash == v10  updates == v12
<1> SUFFICES ASSUME Handles!IInv PROVE Handles!HandlesSound
  OBVIOUS
<1>1. /\ \A s \in DOMAIN v2 : Handles!Held(s) => v2[s].init
      /\ \A t \in Lockers : at[t].op \in {"lock", "trylock", "unlock"} => v2[at[t].slot].init /\ at[t].slot \in v5[t]
  BY DEF Handles!IInv, Handles!MutexInv
<1>2. \A j \in Jobs : job[j] \in {"made", "running"} =>
        IF platform = "host" THEN \E s \in DOMAIN slots : slots[s].in /\ slots[s].job = j
        ELSE core1.busy /\ (core1.job = j \/ (fifo # <<>> /\ fifo[1][2] = j))
  <2>1. \A j \in Jobs : Handles!Given(j) # <<>> /\ Handles!Given(j)[1][2] = j
    BY DEF Handles!Given
  <2> QED BY <2>1 DEF Handles!IInv, Handles!JobsInv
<1>3. ASSUME NEW s \in DOMAIN hash
      PROVE  /\ \A j, k, l \in DOMAIN hash[s].fed : j < k /\ k < l /\ hash[s].fed[j] = hash[s].fed[l] => hash[s].fed[k] = hash[s].fed[j]
             /\ \A i \in DOMAIN updates : updates[i].slot = s /\ updates[i].ok =>
                  Handles!Cardinality({k \in DOMAIN hash[s].fed : hash[s].fed[k] = i}) = updates[i].bytes
             /\ hash[s].told # Handles!NoDigest => hash[s].told = hash[s].digest /\ hash[s].digest \in {hash[s].fed, Handles!Cleared}
  <2>1. Handles!FedInv(s, hash[s], updates) /\ Handles!DigestInv(hash[s])
    BY <1>3 DEF Handles!IInv, Handles!UpdatesInv, Handles!DigestsInv
  <2>2. hash[s].fed \in Seq(Nat)
    BY <1>3 DEF Handles!IInv, Handles!HashTypes
  <2>3. PICK fed \in Seq(Nat) : fed = hash[s].fed BY <2>2
  <2>4. \A j, k \in DOMAIN fed : j <= k => fed[j] <= fed[k]
    BY <2>1, <2>3 DEF Handles!FedInv
  <2>5. \A k \in DOMAIN fed : fed[k] \in Nat /\ k \in Nat
    BY <2>3, ElementOfSeq, LenProperties
  <2>6. \A j, k, l \in DOMAIN fed : j < k /\ k < l /\ fed[j] = fed[l] => fed[k] = fed[j]
    BY <2>4, <2>5
  <2>7. \A i \in DOMAIN updates : updates[i].slot = s /\ updates[i].ok =>
          Handles!Cardinality({k \in DOMAIN hash[s].fed : hash[s].fed[k] = i}) = updates[i].bytes
    <3>1. \A i \in DOMAIN updates : updates[i].slot = s /\ updates[i].ok => Handles!Bytes(hash[s].fed, i) = updates[i].bytes
      BY <2>1 DEF Handles!FedInv
    <3> QED BY <3>1, Zenon DEF Handles!Bytes
  <2>8. hash[s].told # Handles!NoDigest => hash[s].told = hash[s].digest /\ hash[s].digest \in {hash[s].fed, Handles!Cleared}
    BY <2>1 DEF Handles!DigestInv
  <2> QED BY <2>3, <2>6, <2>7, <2>8
<1>4. \A t \in Lockers : at[t].op = "update" => Handles!Live(at[t].slot)
  BY DEF Handles!IInv, Handles!UpdatesInv, Handles!UpdateInv, Handles!Live
<1> QED BY <1>1, <1>2, <1>3, <1>4, Zenon DEF Handles!HandlesSound

------------------------------------------------------------------------------
(* The application, from app_main's first step to its last. *)
LEMMA AppInit == Application!Init => Application!IInv
<1> SUFFICES ASSUME Application!Init PROVE Application!IInv
  OBVIOUS
<1>1. v1 \in {"posix", "pico"} /\ v4 = {} /\ v5 = "sysinit" /\ v6 = 1 /\ ~v11
  BY Bounds DEF Bounds, Application!Init
<1>2. Len(Application!Order("sysinit")) \in {4, 6}
  BY <1>1 DEF Application!Order
<1>3. Application!Passed = {}
  BY <1>1 DEF Application!Passed
<1> QED BY <1>1, <1>2, <1>3 DEF Application!IInv, Application!UpInv, Application!Phases

\* The order of a phase, part by part.
LEMMA AppOrder ==
  ASSUME v1 \in {"posix", "pico"}
  PROVE  /\ v1 = "posix" => Application!Order("sysinit") = <<"printf", "stdio", "mem", "runloop">>
         /\ v1 = "pico" => Application!Order("sysinit") = <<"sync", "mem", "stdio", "runloop", "timers", "printf">>
         /\ Application!Order("oninit") = <<"hw", "hid", "led", "watchdog", "usb", "usbhid", "signal", "button", "temperature">>
         /\ Application!Order("loop") = <<>> /\ Application!Order("done") = <<>>
         /\ Application!Order("onexit") = <<"hid", "led", "watchdog", "usb", "hw">>
         /\ v1 = "posix" => Application!Order("sysexit") = <<"runloop", "mem", "timers", "stdio", "printf">>
         /\ v1 = "pico" => Application!Order("sysexit") = <<"mem", "timers", "stdio", "printf", "runloop", "sync">>
BY DEF Application!Order, Application!Exits

\* At its end a phase has gone through all of its parts.
LEMMA AppPhase ==
  ASSUME v1 \in {"posix", "pico"}, v5 \in Application!Phases, v6 = Len(Application!Order(v5)) + 1
  PROVE  /\ v5 = "sysinit" => Application!Passed = Application!System
         /\ v5 = "oninit" => Application!Passed = Application!Hardware
         /\ v5 = "onexit" => UNION {Application!TakenWith(part) : part \in Application!Passed} = Application!Hardware
         /\ v5 = "sysexit" => Application!System \subseteq Application!Passed
<1> DEFINE pc == v5  place == v6
           At(k) == Application!Order(pc)[k]
<1>1. CASE pc = "sysinit"
  <2>1. CASE v1 = "posix"
    <3>1. Application!Passed = {At(1), At(2), At(3), At(4)}
      <4>1. place - 1 = 4 BY <1>1, <2>1, AppOrder
      <4>2. 1 .. 4 = {1, 2, 3, 4} OBVIOUS
      <4>3. Application!Passed = {At(k) : k \in {1, 2, 3, 4}} BY <4>1, <4>2 DEF Application!Passed
      <4> HIDE DEF At
      <4> QED BY <4>3
    <3> QED BY <1>1, <2>1, <3>1, AppOrder DEF Application!System
  <2>2. CASE v1 = "pico"
    <3>1. Application!Passed = {At(1), At(2), At(3), At(4), At(5), At(6)}
      <4>1. place - 1 = 6 BY <1>1, <2>2, AppOrder
      <4>2. 1 .. 6 = {1, 2, 3, 4, 5, 6} OBVIOUS
      <4>3. Application!Passed = {At(k) : k \in {1, 2, 3, 4, 5, 6}} BY <4>1, <4>2 DEF Application!Passed
      <4> HIDE DEF At
      <4> QED BY <4>3
    <3> QED BY <1>1, <2>2, <3>1, AppOrder DEF Application!System
  <2> QED BY <1>1, <2>1, <2>2
<1>2. CASE pc = "oninit"
  <2>1. Application!Passed = {At(1), At(2), At(3), At(4), At(5), At(6), At(7), At(8), At(9)}
    <3>1. place - 1 = 9 BY <1>2, AppOrder
    <3>2. 1 .. 9 = {1, 2, 3, 4, 5, 6, 7, 8, 9} OBVIOUS
    <3>3. Application!Passed = {At(k) : k \in {1, 2, 3, 4, 5, 6, 7, 8, 9}} BY <3>1, <3>2 DEF Application!Passed
    <3> HIDE DEF At
    <3> QED BY <3>3
  <2> QED BY <1>2, <2>1, AppOrder DEF Application!Hardware
<1>3. CASE pc = "onexit"
  <2>1. Application!Passed = {At(1), At(2), At(3), At(4), At(5)}
    BY <1>3, AppOrder, SMTT(30) DEF Application!Passed
  <2>2. Application!Passed = {"hid", "led", "watchdog", "usb", "hw"}
    BY <1>3, <2>1, AppOrder
  <2> QED BY <1>3, <2>2 DEF Application!Hardware, Application!TakenWith
<1>4. CASE pc = "sysexit"
  <2>1. CASE v1 = "posix"
    <3>1. {At(1), At(2), At(3), At(4), At(5)} \subseteq Application!Passed
      BY <1>4, <2>1, AppOrder DEF Application!Passed
    <3> QED BY <1>4, <2>1, <3>1, AppOrder DEF Application!System
  <2>2. CASE v1 = "pico"
    <3>1. {At(1), At(2), At(3), At(4), At(5), At(6)} \subseteq Application!Passed
      BY <1>4, <2>2, AppOrder DEF Application!Passed
    <3> QED BY <1>4, <2>2, <3>1, AppOrder DEF Application!System
  <2> QED BY <1>4, <2>1, <2>2
<1> QED BY <1>1, <1>2, <1>3, <1>4

\* What the parts need, and which of them are wanted.
LEMMA AppNeeds ==
  /\ \A part \in {"mem", "stdio", "runloop", "printf", "queue"} : Application!Needs(part) = IF v1 = "pico" THEN {"sync"} ELSE {}
  /\ \A part \in {"sync", "timers", "hw"} : Application!Needs(part) = {}
  /\ Application!Needs("loop") = {"runloop", "queue", "printf"} /\ Application!Needs("hid") = {"queue", "hw"}
  /\ \A part \in {"led", "watchdog", "usb"} : Application!Needs(part) = {"hw"}
  /\ Application!Needs("usbhid") = {"hid", "usb"}
  /\ \A part \in {"signal", "button", "temperature"} : Application!Needs(part) = {"hid"}
BY DEF Application!Needs

LEMMA AppWanted ==
  /\ \A part \in {"printf", "stdio", "mem", "runloop", "sync", "timers", "hw", "hid"} : Application!Wanted(part)
  /\ \A part \in {"led", "watchdog", "usb"} : Application!Wanted(part) <=> part \in v2 /\ part \in v3
  /\ Application!Wanted("usbhid") => {"hid", "usb"} \subseteq v4
  /\ \A part \in {"signal", "button", "temperature"} : Application!Wanted(part) => "hid" \in v4
BY DEF Application!Wanted

LEMMA AppStep ==
  "worker 1" \notin Handlers /\ Application!IInv /\ (Application!Next \/ UNCHANGED Application!vars) => Application!IInv'
<1>0. SUFFICES ASSUME "worker 1" \notin Handlers, Application!IInv, Application!Next \/ UNCHANGED Application!vars
               PROVE  Application!IInv'
  OBVIOUS
<1> DEFINE platform == v1  flags == v2  board == v3  up == v4  pc == v5  place == v6  started == v10  unserved == v11
           Order(phase) == Application!Order(phase)
           part == Application!Order(v5)[v6]
           Closed(parts) == \A q \in parts : Application!Needs(q) \subseteq parts
<1>1. /\ platform \in {"posix", "pico"} /\ pc \in Application!Phases /\ place \in 1 .. Len(Order(pc)) + 1
      /\ Application!UpInv /\ Closed(up) /\ (pc = "loop" => started) /\ ~unserved
  BY <1>0 DEF Application!IInv
<1>2. Len(Order(pc)) \in Nat
  <2>1. \A phase \in Application!Phases : Len(Order(phase)) \in Nat
    <3>1. Len(Order("sysinit")) \in Nat /\ Len(Order("sysexit")) \in Nat
      <4>1. CASE platform = "posix" BY <4>1, AppOrder
      <4>2. CASE platform = "pico" BY <4>2, AppOrder
      <4> QED BY <1>1, <4>1, <4>2
    <3>2. Len(Order("oninit")) \in Nat /\ Len(Order("onexit")) \in Nat
      BY <1>1, AppOrder
    <3>3. Len(Order("loop")) \in Nat /\ Len(Order("done")) \in Nat
      BY <1>1, AppOrder
    <3> QED BY <3>1, <3>2, <3>3 DEF Application!Phases
  <2> QED BY <1>1, <2>1
<1>3. platform' = platform /\ flags' = flags /\ board' = board =>
        /\ \A phase : Order(phase)' = Order(phase)
        /\ Application!System' = Application!System /\ Application!Always' = Application!Always
        /\ Application!Promised' = Application!Promised
        /\ \A q : Application!Needs(q)' = Application!Needs(q)
  BY DEF Application!Order, Application!System, Application!Always, Application!Promised, Application!Needs
<1>4. ASSUME platform' = platform, pc' = pc, place \in 1 .. Len(Order(pc)), place' = place + 1
      PROVE  place' \in 1 .. Len(Order(pc)) + 1 /\ Application!Passed' = Application!Passed \cup {part}
  <2>0. PICK n \in Nat : n = Len(Order(pc)) BY <1>2
  <2>1. place' \in 1 .. Len(Order(pc)) + 1 /\ place \in Nat \ {0} /\ place' - 1 = place
    <3>1. place \in 1 .. n /\ place' = place + 1 BY <1>4, <2>0
    <3>2. place' \in 1 .. n + 1 /\ place \in Nat \ {0} /\ place' - 1 = place BY <3>1
    <3> QED BY <2>0, <3>2
  <2>2. Order(pc)' = Order(pc) BY <1>4 DEF Application!Order
  <2>3. Application!Passed' = {Order(pc)[k] : k \in 1 .. place} BY <1>4, <2>1, <2>2 DEF Application!Passed
  <2>4. 1 .. place = (1 .. place - 1) \cup {place} BY <2>1
  <2> QED BY <2>1, <2>3, <2>4 DEF Application!Passed
<1>5. ASSUME place' = 1 PROVE Application!Passed' = {}
  <2>1. 1 .. place' - 1 = {} BY <1>5
  <2> QED BY <2>1 DEF Application!Passed
<1>6. ASSUME NEW k \in 1 .. place - 1 PROVE Order(pc)[k] \in Application!Passed
  BY DEF Application!Passed
<1>7. CASE Application!BringUp
  <2>1. /\ pc \in {"sysinit", "oninit"} /\ place \in 1 .. Len(Order(pc)) /\ place' = place + 1
        /\ up' = (IF Application!Wanted(part) THEN up \cup {part} ELSE up)
        /\ platform' = platform /\ flags' = flags /\ board' = board /\ pc' = pc /\ unserved' = unserved
    <3>1. place <= Len(Order(pc)) /\ place \in 1 .. Len(Order(pc)) + 1 BY <1>1, <1>7 DEF Application!BringUp
    <3>2. place \in 1 .. Len(Order(pc)) BY <1>2, <3>1
    <3> QED BY <1>7, <3>2 DEF Application!BringUp, Application!fixed
  <2>2. place' \in 1 .. Len(Order(pc))' + 1 /\ Application!Passed' = Application!Passed \cup {part}
    BY <1>3, <1>4, <2>1
  <2>3. CASE pc = "sysinit"
    <3>1. part \in Application!System /\ (platform = "pico" => part = "sync" \/ place > 1)
      <4>1. CASE platform = "posix"
        <5>1. place \in 1 .. 4 BY <2>1, <2>3, <4>1, AppOrder
        <5>2. 1 .. 4 = {1, 2, 3, 4} OBVIOUS
        <5> QED BY <2>3, <4>1, <5>1, <5>2, AppOrder DEF Application!System
      <4>2. CASE platform = "pico"
        <5>1. place \in 1 .. 6 BY <2>1, <2>3, <4>2, AppOrder
        <5>2. 1 .. 6 = {1, 2, 3, 4, 5, 6} OBVIOUS
        <5> QED BY <2>3, <4>2, <5>1, <5>2, AppOrder DEF Application!System
      <4> QED BY <1>1, <4>1, <4>2
    <3>2. Application!Wanted(part) BY <3>1, AppWanted DEF Application!System
    <3>3. up = Application!Passed /\ up' = Application!Passed'
      BY <1>1, <2>1, <2>2, <2>3, <3>2 DEF Application!UpInv
    <3>4. Application!UpInv' BY <2>1, <2>3, <3>3 DEF Application!UpInv
    <3>5. platform = "pico" => part = "sync" \/ "sync" \in up
      <4>1. CASE platform = "pico" /\ place > 1
        <5>1. 1 \in 1 .. place - 1 BY <2>1, <4>1
        <5>2. Order(pc)[1] = "sync" BY <2>3, <4>1, AppOrder
        <5> QED BY <1>6, <3>3, <5>1, <5>2
      <4> QED BY <3>1, <4>1
    <3>6. Application!Needs(part) \subseteq up'
      BY <3>1, <3>2, <3>5, <2>1, AppNeeds DEF Application!System
    <3>7. Closed(up)' BY <1>1, <1>3, <2>1, <3>6
    <3> QED BY <1>1, <2>1, <2>2, <2>3, <3>4, <3>7 DEF Application!IInv
  <2>4. CASE pc = "oninit"
    <3>1. \/ place = 1 /\ part = "hw"
          \/ place = 2 /\ part = "hid"
          \/ place > 2 /\ part \in {"led", "watchdog", "usb", "usbhid", "signal", "button", "temperature"}
      <4>1. place \in {1, 2, 3, 4, 5, 6, 7, 8, 9}
        <5>1. place \in 1 .. 9 BY <1>1, <2>1, <2>4, AppOrder
        <5>2. 1 .. 9 = {1, 2, 3, 4, 5, 6, 7, 8, 9} OBVIOUS
        <5> QED BY <5>1, <5>2
      <4> QED BY <1>1, <2>4, <4>1, AppOrder
    <3>2. /\ Application!Always \cup (Application!Promised \cap Application!Passed) \subseteq up
          /\ up \subseteq Application!Always \cup Application!Passed
      BY <1>1, <2>4 DEF Application!UpInv
    <3>3. place > 1 => "hw" \in up
      <4>1. CASE place > 1
        <5>1. 1 \in 1 .. place - 1 BY <2>1, <4>1
        <5>2. Order(pc)[1] = "hw" BY <1>1, <2>4, AppOrder
        <5>3. "hw" \in Application!Passed BY <1>6, <5>1, <5>2
        <5> QED BY <3>2, <5>3 DEF Application!Promised
      <4> QED BY <4>1
    <3>4. part \in Application!Promised => Application!Wanted(part)
      BY <3>1, AppWanted DEF Application!Promised
    <3>5. Application!UpInv'
      BY <1>3, <2>1, <2>2, <2>4, <3>2, <3>4 DEF Application!UpInv
    <3>6. Application!Wanted(part) => Application!Needs(part) \subseteq up'
      <4>1. CASE place = 1 /\ part = "hw" BY <4>1, AppNeeds
      <4>2. CASE place = 2 /\ part = "hid" BY <2>1, <3>2, <3>3, <4>2, AppNeeds DEF Application!Always
      <4>3. CASE place > 2 /\ part \in {"led", "watchdog", "usb"} BY <2>1, <3>3, <4>3, AppNeeds
      <4>4. CASE part \in {"usbhid", "signal", "button", "temperature"} BY <2>1, <4>4, AppNeeds, AppWanted
      <4> QED BY <3>1, <4>1, <4>2, <4>3, <4>4
    <3>7. Closed(up)' BY <1>1, <1>3, <2>1, <3>6
    <3> QED BY <1>1, <2>1, <2>2, <2>4, <3>5, <3>7 DEF Application!IInv
  <2> QED BY <2>1, <2>3, <2>4
<1>8. CASE Application!TakeDown
  <2>1. /\ pc \in {"onexit", "sysexit"} /\ place \in 1 .. Len(Order(pc)) /\ place' = place + 1
        /\ up' = up \ Application!TakenWith(part)
        /\ platform' = platform /\ flags' = flags /\ board' = board /\ pc' = pc /\ unserved' = unserved
    <3>1. place <= Len(Order(pc)) /\ place \in 1 .. Len(Order(pc)) + 1 BY <1>1, <1>8 DEF Application!TakeDown
    <3>2. place \in 1 .. Len(Order(pc)) BY <1>2, <3>1
    <3> QED BY <1>8, <3>2 DEF Application!TakeDown, Application!fixed
  <2>2. place' \in 1 .. Len(Order(pc))' + 1 /\ Application!Passed' = Application!Passed \cup {part}
    BY <1>3, <1>4, <2>1
  <2>3. CASE pc = "onexit"
    <3> DEFINE Gone(parts) == UNION {Application!TakenWith(q) : q \in parts}
    <3>1. \/ place = 1 /\ part = "hid"
          \/ place = 2 /\ part = "led"
          \/ place = 3 /\ part = "watchdog"
          \/ place = 4 /\ part = "usb" /\ "hid" \in Application!Passed
          \/ place = 5 /\ part = "hw" /\ {"hid", "led", "watchdog", "usb"} \subseteq Application!Passed
      <4>1. place \in {1, 2, 3, 4, 5}
        <5>1. place \in 1 .. 5 BY <1>1, <2>1, <2>3, AppOrder
        <5>2. 1 .. 5 = {1, 2, 3, 4, 5} OBVIOUS
        <5> QED BY <5>1, <5>2
      <4>2. Order(pc)[1] = "hid" /\ Order(pc)[2] = "led" /\ Order(pc)[3] = "watchdog" /\ Order(pc)[4] = "usb" /\ Order(pc)[5] = "hw"
        BY <1>1, <2>3, AppOrder
      <4>3. CASE place = 4
        <5>1. 1 \in 1 .. place - 1 BY <4>3
        <5> QED BY <1>6, <4>2, <4>3, <5>1
      <4>4. CASE place = 5
        <5>1. 1 \in 1 .. place - 1 /\ 2 \in 1 .. place - 1 /\ 3 \in 1 .. place - 1 /\ 4 \in 1 .. place - 1 BY <4>4
        <5> QED BY <1>6, <4>2, <4>4, <5>1
      <4> QED BY <4>1, <4>2, <4>3, <4>4
    <3>2. /\ Application!Always \subseteq up
          /\ up \subseteq Application!Always \cup (Application!Hardware \ Gone(Application!Passed))
      BY <1>1, <2>3, Zenon DEF Application!UpInv
    <3>3. /\ Application!TakenWith("hid") = {"hid", "usbhid", "signal", "button", "temperature"}
          /\ \A q : q # "hid" => Application!TakenWith(q) = {q}
      BY DEF Application!TakenWith
    <3>4. Gone(Application!Passed') = Gone(Application!Passed) \cup Application!TakenWith(part)
      BY <2>2
    <3>5. Application!Always \cap Application!TakenWith(part) = {}
      BY <3>1, <3>3 DEF Application!Always, Application!System
    <3>6. Application!Always \subseteq up' /\ up' \subseteq Application!Always \cup (Application!Hardware \ Gone(Application!Passed'))
      <4> HIDE DEF Gone
      <4> QED BY <2>1, <3>2, <3>4, <3>5
    <3>7. Application!UpInv' BY <1>3, <2>1, <2>3, <3>6 DEF Application!UpInv, Application!TakenWith, Application!Hardware
    <3>8. ASSUME NEW q \in up' PROVE Application!Needs(q) \subseteq up'
      <4>1. Application!Needs(q) \subseteq up /\ q \in up /\ q \notin Application!TakenWith(part) BY <1>1, <2>1, <3>8
      <4>2. Application!Needs(q) \cap Application!TakenWith(part) = {}
        <5>1. q \in Application!Always \/ (q \in Application!Hardware /\ \A r \in Application!Passed : q \notin Application!TakenWith(r))
          <6>1. q \in Application!Always \/ (q \in Application!Hardware /\ q \notin Gone(Application!Passed))
            <7> HIDE DEF Gone
            <7> QED BY <3>2, <4>1
          <6> QED BY <6>1
        <5>5. q \in {"signal", "button", "temperature", "usbhid", "hid", "led", "watchdog", "usb"} => q \notin Application!Always
          BY DEF Application!Always, Application!System
        <5>2. q \in {"signal", "button", "temperature", "usbhid"} => part # "usb" /\ part # "hid"
          BY <3>1, <3>3, <4>1, <5>1, <5>5
        <5>3. q \in {"hid", "led", "watchdog", "usb"} => part # "hw"
          BY <3>1, <3>3, <5>1, <5>5
        <5>4. Application!TakenWith(part) \subseteq Application!Hardware
          BY <3>1, <3>3 DEF Application!Hardware
        <5> QED BY <3>1, <3>3, <5>1, <5>2, <5>3, <5>4, AppNeeds DEF Application!Always, Application!System, Application!Hardware
      <4> QED BY <2>1, <4>1, <4>2
    <3>9. Closed(up)' BY <1>3, <2>1, <3>8
    <3> QED BY <1>1, <2>1, <2>2, <2>3, <3>7, <3>9 DEF Application!IInv
  <2>4. CASE pc = "sysexit"
    <3>1. up = Application!System \ Application!Passed /\ Application!TakenWith(part) = {part}
      <4>1. part # "hid"
        <5>1. CASE platform = "posix"
          <6>1. place \in 1 .. 5 BY <2>1, <2>4, <5>1, AppOrder
          <6>2. 1 .. 5 = {1, 2, 3, 4, 5} OBVIOUS
          <6> QED BY <2>4, <5>1, <6>1, <6>2, AppOrder
        <5>2. CASE platform = "pico"
          <6>1. place \in 1 .. 6 BY <2>1, <2>4, <5>2, AppOrder
          <6>2. 1 .. 6 = {1, 2, 3, 4, 5, 6} OBVIOUS
          <6> QED BY <2>4, <5>2, <6>1, <6>2, AppOrder
        <5> QED BY <1>1, <5>1, <5>2
      <4> QED BY <1>1, <2>4, <4>1 DEF Application!UpInv, Application!TakenWith
    <3>2. up' = Application!System \ Application!Passed' BY <2>1, <2>2, <3>1
    <3>3. Application!UpInv' BY <1>3, <2>1, <2>4, <3>2 DEF Application!UpInv
    <3>4. CASE platform = "posix"
      <4>1. Closed(up)' BY <1>3, <2>1, <3>2, <3>4, AppNeeds DEF Application!System
      <4> QED BY <1>1, <2>1, <2>2, <2>4, <3>3, <4>1 DEF Application!IInv
    <3>5. CASE platform = "pico"
      <4>1. place \in {1, 2, 3, 4, 5, 6}
        <5>1. place \in 1 .. 6 BY <2>1, <2>4, <3>5, AppOrder
        <5>2. 1 .. 6 = {1, 2, 3, 4, 5, 6} OBVIOUS
        <5> QED BY <5>1, <5>2
      <4>2. CASE place = 6
        <5>1. place' = Len(Order(pc)) + 1 BY <2>1, <2>4, <3>5, <4>2, AppOrder
        <5>2. \A k \in {1, 2, 3, 4, 5} : k \in 1 .. place - 1 BY <4>2
        <5>3. {"mem", "timers", "stdio", "printf", "runloop"} \subseteq Application!Passed
          BY <1>6, <2>4, <3>5, <5>2, AppOrder
        <5>4. part = "sync" BY <2>4, <3>5, <4>2, AppOrder
        <5>5. up' = {} BY <2>2, <3>2, <5>3, <5>4 DEF Application!System
        <5> QED BY <1>1, <2>1, <2>2, <2>4, <3>3, <5>5 DEF Application!IInv
      <4>3. CASE place # 6
        <5>1. part # "sync" BY <2>4, <3>5, <4>1, <4>3, AppOrder
        <5>2. ASSUME NEW q \in up' PROVE Application!Needs(q) \subseteq up'
          <6>1. q \in up /\ q \in Application!System /\ Application!Needs(q) \subseteq up BY <1>1, <2>1, <3>1, <5>2
          <6>2. Application!Needs(q) \subseteq {"sync"} BY <6>1, AppNeeds DEF Application!System
          <6> QED BY <2>1, <3>1, <5>1, <6>1, <6>2
        <5>3. Closed(up)' BY <1>3, <2>1, <5>2
        <5> QED BY <1>1, <2>1, <2>2, <2>4, <3>3, <5>3 DEF Application!IInv
      <4> QED BY <4>2, <4>3
    <3> QED BY <1>1, <3>4, <3>5
  <2> QED BY <2>1, <2>3, <2>4
<1>17. place \in 1 .. Len(Order(pc)) + 1 /\ place > Len(Order(pc)) => place = Len(Order(pc)) + 1
  BY <1>2
<1>18. Application!Phases' = Application!Phases /\ \A phase \in Application!Phases : 1 \in 1 .. Len(Order(phase)) + 1
  <2>1. Len(Order("sysinit")) \in Nat /\ Len(Order("sysexit")) \in Nat
    <3>1. CASE platform = "posix" BY <3>1, AppOrder
    <3>2. CASE platform = "pico" BY <3>2, AppOrder
    <3> QED BY <1>1, <3>1, <3>2
  <2>2. Len(Order("oninit")) \in Nat /\ Len(Order("onexit")) \in Nat
    BY <1>1, AppOrder
  <2>3. Len(Order("loop")) \in Nat /\ Len(Order("done")) \in Nat
    BY <1>1, AppOrder
  <2> QED BY <2>1, <2>2, <2>3 DEF Application!Phases
<1>9. CASE Application!RunLoop
  <2>1. /\ pc = "sysinit" /\ place = Len(Order(pc)) + 1 /\ pc' = "oninit" /\ place' = 1
        /\ up' = up \cup {"queue", "loop"}
        /\ platform' = platform /\ flags' = flags /\ board' = board /\ unserved' = unserved
    BY <1>1, <1>9, <1>17 DEF Application!RunLoop, Application!Goto, Application!fixed
  <2>2. up = Application!System
    BY <1>1, <2>1, AppPhase DEF Application!UpInv
  <2>3. up' = Application!Always' /\ Application!Passed' = {}
    BY <1>3, <1>5, <2>1, <2>2 DEF Application!Always
  <2>4. Application!UpInv' BY <2>1, <2>3 DEF Application!UpInv
  <2>5. Closed(up)'
    <3>1. Closed(Application!Always) BY AppNeeds DEF Application!Always, Application!System
    <3> QED BY <1>3, <2>1, <2>3, <3>1
  <2> QED BY <1>1, <1>3, <1>18, <2>1, <2>4, <2>5 DEF Application!IInv, Application!Phases
<1>10. CASE Application!OnStart
  <2>1. /\ pc = "oninit" /\ place = Len(Order(pc)) + 1 /\ pc' = "loop" /\ place' = 1 /\ started'
        /\ platform' = platform /\ flags' = flags /\ board' = board /\ unserved' = unserved /\ up' = up
    BY <1>1, <1>10, <1>17 DEF Application!OnStart, Application!Goto, Application!fixed
  <2>2. Application!Passed = Application!Hardware /\ Application!Promised \subseteq Application!Hardware
    BY <1>1, <2>1, AppPhase DEF Application!Promised, Application!Hardware
  <2>3. Application!Always \cup Application!Promised \subseteq up /\ up \subseteq Application!Always \cup Application!Hardware
    BY <1>1, <2>1, <2>2 DEF Application!UpInv
  <2>4. Application!UpInv' BY <1>3, <2>1, <2>3 DEF Application!UpInv, Application!Hardware
  <2>5. Closed(up)' BY <1>1, <1>3, <2>1
  <2> QED BY <1>1, <1>3, <1>18, <2>1, <2>4, <2>5 DEF Application!IInv, Application!Phases
<1>19. ASSUME platform' = platform, flags' = flags, board' = board, up' = up, pc' = pc, place' = place, started' = started
       PROVE  /\ platform' \in {"posix", "pico"} /\ pc' \in Application!Phases' /\ place' \in 1 .. Len(Order(pc))' + 1
              /\ Application!UpInv' /\ Closed(up)' /\ (pc' = "loop" => started')
  <2>1. Application!Passed' = Application!Passed /\ Application!Hardware' = Application!Hardware
    BY <1>3, <1>19 DEF Application!Passed, Application!Hardware
  <2>2. Application!UpInv'
    BY <1>1, <1>3, <1>19, <2>1 DEF Application!UpInv, Application!TakenWith
  <2> QED BY <1>1, <1>3, <1>19, <2>2 DEF Application!Phases
<1>11. CASE Application!Handle
  <2>1. /\ platform' = platform /\ flags' = flags /\ board' = board /\ up' = up /\ pc' = pc /\ place' = place /\ started' = started
        /\ pc = "loop" /\ unserved' = (unserved \/ ("worker 0" \in Handlers /\ ~(started /\ Application!Promised \subseteq up)))
    BY <1>11 DEF Application!Handle, Application!fixed, Application!Served
  <2>2. ~unserved' BY <1>1, <2>1 DEF Application!UpInv
  <2> QED BY <1>19, <2>1, <2>2 DEF Application!IInv
<1>12. CASE Application!Post \/ Application!Stop \/ Application!WorkerTakes \/ Application!WorkerReturns \/ Application!WorkerLeaves
  <2>1. /\ platform' = platform /\ flags' = flags /\ board' = board /\ up' = up /\ pc' = pc /\ place' = place /\ started' = started
        /\ ~unserved'
    <3>1. CASE Application!Post \/ Application!Stop \/ Application!WorkerLeaves
      BY <1>1, <3>1 DEF Application!Post, Application!Stop, Application!WorkerLeaves, Application!fixed
    <3>2. CASE Application!WorkerTakes \/ Application!WorkerReturns
      <4>1. Application!Served("worker 1") => ~unserved'
        BY <1>0, <1>1, Zenon DEF Application!Served
      <4> QED BY <3>2, <4>1 DEF Application!WorkerTakes, Application!WorkerReturns, Application!fixed
    <3> QED BY <1>12, <3>1, <3>2
  <2> QED BY <1>1, <1>19, <2>1 DEF Application!IInv
<1>13. CASE Application!LoopEnds
  <2>1. /\ pc = "loop" /\ pc' = "onexit" /\ place' = 1
        /\ platform' = platform /\ flags' = flags /\ board' = board /\ unserved' = unserved /\ up' = up
    BY <1>13 DEF Application!LoopEnds, Application!Goto, Application!fixed
  <2>2. Application!Passed' = {} BY <1>5, <2>1
  <2>3. Application!UpInv' BY <1>1, <1>3, <2>1, <2>2 DEF Application!UpInv, Application!Hardware
  <2>4. Closed(up)' BY <1>1, <1>3, <2>1
  <2> QED BY <1>1, <1>3, <1>18, <2>1, <2>3, <2>4 DEF Application!IInv, Application!Phases
<1>14. CASE Application!LoopReturns
  <2>1. /\ pc = "onexit" /\ place = Len(Order(pc)) + 1 /\ pc' = "sysexit" /\ place' = 1
        /\ up' = up \ {"queue", "loop"}
        /\ platform' = platform /\ flags' = flags /\ board' = board /\ unserved' = unserved
    BY <1>1, <1>14, <1>17 DEF Application!LoopReturns, Application!Goto, Application!fixed
  <2>2. up = Application!Always
    BY <1>1, <2>1, AppPhase DEF Application!UpInv
  <2>3. up' = Application!System /\ Application!Passed' = {}
    BY <1>5, <2>1, <2>2 DEF Application!Always, Application!System
  <2>4. Application!UpInv' BY <1>3, <2>1, <2>3 DEF Application!UpInv
  <2>5. Closed(up)'
    <3>1. Closed(Application!System) BY AppNeeds DEF Application!System
    <3> QED BY <1>3, <2>1, <2>3, <3>1
  <2> QED BY <1>1, <1>3, <1>18, <2>1, <2>4, <2>5 DEF Application!IInv, Application!Phases
<1>15. CASE Application!Return
  <2>1. /\ pc = "sysexit" /\ place = Len(Order(pc)) + 1 /\ pc' = "done" /\ place' = 1 /\ up' = up
        /\ platform' = platform /\ flags' = flags /\ board' = board /\ unserved' = unserved
    BY <1>1, <1>15, <1>17 DEF Application!Return, Application!Goto, Application!fixed
  <2>2. up' = {} BY <1>1, <2>1, AppPhase DEF Application!UpInv
  <2>3. Application!UpInv' BY <2>1, <2>2 DEF Application!UpInv
  <2> QED BY <1>1, <1>3, <1>18, <2>1, <2>2, <2>3 DEF Application!IInv, Application!Phases
<1>16. CASE UNCHANGED Application!vars
  <2>1. /\ platform' = platform /\ flags' = flags /\ board' = board /\ up' = up /\ pc' = pc /\ place' = place /\ started' = started
        /\ unserved' = unserved
    BY <1>16 DEF Application!vars
  <2> QED BY <1>1, <1>19, <2>1 DEF Application!IInv
<1> QED BY <1>0, <1>7, <1>8, <1>9, <1>10, <1>11, <1>12, <1>13, <1>14, <1>15, <1>16 DEF Application!Next

LEMMA AppImplied == Application!IInv => Application!Stands
BY DEF Application!IInv, Application!Stands, Application!UpInv

------------------------------------------------------------------------------
(* The flash pause.  What core 0 has asked for and what core 1 has answered     *)
(* tell where they are; both disciplines together make the invariant inductive. *)
LEMMA PauseInit == Pause!Init => Pause!IInv
BY DEF Pause!Init, Pause!IInv, Pause!TypeOK, Pause!Handshake, Pause!Alone, Pause!Parked, Pause!Pausing

LEMMA PauseStep ==
  ASSUME Discipline = {"launched", "settled"}, Pause!IInv, Pause!Next \/ UNCHANGED Pause!vars
  PROVE  Pause!IInv'
<1> USE DEF Pause!IInv, Pause!TypeOK, Pause!Handshake, Pause!Alone, Pause!Parked, Pause!Pausing, Pause!flags
<1>1. CASE Pause!Begin \/ Pause!ReadOwn
  BY <1>1 DEF Pause!Begin, Pause!ReadOwn
<1>2. CASE Pause!Core0
  <2>1. CASE Pause!TestActive \/ Pause!Request \/ Pause!SevRequest
    BY <2>1 DEF Pause!TestActive, Pause!Request, Pause!SevRequest
  <2>2. CASE Pause!Acknowledged BY <2>2 DEF Pause!Acknowledged
  <2>3. CASE Pause!TimeOut \/ Pause!Release BY <2>3 DEF Pause!TimeOut, Pause!Release
  <2>4. CASE Pause!Sev \/ Pause!End \/ Pause!ReadOwnDone
    BY <2>4 DEF Pause!Sev, Pause!End, Pause!ReadOwnDone
  <2> QED BY <1>2, <2>1, <2>2, <2>3, <2>4 DEF Pause!Core0
<1>3. CASE Pause!WorkerEnter \/ Pause!WorkerExit
  BY <1>3 DEF Pause!WorkerEnter, Pause!WorkerExit
<1>4. CASE Pause!WantRead \/ Pause!PausePoint
  BY <1>4 DEF Pause!WantRead, Pause!PausePoint
<1>5. CASE Pause!Core1
  <2>1. CASE Pause!Read \/ Pause!ReadDone BY <2>1 DEF Pause!Read, Pause!ReadDone
  <2>2. CASE Pause!Acknowledge \/ Pause!SevOwn BY <2>2 DEF Pause!Acknowledge, Pause!SevOwn
  <2>3. CASE Pause!CheckRequested BY <2>3 DEF Pause!CheckRequested
  <2>4. CASE Pause!Wfe \/ Pause!Wake BY <2>4 DEF Pause!Wfe, Pause!Wake
  <2>5. CASE Pause!Unacknowledge BY <2>5 DEF Pause!Unacknowledge
  <2> QED BY <1>5, <2>1, <2>2, <2>3, <2>4, <2>5 DEF Pause!Core1
<1>6. CASE UNCHANGED Pause!vars BY <1>6 DEF Pause!vars
<1> QED BY <1>1, <1>2, <1>3, <1>4, <1>5, <1>6 DEF Pause!Next

LEMMA PauseImplied == Pause!IInv => Pause!TypeOK /\ Pause!ParkedWhileFlashing
BY DEF Pause!IInv, Pause!Alone, Pause!ParkedWhileFlashing, Pause!Parked, Pause!Pausing

------------------------------------------------------------------------------
(* The parts together: a behaviour of the platform is one of theirs. *)
Inv ==
  /\ which = "timer" => Timers!IInv
  /\ which = "group" => WaitGroups!IInv
  /\ which = "handles" => Handles!IInv
  /\ which = "app" => Application!IInv
  /\ which = "pause" => Pause!IInv

(* Callbacks do not overlap and do not outlive their timer, waits return only   *)
(* at zero and leave nobody behind, handles stay their owners' and a hash is of *)
(* the bytes of its updates, what is used is up, and core 1 is parked while     *)
(* core 0 works on the flash: for every number of threads, timers, groups,      *)
(* slots, jobs, updates and events.  The timers' callbacks are prompt, the wait *)
(* groups settled, the handles' users disciplined and both disciplines of the   *)
(* flash kept, as PlatformSound is checked, and no handler of the further       *)
(* worker relies on on_start.                                                   *)
THEOREM PlatformAlwaysSound ==
  ASSUME Prompt, Settled, Disciplined, IsFiniteSet(Waiters), "worker 1" \notin Handlers,
         Discipline = {"launched", "settled"}
  PROVE  Spec => []PlatformSound
<1>1. Init => Inv
  BY TimersInit, GroupsInit, HandlesInit, AppInit, PauseInit DEF Init, Inv
<1>2. Inv /\ [Next]_vars => Inv'
  <2>1. SUFFICES ASSUME Inv, [Next]_vars PROVE Inv'
    OBVIOUS
  <2>2. which' = which
    BY <2>1 DEF Next, vars
  <2>3. CASE which = "timer"
    <3>1. Timers!Next \/ UNCHANGED Timers!vars
      BY <2>1, <2>3 DEF Next, vars, Timers!vars, Timers!pool
    <3> QED BY <2>1, <2>2, <2>3, <3>1, TimersStep DEF Inv
  <2>4. CASE which = "group"
    <3>1. WaitGroups!Next \/ UNCHANGED WaitGroups!vars
      BY <2>1, <2>4 DEF Next, vars, WaitGroups!vars, WaitGroups!fields, WaitGroups!owners
    <3> QED BY <2>1, <2>2, <2>4, <3>1, GroupsStep DEF Inv
  <2>5. CASE which = "handles"
    <3>1. Handles!Next \/ UNCHANGED Handles!vars
      BY <2>1, <2>5 DEF Next, vars, Handles!vars
    <3> QED BY <2>1, <2>2, <2>5, <3>1, HandlesStep DEF Inv
  <2>6. CASE which = "app"
    <3>1. Application!Next \/ UNCHANGED Application!vars
      BY <2>1, <2>6 DEF Next, vars, Application!vars
    <3> QED BY <2>1, <2>2, <2>6, <3>1, AppStep DEF Inv
  <2>7. CASE which = "pause"
    <3>1. Pause!Next \/ UNCHANGED Pause!vars
      BY <2>1, <2>7 DEF Next, vars, Pause!vars, Pause!flags
    <3> QED BY <2>1, <2>2, <2>7, <3>1, PauseStep DEF Inv
  <2> QED BY <2>1, <2>2, <2>3, <2>4, <2>5, <2>6, <2>7 DEF Inv
<1>3. Inv => PlatformSound
  BY HandlesImplied, AppImplied, PauseImplied DEF Inv, PlatformSound, Timers!IInv, WaitGroups!IInv
<1> QED BY <1>1, <1>2, <1>3, PTL DEF Spec
==============================================================================
