-------------------------------- MODULE PicoCond --------------------------------
(***************************************************************************)
(* The condition variable of src/picofuse/sys/pico/cond.c, made of a       *)
(* counting semaphore and two counters.  The counters are guarded by the   *)
(* critical section all pooled primitives share; the semaphore is not: a   *)
(* waiter takes its permit whenever there is one.                          *)
(*                                                                         *)
(* A thread locks its mutex, waits any number of times and unlocks; a      *)
(* notifier needs no mutex (the event queue broadcasts without it).  At    *)
(* some time one thread deinitialises the condition variable, with waiters *)
(* still inside if it likes, but no call that has not begun yet.           *)
(***************************************************************************)
EXTENDS Integers, FiniteSets, FiniteSetTheorems, TLAPS

CONSTANTS
    Threads,    \* the threads that use the condition variable
    NoThread,   \* the owner of a free lock
    Notifying,  \* where a thread may notify: "locked", with the mutex, "idle", without
    Late        \* a wait may begin before the wake-ups of earlier waits are used up

ASSUME ThreadsAssumption == IsFiniteSet(Threads) /\ NoThread \notin Threads
ASSUME NotifyingAssumption == Notifying \subseteq {"idle", "locked"}
ASSUME LateAssumption == Late \in BOOLEAN

VARIABLES
    sem,        \* permits of cond->sem
    waiters,    \* cond->waiters_count
    pending,    \* cond->pending_signals
    init,       \* cond->init
    mutex,      \* the owner of the mutex the waiters share
    pool,       \* the owner of the critical section
    releases,   \* the permits its owner has still to release
    closing,    \* the thread in sys_cond_deinit
    pc,         \* where each thread is
    timed, got, \* a wait has a timeout; it ended with a permit
    owed        \* the threads that were waiting when a broadcast took effect

cond == <<sem, waiters, pending, init>>
vars == <<cond, mutex, pool, releases, closing, pc, timed, got, owed>>

Init ==
    /\ sem = 0 /\ waiters = 0 /\ pending = 0 /\ init = TRUE
    /\ mutex = NoThread /\ pool = NoThread /\ closing = NoThread
    /\ releases = 0
    /\ pc = [t \in Threads |-> "idle"]
    /\ timed = [t \in Threads |-> FALSE]
    /\ got = [t \in Threads |-> FALSE]
    /\ owed = {}

Goto(t, place) == pc' = [pc EXCEPT ![t] = place]

\* Counted by waiters_count; counted by pending_signals, with the permit taken.
Counted == {t \in Threads : pc[t] \in {"unlock", "asleep", "finish"}}
Granted == {t \in Threads : pc[t] = "finish" /\ got[t]}

-----------------------------------------------------------------------------
(* The caller of a wait, and its mutex. *)

Lock(t) ==
    /\ pc[t] = "idle"
    /\ closing = NoThread
    /\ mutex = NoThread /\ mutex' = t
    /\ Goto(t, "locked")
    /\ UNCHANGED <<cond, pool, releases, closing, timed, got, owed>>

Unlock(t) ==
    /\ pc[t] = "locked"
    /\ mutex' = NoThread
    /\ Goto(t, "idle")
    /\ UNCHANGED <<cond, pool, releases, closing, timed, got, owed>>

-----------------------------------------------------------------------------
(* sys_cond_wait and sys_cond_timedwait *)

Register(t) ==
    /\ pc[t] = "locked"
    /\ closing = NoThread
    /\ pool = NoThread
    /\ Late \/ pending = 0
    /\ waiters' = waiters + 1
    /\ \E b \in BOOLEAN : timed' = [timed EXCEPT ![t] = b]
    /\ Goto(t, "unlock")
    /\ UNCHANGED <<sem, pending, init, mutex, pool, releases, closing, got, owed>>

UnlockToWait(t) ==
    /\ pc[t] = "unlock"
    /\ mutex' = NoThread
    /\ Goto(t, "asleep")
    /\ UNCHANGED <<cond, pool, releases, closing, timed, got, owed>>

\* Mutant: the semaphore lets everyone through.
AcquireFreely(t) ==
    /\ pc[t] = "asleep"
    /\ sem' = sem - 1
    /\ got' = [got EXCEPT ![t] = TRUE]
    /\ Goto(t, "finish")
    /\ UNCHANGED <<waiters, pending, init, mutex, pool, releases, closing, timed, owed>>

\* sem_acquire_blocking, sem_acquire_timeout_ms
Acquire(t) ==
    /\ pc[t] = "asleep"
    /\ sem > 0
    /\ sem' = sem - 1
    /\ got' = [got EXCEPT ![t] = TRUE]
    /\ Goto(t, "finish")
    /\ UNCHANGED <<waiters, pending, init, mutex, pool, releases, closing, timed, owed>>

TimeOut(t) ==
    /\ pc[t] = "asleep"
    /\ timed[t]
    /\ got' = [got EXCEPT ![t] = FALSE]
    /\ Goto(t, "finish")
    /\ UNCHANGED <<cond, mutex, pool, releases, closing, timed, owed>>

\* Mutant: a waiter that got its permit stays among the signalled ones.
FinishForgetting(t) ==
    /\ pc[t] = "finish"
    /\ pool = NoThread
    /\ waiters' = waiters - 1
    /\ IF ~got[t] /\ pending > waiters - 1
         THEN pool' = t /\ Goto(t, "absorb")
         ELSE UNCHANGED pool /\ Goto(t, "relock")
    /\ owed' = owed \ {t}
    /\ UNCHANGED <<sem, pending, init, mutex, releases, closing, timed, got>>

\* _sys_cond_finish_wait: with a permit, or without and no signal to spare.
Finish(t) ==
    /\ pc[t] = "finish"
    /\ pool = NoThread
    /\ waiters' = waiters - 1
    /\ IF got[t]
         THEN /\ pending' = IF pending > 0 THEN pending - 1 ELSE pending
              /\ Goto(t, "relock") /\ UNCHANGED pool
         ELSE /\ IF pending > waiters - 1
                   THEN pool' = t /\ Goto(t, "absorb")
                   ELSE UNCHANGED pool /\ Goto(t, "relock")
              /\ UNCHANGED pending
    /\ owed' = owed \ {t}
    /\ UNCHANGED <<sem, init, mutex, releases, closing, timed, got>>

\* sem_try_acquire of the signal nobody is left to take.
Absorb(t) ==
    /\ pc[t] = "absorb"
    /\ IF sem > 0 THEN sem' = sem - 1 /\ pending' = pending - 1
                  ELSE UNCHANGED <<sem, pending>>
    /\ pool' = NoThread
    /\ Goto(t, "relock")
    /\ UNCHANGED <<waiters, init, mutex, releases, closing, timed, got, owed>>

Relock(t) ==
    /\ pc[t] = "relock"
    /\ mutex = NoThread /\ mutex' = t
    /\ Goto(t, "locked")
    /\ UNCHANGED <<cond, pool, releases, closing, timed, got, owed>>

-----------------------------------------------------------------------------
(* sys_cond_signal and sys_cond_broadcast *)

\* Back to the caller of a signal or a broadcast, sys_cond_deinit among them.
Return(t) == Goto(t, IF closing' = t THEN "drain" ELSE IF mutex = t THEN "locked" ELSE "idle")

\* Count n more signals and release their permits, one after another.
Grant(t, n) ==
    /\ pool = NoThread
    /\ pending' = pending + n
    /\ releases' = n
    /\ IF n > 0 THEN pool' = t /\ Goto(t, "release")
                ELSE UNCHANGED pool /\ Return(t)

Signal(t) ==
    /\ pc[t] \in Notifying
    /\ closing = NoThread
    /\ UNCHANGED closing
    /\ Grant(t, IF waiters > pending THEN 1 ELSE 0)
    /\ UNCHANGED <<sem, waiters, init, mutex, timed, got, owed>>

\* Mutants: waiters that are signalled already get another permit; only one
\* waiter gets any.
BroadcastAgain(t) ==
    /\ pc[t] \in Notifying
    /\ closing = NoThread
    /\ UNCHANGED closing
    /\ Grant(t, waiters)
    /\ owed' = Counted
    /\ UNCHANGED <<sem, waiters, init, mutex, timed, got>>
BroadcastToOne(t) ==
    /\ pc[t] \in Notifying
    /\ closing = NoThread
    /\ UNCHANGED closing
    /\ Grant(t, IF waiters > pending THEN 1 ELSE 0)
    /\ owed' = Counted
    /\ UNCHANGED <<sem, waiters, init, mutex, timed, got>>

Broadcast(t) ==
    /\ pc[t] \in Notifying
    /\ closing = NoThread
    /\ UNCHANGED closing
    /\ Grant(t, waiters - pending)
    /\ owed' = Counted
    /\ UNCHANGED <<sem, waiters, init, mutex, timed, got>>

Release(t) ==
    /\ pc[t] = "release"
    /\ UNCHANGED closing
    /\ sem' = sem + 1
    /\ releases' = releases - 1
    /\ IF releases > 1
         THEN UNCHANGED <<pool, pc>>
         ELSE pool' = NoThread /\ Return(t)
    /\ UNCHANGED <<waiters, pending, init, mutex, timed, got, owed>>

-----------------------------------------------------------------------------
(* sys_cond_deinit *)

\* Mutant: the waiters are not woken.
DeinitQuietly(t) ==
    /\ pc[t] = "idle"
    /\ closing = NoThread
    /\ closing' = t
    /\ Goto(t, "drain")
    /\ UNCHANGED <<cond, mutex, pool, releases, timed, got, owed>>

\* Its broadcast.  A wait that is not counted by now never begins.
Deinit(t) ==
    /\ pc[t] = "idle"
    /\ closing = NoThread
    /\ closing' = t
    /\ Grant(t, waiters - pending)
    /\ owed' = Counted
    /\ UNCHANGED <<sem, waiters, init, mutex, timed, got>>

\* Mutant: the woken waiters are not waited for.
DrainedAtOnce(t) ==
    /\ pc[t] = "drain"
    /\ pool = NoThread
    /\ Goto(t, "reset")
    /\ UNCHANGED <<cond, mutex, pool, releases, closing, timed, got, owed>>

\* The loop that ends with waiters_count = 0.
Drained(t) ==
    /\ pc[t] = "drain"
    /\ pool = NoThread
    /\ waiters = 0
    /\ Goto(t, "reset")
    /\ UNCHANGED <<cond, mutex, pool, releases, closing, timed, got, owed>>

Reset(t) ==
    /\ pc[t] = "reset"
    /\ pool = NoThread
    /\ sem' = 0 /\ waiters' = 0 /\ pending' = 0
    /\ init' = FALSE
    /\ Goto(t, "done")
    /\ UNCHANGED <<mutex, pool, releases, closing, timed, got, owed>>

-----------------------------------------------------------------------------

\* The steps of a call under way.
Working(t) ==
    \/ Unlock(t) \/ UnlockToWait(t) \/ Acquire(t) \/ TimeOut(t)
    \/ Finish(t) \/ Absorb(t) \/ Relock(t)
    \/ Release(t) \/ Drained(t) \/ Reset(t)

\* Nothing is left to do: the condition variable is gone.
Gone == ~init /\ (\A t \in Threads : pc[t] \in {"idle", "done"}) /\ UNCHANGED vars

\* Every thread sleeps, and nobody is left to wake them.
AllAsleep == (\A t \in Threads : pc[t] = "asleep") /\ sem = 0 /\ UNCHANGED vars

Next ==
    \/ \E t \in Threads :
         Lock(t) \/ Register(t) \/ Signal(t) \/ Broadcast(t) \/ Deinit(t) \/ Working(t)
    \/ Gone \/ AllAsleep

Spec == Init /\ [][Next]_vars

\* A thread in a call keeps running, and neither lock starves it; no thread has
\* to begin a call, or to wait again.
Fairness == \A t \in Threads : SF_vars(Working(t))

FairSpec == Spec /\ Fairness

-----------------------------------------------------------------------------
(* Properties. *)

Pcs == {"idle", "locked", "unlock", "asleep", "finish", "absorb", "relock",
        "release", "drain", "reset", "done"}

TypeOK ==
    /\ sem \in Nat /\ waiters \in Nat /\ pending \in Nat /\ init \in BOOLEAN
    /\ mutex \in Threads \cup {NoThread} /\ pool \in Threads \cup {NoThread}
    /\ releases \in Nat
    /\ closing \in Threads \cup {NoThread}
    /\ pc \in [Threads -> Pcs]
    /\ timed \in [Threads -> BOOLEAN] /\ got \in [Threads -> BOOLEAN]
    /\ owed \subseteq Threads

\* The counters tell the truth about the threads, whatever they do meanwhile
\* with the semaphore: waiters_count counts the threads between registering
\* and finishing, and pending_signals the permits that are free, still to be
\* released, or taken by a thread that has not finished.
Accounting ==
    /\ waiters = Cardinality(Counted)
    /\ pending = sem + releases + Cardinality(Granted)

\* No permit outlives its waiter: there are never more signals than waiters,
\* but for the moment in which a waiter that timed out takes one back, and
\* that one is there to be taken.
NoSurplus ==
    /\ (\A t \in Threads : pc[t] # "absorb") => pending <= waiters
    /\ \A t \in Threads : pc[t] = "absorb" => pending = waiters + 1 /\ sem > 0

\* sys_cond_deinit resets a semaphore nobody uses: no thread is left inside,
\* and there is no permit whose loss could strand one.
DeinitClean ==
    ~init \/ (\E t \in Threads : pc[t] = "reset") =>
        /\ Counted = {} /\ \A t \in Threads : pc[t] # "absorb"
        /\ sem = 0 /\ waiters = 0 /\ pending = 0

\* sys_cond_deinit comes to its end, whoever was waiting.
DeinitReturns == \A t \in Threads : closing = t ~> pc[t] = "done"

\* "Wakes up all threads waiting on the condition variable."
BroadcastWakesAll == \A t \in Threads : t \in owed ~> t \notin owed

-----------------------------------------------------------------------------
(* The counters, for any number of threads: Accounting, NoSurplus and       *)
(* DeinitClean are proved.                                                  *)

\* The critical section is owned where it is not given up in the same step.
PoolInv ==
    /\ \A t \in Threads : pool = t <=> pc[t] \in {"release", "absorb"}
    /\ \A t \in Threads : pc[t] = "release" => releases > 0
    /\ (\A t \in Threads : pc[t] # "release") => releases = 0

\* From a deinitialisation on, its thread is the one that closes.
ClosingInv ==
    /\ \A t \in Threads : pc[t] \in {"drain", "reset", "done"} => closing = t
    /\ ~init => closing # NoThread

\* NoSurplus without what follows from Accounting.
Bounded ==
    /\ (\A t \in Threads : pc[t] # "absorb") => pending <= waiters
    /\ \A t \in Threads : pc[t] = "absorb" => pending = waiters + 1

\* DeinitClean, and that nobody is about to disturb it.
Clean ==
    ~init \/ (\E t \in Threads : pc[t] = "reset") =>
        /\ Counted = {} /\ pool = NoThread
        /\ sem = 0 /\ waiters = 0 /\ pending = 0

IInv == TypeOK /\ PoolInv /\ ClosingInv /\ Accounting /\ Bounded /\ Clean

-----------------------------------------------------------------------------

\* What the counted sets have to do with one another.
LEMMA Counts ==
    ASSUME TypeOK
    PROVE  /\ IsFiniteSet(Counted) /\ IsFiniteSet(Granted)
           /\ Cardinality(Counted) \in Nat /\ Cardinality(Granted) \in Nat
           /\ Cardinality(Granted) <= Cardinality(Counted)
           /\ \A t \in Counted : Cardinality(Counted \ {t}) = Cardinality(Counted) - 1
           /\ \A t \in Granted : Cardinality(Granted \ {t}) = Cardinality(Granted) - 1
           /\ \A t \in Threads \ Counted : Cardinality(Counted \cup {t}) = Cardinality(Counted) + 1
           /\ \A t \in Threads \ Granted : Cardinality(Granted \cup {t}) = Cardinality(Granted) + 1
           /\ \A t \in Counted \ Granted : Cardinality(Granted) < Cardinality(Counted)
           /\ \A t \in Granted : Cardinality(Granted) > 0
           /\ Cardinality(Counted) = 0 => Counted = {}
<1>1. IsFiniteSet(Counted) /\ Granted \subseteq Counted
  BY ThreadsAssumption, FS_Subset DEF Counted, Granted
<1>2. IsFiniteSet(Granted) /\ Cardinality(Granted) <= Cardinality(Counted)
  BY <1>1, FS_Subset
<1>3. Cardinality(Counted) \in Nat /\ Cardinality(Granted) \in Nat
  BY <1>1, <1>2, FS_CardinalityType
<1>4. \A t \in Counted : Cardinality(Counted \ {t}) = Cardinality(Counted) - 1
  BY <1>1, FS_RemoveElement
<1>5. \A t \in Granted : Cardinality(Granted \ {t}) = Cardinality(Granted) - 1
  BY <1>2, FS_RemoveElement
<1>6. \A t \in Threads \ Counted : Cardinality(Counted \cup {t}) = Cardinality(Counted) + 1
  BY <1>1, FS_AddElement
<1>7. \A t \in Threads \ Granted : Cardinality(Granted \cup {t}) = Cardinality(Granted) + 1
  BY <1>2, FS_AddElement
<1>8. \A t \in Counted \ Granted : Cardinality(Granted) < Cardinality(Counted)
  <2> TAKE t \in Counted \ Granted
  <2>1. Granted \in SUBSET (Counted \ {t}) /\ IsFiniteSet(Counted \ {t})
    BY <1>1, FS_RemoveElement
  <2>2. Cardinality(Granted) <= Cardinality(Counted \ {t})
    BY <2>1, FS_Subset
  <2> QED BY <2>2, <1>3, <1>4
<1>9. \A t \in Granted : Cardinality(Granted) > 0
  BY <1>2, <1>3, FS_EmptySet
<1>10. Cardinality(Counted) = 0 => Counted = {}
  BY <1>1, FS_EmptySet
<1> QED BY <1>1, <1>2, <1>3, <1>4, <1>5, <1>6, <1>7, <1>8, <1>9, <1>10

\* A step that moves threads outside the sets and leaves the counters alone.
LEMMA Quiet ==
    ASSUME IInv, NEW t \in Threads, NEW place \in Pcs,
           pc' = [pc EXCEPT ![t] = place],
           pc[t] \notin {"absorb", "release"}, place \notin {"absorb", "release"},
           Counted' = Counted, Granted' = Granted,
           UNCHANGED <<sem, waiters, pending, init, pool, releases, closing>>,
           place \in {"drain", "reset", "done"} => closing = t,
           place = "reset" => Counted = {} /\ pool = NoThread /\ sem = 0 /\ waiters = 0 /\ pending = 0
    PROVE  PoolInv' /\ ClosingInv' /\ Accounting' /\ Bounded' /\ Clean'
<1> USE DEF IInv, TypeOK
<1>1. PoolInv' BY DEF PoolInv
<1>2. ClosingInv' BY DEF ClosingInv
<1>3. Accounting' BY DEF Accounting
<1>4. Bounded' BY DEF Bounded
<1>5. Clean' BY DEF Clean
<1> QED BY <1>1, <1>2, <1>3, <1>4, <1>5

\* Every step keeps the types.
LEMMA TypeStep == ASSUME IInv, [Next]_vars PROVE TypeOK'
<1> USE DEF IInv, TypeOK, Pcs, Goto
<1>1. ASSUME NEW t \in Threads, Lock(t) \/ Unlock(t) \/ UnlockToWait(t) \/ TimeOut(t) \/ Relock(t)
      PROVE TypeOK'
  BY <1>1 DEF Lock, Unlock, UnlockToWait, TimeOut, Relock, cond
<1>2. ASSUME NEW t \in Threads, Register(t) PROVE TypeOK'
  BY <1>2 DEF Register
<1>3. ASSUME NEW t \in Threads, Acquire(t) PROVE TypeOK'
  BY <1>3 DEF Acquire
<1>4. ASSUME NEW t \in Threads, Finish(t) PROVE TypeOK'
  <2>1. waiters > 0
    BY <1>4, Counts DEF Finish, Accounting, Counted
  <2> QED BY <1>4, <2>1 DEF Finish
<1>5. ASSUME NEW t \in Threads, Absorb(t) PROVE TypeOK'
  <2>1. pending > 0
    BY <1>5 DEF Absorb, Bounded
  <2> QED BY <1>5, <2>1 DEF Absorb
<1>6. ASSUME NEW t \in Threads, Signal(t) \/ Broadcast(t) \/ Deinit(t) PROVE TypeOK'
  <2>1. pending <= waiters
    BY <1>6, ThreadsAssumption DEF Signal, Broadcast, Deinit, Grant, PoolInv, Bounded
  <2>2. Counted \subseteq Threads
    BY DEF Counted
  <2>3. CASE Signal(t)
    BY <2>1, <2>3 DEF Signal, Grant, Return
  <2>4. CASE Broadcast(t)
    BY <2>1, <2>2, <2>4 DEF Broadcast, Grant, Return
  <2>5. CASE Deinit(t)
    BY <2>1, <2>2, <2>5 DEF Deinit, Grant, Return
  <2> QED BY <1>6, <2>3, <2>4, <2>5
<1>7. ASSUME NEW t \in Threads, Release(t) PROVE TypeOK'
  <2>1. releases > 0
    BY <1>7 DEF Release, PoolInv
  <2> QED BY <1>7, <2>1 DEF Release, Return
<1>8. ASSUME NEW t \in Threads, Drained(t) PROVE TypeOK'
  BY <1>8 DEF Drained, cond
<1>9. ASSUME NEW t \in Threads, Reset(t) PROVE TypeOK'
  BY <1>9 DEF Reset
<1>10. CASE UNCHANGED vars BY <1>10 DEF vars, cond
<1> QED
  BY <1>1, <1>2, <1>3, <1>4, <1>5, <1>6, <1>7, <1>8, <1>9, <1>10
  DEF Next, Working, Gone, AllAsleep
-----------------------------------------------------------------------------

\* The rest of the invariant, for the lemmas about single actions.
Rest == PoolInv /\ ClosingInv /\ Accounting /\ Bounded /\ Clean

\* Steps that leave the counters alone.
LEMMA QuietSteps ==
    ASSUME IInv, NEW t \in Threads,
           \/ Lock(t) \/ Unlock(t) \/ UnlockToWait(t) \/ TimeOut(t) \/ Relock(t) \/ Drained(t)
    PROVE  Rest'
<1> USE DEF IInv, TypeOK, Goto, Counted, Granted, Pcs
<1>1. CASE Lock(t) \/ Unlock(t) \/ UnlockToWait(t) \/ Relock(t)
  <2>1. Counted' = Counted /\ Granted' = Granted
    BY <1>1 DEF Lock, Unlock, UnlockToWait, Relock
  <2> QED BY <1>1, <2>1, Quiet DEF Lock, Unlock, UnlockToWait, Relock, Rest, cond
<1>2. CASE TimeOut(t)
  <2>1. Counted' = Counted /\ Granted' = Granted
    BY <1>2 DEF TimeOut
  <2> QED BY <1>2, <2>1, Quiet DEF TimeOut, Rest, cond
<1>3. CASE Drained(t)
  <2>1. Counted' = Counted /\ Granted' = Granted
    BY <1>3 DEF Drained
  <2>2. closing = t
    BY <1>3 DEF Drained, ClosingInv
  <2>3. Cardinality(Counted) = 0 /\ releases = 0 /\ pending <= 0
    BY <1>3, ThreadsAssumption DEF Drained, PoolInv, Accounting, Bounded
  <2>4. Counted = {} /\ sem = 0 /\ pending = 0
    BY <2>3, Counts DEF Accounting
  <2> QED BY <1>3, <2>1, <2>2, <2>4, Quiet DEF Drained, Rest, cond
<1> QED BY <1>1, <1>2, <1>3

\* A wait that begins is counted as a waiter.
LEMMA RegisterStep == ASSUME IInv, NEW t \in Threads, Register(t) PROVE Rest'
<1> USE DEF IInv, TypeOK, Goto, Register
<1>1. t \notin Counted /\ Counted' = Counted \cup {t} /\ Granted' = Granted
  BY DEF Counted, Granted
<1>2. Accounting' BY <1>1, Counts DEF Accounting
<1>3. PoolInv' BY DEF PoolInv
<1>4. ClosingInv' BY DEF ClosingInv
<1>5. Bounded' BY ThreadsAssumption DEF Bounded, PoolInv
<1>6. Clean' BY ThreadsAssumption DEF ClosingInv, Clean
<1> QED BY <1>2, <1>3, <1>4, <1>5, <1>6 DEF Rest

\* A wait takes a permit of the semaphore, or gives up.
LEMMA AcquireStep == ASSUME IInv, NEW t \in Threads, Acquire(t) PROVE Rest'
<1> USE DEF IInv, TypeOK, Goto, Acquire
<1>1. /\ Counted' = Counted
      /\ t \in Threads \ Granted /\ Granted' = Granted \cup {t}
  BY DEF Counted, Granted
<1>2. Accounting' BY <1>1, Counts DEF Accounting
<1>3. PoolInv' BY DEF PoolInv
<1>4. ClosingInv' BY DEF ClosingInv
<1>5. Bounded' BY DEF Bounded
<1>6. Clean' BY DEF Clean
<1> QED BY <1>2, <1>3, <1>4, <1>5, <1>6 DEF Rest

\* Either the waiter takes its signal with it, or there is one too many.
LEMMA FinishStep == ASSUME IInv, NEW t \in Threads, Finish(t) PROVE Rest'
<1> USE DEF IInv, TypeOK, Goto, Finish
<1>1. t \in Counted /\ Counted' = Counted \ {t}
  BY DEF Counted
<1>2. pool = NoThread /\ releases = 0 /\ pending <= waiters
  BY ThreadsAssumption DEF PoolInv, Bounded
<1>3. CASE got[t]
  <2>1. t \in Granted /\ Granted' = Granted \ {t}
    BY <1>3 DEF Granted
  <2>2. pending > 0 /\ pending' = pending - 1 /\ waiters' = waiters - 1
    BY <1>3, <2>1, Counts DEF Accounting
  <2>3. Accounting' BY <1>1, <2>1, <2>2, Counts DEF Accounting
  <2>4. PoolInv' BY <1>3 DEF PoolInv
  <2>5. ClosingInv' BY <1>3 DEF ClosingInv
  <2>6. Bounded' BY <1>2, <1>3, <2>2, ThreadsAssumption DEF Bounded, PoolInv
  <2>7. Clean' BY <1>1, <1>3 DEF Clean
  <2> QED BY <2>3, <2>4, <2>5, <2>6, <2>7 DEF Rest
<1>4. CASE ~got[t]
  <2>1. Granted' = Granted
    BY <1>4 DEF Granted
  <2>2. Accounting' BY <1>1, <1>4, <2>1, Counts DEF Accounting
  <2>3. PoolInv' BY <1>2, <1>4, ThreadsAssumption DEF PoolInv
  <2>4. ClosingInv' BY <1>4 DEF ClosingInv
  <2>5. Bounded' BY <1>2, <1>4, ThreadsAssumption DEF Bounded, PoolInv
  <2>6. Clean' BY <1>1, <1>4 DEF Clean
  <2> QED BY <2>2, <2>3, <2>4, <2>5, <2>6 DEF Rest
<1> QED BY <1>3, <1>4

\* While the waiter holds the critical section, the spare permit is there.
LEMMA Spare ==
    ASSUME IInv, NEW t \in Threads, pc[t] = "absorb"
    PROVE  sem > 0 /\ releases = 0 /\ pool = t
<1> USE DEF IInv, TypeOK
<1>1. pool = t
  BY DEF PoolInv
<1>2. releases = 0
  BY <1>1 DEF PoolInv
<1>3. pending = waiters + 1
  BY DEF Bounded
<1> QED BY <1>1, <1>2, <1>3, Counts DEF Accounting

\* A wait that ends is no longer counted, nor the signal it used.
LEMMA AbsorbStep == ASSUME IInv, NEW t \in Threads, Absorb(t) PROVE Rest'
<1> USE DEF IInv, TypeOK, Goto, Absorb
<1>1. sem > 0 /\ releases = 0 /\ pool = t
  BY Spare
<1>2. Counted' = Counted /\ Granted' = Granted
  BY DEF Counted, Granted
<1>3. Accounting' BY <1>1, <1>2, Counts DEF Accounting
<1>4. PoolInv' BY <1>1, ThreadsAssumption DEF PoolInv
<1>5. ClosingInv' BY DEF ClosingInv
<1>6. Bounded' BY <1>1 DEF Bounded, PoolInv
<1>7. Clean' BY <1>1, ThreadsAssumption DEF Clean
<1> QED BY <1>3, <1>4, <1>5, <1>6, <1>7 DEF Rest

\* Signal, broadcast and deinitialisation grant n of the permits that waiters
\* have not been granted yet.
LEMMA GrantStep ==
    ASSUME IInv, NEW t \in Threads, NEW n \in Nat, Grant(t, n), n <= waiters - pending,
           pc[t] \in {"idle", "locked"}, closing = NoThread, closing' \in {t, NoThread},
           UNCHANGED <<sem, waiters, init, got>>
    PROVE  Rest'
<1> USE DEF IInv, TypeOK, Goto, Grant, Return
<1>1. pc' = [pc EXCEPT ![t] = pc'[t]] /\ pc'[t] \in {"release", "drain", "locked", "idle"}
  OBVIOUS
<1>2. Counted' = Counted /\ Granted' = Granted
  BY <1>1 DEF Counted, Granted
<1>3. releases = 0
  BY ThreadsAssumption DEF PoolInv
<1>4. Accounting' BY <1>2, <1>3, Counts DEF Accounting
<1>5. PoolInv' BY <1>3, ThreadsAssumption DEF PoolInv
<1>6. ClosingInv' BY ThreadsAssumption DEF ClosingInv
<1>7. Bounded' BY ThreadsAssumption DEF Bounded, PoolInv
<1>8. Clean' BY ThreadsAssumption DEF ClosingInv, Clean
<1> QED BY <1>4, <1>5, <1>6, <1>7, <1>8 DEF Rest

\* A signal or broadcast counts what it is about to release.
LEMMA NotifySteps ==
    ASSUME IInv, NEW t \in Threads, Signal(t) \/ Broadcast(t) \/ Deinit(t)
    PROVE  Rest'
<1> USE DEF IInv, TypeOK
<1>1. pending <= waiters
  BY ThreadsAssumption DEF Signal, Broadcast, Deinit, Grant, PoolInv, Bounded
<1>2. CASE Signal(t)
  <2> DEFINE n == IF waiters > pending THEN 1 ELSE 0
  <2>1. n \in Nat /\ n <= waiters - pending
    BY <1>1
  <2>2. pc[t] \in {"idle", "locked"} /\ closing = NoThread /\ closing' = NoThread
    BY <1>2, NotifyingAssumption DEF Signal
  <2>3. Grant(t, n) /\ UNCHANGED <<sem, waiters, init, got>>
    BY <1>2 DEF Signal
  <2> HIDE DEF n
  <2> QED BY <2>1, <2>2, <2>3, GrantStep
<1>3. CASE Broadcast(t)
  <2> DEFINE n == waiters - pending
  <2>1. n \in Nat /\ n <= waiters - pending
    BY <1>1
  <2>2. pc[t] \in {"idle", "locked"} /\ closing = NoThread /\ closing' = NoThread
    BY <1>3, NotifyingAssumption DEF Broadcast
  <2>3. Grant(t, n) /\ UNCHANGED <<sem, waiters, init, got>>
    BY <1>3 DEF Broadcast
  <2> QED BY <2>1, <2>2, <2>3, GrantStep
<1>4. CASE Deinit(t)
  BY <1>1, <1>4, GrantStep DEF Deinit
<1> QED BY <1>2, <1>3, <1>4

\* A permit is released for a signal that has been counted.
LEMMA ReleaseStep == ASSUME IInv, NEW t \in Threads, Release(t) PROVE Rest'
<1> USE DEF IInv, TypeOK, Goto, Release, Return
<1>1. pool = t /\ releases > 0
  BY DEF PoolInv
<1>2. Counted' = Counted /\ Granted' = Granted
  BY DEF Counted, Granted
<1>3. Accounting' BY <1>1, <1>2, Counts DEF Accounting
<1>4. PoolInv' BY <1>1, ThreadsAssumption DEF PoolInv
<1>5. ClosingInv' BY DEF ClosingInv
<1>6. Bounded' BY <1>1 DEF Bounded, PoolInv
<1>7. Clean' BY <1>1, ThreadsAssumption DEF Clean
<1> QED BY <1>3, <1>4, <1>5, <1>6, <1>7 DEF Rest

\* A deinitialisation resets the semaphore that nobody uses.
LEMMA ResetStep == ASSUME IInv, NEW t \in Threads, Reset(t) PROVE Rest'
<1> USE DEF IInv, TypeOK, Goto, Reset
<1>1. Counted = {} /\ sem = 0 /\ waiters = 0 /\ pending = 0 /\ closing = t
  BY DEF Clean, ClosingInv
<1>2. Counted' = Counted /\ Granted' = Granted
  BY DEF Counted, Granted
<1>3. Accounting' BY <1>1, <1>2 DEF Accounting
<1>4. PoolInv' BY DEF PoolInv
<1>5. ClosingInv' BY <1>1, ThreadsAssumption DEF ClosingInv
<1>6. Bounded' BY <1>1 DEF Bounded
<1>7. Clean' BY <1>1, <1>2 DEF Clean
<1> QED BY <1>3, <1>4, <1>5, <1>6, <1>7 DEF Rest

\* Accounting and the rest hold in every reachable state, for any threads.
THEOREM Inductive == Spec => []IInv
<1>1. Init => IInv
  <2>1. Init => Counted = {} /\ Granted = {}
    BY DEF Init, Counted, Granted
  <2> QED
    BY <2>1, FS_EmptySet, ThreadsAssumption
    DEF Init, IInv, TypeOK, Pcs, PoolInv, ClosingInv, Accounting, Bounded, Clean
<1>2. ASSUME IInv, [Next]_vars PROVE IInv'
  <2>1. TypeOK'
    BY <1>2, TypeStep
  <2>2. Rest'
    <3>1. CASE UNCHANGED vars
      BY <1>2, <3>1
      DEF vars, cond, IInv, Rest, PoolInv, ClosingInv, Accounting, Bounded, Clean, Counted, Granted
    <3>2. ASSUME NEW t \in Threads,
                 Lock(t) \/ Register(t) \/ Signal(t) \/ Broadcast(t) \/ Deinit(t) \/ Working(t)
          PROVE Rest'
      BY <1>2, <3>2, QuietSteps, RegisterStep, AcquireStep, FinishStep, AbsorbStep,
         NotifySteps, ReleaseStep, ResetStep
      DEF Working
    <3> QED BY <1>2, <3>1, <3>2 DEF Next, Gone, AllAsleep
  <2> QED BY <2>1, <2>2 DEF IInv, Rest
<1> QED BY <1>1, <1>2, PTL DEF Spec

\* The counters have their types: no signal is consumed that is not there.
THEOREM TypeCorrect == Spec => []TypeOK
BY Inductive, PTL DEF IInv

\* waiters_count and pending_signals count what they are meant to count.
THEOREM CountersCorrect == Spec => []Accounting
BY Inductive, PTL DEF IInv

\* No permit outlives its waiter, and the one taken back is always there.
THEOREM PermitsBounded == Spec => []NoSurplus
<1>1. IInv => NoSurplus
  BY Spare DEF IInv, Bounded, NoSurplus
<1> QED BY <1>1, Inductive, PTL

\* sys_cond_deinit strands nobody.
THEOREM DeinitIsClean == Spec => []DeinitClean
<1>1. IInv => DeinitClean
  BY ThreadsAssumption DEF IInv, Clean, PoolInv, DeinitClean
<1> QED BY <1>1, Inductive, PTL
=============================================================================
