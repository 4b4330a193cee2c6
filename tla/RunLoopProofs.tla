------------------------------- MODULE RunLoopProofs -------------------------------
(***************************************************************************)
(* The run loop, for any number of runners, workers and clients, with any  *)
(* capacity and any exit values: OneRun and WorkersJoined of module        *)
(* RunLoop and, for an application that keeps its calls within a run,      *)
(* UsesLive, ReturnsRequested and Drained.                                 *)
(*                                                                         *)
(* The argument is made in layers, each an invariant of the steps that     *)
(* start where the layers below hold: IInv (who has the singleton, who is  *)
(* counted), TypeOK, Confined (no call outlives its run), Asked (what a    *)
(* shutdown has done so far), Staffed and Emptied (who is there to take    *)
(* an event).                                                              *)
(***************************************************************************)
EXTENDS RunLoop, TLAPS

Pcs == Running \cup {"start", "returned", "done", "off", "idle"}

\* Where a run may have workers.
Holding == {"launch", "init", "exit", "join"} \cup Serving

\* The part of TypeOK the argument rests on.
Places ==
    /\ queue \in Runners \cup {NoRunner}
    /\ outstanding \subseteq Workers /\ launched \subseteq Workers
    /\ pc \in [Threads -> Pcs]

\* The wait group counts the workers that are there, all of which the current
\* run has launched since it initialised the group.
Counted ==
    /\ \A w \in Workers : pc[w] # "off" <=> w \in outstanding
    /\ outstanding \subseteq launched
    /\ outstanding # {} => group /\ \E r \in Runners : pc[r] \in Holding
    /\ \A r \in Runners : pc[r] = "launch" => group

IInv == Places /\ OneRun /\ Counted

-----------------------------------------------------------------------------
(* Steps that leave the singleton and the wait group alone. *)

\* A client goes anywhere; a worker, or worker 0, goes on where a run may have
\* workers.
LEMMA Move ==
    ASSUME IInv, NEW t \in Threads, NEW place \in Pcs,
           pc' = [pc EXCEPT ![t] = place],
           \/ t \in Clients
           \/ pc[t] \in Holding \ {"join"} /\ place \in Holding \ {"launch"},
           UNCHANGED <<queue, group, outstanding, launched>>
    PROVE  IInv'
<1> USE DEF IInv, Places, Threads
<1>1. Places'
  OBVIOUS
<1>2. OneRun'
  BY DisjointAssumption DEF OneRun, Holding, Running, Serving
<1>3. Counted'
  BY DisjointAssumption DEF Counted, Holding, Serving
<1> QED BY <1>1, <1>2, <1>3

\* Nobody moves.
LEMMA Stay ==
    ASSUME IInv, UNCHANGED <<queue, group, outstanding, launched, pc>>
    PROVE  IInv'
BY DEF IInv, Places, OneRun, Counted

-----------------------------------------------------------------------------
(* sys_runloop_run. *)

\* Only one run is claimed, and the two stores that follow keep it so.
LEMMA ClaimSteps ==
    ASSUME IInv, NEW r \in Runners, Claim(r) \/ ResetExitValue(r) \/ ResetRequested(r)
    PROVE  IInv'
<1> USE DisjointAssumption DEF IInv, Places, Threads, Goto, launch, Pcs
<1>1. CASE Claim(r)
  <2> USE <1>1 DEF Claim
  <2>1. Places' BY DEF Running, Serving
  <2>2. OneRun' BY DEF OneRun, Running, Serving
  <2>3. Counted' BY DEF Counted, Holding, Serving
  <2> QED BY <2>1, <2>2, <2>3
<1>2. CASE ResetExitValue(r) \/ ResetRequested(r)
  <2>1. PICK place \in {"reset", "group"} : pc' = [pc EXCEPT ![r] = place]
    BY <1>2 DEF ResetExitValue, ResetRequested
  <2>2. /\ pc[r] \in {"claimed", "reset"}
        /\ UNCHANGED <<queue, group, outstanding, launched>>
    BY <1>2 DEF ResetExitValue, ResetRequested
  <2> USE <2>1, <2>2
  <2>3. Places' BY DEF Running, Serving
  <2>4. OneRun' BY DEF OneRun, Running, Serving
  <2>5. Counted' BY DEF Counted, Holding, Serving
  <2> QED BY <2>3, <2>4, <2>5
<1> QED BY <1>1, <1>2

\* A run that initialises its group finds no worker of another one.
LEMMA InitGroupStep == ASSUME IInv, NEW r \in Runners, InitGroup(r) PROVE IInv'
<1> USE DisjointAssumption DEF IInv, Places, Threads, Goto, Pcs
<1>1. PICK place \in {"launch", "init"} :
        pc' = [pc EXCEPT ![r] = place] /\ (place = "launch" => group')
  BY DEF InitGroup
<1>2. pc[r] = "group" /\ launched' = {} /\ UNCHANGED <<queue, outstanding>>
  BY DEF InitGroup, singleton
<1>3. outstanding = {}
  BY <1>2 DEF Counted, OneRun, Running, Holding, Serving
<1>4. Places' BY <1>1, <1>2 DEF Running, Serving
<1>5. OneRun' BY <1>1, <1>2 DEF OneRun, Running, Serving
<1>6. Counted' BY <1>1, <1>2, <1>3 DEF Counted, OneRun, Running, Serving
<1> QED BY <1>4, <1>5, <1>6

\* A worker starts only when it is counted.
LEMMA LaunchStep == ASSUME IInv, NEW r \in Runners, LaunchWorker(r) PROVE IInv'
<1> USE DisjointAssumption DEF IInv, Places, Threads, Goto, Pcs
<1>1. PICK w \in Workers \ launched :
        /\ launched' = launched \cup {w}
        /\ \/ outstanding' = outstanding \cup {w} /\ Goto(w, "init")
           \/ MayFail /\ UNCHANGED <<outstanding, pc>>
  BY DEF LaunchWorker
<1>2. pc[r] = "launch" /\ UNCHANGED <<queue, group>>
  BY DEF LaunchWorker, singleton
<1>3. Places' BY <1>1, <1>2 DEF Running, Serving
<1>4. OneRun' BY <1>1, <1>2 DEF OneRun, Running, Serving
<1>5. Counted' BY <1>1, <1>2 DEF Counted, Holding, Serving
<1> QED BY <1>3, <1>4, <1>5

\* sys_waitgroup_wait is over only when the last worker is gone.
LEMMA JoinStep == ASSUME IInv, NEW r \in Runners, Join(r) PROVE IInv'
<1> USE DisjointAssumption DEF IInv, Places, Threads, Goto, Join, singleton, Pcs
<1>1. outstanding = {}
  BY DEF Counted
<1>2. Places' BY DEF Running, Serving
<1>3. OneRun' BY DEF OneRun, Running, Serving
<1>4. Counted' BY <1>1 DEF Counted, OneRun, Running, Serving
<1> QED BY <1>2, <1>3, <1>4

\* After the join nothing of the run is left but the singleton it clears.
LEMMA AfterJoin ==
    ASSUME IInv, NEW r \in Runners, Collect(r) \/ Clear(r) \/ FreeQueue(r)
    PROVE  IInv'
<1> USE DisjointAssumption DEF IInv, Places, Threads, Goto, Pcs, launch, singleton
<1>1. CASE Collect(r)
  <2> USE <1>1 DEF Collect
  <2>1. Places' BY DEF Running, Serving
  <2>2. OneRun' BY DEF OneRun, Running, Serving
  <2>3. Counted' BY DEF Counted, Holding, Serving
  <2> QED BY <2>1, <2>2, <2>3
<1>2. CASE Clear(r)
  <2> USE <1>2 DEF Clear
  <2>1. Places' BY DEF Running, Serving
  <2>2. OneRun' BY DEF OneRun, Running, Serving
  <2>3. Counted' BY DEF Counted, Holding, Serving
  <2> QED BY <2>1, <2>2, <2>3
<1>3. CASE FreeQueue(r)
  <2> USE <1>3 DEF FreeQueue
  <2>1. Places' BY DEF Running, Serving
  <2>2. OneRun' BY DEF OneRun, Running, Serving
  <2>3. Counted' BY DEF Counted, Holding, Serving
  <2> QED BY <2>1, <2>2, <2>3
<1> QED BY <1>1, <1>2, <1>3

\* A step of sys_runloop_run.
LEMMA RunnerInductive == ASSUME IInv, NEW r \in Runners, RunnerStep(r) PROVE IInv'
<1>1. CASE AllLaunched(r) \/ ExitRunner(r)
  <2>1. PICK place \in {"init", "join"} : pc' = [pc EXCEPT ![r] = place]
    BY <1>1 DEF AllLaunched, ExitRunner, Goto
  <2>2. /\ pc[r] \in {"launch", "exit"}
        /\ UNCHANGED <<queue, group, outstanding, launched>>
    BY <1>1 DEF AllLaunched, ExitRunner, singleton, launch
  <2> QED BY <2>1, <2>2, Move DEF Threads, Holding, Pcs, Running
<1> QED
  BY <1>1, ClaimSteps, InitGroupStep, LaunchStep, JoinStep, AfterJoin DEF RunnerStep

-----------------------------------------------------------------------------
(* The workers and the calls. *)

\* A worker leaves the count and is gone in one step, after its exit_fn.
LEMMA ExitWorkerStep == ASSUME IInv, NEW w \in Workers, ExitWorker(w) PROVE IInv'
<1> USE DisjointAssumption DEF IInv, Places, Threads, Goto, ExitWorker, singleton, Pcs
<1>1. Places' BY DEF Running, Serving
<1>2. OneRun' BY DEF OneRun, Running, Serving
<1>3. Counted' BY DEF Counted, Holding, Serving
<1> QED BY <1>1, <1>2, <1>3

\* A step of a worker.
LEMMA WorkerInductive ==
    ASSUME IInv, NEW t \in Runners \cup Workers, WorkerStep(t)
    PROVE  IInv'
<1>1. CASE ExitWorker(t)
  BY <1>1, ExitWorkerStep DEF ExitWorker
<1>2. CASE ~ExitWorker(t)
  <2>1. PICK place \in {"pop", "handle", "check", "checkEmpty", "exit"} :
          pc' = [pc EXCEPT ![t] = place]
    BY <1>2 DEF WorkerStep, InitWorker, TakeEvent, TakeNothing, Drain, Check, CheckEmpty,
                Handled, Goto
  <2>2. pc[t] \in {"init", "pop", "handle", "handled", "check", "checkEmpty"}
    BY <1>2 DEF WorkerStep, InitWorker, TakeEvent, TakeNothing, Drain, Check, CheckEmpty,
                Handled
  <2>3. UNCHANGED <<queue, group, outstanding, launched>>
    BY <1>2 DEF WorkerStep, InitWorker, TakeEvent, TakeNothing, Drain, Check, CheckEmpty,
                Handled, singleton, launch
  <2> QED BY <2>1, <2>2, <2>3, Move DEF Threads, Holding, Serving, Pcs, Running
<1> QED BY <1>1, <1>2

\* sys_runloop_post and sys_runloop_shutdown move nobody but their caller.
LEMMA CallInductive ==
    ASSUME IInv, NEW t \in Threads, Begin(t) \/ CallStep(t)
    PROVE  IInv'
<1>1. UNCHANGED <<queue, group, outstanding, launched>>
  BY DEF Begin, BeginPost, BeginShutdown, CallStep, Post, StoreExitValue, StoreRequested,
         Stored, Close, singleton, launch
<1>2. CASE UNCHANGED pc
  BY <1>1, <1>2, Stay
<1>3. CASE ~UNCHANGED pc
  <2>1. PICK place \in {"post", "store", "close", "idle", "handled"} :
          /\ pc' = [pc EXCEPT ![t] = place]
          /\ place = "idle" => t \in Clients
    BY <1>3 DEF Begin, BeginPost, BeginShutdown, CallStep, Post, StoreExitValue,
                StoreRequested, Stored, Close, Goto, Return
  <2>2. t \in Clients \/ pc[t] \in {"handle", "post", "store", "close"}
    BY <1>3 DEF Begin, BeginPost, BeginShutdown, CallStep, Post, StoreExitValue,
                StoreRequested, Stored, Close, MayCall
  <2> QED BY <1>1, <2>1, <2>2, Move DEF Holding, Serving, Pcs, Running
<1> QED BY <1>2, <1>3

-----------------------------------------------------------------------------

\* A run keeps the singleton to itself and its workers counted, at every step.
THEOREM Inductive == Spec => []IInv
<1>1. Init => IInv
  BY DisjointAssumption
     DEF Init, IInv, Places, OneRun, Counted, Threads, Pcs, Running, Serving
<1>2. IInv /\ [Next]_vars => IInv'
  <2> SUFFICES ASSUME IInv, [Next]_vars PROVE IInv'
    OBVIOUS
  <2>1. CASE \E r \in Runners : RunnerStep(r)
    BY <2>1, RunnerInductive
  <2>2. CASE \E t \in Runners \cup Workers : WorkerStep(t)
    BY <2>2, WorkerInductive
  <2>3. CASE \E t \in Threads : Begin(t) \/ CallStep(t)
    BY <2>3, CallInductive
  <2>4. CASE UNCHANGED vars
    BY <2>4, Stay DEF vars, singleton, launch
  <2> QED BY <2>1, <2>2, <2>3, <2>4 DEF Next, Finished
<1> QED BY <1>1, <1>2, PTL DEF Spec

\* _sys_runloop_claim: however many threads call sys_runloop_run at once, the
\* singleton belongs to at most one run, from its claim until it is cleared.
THEOREM RunsExclude == Spec => []OneRun
BY Inductive, PTL DEF IInv

\* _sys_runloop_deinit: no worker, of any number of them and whichever failed to
\* start, outlives the wait of the run that launched it.
THEOREM WorkersAreJoined == Spec => []WorkersJoined
<1>1. IInv => WorkersJoined
  BY DEF IInv, Counted, WorkersJoined, Holding, Running, Serving
<1> QED BY <1>1, Inductive, PTL

-----------------------------------------------------------------------------
(* What the application's discipline adds: the calls stay within a run. *)

\* init_fn of worker 0 starts the clients and its exit_fn waits for their calls.
Disciplined == {"started", "stopped"} \subseteq Discipline

\* A call uses the queue of the run that is on, which nobody frees before its
\* run returns; the clients' calls are over when worker 0 goes to the join.
Confined ==
    /\ \A t \in Threads : pc[t] \in Calling => held[t] = queue /\ queue \in Runners
    /\ \A c \in Clients :
         /\ pc[c] \in Calling \cup {"idle"}
         /\ pc[c] # "idle" => \E r \in Runners : pc[r] \in Serving \cup {"exit"}
    /\ \A w \in Workers : pc[w] \in {"off", "init", "exit"} \cup Serving
    /\ \A r \in Runners : pc[r] \notin {"off", "idle"} /\ (pc[r] # "done" => live[r])

Shape == held \in [Threads -> Runners \cup {NoRunner}] /\ live \in [Runners -> BOOLEAN]

\* Only exit_fn of worker 0 ends the time in which calls are made, and it waits.
LEMMA ConfinedRunner ==
    ASSUME IInv, Shape, Confined, Disciplined, NEW r \in Runners, RunnerStep(r)
    PROVE  Confined'
<1> USE DisjointAssumption
    DEF IInv, Places, Shape, Threads, Goto, Pcs, Serving, Calling, Confined, queues,
        calls, launch, singleton
<1>1. CASE Claim(r) BY <1>1 DEF Claim, OneRun, Running
<1>2. CASE ResetExitValue(r) BY <1>2 DEF ResetExitValue, OneRun, Running
<1>3. CASE ResetRequested(r) BY <1>3 DEF ResetRequested, OneRun, Running
<1>4. CASE InitGroup(r) BY <1>4 DEF InitGroup, OneRun, Running
<1>5. CASE LaunchWorker(r) BY <1>5 DEF LaunchWorker, OneRun, Running, Counted
<1>6. CASE AllLaunched(r) BY <1>6 DEF AllLaunched, OneRun, Running
<1>7. CASE ExitRunner(r) BY <1>7 DEF ExitRunner, OneRun, Running, Disciplined
<1>8. CASE Join(r) BY <1>8 DEF Join, OneRun, Running
<1>9. CASE Collect(r) BY <1>9 DEF Collect, OneRun, Running
<1>10. CASE Clear(r) BY <1>10 DEF Clear, OneRun, Running, Counted, Holding
<1>11. CASE FreeQueue(r) BY <1>11 DEF FreeQueue, OneRun, Running
<1> QED BY <1>1, <1>2, <1>3, <1>4, <1>5, <1>6, <1>7, <1>8, <1>9, <1>10, <1>11 DEF RunnerStep

\* A worker serves as long as it is counted.
LEMMA ConfinedWorker ==
    ASSUME IInv, Shape, Confined, NEW t \in Runners \cup Workers, WorkerStep(t)
    PROVE  Confined'
<1> USE DisjointAssumption
    DEF IInv, Places, Shape, Threads, Goto, Pcs, Serving, Calling, Confined, queues,
        calls, launch, singleton
<1>1. CASE ExitWorker(t) BY <1>1 DEF ExitWorker
<1>2. CASE ~ExitWorker(t)
  <2>1. PICK place \in {"pop", "handle", "check", "checkEmpty", "exit"} :
          pc' = [pc EXCEPT ![t] = place]
    BY <1>2 DEF WorkerStep, InitWorker, TakeEvent, TakeNothing, Drain, Check, CheckEmpty,
                Handled, Goto
  <2>2. pc[t] \in {"init", "pop", "handle", "handled", "check", "checkEmpty"}
      /\ (pc[t] = "init" => place = "pop")
    BY <1>2, <2>1 DEF WorkerStep, InitWorker, TakeEvent, TakeNothing, Drain, Check,
                CheckEmpty, Handled
  <2>3. UNCHANGED <<queue, held, live>>
    BY <1>2 DEF WorkerStep, InitWorker, TakeEvent, TakeNothing, Drain, Check, CheckEmpty,
                Handled, singleton, launch
  <2> QED BY <2>1, <2>2, <2>3
<1> QED BY <1>1, <1>2

\* A call reads the queue of the run that is on.
LEMMA ConfinedCall ==
    ASSUME IInv, Shape, Confined, Disciplined, NEW t \in Threads, Begin(t) \/ CallStep(t)
    PROVE  Confined'
<1> USE DisjointAssumption
    DEF IInv, Places, Shape, Threads, Goto, Pcs, Serving, Calling, Confined, queues,
        calls, launch, singleton
<1>1. CASE BeginPost(t) BY <1>1 DEF BeginPost, MayCall, Disciplined
<1>2. CASE BeginShutdown(t) BY <1>2 DEF BeginShutdown, MayCall, Disciplined
<1>3. CASE Post(t) BY <1>3 DEF Post, Return
<1>4. CASE StoreExitValue(t) BY <1>4 DEF StoreExitValue
<1>5. CASE StoreRequested(t) BY <1>5 DEF StoreRequested
<1>6. CASE Stored(t) BY <1>6 DEF Stored
<1>7. CASE Close(t) BY <1>7 DEF Close, Return
<1> QED BY <1>1, <1>2, <1>3, <1>4, <1>5, <1>6, <1>7 DEF Begin, CallStep

-----------------------------------------------------------------------------
(* The types of all variables. *)

\* A step keeps every type; a worker that pops has a queue to pop from.
LEMMA Typed ==
    ASSUME IInv, TypeOK, [Next]_vars, IInv'
    PROVE  TypeOK'
<1> USE DisjointAssumption, NoEventAssumption
    DEF TypeOK, IInv, Places, Pcs, Threads, queues, calls, launch, singleton
<1>1. ASSUME NEW r \in Runners, RunnerStep(r) PROVE TypeOK'
  <2>1. CASE Claim(r) BY <2>1 DEF Claim
  <2>2. CASE ResetExitValue(r) BY <2>2 DEF ResetExitValue
  <2>3. CASE ResetRequested(r) BY <2>3 DEF ResetRequested
  <2>4. CASE InitGroup(r) BY <2>4 DEF InitGroup
  <2>5. CASE LaunchWorker(r) BY <2>5 DEF LaunchWorker
  <2>6. CASE AllLaunched(r) BY <2>6 DEF AllLaunched
  <2>7. CASE ExitRunner(r) BY <2>7 DEF ExitRunner
  <2>8. CASE Join(r) BY <2>8 DEF Join
  <2>9. CASE Collect(r) BY <2>9 DEF Collect
  <2>10. CASE Clear(r) BY <2>10 DEF Clear
  <2>11. CASE FreeQueue(r) BY <2>11 DEF FreeQueue
  <2> QED BY <1>1, <2>1, <2>2, <2>3, <2>4, <2>5, <2>6, <2>7, <2>8, <2>9, <2>10, <2>11
      DEF RunnerStep
<1>2. ASSUME NEW t \in Runners \cup Workers, WorkerStep(t) PROVE TypeOK'
  <2>1. CASE InitWorker(t) BY <2>1 DEF InitWorker
  <2>2. CASE TakeEvent(t)
    <3>1. QueueOf(t) \in Runners
      BY <2>2 DEF TakeEvent, QueueOf, Counted, OneRun, Holding, Running, Serving
    <3> DEFINE q == QueueOf(t)
    <3>2. contents[q] \in Seq(Events) /\ contents[q] # <<>>
      BY <3>1, <2>2 DEF TakeEvent
    <3>3. Head(contents[q]) \in Events /\ Tail(contents[q]) \in Seq(Events)
      BY <3>2
    <3> HIDE DEF q
    <3> QED BY <3>1, <3>2, <3>3, <2>2 DEF TakeEvent, q
  <2>3. CASE TakeNothing(t) BY <2>3 DEF TakeNothing
  <2>4. CASE Drain(t) BY <2>4 DEF Drain
  <2>5. CASE Check(t) BY <2>5 DEF Check
  <2>6. CASE CheckEmpty(t) BY <2>6 DEF CheckEmpty
  <2>7. CASE Handled(t) BY <2>7 DEF Handled
  <2>8. CASE ExitWorker(t) BY <2>8 DEF ExitWorker
  <2> QED BY <1>2, <2>1, <2>2, <2>3, <2>4, <2>5, <2>6, <2>7, <2>8 DEF WorkerStep
<1>3. ASSUME NEW t \in Threads, Begin(t) \/ CallStep(t) PROVE TypeOK'
  <2>1. CASE BeginPost(t) BY <2>1 DEF BeginPost
  <2>2. CASE BeginShutdown(t) BY <2>2 DEF BeginShutdown
  <2>3. CASE Post(t)
    <3>1. contents' \in [Runners -> Seq(Events)]
      <4>1. ASSUME NEW e \in Events, NEW q,
                   contents' = [contents EXCEPT ![q] = Append(@, e)]
            PROVE  contents' \in [Runners -> Seq(Events)]
        <5>1. \A s \in Seq(Events) : Append(s, e) \in Seq(Events)
          OBVIOUS
        <5> QED BY <4>1, <5>1
      <4> QED BY <4>1, <2>3 DEF Post
    <3> QED BY <3>1, <2>3 DEF Post
  <2>4. CASE StoreExitValue(t) BY <2>4 DEF StoreExitValue
  <2>5. CASE StoreRequested(t) BY <2>5 DEF StoreRequested
  <2>6. CASE Stored(t) BY <2>6 DEF Stored
  <2>7. CASE Close(t) BY <2>7 DEF Close
  <2> QED BY <1>3, <2>1, <2>2, <2>3, <2>4, <2>5, <2>6, <2>7 DEF Begin, CallStep
<1>4. CASE UNCHANGED vars BY <1>4 DEF vars
<1> QED BY <1>1, <1>2, <1>3, <1>4 DEF Next, Finished

-----------------------------------------------------------------------------
(* What a run returns, and what it leaves behind. *)

Stopping(t) == pc[t] \in {"store", "close"}
Leaving == {"exit", "join", "collect", "clear"}

\* A shutdown of this run that has set the flag has closed the queue or is about
\* to, and has stored the exit value or is about to; worker 0 leaves its loop
\* after it has seen the flag.
Asked ==
    /\ \A t \in Threads : Stopping(t) =>
         /\ arg[t] \in requested[queue]
         /\ "exit_value" \notin stores[t] => exitValue \in requested[queue]
         /\ pc[t] = "close" => stores[t] = {}
    /\ \A r \in Runners : pc[r] \in Leaving \cup {"checkEmpty"} => shutdownRequested
    /\ \A r \in Runners : pc[r] \in Running \ {"claimed", "reset"} /\ shutdownRequested =>
         /\ closed[r] \/ \E t \in Threads : Stopping(t)
         /\ \/ exitValue \in requested[r]
            \/ \E t \in Threads : Stopping(t) /\ "exit_value" \in stores[t]

\* A step of a thread that is not in the middle of a shutdown.
LEMMA AskedMove ==
    ASSUME TypeOK, Asked, NEW t \in Threads, NEW place \in Pcs,
           pc' = [pc EXCEPT ![t] = place] \/ UNCHANGED pc,
           ~Stopping(t), place \notin {"store", "close"},
           t \in Runners /\ place \in Leaving \cup {"checkEmpty"} => shutdownRequested,
           t \in Runners /\ place \in Running \ {"claimed", "reset"}
             => pc[t] \in Running \ {"claimed", "reset"},
           UNCHANGED <<queue, exitValue, shutdownRequested, closed, stores, arg, requested>>
    PROVE  Asked'
<1>1. \A u \in Threads : Stopping(u)' <=> Stopping(u)
  BY DEF Stopping, TypeOK
<1>2. \A r \in Runners : pc'[r] \in Leaving \cup {"checkEmpty"} => shutdownRequested
  BY DEF TypeOK, Asked, Threads
<1>3. \A r \in Runners : pc'[r] \in Running \ {"claimed", "reset"}
    => pc[r] \in Running \ {"claimed", "reset"}
  BY DEF TypeOK, Threads
<1>4. \A u \in Threads : Stopping(u) => (pc'[u] = "close" <=> pc[u] = "close")
  BY DEF TypeOK, Stopping
<1> QED BY <1>1, <1>2, <1>3, <1>4 DEF Asked

\* The two resets find no shutdown under way, nor do the claim and the clearing.
LEMMA AskedRunner ==
    ASSUME IInv, TypeOK, Confined, Asked, NEW r \in Runners, RunnerStep(r)
    PROVE  Asked'
<1> USE DisjointAssumption DEF TypeOK, Threads, queues, calls, launch, singleton
<1>1. CASE (Claim(r) /\ queue = NoRunner) \/ Clear(r)
  <2>1. \A t \in Threads : ~Stopping(t)
    <3>1. ASSUME NEW t \in Threads, Stopping(t) PROVE queue \in Runners
        /\ (t \in Clients => \E s \in Runners : pc[s] \in Serving \cup {"exit"})
      BY <3>1 DEF Confined, Stopping, Calling
    <3>2. CASE Claim(r) /\ queue = NoRunner
      BY <3>1, <3>2
    <3>3. CASE Clear(r)
      <4>1. pc[r] = "clear" /\ \A s \in Runners : pc[s] \in Running => s = r
        BY <3>3 DEF Clear, IInv, OneRun, Running
      <4>2. outstanding = {}
        BY <4>1 DEF IInv, Counted, Holding, Running, Serving
      <4> QED BY <3>1, <4>1, <4>2 DEF IInv, Counted, Stopping, Running, Serving
    <3> QED BY <1>1, <3>2, <3>3
  <2>2. PICK place \in {"claimed", "returned"} : pc' = [pc EXCEPT ![r] = place]
    BY <1>1 DEF Claim, Clear, Goto
  <2>3. UNCHANGED <<exitValue, shutdownRequested, closed, stores, arg, requested>>
    BY <1>1 DEF Claim, Clear
  <2> QED BY <2>1, <2>2, <2>3 DEF Asked, Stopping, Leaving, Running, Serving
<1>2. CASE Claim(r) /\ queue # NoRunner
  <2>1. /\ pc' = [pc EXCEPT ![r] = "returned"] /\ ~Stopping(r)
        /\ UNCHANGED <<queue, exitValue, shutdownRequested, closed, stores, arg, requested>>
    BY <1>2 DEF Claim, Goto, Stopping
  <2>2. /\ "returned" \in Pcs
        /\ "returned" \notin Running \cup Leaving \cup {"checkEmpty", "store", "close"}
    BY DEF Pcs, Leaving, Running, Serving
  <2> HIDE DEF TypeOK
  <2> QED BY <2>1, <2>2, AskedMove
<1>3. CASE ResetExitValue(r) \/ ResetRequested(r)
  <2>1. \A t \in Threads : ~Stopping(t)
    BY <1>3 DEF ResetExitValue, ResetRequested, IInv, OneRun, Counted, Holding, Running,
        Serving, Calling, Confined, Stopping
  <2>2. CASE ResetExitValue(r) BY <2>1, <2>2 DEF ResetExitValue, Goto, Asked, Stopping,
      Leaving, Running, Serving, IInv, OneRun
  <2>3. CASE ResetRequested(r) BY <2>1, <2>3 DEF ResetRequested, Goto, Asked, Stopping,
      Leaving, Running, Serving, IInv, OneRun
  <2> QED BY <1>3, <2>2, <2>3
<1>4. CASE LaunchWorker(r)
  <2>1. PICK w \in Workers \ launched : pc' = [pc EXCEPT ![w] = "init"] \/ UNCHANGED pc
    BY <1>4 DEF LaunchWorker, Goto
  <2>2. /\ pc[w] = "off"
        /\ UNCHANGED <<queue, exitValue, shutdownRequested, closed, stores, arg, requested>>
    BY <1>4 DEF LaunchWorker, IInv, Counted
  <2>3. ~Stopping(w)
    BY <2>2 DEF Stopping
  <2> HIDE DEF TypeOK
  <2> QED BY <2>1, <2>2, <2>3, AskedMove DEF Pcs, Running
<1>5. CASE \/ InitGroup(r) \/ AllLaunched(r) \/ ExitRunner(r)
           \/ Join(r) \/ Collect(r) \/ FreeQueue(r)
  <2>1. PICK place \in {"launch", "init", "join", "collect", "clear", "done"} : 
           /\ pc' = [pc EXCEPT ![r] = place]
           /\ place \in Leaving => pc[r] \in Leaving
           /\ place \in Running => pc[r] \in Running \ {"claimed", "reset"}
           /\ ~Stopping(r)
    BY <1>5 DEF InitGroup, AllLaunched, ExitRunner, Join, Collect, FreeQueue, Goto,
        Leaving, Running, Stopping, Serving
  <2>2. UNCHANGED <<queue, exitValue, shutdownRequested, closed, stores, arg, requested>>
    BY <1>5 DEF InitGroup, AllLaunched, ExitRunner, Join, Collect, FreeQueue
  <2>3. place \in Leaving => shutdownRequested
    BY <2>1 DEF Asked
  <2> HIDE DEF TypeOK
  <2> QED BY <2>1, <2>2, <2>3, AskedMove DEF Pcs, Running, Leaving
<1> QED BY <1>1, <1>2, <1>3, <1>4, <1>5 DEF RunnerStep, Claim

\* A worker leaves the flag and the value alone; worker 0 has seen the flag.
LEMMA AskedWorker ==
    ASSUME TypeOK, Asked, NEW t \in Runners \cup Workers, WorkerStep(t)
    PROVE  Asked'
<1>1. PICK place \in {"pop", "handle", "check", "checkEmpty", "exit", "off"} :
           /\ pc' = [pc EXCEPT ![t] = place]
           /\ t \in Runners /\ place \in {"checkEmpty", "exit"}
               => pc[t] = "checkEmpty" \/ shutdownRequested
    BY DisjointAssumption
       DEF WorkerStep, InitWorker, TakeEvent, TakeNothing, Drain, Check, CheckEmpty,
           Handled, ExitWorker, Goto
<1>2. pc[t] \in {"init", "pop", "handle", "handled", "check", "checkEmpty", "exit"}
    BY DEF WorkerStep, InitWorker, TakeEvent, TakeNothing, Drain, Check, CheckEmpty,
                Handled, ExitWorker
<1>3. UNCHANGED <<queue, exitValue, shutdownRequested, closed, stores, arg, requested>>
    BY DEF WorkerStep, InitWorker, TakeEvent, TakeNothing, Drain, Check, CheckEmpty,
                Handled, ExitWorker, singleton, queues, calls
<1>4. t \in Runners /\ place \in Leaving \cup {"checkEmpty"} => shutdownRequested
  BY <1>1 DEF Asked, Leaving
<1> QED BY <1>1, <1>2, <1>3, <1>4, AskedMove DEF Pcs, Running, Serving, Stopping, Threads

\* A shutdown sets flag and value before it closes the queue.
LEMMA AskedCall ==
    ASSUME IInv, TypeOK, Confined, Asked, NEW t \in Threads, Begin(t) \/ CallStep(t)
    PROVE  Asked'
<1> USE DisjointAssumption
    DEF IInv, Places, TypeOK, Threads, Goto, Pcs, Serving, Running, Calling, Confined,
        queues, calls, launch, singleton, Asked, Stopping, Leaving, OneRun
<1>1. CASE BeginPost(t) BY <1>1 DEF BeginPost, MayCall
<1>2. CASE BeginShutdown(t) BY <1>2 DEF BeginShutdown, MayCall
<1>3. CASE Post(t) BY SMTT(30), <1>3 DEF Post, Return
<1>4. CASE StoreExitValue(t) BY <1>4 DEF StoreExitValue
<1>5. CASE StoreRequested(t) BY <1>5 DEF StoreRequested
<1>6. CASE Stored(t) BY <1>6 DEF Stored
<1>7. CASE Close(t) BY <1>7 DEF Close, Return
<1> QED BY <1>1, <1>2, <1>3, <1>4, <1>5, <1>6, <1>7 DEF Begin, CallStep

-----------------------------------------------------------------------------
(* No event is left behind. *)

AtWork(w) == pc[w] \in Serving \cup {"init"}

\* Without polling and refusals every worker is there until the queue is closed
\* and empty, which it then remains.
Staffed ==
    /\ ~MayFail
    /\ \A w \in Workers : pc[w] \notin {"check", "checkEmpty"}
    /\ \A r \in Runners : pc[r] \in Holding \ {"launch"} => launched = Workers
    /\ \A r \in Runners : pc[r] \in Holding =>
         \A w \in launched : AtWork(w) \/ (closed[r] /\ contents[r] = <<>>)

\* Once worker 0 has left its loop, an event that is still queued has a worker.
Emptied ==
    \A r \in Runners :
      /\ pc[r] = "start" => contents[r] = <<>>
      /\ pc[r] \in Leaving \cup {"returned", "done"} =>
           contents[r] = <<>> \/ (queue = r /\ \E w \in Workers : AtWork(w))

\* Either the further workers block on the queue and all of them have started,
\* or no two clients make calls at the same time.
Lossless ==
    \/ Workers # {} /\ ~Polling /\ ~MayFail
    \/ \A c, d \in Clients : c = d

\* A blocking worker leaves when sys_event_queue_pop() has found nothing to come.
LEMMA StaffedStep ==
    ASSUME IInv, IInv', TypeOK, Confined, Staffed, ~Polling, [Next]_vars
    PROVE  Staffed'
<1> USE DisjointAssumption
    DEF Threads, Goto, queues, calls, launch, singleton, Holding, Serving
<1>1. ASSUME NEW r \in Runners, RunnerStep(r) PROVE Staffed'
  <2> USE DEF TypeOK, Staffed, AtWork, IInv, OneRun, Running
  <2>1. CASE Claim(r)
    <3>1. PICK place \in {"claimed", "returned"} : pc' = [pc EXCEPT ![r] = place]
      BY <2>1 DEF Claim
    <3>2. UNCHANGED <<launched, closed, contents>>
      BY <2>1 DEF Claim
    <3> QED BY <3>1, <3>2
  <2>2. CASE ResetExitValue(r) BY <2>2 DEF ResetExitValue
  <2>3. CASE ResetRequested(r) BY <2>3 DEF ResetRequested
  <2>4. CASE InitGroup(r) BY <2>4 DEF InitGroup
  <2>5. CASE LaunchWorker(r) BY <2>5 DEF LaunchWorker, Counted
  <2>6. CASE AllLaunched(r) BY <2>6 DEF AllLaunched
  <2>7. CASE ExitRunner(r) BY <2>7 DEF ExitRunner
  <2>8. CASE Join(r) BY <2>8 DEF Join
  <2>9. CASE Collect(r) BY <2>9 DEF Collect
  <2>10. CASE Clear(r) BY <2>10 DEF Clear
  <2>11. CASE FreeQueue(r) BY <2>11 DEF FreeQueue
  <2> QED BY <1>1, <2>1, <2>2, <2>3, <2>4, <2>5, <2>6, <2>7, <2>8, <2>9, <2>10, <2>11
      DEF RunnerStep
<1>2. ASSUME NEW t \in Runners \cup Workers, WorkerStep(t) PROVE Staffed'
  <2> USE DEF TypeOK, Staffed, AtWork, IInv, OneRun, Running
  <2>1. CASE InitWorker(t) BY <2>1 DEF InitWorker
  <2>2. CASE TakeEvent(t) BY <2>2 DEF TakeEvent, QueueOf
  <2>3. CASE TakeNothing(t) BY <2>3 DEF TakeNothing
  <2>4. CASE Drain(t) BY <2>4 DEF Drain, QueueOf
  <2>5. CASE Check(t) BY <2>5 DEF Check
  <2>6. CASE CheckEmpty(t) BY <2>6 DEF CheckEmpty
  <2>7. CASE Handled(t) BY <2>7 DEF Handled
  <2>8. CASE ExitWorker(t) BY <2>8 DEF ExitWorker
  <2> QED BY <1>2, <2>1, <2>2, <2>3, <2>4, <2>5, <2>6, <2>7, <2>8 DEF WorkerStep
<1>3. ASSUME NEW t \in Threads, Begin(t) \/ CallStep(t) PROVE Staffed'
  <2> USE DEF TypeOK, Staffed, AtWork, IInv, OneRun, Running
  <2>1. CASE BeginPost(t) BY <2>1 DEF BeginPost, MayCall
  <2>2. CASE BeginShutdown(t) BY <2>2 DEF BeginShutdown, MayCall
  <2>3. CASE Post(t) BY <2>3 DEF Post, Return
  <2>4. CASE StoreExitValue(t) BY <2>4 DEF StoreExitValue
  <2>5. CASE StoreRequested(t) BY <2>5 DEF StoreRequested
  <2>6. CASE Stored(t) BY <2>6 DEF Stored
  <2>7. CASE Close(t) BY <2>7 DEF Close, Return
  <2> QED BY <1>3, <2>1, <2>2, <2>3, <2>4, <2>5, <2>6, <2>7 DEF Begin, CallStep
<1>4. CASE UNCHANGED vars BY <1>4 DEF vars, Staffed, AtWork
<1> QED BY <1>1, <1>2, <1>3, <1>4 DEF Next, Finished

\* Whoever posts to a queue that worker 0 has left finds it closed, or is a
\* worker, or another worker is there: one that never leaves before the queue
\* is closed, or the one whose shutdown worker 0 has seen.
LEMMA EmptiedStep ==
    ASSUME IInv, TypeOK, Confined, Asked, Emptied, Lossless, [Next]_vars,
           Workers # {} /\ ~Polling /\ ~MayFail => Staffed
    PROVE  Emptied'
<1> USE DisjointAssumption
    DEF Threads, Goto, queues, calls, launch, singleton, Serving, Leaving
<1>1. ASSUME NEW r \in Runners, RunnerStep(r) PROVE Emptied'
  <2> USE DEF TypeOK, Emptied, AtWork, IInv, OneRun, Running
  <2>1. CASE Claim(r)
    <3>1. pc[r] = "start" /\ UNCHANGED contents
      BY <2>1 DEF Claim
    <3>2. CASE queue = NoRunner
      <4>1. pc' = [pc EXCEPT ![r] = "claimed"]
        BY <2>1, <3>2 DEF Claim
      <4> QED BY <3>1, <3>2, <4>1
    <3>3. CASE queue # NoRunner
      <4>1. pc' = [pc EXCEPT ![r] = "returned"] /\ UNCHANGED queue
        BY <2>1, <3>3 DEF Claim
      <4> QED BY <3>1, <4>1
    <3> QED BY <3>2, <3>3
  <2>2. CASE ResetExitValue(r) BY <2>2 DEF ResetExitValue
  <2>3. CASE ResetRequested(r) BY <2>3 DEF ResetRequested
  <2>4. CASE InitGroup(r) BY <2>4 DEF InitGroup
  <2>5. CASE LaunchWorker(r) BY <2>5 DEF LaunchWorker, Counted
  <2>6. CASE AllLaunched(r) BY <2>6 DEF AllLaunched
  <2>7. CASE ExitRunner(r) BY <2>7 DEF ExitRunner
  <2>8. CASE Join(r) BY <2>8 DEF Join
  <2>9. CASE Collect(r) BY <2>9 DEF Collect
  <2>10. CASE Clear(r) BY <2>10 DEF Clear, Counted, Holding
  <2>11. CASE FreeQueue(r) BY <2>11 DEF FreeQueue
  <2> QED BY <1>1, <2>1, <2>2, <2>3, <2>4, <2>5, <2>6, <2>7, <2>8, <2>9, <2>10, <2>11
      DEF RunnerStep
<1>2. ASSUME NEW t \in Runners \cup Workers, WorkerStep(t) PROVE Emptied'
  <2> USE DEF TypeOK, Emptied, AtWork, IInv, OneRun, Running
  <2>1. CASE InitWorker(t) BY <2>1 DEF InitWorker
  <2>2. CASE TakeEvent(t) BY <2>2 DEF TakeEvent, QueueOf
  <2>3. CASE TakeNothing(t) BY <2>3 DEF TakeNothing
  <2>4. CASE Drain(t) BY <2>4 DEF Drain, QueueOf
  <2>5. CASE Check(t) BY <2>5 DEF Check
  <2>6. CASE CheckEmpty(t) BY <2>6 DEF CheckEmpty, QueueOf
  <2>7. CASE Handled(t) BY <2>7 DEF Handled
  <2>8. CASE ExitWorker(t) BY <2>8 DEF ExitWorker
  <2> QED BY <1>2, <2>1, <2>2, <2>3, <2>4, <2>5, <2>6, <2>7, <2>8 DEF WorkerStep
<1>3. ASSUME NEW t \in Threads, Begin(t) \/ CallStep(t) PROVE Emptied'
  <2> USE DEF TypeOK, Emptied, AtWork, IInv, OneRun, Running
  <2>1. CASE BeginPost(t) BY <2>1 DEF BeginPost, MayCall
  <2>2. CASE BeginShutdown(t) BY <2>2 DEF BeginShutdown, MayCall
  <2>3. CASE Post(t)
    <3>1. /\ pc[t] = "post" /\ held[t] = queue /\ queue \in Runners /\ UNCHANGED queue
          /\ pc[queue] \in Running
      BY <2>3 DEF Post, Confined, Calling
    <3>2. PICK place \in {"idle", "handled"} :
            pc' = [pc EXCEPT ![t] = place] /\ (place = "idle" => t \in Clients)
      BY <2>3 DEF Post, Return
    <3>3. \A r \in Runners \ {queue} : contents'[r] = contents[r]
      BY <2>3, <3>1 DEF Post
    <3>4. \A w \in Workers : AtWork(w) => AtWork(w)'
      BY <3>1, <3>2
    <3>5. ASSUME pc'[queue] \in Leaving, contents'[queue] # <<>>
          PROVE  \E w \in Workers : AtWork(w)'
      <4>1. pc[queue] \in Leaving /\ t # queue
        BY <3>1, <3>2, <3>5
      <4>2. CASE contents[queue] # <<>>
        BY <3>1, <3>4, <4>1, <4>2
      <4>3. CASE contents[queue] = <<>>
        <5>1. ~closed[queue]
          BY <2>3, <3>1, <3>5, <4>3 DEF Post
        <5>2. CASE t \in Workers
          BY <3>1, <3>4, <5>2
        <5>3. CASE t \in Runners
          BY <3>1, <4>1, <5>3
        <5>4. CASE t \in Clients
          <6>1. pc[queue] = "exit"
            BY <3>1, <4>1, <5>4 DEF Confined
          <6>2. CASE Workers # {} /\ ~Polling /\ ~MayFail
            <7>1. \A w \in Workers : AtWork(w)
              BY <3>1, <5>1, <6>1, <6>2 DEF Staffed, Holding
            <7> QED BY <3>4, <6>2, <7>1
          <6>3. CASE \A c, d \in Clients : c = d
            <7>1. PICK u \in Threads : Stopping(u)
              BY <3>1, <5>1, <6>1 DEF Asked
            <7>2. u \in Workers
              BY <3>1, <5>4, <6>1, <6>3, <7>1 DEF Stopping
            <7> QED BY <3>4, <7>1, <7>2 DEF Stopping
          <6> QED BY <6>2, <6>3 DEF Lossless
        <5> QED BY <5>2, <5>3, <5>4
      <4> QED BY <4>2, <4>3
    <3>6. /\ pc'[queue] \notin {"start", "returned", "done"}
          /\ \A r \in Runners \ {queue} : pc'[r] \in {"start", "returned",
              "done"} \cup Leaving => pc[r] = pc'[r]
      BY <3>1, <3>2
    <3> QED BY <3>1, <3>3, <3>4, <3>5, <3>6
  <2>4. CASE StoreExitValue(t) BY <2>4 DEF StoreExitValue
  <2>5. CASE StoreRequested(t) BY <2>5 DEF StoreRequested
  <2>6. CASE Stored(t) BY <2>6 DEF Stored
  <2>7. CASE Close(t) BY <2>7 DEF Close, Return
  <2> QED BY <1>3, <2>1, <2>2, <2>3, <2>4, <2>5, <2>6, <2>7 DEF Begin, CallStep
<1>4. CASE UNCHANGED vars BY <1>4 DEF vars, Emptied, AtWork
<1> QED BY <1>1, <1>2, <1>3, <1>4 DEF Next, Finished

-----------------------------------------------------------------------------
(* The theorems that rest on the discipline. *)

\* Every variable of the run loop keeps its type.
THEOREM TypesKept == Spec => []TypeOK
<1>1. Init => TypeOK
  <2> SUFFICES ASSUME Init PROVE TypeOK
    OBVIOUS
  <2>1. contents \in [Runners -> Seq(Events)]
    <3>1. <<>> \in Seq(Events)
      OBVIOUS
    <3> QED BY <3>1 DEF Init
  <2>2. pc \in [Threads -> {"start", "off", "idle"}]
    BY DEF Init
  <2> QED BY <2>1, <2>2 DEF Init, TypeOK
<1>2. IInv /\ TypeOK /\ IInv' /\ [Next]_vars => TypeOK'
  BY Typed
<1> QED BY <1>1, <1>2, Inductive, PTL DEF Spec

\* The calls of a disciplined application stay within a run.
LEMMA StaysConfined == ASSUME Disciplined PROVE Spec => []Confined
<1>1. Init => Confined
  BY DisjointAssumption DEF Init, Confined, Threads, Calling, Serving
<1>2. IInv /\ TypeOK /\ Confined /\ [Next]_vars => Confined'
  <2> SUFFICES ASSUME IInv, TypeOK, Confined, [Next]_vars PROVE Confined'
    OBVIOUS
  <2>1. Shape
    BY DEF TypeOK, Shape
  <2>2. CASE UNCHANGED vars
    BY <2>2 DEF vars, singleton, calls, queues, Confined
  <2> QED BY <2>1, <2>2, ConfinedRunner, ConfinedWorker, ConfinedCall DEF Next, Finished
<1> QED BY <1>1, <1>2, Inductive, TypesKept, PTL DEF Spec

\* Its shutdowns close the queue and store their value before the run is over.
LEMMA StaysAsked == ASSUME Disciplined PROVE Spec => []Asked
<1>1. Init => Asked
  BY DisjointAssumption DEF Init, Asked, Stopping, Leaving, Threads, Running, Serving
<1>2. IInv /\ TypeOK /\ Confined /\ Asked /\ [Next]_vars => Asked'
  <2> SUFFICES ASSUME IInv, TypeOK, Confined, Asked, [Next]_vars PROVE Asked'
    OBVIOUS
  <2>1. CASE UNCHANGED vars
    BY <2>1 DEF vars, singleton, calls, queues, Asked, Stopping
  <2> QED BY <2>1, AskedRunner, AskedWorker, AskedCall DEF Next, Finished
<1> QED BY <1>1, <1>2, Inductive, TypesKept, StaysConfined, PTL DEF Spec

\* sys_runloop_post and sys_runloop_shutdown use the queue after they have given
\* up the lock under which they read it, and the workers read it at every turn:
\* it is not freed in between, by however many runs after and beside each other.
THEOREM QueuesOutliveCalls == ASSUME Disciplined PROVE Spec => []UsesLive
<1>1. IInv /\ Confined => UsesLive
  <2> SUFFICES ASSUME IInv, Confined, NEW t \in Threads
               PROVE  /\ pc[t] \in Calling => live[held[t]]
                      /\ t \in Workers /\ pc[t] \in {"pop", "checkEmpty"}
                           => queue # NoRunner /\ live[queue]
    BY DEF UsesLive
  <2>1. queue \in Runners => pc[queue] \in Running /\ live[queue] /\ queue # NoRunner
    BY DisjointAssumption DEF IInv, OneRun, Confined, Running, Serving, Threads
  <2>2. t \in Workers /\ pc[t] # "off" => queue \in Runners
    BY DEF IInv, Counted, OneRun, Holding, Running, Serving
  <2> QED BY <2>1, <2>2 DEF Confined
<1> QED BY <1>1, Inductive, StaysConfined, PTL

\* Only its own collecting gives a run a result; what it was asked to return is
\* only added to.
LEMMA ResultSteps ==
    ASSUME TypeOK, [Next]_vars, NEW r \in Runners, pc'[r] = "clear"
    PROVE  /\ requested[r] \subseteq requested'[r]
           /\ Collect(r) \/ (pc[r] = "clear" /\ result'[r] = result[r])
<1> USE DisjointAssumption DEF TypeOK, Threads, Goto
<1>1. ASSUME NEW s \in Runners, RunnerStep(s), ~Collect(r)
      PROVE  UNCHANGED requested /\ pc[r] = "clear" /\ result'[r] = result[r]
  <2>1. UNCHANGED requested /\ (Collect(s) \/ UNCHANGED result)
    BY <1>1 DEF RunnerStep, Claim, ResetExitValue, ResetRequested, InitGroup, LaunchWorker,
                AllLaunched, ExitRunner, Join, Collect, Clear, FreeQueue
  <2>2. CASE Collect(s)
    BY <1>1, <2>1, <2>2 DEF Collect
  <2>3. CASE ~Collect(s)
    <3>1. \E u \in Threads,
        place \in Pcs \ {"clear"} : pc' = [pc EXCEPT ![u] = place] \/ UNCHANGED pc
      BY <1>1, <2>3 DEF RunnerStep, Claim, ResetExitValue, ResetRequested, InitGroup,
          LaunchWorker,
                AllLaunched, ExitRunner, Join, Clear, FreeQueue, Pcs, Running
    <3> QED BY <2>1, <2>3, <3>1
  <2> QED BY <2>2, <2>3
<1>2. ASSUME NEW t \in Runners \cup Workers, WorkerStep(t)
      PROVE  UNCHANGED requested /\ pc[r] = "clear" /\ result'[r] = result[r]
  <2>1. UNCHANGED <<requested, result>>
    BY <1>2 DEF WorkerStep, InitWorker, TakeEvent, TakeNothing, Drain, Check, CheckEmpty,
                Handled, ExitWorker
  <2>2. \E place \in Pcs \ {"clear"} : pc' = [pc EXCEPT ![t] = place]
    BY <1>2 DEF WorkerStep, InitWorker, TakeEvent, TakeNothing, Drain, Check, CheckEmpty,
                Handled, ExitWorker, Pcs, Running, Serving
  <2> QED BY <2>1, <2>2
<1>3. ASSUME NEW t \in Threads, Begin(t) \/ CallStep(t)
      PROVE  /\ requested[r] \subseteq requested'[r]
             /\ pc[r] = "clear" /\ result'[r] = result[r]
  <2>1. UNCHANGED result /\ requested[r] \subseteq requested'[r]
    BY <1>3 DEF Begin, BeginPost, BeginShutdown, CallStep, Post, StoreExitValue,
                StoreRequested, Stored, Close
  <2>2. \E place \in Pcs \ {"clear"} : pc' = [pc EXCEPT ![t] = place] \/ UNCHANGED pc
    BY <1>3 DEF Begin, BeginPost, BeginShutdown, CallStep, Post, StoreExitValue,
                StoreRequested, Stored, Close, Return, Pcs, Running, Serving
  <2> QED BY <2>1, <2>2
<1>4. CASE UNCHANGED vars
  BY <1>4 DEF vars
<1>5. CASE Collect(r)
  BY <1>5 DEF Collect
<1>6. CASE ~Collect(r)
  BY <1>1, <1>2, <1>3, <1>4, <1>6 DEF Next, Finished
<1> QED BY <1>5, <1>6

\* _sys_runloop_run: the value collected after the join is one that a shutdown of
\* this very run has stored, however many were made, from wherever, and in
\* whichever order their relaxed stores became visible.
THEOREM RunsReturnWhatWasAsked == ASSUME Disciplined PROVE Spec => []ReturnsRequested
<1>1. Init => ReturnsRequested
  BY DisjointAssumption DEF Init, ReturnsRequested, Threads
<1>2. IInv /\ TypeOK /\ Confined /\ Asked /\ ReturnsRequested /\ [Next]_vars
    => ReturnsRequested'
  <2> SUFFICES ASSUME IInv, TypeOK, Confined, Asked, ReturnsRequested, [Next]_vars,
                      NEW r \in Runners, pc'[r] = "clear"
               PROVE  result'[r] \in requested'[r]
    BY DEF ReturnsRequested
  <2>1. /\ requested[r] \subseteq requested'[r]
        /\ Collect(r) \/ (pc[r] = "clear" /\ result'[r] = result[r])
    BY ResultSteps
  <2>2. CASE Collect(r)
    <3>1. pc[r] = "collect" /\ result'[r] = exitValue /\ queue = r
      BY <2>2 DEF Collect, TypeOK, IInv, OneRun, Running
    <3>2. \A t \in Threads : ~Stopping(t)
      <4>1. \A s \in Runners : pc[s] \in Running => s = r
        BY <3>1 DEF IInv, OneRun
      <4>2. outstanding = {}
        BY <3>1, <4>1 DEF IInv, Counted, Holding, Running, Serving
      <4>3. \A w \in Workers : pc[w] = "off"
        BY <4>2 DEF IInv, Counted
      <4>4. \A c \in Clients : pc[c] = "idle"
        BY <3>1, <4>1 DEF Confined, Running, Serving
      <4> QED BY <3>1, <4>1, <4>3, <4>4 DEF Stopping, Threads, Running, Serving
    <3>3. exitValue \in requested[r]
      BY <3>1, <3>2 DEF Asked, Leaving, Running
    <3> QED BY <2>1, <3>1, <3>3
  <2>3. CASE ~Collect(r)
    <3> QED BY <2>1, <2>3 DEF ReturnsRequested
  <2> QED BY <2>2, <2>3
<1> QED
  BY <1>1, <1>2, Inductive, TypesKept, StaysConfined, StaysAsked, PTL DEF Spec

\* "Workers finish any in-progress and already-queued events, then exit": every
\* event that was accepted has been taken when a run is over, if the further
\* workers block on the queue or the clients do not post beside a shutdown of
\* another one; the run RunLoopLostEvent shows what happens otherwise.
THEOREM RunsDrain == ASSUME Disciplined, Lossless PROVE Spec => []Drained
<1>1. Init => Emptied
  BY ZenonT(40), DisjointAssumption DEF Init, Emptied, Leaving, Threads
<1>2. CASE Workers # {} /\ ~Polling /\ ~MayFail
  <2>1. Init => Staffed
    BY <1>2, DisjointAssumption DEF Init, Staffed, AtWork, Threads, Holding, Serving
  <2>2. IInv /\ TypeOK /\ Confined /\ Staffed /\ IInv' /\ [Next]_vars => Staffed'
    BY <1>2, StaffedStep
  <2>3. Spec => []Staffed
    BY <2>1, <2>2, Inductive, TypesKept, StaysConfined, PTL DEF Spec
  <2>4. IInv /\ TypeOK /\ Confined /\ Asked /\ Staffed /\ Emptied /\ [Next]_vars => Emptied'
    BY EmptiedStep
  <2>5. Spec => []Emptied
    BY <1>1, <2>3, <2>4, Inductive, TypesKept, StaysConfined, StaysAsked, PTL DEF Spec
  <2>6. IInv /\ Emptied => Drained
    BY DEF IInv, OneRun, Emptied, Drained, Returned, Running, Serving
  <2> QED BY <2>5, <2>6, Inductive, PTL
<1>3. CASE ~(Workers # {} /\ ~Polling /\ ~MayFail)
  <2>1. IInv /\ TypeOK /\ Confined /\ Asked /\ Emptied /\ [Next]_vars => Emptied'
    BY <1>3, EmptiedStep
  <2>2. Spec => []Emptied
    BY <1>1, <2>1, Inductive, TypesKept, StaysConfined, StaysAsked, PTL DEF Spec
  <2>3. IInv /\ Emptied => Drained
    BY DEF IInv, OneRun, Emptied, Drained, Returned, Running, Serving
  <2> QED BY <2>2, <2>3, Inductive, PTL
<1> QED BY <1>2, <1>3
=============================================================================
