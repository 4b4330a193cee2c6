--------------------------------- MODULE RunLoop ---------------------------------
(***************************************************************************)
(* The run loop of src/picofuse/sys/event/runloop.c: a process-wide        *)
(* singleton that sys_runloop_run claims, worker 0 in the calling thread,  *)
(* further workers it launches and joins, and the threads and handlers     *)
(* that post events and ask it to shut down.                               *)
(*                                                                         *)
(* The event queues are taken as EventQueueSpec describes them: one call   *)
(* of a queue is one step (EventQueueProofs shows the ring buffer to       *)
(* implement this).  The singleton's mutex guards a few assignments at a   *)
(* time; each such section is one step too.                                *)
(***************************************************************************)
EXTENDS Integers, Sequences

CONSTANTS
    Runners,    \* threads that call sys_runloop_run once, with a queue of their own
    Workers,    \* the further workers a run launches, num_workers - 1 of them
    Clients,    \* other threads, which post and shut down
    Stoppers,   \* the threads that may call sys_runloop_shutdown
    NoRunner,   \* _sys_runloop.queue is NULL
    Events,     \* event payloads
    NoEvent,    \* NULL
    Capacity,   \* of every queue
    ExitValues, \* what sys_runloop_shutdown is given
    Polling,    \* TRUE in a Pico build: further workers poll instead of blocking
    Relaxed,    \* relaxed stores may become visible in either order
    MayFail,    \* a wait group or a thread may be refused
    Discipline  \* what the application does to keep its clients within a run:
                \* "started": init_fn of worker 0 starts them,
                \* "stopped": exit_fn of worker 0 waits for their calls to end

Threads == Runners \cup Workers \cup Clients

ASSUME DisjointAssumption ==
    /\ Runners \cap Workers = {} /\ Runners \cap Clients = {} /\ Workers \cap Clients = {}
    /\ NoRunner \notin Threads
ASSUME NoEventAssumption == NoEvent \notin Events
ASSUME ExitValuesAssumption == ExitValues \subseteq Nat
ASSUME FlagsAssumption == Polling \in BOOLEAN /\ Relaxed \in BOOLEAN /\ MayFail \in BOOLEAN
ASSUME CapacityAssumption == Capacity \in Nat \ {0}

VARIABLES
    queue,              \* _sys_runloop.queue, by the runner that brought it
    exitValue,          \* _sys_runloop.exit_value
    shutdownRequested,  \* _sys_runloop.shutdown_requested
    group,              \* _sys_runloop.workers is not NULL
    outstanding,        \* the workers the wait group still counts
    launched,           \* the workers the current run has tried to start
    contents, closed,   \* of each runner's event queue
    live,               \* the runner has not deinitialised its queue yet
    pc, event,          \* where each thread is, and the event it handles
    held,               \* the queue a call read from the singleton
    stores, arg,        \* what a shutdown call has still to store; its exit value
    result,             \* what sys_runloop_run returned
    requested           \* exit values of the shutdown calls made during each run

singleton == <<queue, exitValue, shutdownRequested>>
launch == <<group, outstanding, launched>>
queues == <<contents, closed, live>>
calls == <<held, stores, arg>>
vars == <<singleton, launch, queues, pc, event, calls, result, requested>>

\* Where a runner is between its claim and its return, and while it serves.
Serving == {"pop", "handle", "handled", "post", "store", "close", "check", "checkEmpty"}
Running == {"claimed", "reset", "group", "launch", "init", "exit", "join", "collect", "clear"}
             \cup Serving
\* Where a thread is inside sys_runloop_post or sys_runloop_shutdown, with a queue.
Calling == {"post", "store", "close"}

Init ==
    /\ queue = NoRunner /\ exitValue = 0 /\ shutdownRequested = FALSE
    /\ group = FALSE /\ outstanding = {} /\ launched = {}
    /\ contents = [r \in Runners |-> <<>>]
    /\ closed = [r \in Runners |-> FALSE]
    /\ live = [r \in Runners |-> TRUE]
    /\ pc = [t \in Threads |-> IF t \in Runners THEN "start"
                               ELSE IF t \in Workers THEN "off" ELSE "idle"]
    /\ event = [t \in Threads |-> NoEvent]
    /\ held = [t \in Threads |-> NoRunner]
    /\ stores = [t \in Threads |-> {}]
    /\ arg = [t \in Threads |-> 0]
    /\ result = [r \in Runners |-> 0]
    /\ requested = [r \in Runners |-> {}]

Goto(t, place) == pc' = [pc EXCEPT ![t] = place]

-----------------------------------------------------------------------------
(* sys_runloop_run, up to the loop. *)

\* Mutant: nobody is refused.
ClaimAlways(r) ==
    /\ pc[r] = "start"
    /\ queue' = r
    /\ Goto(r, "claimed")
    /\ UNCHANGED <<exitValue, shutdownRequested, launch, queues, event, calls, result, requested>>

\* _sys_runloop_claim; a second run is refused and returns 0.
Claim(r) ==
    /\ pc[r] = "start"
    /\ IF queue = NoRunner THEN queue' = r /\ Goto(r, "claimed")
                           ELSE Goto(r, "returned") /\ UNCHANGED queue
    /\ UNCHANGED <<exitValue, shutdownRequested, launch, queues, event, calls, result, requested>>

ResetExitValue(r) ==
    /\ pc[r] = "claimed"
    /\ exitValue' = 0
    /\ Goto(r, "reset")
    /\ UNCHANGED <<queue, shutdownRequested, launch, queues, event, calls, result, requested>>

ResetRequested(r) ==
    /\ pc[r] = "reset"
    /\ shutdownRequested' = FALSE
    /\ Goto(r, "group")
    /\ UNCHANGED <<queue, exitValue, launch, queues, event, calls, result, requested>>

\* _sys_runloop_start_workers: without a wait group there is only worker 0.
InitGroup(r) ==
    /\ pc[r] = "group"
    /\ \/ group' = TRUE /\ Goto(r, "launch")
       \/ MayFail /\ Goto(r, "init") /\ UNCHANGED group
    /\ launched' = {}
    /\ UNCHANGED <<singleton, outstanding, queues, event, calls, result, requested>>

\* Mutant: a worker starts uncounted.
LaunchUncounted(r) ==
    /\ pc[r] = "launch"
    /\ \E w \in Workers \ launched :
         launched' = launched \cup {w} /\ Goto(w, "init")
    /\ UNCHANGED <<singleton, group, outstanding, queues, event, calls, result, requested>>

\* sys_waitgroup_add, then the thread; a failure of either skips the worker.
LaunchWorker(r) ==
    /\ pc[r] = "launch"
    /\ \E w \in Workers \ launched :
         /\ launched' = launched \cup {w}
         /\ \/ outstanding' = outstanding \cup {w} /\ Goto(w, "init")
            \/ MayFail /\ UNCHANGED <<outstanding, pc>>
    /\ UNCHANGED <<singleton, group, queues, event, calls, result, requested>>

AllLaunched(r) ==
    /\ pc[r] = "launch"
    /\ launched = Workers
    /\ Goto(r, "init")
    /\ UNCHANGED <<singleton, launch, queues, event, calls, result, requested>>

-----------------------------------------------------------------------------
(* The loop of every worker, worker 0 (a runner) among them. *)

\* A worker reads the singleton's queue at every turn, worker 0 its argument.
QueueOf(t) == IF t \in Runners THEN t ELSE queue

\* init_fn
InitWorker(t) ==
    /\ t \in Runners \cup Workers
    /\ pc[t] = "init"
    /\ Goto(t, "pop")
    /\ UNCHANGED <<singleton, launch, queues, event, calls, result, requested>>

\* Either kind of pop takes the oldest event; event_fn is called with it.
TakeEvent(t) ==
    /\ pc[t] = "pop"
    /\ LET q == QueueOf(t) IN
         /\ contents[q] # <<>>
         /\ event' = [event EXCEPT ![t] = Head(contents[q])]
         /\ contents' = [contents EXCEPT ![q] = Tail(@)]
    /\ Goto(t, "handle")
    /\ UNCHANGED <<singleton, launch, closed, live, calls, result, requested>>

\* sys_event_queue_timed_pop came back empty, for worker 0 and on Pico for all.
TakeNothing(t) ==
    /\ t \in Runners \/ Polling
    /\ pc[t] = "pop"
    /\ contents[QueueOf(t)] = <<>>
    /\ Goto(t, "check")
    /\ UNCHANGED <<singleton, launch, queues, event, calls, result, requested>>

\* Mutant: a worker leaves a queue that is shut down but not drained.
DrainClosed(t) ==
    /\ t \in Workers /\ ~Polling
    /\ pc[t] = "pop"
    /\ closed[QueueOf(t)]
    /\ Goto(t, "exit")
    /\ UNCHANGED <<singleton, launch, queues, event, calls, result, requested>>

\* sys_event_queue_pop answered NULL: shut down and drained.
Drain(t) ==
    /\ t \in Workers /\ ~Polling
    /\ pc[t] = "pop"
    /\ contents[QueueOf(t)] = <<>> /\ closed[QueueOf(t)]
    /\ Goto(t, "exit")
    /\ UNCHANGED <<singleton, launch, queues, event, calls, result, requested>>

Check(t) ==
    /\ pc[t] = "check"
    /\ Goto(t, IF shutdownRequested THEN "checkEmpty" ELSE "pop")
    /\ UNCHANGED <<singleton, launch, queues, event, calls, result, requested>>

CheckEmpty(t) ==
    /\ pc[t] = "checkEmpty"
    /\ Goto(t, IF contents[QueueOf(t)] = <<>> THEN "exit" ELSE "pop")
    /\ UNCHANGED <<singleton, launch, queues, event, calls, result, requested>>

\* event_fn returns, having made one call of the run loop or none.
Handled(t) ==
    /\ pc[t] \in {"handle", "handled"}
    /\ event' = [event EXCEPT ![t] = NoEvent]
    /\ Goto(t, "pop")
    /\ UNCHANGED <<singleton, launch, queues, calls, result, requested>>

\* exit_fn of a further worker, and sys_waitgroup_done.
ExitWorker(w) ==
    /\ w \in Workers
    /\ pc[w] = "exit"
    /\ outstanding' = outstanding \ {w}
    /\ Goto(w, "off")
    /\ UNCHANGED <<singleton, group, launched, queues, event, calls, result, requested>>

-----------------------------------------------------------------------------
(* sys_runloop_run, after the loop, and its caller. *)

\* exit_fn of worker 0, which may have to wait for the clients.
ExitRunner(r) ==
    /\ pc[r] = "exit"
    /\ "stopped" \in Discipline => \A c \in Clients : pc[c] = "idle"
    /\ Goto(r, "join")
    /\ UNCHANGED <<singleton, launch, queues, event, calls, result, requested>>

\* Mutant: sys_waitgroup_wait is left out.
JoinNobody(r) ==
    /\ pc[r] = "join"
    /\ group' = FALSE
    /\ Goto(r, "collect")
    /\ UNCHANGED <<singleton, outstanding, launched, queues, event, calls, result, requested>>

\* _sys_runloop_deinit
Join(r) ==
    /\ pc[r] = "join"
    /\ group => outstanding = {}
    /\ group' = FALSE
    /\ Goto(r, "collect")
    /\ UNCHANGED <<singleton, outstanding, launched, queues, event, calls, result, requested>>

Collect(r) ==
    /\ pc[r] = "collect"
    /\ result' = [result EXCEPT ![r] = exitValue]
    /\ Goto(r, "clear")
    /\ UNCHANGED <<singleton, launch, queues, event, calls, requested>>

Clear(r) ==
    /\ pc[r] = "clear"
    /\ queue' = NoRunner
    /\ Goto(r, "returned")
    /\ UNCHANGED <<exitValue, shutdownRequested, launch, queues, event, calls, result, requested>>

\* The caller deinitialises its queue, as runloop.h shows it doing.
FreeQueue(r) ==
    /\ pc[r] = "returned"
    /\ live' = [live EXCEPT ![r] = FALSE]
    /\ Goto(r, "done")
    /\ UNCHANGED <<singleton, launch, contents, closed, event, calls, result, requested>>

-----------------------------------------------------------------------------
(* sys_runloop_post and sys_runloop_shutdown, from a client or a handler:  *)
(* the singleton's queue is read under its mutex and used after that.      *)

MayCall(t) ==
    \/ t \in Runners \cup Workers /\ pc[t] = "handle"
    \/ /\ t \in Clients /\ pc[t] = "idle"
       /\ "started" \in Discipline => \E r \in Runners : pc[r] \in Serving

Return(t) == Goto(t, IF t \in Clients THEN "idle" ELSE "handled")

BeginPost(t) ==
    /\ MayCall(t)
    /\ queue # NoRunner
    /\ held' = [held EXCEPT ![t] = queue]
    /\ Goto(t, "post")
    /\ UNCHANGED <<singleton, launch, queues, event, stores, arg, result, requested>>

\* sys_event_queue_try_push
Post(t) ==
    /\ pc[t] = "post"
    /\ LET q == held[t] IN
         \/ /\ live[q] /\ ~closed[q] /\ Len(contents[q]) < Capacity
            /\ \E e \in Events : contents' = [contents EXCEPT ![q] = Append(@, e)]
         \/ /\ ~live[q] \/ closed[q] \/ Len(contents[q]) = Capacity
            /\ UNCHANGED contents
    /\ held' = [held EXCEPT ![t] = NoRunner]
    /\ Return(t)
    /\ UNCHANGED <<singleton, launch, closed, live, event, stores, arg, result, requested>>

BeginShutdown(t) ==
    /\ t \in Stoppers
    /\ MayCall(t)
    /\ queue # NoRunner
    /\ held' = [held EXCEPT ![t] = queue]
    /\ stores' = [stores EXCEPT ![t] = {"exit_value", "shutdown_requested"}]
    /\ \E v \in ExitValues :
         /\ arg' = [arg EXCEPT ![t] = v]
         /\ requested' = [requested EXCEPT ![queue] = @ \cup {v}]
    /\ Goto(t, "store")
    /\ UNCHANGED <<singleton, launch, queues, event, result>>

\* Two relaxed stores, which nothing orders.
StoreExitValue(t) ==
    /\ pc[t] = "store"
    /\ "exit_value" \in stores[t]
    /\ exitValue' = arg[t]
    /\ stores' = [stores EXCEPT ![t] = @ \ {"exit_value"}]
    /\ UNCHANGED <<queue, shutdownRequested, launch, queues, pc, event, held, arg, result, requested>>

StoreRequested(t) ==
    /\ pc[t] = "store"
    /\ "shutdown_requested" \in stores[t]
    /\ Relaxed \/ "exit_value" \notin stores[t]
    /\ shutdownRequested' = TRUE
    /\ stores' = [stores EXCEPT ![t] = @ \ {"shutdown_requested"}]
    /\ UNCHANGED <<queue, exitValue, launch, queues, pc, event, held, arg, result, requested>>

Stored(t) ==
    /\ pc[t] = "store"
    /\ stores[t] = {}
    /\ Goto(t, "close")
    /\ UNCHANGED <<singleton, launch, queues, event, calls, result, requested>>

\* Mutant: shutdown only sets the flag.
CloseNothing(t) ==
    /\ pc[t] = "close"
    /\ held' = [held EXCEPT ![t] = NoRunner]
    /\ arg' = [arg EXCEPT ![t] = 0]
    /\ Return(t)
    /\ UNCHANGED <<singleton, launch, queues, event, stores, result, requested>>

\* sys_event_queue_shutdown
Close(t) ==
    /\ pc[t] = "close"
    /\ closed' = [closed EXCEPT ![held[t]] = TRUE]
    /\ held' = [held EXCEPT ![t] = NoRunner]
    /\ arg' = [arg EXCEPT ![t] = 0]
    /\ Return(t)
    /\ UNCHANGED <<singleton, launch, contents, live, event, stores, result, requested>>

-----------------------------------------------------------------------------

RunnerStep(r) ==
    \/ Claim(r) \/ ResetExitValue(r) \/ ResetRequested(r)
    \/ InitGroup(r) \/ LaunchWorker(r) \/ AllLaunched(r)
    \/ ExitRunner(r) \/ Join(r) \/ Collect(r) \/ Clear(r) \/ FreeQueue(r)

WorkerStep(t) ==
    \/ InitWorker(t) \/ TakeEvent(t) \/ TakeNothing(t) \/ Drain(t)
    \/ Check(t) \/ CheckEmpty(t) \/ Handled(t) \/ ExitWorker(t)

CallStep(t) ==
    Post(t) \/ StoreExitValue(t) \/ StoreRequested(t) \/ Stored(t) \/ Close(t)

Begin(t) == BeginPost(t) \/ BeginShutdown(t)

\* Every run has returned and no call is under way.
Finished ==
    /\ \A r \in Runners : pc[r] = "done"
    /\ \A c \in Clients : pc[c] = "idle"
    /\ UNCHANGED vars

Next ==
    \/ \E r \in Runners : RunnerStep(r)
    \/ \E t \in Runners \cup Workers : WorkerStep(t)
    \/ \E t \in Threads : Begin(t) \/ CallStep(t)
    \/ Finished

Spec == Init /\ [][Next]_vars

\* Every thread keeps running and every handler returns; nobody has to call
\* sys_runloop_run, sys_runloop_post or sys_runloop_shutdown.
Fairness ==
    /\ \A r \in Runners : WF_vars(pc[r] # "start" /\ RunnerStep(r))
    /\ \A t \in Runners \cup Workers : WF_vars(WorkerStep(t))
    /\ \A t \in Threads : WF_vars(CallStep(t))

FairSpec == Spec /\ Fairness

-----------------------------------------------------------------------------
(* Properties. *)

TypeOK ==
    /\ queue \in Runners \cup {NoRunner}
    /\ exitValue \in ExitValues \cup {0} /\ shutdownRequested \in BOOLEAN
    /\ group \in BOOLEAN /\ outstanding \subseteq Workers /\ launched \subseteq Workers
    /\ contents \in [Runners -> Seq(Events)]
    /\ closed \in [Runners -> BOOLEAN] /\ live \in [Runners -> BOOLEAN]
    /\ pc \in [Threads -> Running \cup {"start", "returned", "done", "off", "idle"}]
    /\ event \in [Threads -> Events \cup {NoEvent}]
    /\ held \in [Threads -> Runners \cup {NoRunner}]
    /\ stores \in [Threads -> SUBSET {"exit_value", "shutdown_requested"}]
    /\ arg \in [Threads -> ExitValues \cup {0}]
    /\ result \in [Runners -> ExitValues \cup {0}]
    /\ requested \in [Runners -> SUBSET ExitValues]

\* The run of r has been claimed and is over.
Returned(r) == pc[r] \in {"returned", "done"}

\* The singleton belongs to one run at a time: its claim to its clearing.
OneRun ==
    \A r \in Runners : pc[r] \in Running <=> queue = r

\* A run returns only after every worker it launched is gone, so none of them
\* handles an event, or looks at the singleton, once it has been cleared.
WorkersJoined ==
    \A w \in Workers :
        /\ pc[w] # "off" <=> w \in outstanding
        /\ pc[w] # "off" => \E r \in Runners : pc[r] \in Running \ {"collect", "clear"}

\* "Workers finish any in-progress and already-queued events, then exit": no
\* event that sys_runloop_post accepted is left behind by the run.
Drained ==
    \A r \in Runners : Returned(r) => contents[r] = <<>>

\* A run returns the value a sys_runloop_shutdown of this very run was given.
ReturnsRequested ==
    \A r \in Runners : pc[r] = "clear" => result[r] \in requested[r]

\* Whoever is about to use a queue uses one that still exists.
UsesLive ==
    \A t \in Threads :
        /\ pc[t] \in Calling => live[held[t]]
        /\ t \in Workers /\ pc[t] \in {"pop", "checkEmpty"} => queue # NoRunner /\ live[queue]

\* "After this call ... workers finish ... causing sys_runloop_run() to return":
\* a shutdown call that found the loop running ends it.
ShutdownEndsRun ==
    \A r \in Runners : requested[r] # {} ~> Returned(r)
=============================================================================
