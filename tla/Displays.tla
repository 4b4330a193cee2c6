--------------------------------- MODULE Displays ---------------------------------
(***************************************************************************)
(* The pool of displays of src/picofuse/pix/display.c, the poll of         *)
(* pix/poll.c that draws the one due display that has waited longest, and  *)
(* the SDL display of dev/sdl/sdl.c.  Any thread may poll, and two may     *)
(* poll at once: a display's polling flag is claimed under the pool's lock *)
(* and held while its operations run outside it.                           *)
(***************************************************************************)
EXTENDS Integers, FiniteSets

CONSTANTS
    Threads,
    Slots,      \* PIX_DISPLAY_POOL_CAPACITY
    Interval,   \* interval_ms of every display
    Horizon,    \* the clock stops here
    InitsAlone  \* TRUE: nothing else runs while a display is made

VARIABLES
    ops,        \* the slots that are allocated
    polling,    \* the slots that are claimed
    ts,         \* when each slot was last drawn, 0 if never
    drawn,      \* the slots with a draw callback
    windows,    \* the slots whose window, renderer and texture exist
    retain,     \* _dev_sdl_retain
    sdl,        \* SDL is initialised
    now,        \* sys_timestamp_ms
    pc,         \* per thread
    at,         \* the slot a call is at
    candidate,  \* of a poll, 0 for none
    handles,    \* the displays the application holds
    passed      \* draws of others while a slot was due and nobody had it,
                \* since a display last came or went

vars == <<ops, polling, ts, drawn, windows, retain, sdl, now, pc, at, candidate, handles, passed>>
pool == <<ops, drawn>>
library == <<windows, retain, sdl>>
turns == <<ts, now, passed>>

Goto(t, place) == pc' = [pc EXCEPT ![t] = place]
At(t, s) == at' = [at EXCEPT ![t] = s]

Init ==
    /\ ops = {} /\ polling = {} /\ drawn = {}
    /\ ts = [s \in 1 .. Slots |-> 0]
    /\ windows = {} /\ retain = 0 /\ sdl = FALSE
    /\ now = 1
    /\ pc = [t \in Threads |-> "idle"]
    /\ at = [t \in Threads |-> 1]
    /\ candidate = [t \in Threads |-> 0]
    /\ handles = {}
    /\ passed = [s \in 1 .. Slots |-> 0]

Making == {"sdl", "alloc", "window"}
Begins(t) ==
    /\ pc[t] = "idle"
    /\ InitsAlone => \A u \in Threads : pc[u] \notin Making

----------------------------------------------------------------------------
\* dev_sdl_init: the first display initialises SDL.
BeginInit(t) ==
    /\ Begins(t)
    /\ InitsAlone => \A u \in Threads : pc[u] = "idle"
    /\ retain' = retain + 1
    /\ Goto(t, IF retain = 0 THEN "sdl" ELSE "alloc")
    /\ UNCHANGED <<pool, polling, windows, sdl, turns, at, candidate, handles>>

\* The last one out ends SDL, whatever windows there are.
LetGo ==
    /\ retain' = retain - 1
    /\ sdl' = (sdl /\ retain # 1)

InitSdl(t) ==
    /\ pc[t] = "sdl"
    /\ \/ sdl' = TRUE /\ Goto(t, "alloc") /\ UNCHANGED retain
       \/ retain' = retain - 1 /\ Goto(t, "idle") /\ UNCHANGED sdl
    /\ UNCHANGED <<pool, polling, windows, turns, at, candidate, handles>>

\* _pix_display_alloc, under the pool's lock: the slot is seen by every poll
\* from here on.
Alloc(t) ==
    /\ pc[t] = "alloc"
    /\ IF ops = 1 .. Slots
       THEN LetGo /\ Goto(t, "idle") /\ UNCHANGED <<pool, polling, turns, at>>
       ELSE LET s == CHOOSE x \in 1 .. Slots \ ops : \A y \in 1 .. Slots \ ops : x <= y IN
            /\ ops' = ops \cup {s}
            /\ polling' = polling \ {s}
            /\ drawn' = drawn \ {s}
            /\ ts' = [ts EXCEPT ![s] = 0] /\ passed' = [x \in 1 .. Slots |-> 0]
            /\ At(t, s) /\ Goto(t, "window")
            /\ UNCHANGED <<retain, sdl, now>>
    /\ UNCHANGED <<windows, candidate, handles>>

\* The window and its texture, or the slot given back without regard to a
\* poll that has claimed it.
Window(t) ==
    /\ pc[t] = "window" /\ Goto(t, "idle")
    /\ \/ windows' = windows \cup {at[t]} /\ handles' = handles \cup {at[t]}
          /\ UNCHANGED <<ops, retain, sdl>>
       \/ ops' = ops \ {at[t]} /\ LetGo /\ UNCHANGED <<windows, handles>>
    /\ UNCHANGED <<drawn, polling, turns, at, candidate>>

SetCallback(t) ==
    /\ Begins(t)
    /\ \E s \in handles : drawn' \in {drawn \cup {s}, drawn \ {s}}
    /\ UNCHANGED <<ops, polling, library, turns, pc, at, candidate, handles>>

----------------------------------------------------------------------------
\* pix_display_deinit waits until no poll has the display.
BeginDeinit(t) ==
    /\ Begins(t)
    /\ \E s \in handles : At(t, s) /\ handles' = handles \ {s}
    /\ Goto(t, "claim")
    /\ passed' = [s \in 1 .. Slots |-> 0]
    /\ UNCHANGED <<pool, polling, library, ts, now, candidate>>

\* A bug the checks must see: deinit does not wait for the poll.
ClaimedAnyway(s) == s \in ops
Unclaimed(s) == s \notin polling

Claim(t) ==
    /\ pc[t] = "claim" /\ Unclaimed(at[t])
    /\ polling' = polling \cup {at[t]}
    /\ Goto(t, "destroy")
    /\ UNCHANGED <<pool, library, turns, at, candidate, handles>>


Destroy(t) ==
    /\ pc[t] = "destroy" /\ Goto(t, "free")
    /\ windows' = windows \ {at[t]}
    /\ LetGo
    /\ UNCHANGED <<pool, polling, turns, at, candidate, handles>>

\* _pix_display_free, then the claim is released.
Free(t) ==
    /\ pc[t] = "free" /\ Goto(t, "release")
    /\ ops' = ops \ {at[t]}
    /\ UNCHANGED <<drawn, polling, library, turns, at, candidate, handles>>

Release(t) ==
    /\ pc[t] = "release" /\ Goto(t, "idle")
    /\ polling' = polling \ {at[t]}
    /\ UNCHANGED <<pool, library, turns, at, candidate, handles>>

----------------------------------------------------------------------------
\* pix_poll walks the pool.
BeginPoll(t) ==
    /\ Begins(t)
    /\ At(t, 1) /\ candidate' = [candidate EXCEPT ![t] = 0]
    /\ Goto(t, "scan")
    /\ UNCHANGED <<pool, polling, library, turns, handles>>

\* _pix_poll_claim, under the lock.
Scan(t) ==
    /\ pc[t] = "scan" /\ at[t] <= Slots
    /\ IF at[t] \in ops /\ Unclaimed(at[t])
       THEN polling' = polling \cup {at[t]} /\ Goto(t, "ask") /\ UNCHANGED at
       ELSE At(t, at[t] + 1) /\ UNCHANGED <<polling, pc>>
    /\ UNCHANGED <<pool, library, turns, candidate, handles>>

\* _dev_sdl_poll: due at once if never drawn, then at every interval.
Due(s) == ts[s] = 0 \/ now - ts[s] >= Interval

\* A bug the checks must see: the last due display of the round wins.
LastDue(s, c) == TRUE
\* Of the due displays the one not drawn for longest stays claimed.
Fairer(s, c) == c = 0 \/ ts[s] < ts[c]


Ask(t) ==
    /\ pc[t] = "ask"
    /\ LET s == at[t]
           c == candidate[t]
           wins == Due(s) /\ Fairer(s, c) IN
       /\ candidate' = [candidate EXCEPT ![t] = IF wins THEN s ELSE c]
       /\ polling' = polling \ IF wins THEN {c} ELSE {s}
       /\ At(t, s + 1)
    /\ Goto(t, "scan")
    /\ UNCHANGED <<pool, library, turns, handles>>

\* Only the winner's timestamp advances.
Pick(t) ==
    /\ pc[t] = "scan" /\ at[t] > Slots
    /\ IF candidate[t] = 0
       THEN Goto(t, "idle") /\ UNCHANGED <<ts, passed>>
       ELSE /\ ts' = [ts EXCEPT ![candidate[t]] = now]
            /\ passed' = [s \in 1 .. Slots |->
                   IF s = candidate[t] \/ s \notin handles THEN 0
                   ELSE IF Due(s) /\ ts[s] < now /\ Unclaimed(s) THEN passed[s] + 1
                   ELSE passed[s]]
            /\ Goto(t, IF candidate[t] \in drawn THEN "draw" ELSE "drop")
    /\ UNCHANGED <<pool, polling, library, now, at, candidate, handles>>

\* ops->lock, the application's callback, ops->unlock.
Draw(t) ==
    /\ pc[t] = "draw" /\ Goto(t, "drop")
    /\ UNCHANGED <<pool, polling, library, turns, at, candidate, handles>>

Drop(t) ==
    /\ pc[t] = "drop" /\ Goto(t, "idle")
    /\ polling' = polling \ {candidate[t]}
    /\ UNCHANGED <<pool, library, turns, at, candidate, handles>>

Tick ==
    /\ now < Horizon /\ now' = now + 1
    /\ UNCHANGED <<pool, polling, library, ts, passed, pc, at, candidate, handles>>

Step(t) ==
    \/ BeginInit(t) \/ InitSdl(t) \/ Alloc(t) \/ Window(t)
    \/ SetCallback(t) \/ BeginDeinit(t) \/ Claim(t) \/ Destroy(t) \/ Free(t) \/ Release(t)
    \/ BeginPoll(t) \/ Scan(t) \/ Ask(t) \/ Pick(t) \/ Draw(t) \/ Drop(t)

Next == (\E t \in Threads : Step(t)) \/ Tick

Spec == Init /\ [][Next]_vars

----------------------------------------------------------------------------
\* The slots whose operations a thread is running.
Holds(t) ==
    (IF pc[t] \in {"ask", "destroy", "free"} THEN {at[t]} ELSE {})
    \cup (IF pc[t] \in {"scan", "ask", "draw", "drop"} THEN {candidate[t]} \ {0} ELSE {})

\* No two threads run one display's operations at once.
OneAtATime == \A t, u \in Threads : t # u => Holds(t) \cap Holds(u) = {}

\* A display that is asked or drawn is allocated, what is drawn to exists,
\* and SDL runs for as long as a window does.
DrawsLive ==
    /\ \A t \in Threads : Holds(t) \subseteq ops
    /\ \A t \in Threads : pc[t] = "draw" => candidate[t] \in windows
    /\ windows # {} => sdl
    /\ (\A t \in Threads : pc[t] = "idle") => retain = Cardinality(windows) /\ ops = windows

\* A due display is passed over at most once by each other display for each
\* thread that polls.
TakesTurns == \A s \in 1 .. Slots : passed[s] <= (Slots - 1) * Cardinality(Threads)

DisplaysSound == OneAtATime /\ DrawsLive /\ TakesTurns
=============================================================================
