----------------------------- MODULE LinuxGpio ------------------------------
(***************************************************************************)
(* GPIO lines on Linux (hw/linux/gpio.c, hw/gpio/gpio.c): handles claim a   *)
(* line of a chip, hold it open as a file, and one thread reads the edges   *)
(* of all input lines through epoll and calls back.  A file number is free  *)
(* for anyone in the process as soon as it is closed.                       *)
(*                                                                         *)
(* What runs under the module's mutex is one step, except the thread's read, *)
(* which waits inside it when the line has no edge to give.                 *)
(***************************************************************************)
EXTENDS Integers, FiniteSets

CONSTANTS
  Pins, Threads,
  Files,        \* file numbers
  Modes,        \* "none", "input", "output", "unsupported"
  ReopensLater, \* TRUE: no line is reopened while an edge of its last opening awaits its read
  ExitsClean    \* TRUE: handles are given back before hw_exit

VARIABLES
  started,  \* _hw_gpio_started
  epoll,    \* _hw_gpio_epoll_fd is open
  chip,     \* the bank's chip is open
  line,     \* pin -> claimed, file number (0: none), a handle exists
  file,     \* file number -> whose it is and whether edges are queued on it
  watched,  \* file numbers in the epoll set
  call,     \* thread -> the call it is in
  event,    \* the event thread: "gone", "wait", "ready" with a pin, "blocked" in its read
  strays    \* reads from a file that was not the line's

vars == <<started, epoll, chip, line, file, watched, call, event, strays>>

NoFile == 0
NoPin  == "none"
Unused == [owner |-> "nobody", edge |-> FALSE]
Resting == [op |-> "idle", pin |-> NoPin, mode |-> "none", init |-> FALSE]
Gone   == [at |-> "gone", pin |-> NoPin]
Init ==
  /\ started = FALSE /\ epoll = FALSE /\ chip = FALSE
  /\ line = [p \in Pins |-> [claimed |-> FALSE, fd |-> NoFile, handle |-> FALSE]]
  /\ file = [f \in Files |-> Unused] /\ watched = {}
  /\ call = [t \in Threads |-> Resting] /\ event = Gone /\ strays = 0

Unlocked == event.at # "blocked"
Busy(p)  == \E t \in Threads : call[t].pin = p
Goto(t, op) == call' = [call EXCEPT ![t] = IF op = "idle" THEN Resting ELSE [@ EXCEPT !.op = op]]

------------------------------------------------------------------------------
(* The module.                                                              *)

\* Lines are reset, but not the claims; without epoll or a thread there are no
\* edges, and the module starts all the same.
ModuleInit ==
  /\ ~started /\ started' = TRUE
  /\ line' = [p \in Pins |-> [line[p] EXCEPT !.fd = NoFile]]
  /\ \E events \in BOOLEAN : epoll' = events /\ event' = IF events THEN [Gone EXCEPT !.at = "wait"] ELSE Gone
  /\ UNCHANGED <<chip, file, watched, call, strays>>
\* The thread has seen the stop flag; then epoll, the lines and the chip close.
ModuleExit ==
  /\ started /\ \A t \in Threads : call[t] = Resting
  /\ ExitsClean => \A p \in Pins : ~line[p].handle
  /\ event.at \in {"wait", "gone"}
  /\ started' = FALSE /\ epoll' = FALSE /\ chip' = FALSE /\ event' = Gone
  /\ LET open == {line[p].fd : p \in Pins} IN
     /\ file' = [f \in Files |-> IF chip /\ f \in open THEN Unused ELSE file[f]]
     /\ line' = [p \in Pins |-> [line[p] EXCEPT !.fd = IF chip THEN NoFile ELSE @]]
  /\ watched' = {}
  /\ UNCHANGED <<call, strays>>

------------------------------------------------------------------------------
(* Calls.                                                                   *)

\* hw_gpio_init: a second handle for a line is refused.
Claim(t, p) ==
  /\ call[t] = Resting /\ started /\ Unlocked
  /\ \E mode \in Modes :
       \/ ~chip /\ UNCHANGED <<chip, line, call>>   \* the chip cannot be opened
       \/ /\ chip' = TRUE
          /\ IF line[p].claimed THEN UNCHANGED <<line, call>>
             ELSE /\ line' = [line EXCEPT ![p].claimed = TRUE]
                  /\ call' = [call EXCEPT ![t] = [op |-> IF mode = "none" THEN "construct" ELSE "release",
                                                  pin |-> p, mode |-> mode, init |-> TRUE]]
  /\ UNCHANGED <<started, epoll, file, watched, event, strays>>
SetMode(t, p, mode) ==
  /\ call[t] = Resting /\ started /\ line[p].handle /\ ~Busy(p)
  /\ call' = [call EXCEPT ![t] = [op |-> "release", pin |-> p, mode |-> mode, init |-> FALSE]]
  /\ UNCHANGED <<started, epoll, chip, line, file, watched, event, strays>>
Deinit(t, p) ==
  /\ call[t] = Resting /\ started /\ line[p].handle /\ ~Busy(p)
  /\ call' = [call EXCEPT ![t] = [op |-> "free", pin |-> p, mode |-> "none", init |-> FALSE]]
  /\ UNCHANGED <<started, epoll, chip, line, file, watched, event, strays>>

\* A bug the checks must see: the line keeps the number of the file it closed.
ClosesOnly(p) ==
  /\ line' = line
  /\ watched' = watched \ {line[p].fd}
  /\ file' = [f \in Files |-> IF f = line[p].fd THEN Unused ELSE file[f]]
\* _hw_gpio_release_line: the file is closed inside the mutex.
Closes(p) ==
  /\ line' = [line EXCEPT ![p].fd = NoFile]
  /\ watched' = watched \ {line[p].fd}
  /\ file' = [f \in Files |-> IF f = line[p].fd THEN Unused ELSE file[f]]
\* _hw_gpio_request: give up the line, request it anew, watch it for edges.
Release(t) ==
  /\ call[t].op = "release" /\ Unlocked
  /\ ReopensLater => ~(event.at = "ready" /\ event.pin = call[t].pin)
  /\ Closes(call[t].pin)
  /\ Goto(t, CASE call[t].mode \in {"input", "output"} -> "request"
               [] call[t].mode = "unsupported" /\ call[t].init -> "unclaim"
               [] OTHER -> "idle")
  /\ UNCHANGED <<started, epoll, chip, event, strays>>
Request(t) ==
  /\ call[t].op = "request" /\ Unlocked
  /\ \/ \E f \in Files : /\ file[f] = Unused
                         /\ file' = [file EXCEPT ![f] = [owner |-> call[t].pin, edge |-> FALSE]]
                         /\ line' = [line EXCEPT ![call[t].pin].fd = f]
                         /\ Goto(t, CASE call[t].mode = "input" /\ epoll -> "watch"
                                      [] call[t].init -> "construct" [] OTHER -> "idle")
     \/ UNCHANGED <<file, line>> /\ Goto(t, IF call[t].init THEN "unclaim" ELSE "idle")
  /\ UNCHANGED <<started, epoll, chip, watched, event, strays>>
Watch(t) ==
  /\ call[t].op = "watch"
  /\ \/ watched' = watched \cup {line[call[t].pin].fd} /\ Goto(t, IF call[t].init THEN "construct" ELSE "idle")
     \/ watched' = watched /\ Goto(t, "unwatch")
  /\ UNCHANGED <<started, epoll, chip, line, file, event, strays>>
\* Undoing, and the first half of hw_gpio_deinit.
GiveUp(t) ==
  /\ call[t].op \in {"unwatch", "unbuild", "free"} /\ Unlocked
  /\ Closes(call[t].pin)
  /\ Goto(t, IF call[t].op = "unwatch" /\ ~call[t].init THEN "idle" ELSE "unclaim")
  /\ UNCHANGED <<started, epoll, chip, event, strays>>
Construct(t) ==
  /\ call[t].op = "construct"
  /\ \/ line' = [line EXCEPT ![call[t].pin].handle = TRUE] /\ Goto(t, "idle")
     \/ line' = line /\ Goto(t, "unbuild")
  /\ UNCHANGED <<started, epoll, chip, file, watched, event, strays>>
Unclaim(t) ==
  /\ call[t].op = "unclaim" /\ Unlocked
  /\ line' = [line EXCEPT ![call[t].pin].claimed = FALSE, ![call[t].pin].handle = FALSE]
  /\ Goto(t, "idle")
  /\ UNCHANGED <<started, epoll, chip, file, watched, event, strays>>

------------------------------------------------------------------------------
(* Edges, the event thread and the rest of the process.                     *)

Edge(f) ==
  /\ file[f].owner \in Pins /\ file' = [file EXCEPT ![f].edge = TRUE]
  /\ UNCHANGED <<started, epoll, chip, line, watched, call, event, strays>>
Wakes(f) ==
  /\ event.at = "wait" /\ f \in watched /\ file[f].edge
  /\ event' = [at |-> "ready", pin |-> file[f].owner]
  /\ UNCHANGED <<started, epoll, chip, line, file, watched, call, strays>>
\* The read, in the mutex: a released line is skipped, one with nothing queued
\* makes the thread wait there.
ReadEdge ==
  /\ event.at \in {"ready", "blocked"}
  /\ LET f == line[event.pin].fd IN
     CASE f = NoFile -> event' = [Gone EXCEPT !.at = "wait"] /\ UNCHANGED <<file, strays>>
       [] f # NoFile /\ file[f].edge ->
            /\ file' = [file EXCEPT ![f].edge = FALSE] /\ event' = [Gone EXCEPT !.at = "wait"]
            /\ strays' = IF file[f].owner = event.pin THEN strays ELSE 1
       [] OTHER -> /\ event.at = "ready" /\ event' = [event EXCEPT !.at = "blocked"]
                   /\ strays' = IF file[f].owner = event.pin THEN strays ELSE 1
                   /\ file' = file
  /\ UNCHANGED <<started, epoll, chip, line, watched, call>>
Elsewhere(f) ==
  /\ \/ file[f] = Unused /\ file' = [file EXCEPT ![f] = [owner |-> "other", edge |-> FALSE]]
     \/ file[f].owner = "other" /\ file' = [file EXCEPT ![f] = Unused]
  /\ UNCHANGED <<started, epoll, chip, line, watched, call, event, strays>>

Next ==
  \/ ModuleInit \/ ModuleExit \/ ReadEdge
  \/ \E t \in Threads :
       \/ \E p \in Pins : Claim(t, p) \/ Deinit(t, p) \/ \E mode \in Modes : SetMode(t, p, mode)
       \/ Release(t) \/ Request(t) \/ Watch(t) \/ GiveUp(t) \/ Construct(t) \/ Unclaim(t)
  \/ \E f \in Files : Edge(f) \/ Wakes(f) \/ Elsewhere(f)

Spec == Init /\ [][Next]_vars

------------------------------------------------------------------------------
(* The event thread's read under the mutex never waits: gpio.c says of it    *)
(* that the line was ready, so that it is quick and bounded.                 *)
ReadNeverBlocks == event.at # "blocked"
(* Whatever the calls, failures, edges and other files of the process, a     *)
(* line has one handle, is claimed exactly while it has one or a call is     *)
(* making or freeing it, its file is its own and is watched if it is an      *)
(* input, the thread reads only from files of lines and never waits in the   *)
(* mutex, and after hw_exit no file is left.                                 *)
GpioSound ==
  /\ strays = 0 /\ ReadNeverBlocks
  /\ \A p \in Pins :
       /\ line[p].claimed <=> line[p].handle \/ \E t \in Threads : call[t].pin = p /\ call[t].init
       /\ line[p].fd # NoFile => file[line[p].fd].owner = p
       /\ Cardinality({t \in Threads : call[t].pin = p}) <= 1
  /\ \A f \in Files : file[f].owner \in Pins => line[file[f].owner].fd = f
  /\ watched \subseteq {line[p].fd : p \in Pins}
  /\ ~started => ~chip /\ ~epoll /\ \A p \in Pins : line[p].fd = NoFile /\ ~line[p].claimed
=============================================================================
