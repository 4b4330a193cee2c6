---------------------------------- MODULE Ft6236 ----------------------------------
(***************************************************************************)
(* The FT6236 touch panel of src/picofuse/dev/ft6236: a poll that skips    *)
(* the bus while the interrupt pin is quiet, a frame of at most two        *)
(* contacts with the panel's own track IDs, the slot each ID keeps between *)
(* frames, and the events the HID device of hid.c passes on.               *)
(*                                                                         *)
(* A position is told apart only by whose it is.  Polls come from          *)
(* hid_poll, one at a time, at most PollGap apart.                         *)
(***************************************************************************)
EXTENDS Integers, Sequences, FiniteSets, SequencesExt

CONSTANTS
    Ids,        \* the panel's track IDs
    HasPin,     \* the values int_pin takes: configured or not
    Reconcile,  \* FT6236_IRQ_RECONCILE_MS
    PollGap,    \* the longest time between two polls
    Horizon,    \* the clock stops here
    Settled     \* TRUE: a frame that first shows a contact shows the last one lifted no later

None == "none"          \* FT6236_TRACK_ID_NONE, and a cleared point
Slots == 1 .. 2         \* DEV_FT6236_MAX_POINTS

VARIABLES
    pin,        \* int_pin is configured
    down,       \* the contacts, in the order the panel reports them
    fresh,      \* those whose touchdown no frame has shown
    track,      \* slot_track_id
    last,       \* last_touches
    hadTouch,
    lastRead,   \* last_read_ms
    attached,   \* the HID device is registered: the callback is set
    now, lastPoll,
    since,      \* the device is registered, its reads have gone well and a contact waits
                \* to be shown from here on
    told,       \* per slot, the last event told and whose it was
    odd         \* a contact was told without its beginning, or under another's

vars == <<pin, down, fresh, track, last, hadTouch, lastRead, attached, now, lastPoll, since,
          told, odd>>
panel == <<down, fresh, since>>
driver == <<track, last, hadTouch, lastRead>>
events == <<told, odd>>
Off == [state |-> "off", at |-> None]

Init ==
    /\ pin \in HasPin
    /\ down = <<>> /\ fresh = {}
    /\ track = [s \in Slots |-> None]
    /\ last = [s \in Slots |-> Off]
    /\ hadTouch = FALSE
    /\ lastRead = 0
    /\ attached = FALSE
    /\ now = 1 /\ lastPoll = 1
    /\ since = 0
    /\ told = [s \in Slots |-> Off]
    /\ odd = FALSE

Tracked == {track[s] : s \in Slots} \ {None}

Land(i) ==
    /\ ~Contains(down, i) /\ Len(down) < 2
    /\ Settled => Tracked \subseteq ToSet(down)
    /\ down' \in {Append(down, i), <<i>> \o down}
    /\ fresh' = fresh \cup {i}
    /\ since' = IF fresh = {} THEN now ELSE since
    /\ UNCHANGED <<pin, driver, attached, now, lastPoll, events>>

Lift(i) ==
    /\ Contains(down, i)
    /\ down' = SelectSeq(down, LAMBDA x : x # i)
    /\ fresh' = fresh \ {i}
    /\ UNCHANGED <<pin, driver, attached, now, lastPoll, since, events>>

Tick ==
    /\ now < Horizon /\ (attached => now - lastPoll < PollGap)
    /\ now' = now + 1
    /\ UNCHANGED <<pin, panel, driver, attached, lastPoll, events>>

\* dev_ft6236_register_hid: the device, then the callback; the first poll
\* finds last_read_ms still 0.
Register ==
    /\ ~attached /\ attached' = TRUE /\ lastPoll' = now
    /\ since' = now
    /\ UNCHANGED <<pin, down, fresh, driver, now, events>>

\* The HID device goes: the callback is cleared, the driver keeps its state.
Deregister ==
    /\ attached /\ attached' = FALSE
    /\ UNCHANGED <<pin, panel, driver, now, lastPoll, events>>

----------------------------------------------------------------------------
\* A bug the checks must see: the slot is the contact's place in the frame.
ByPlace(map, i) == [slot |-> IF Contains(down, i) /\ down[1] = i THEN 1 ELSE 2, map |-> map]
\* _dev_ft6236_resolve_slot: the slot that has the ID, else the first free
\* one, else slot 1.
Resolve(map, i) ==
    LET Having(x) == {s \in Slots : map[s] = x}
        Least(set) == CHOOSE s \in set : \A u \in set : s <= u IN
    IF Having(i) # {} THEN [slot |-> Least(Having(i)), map |-> map]
    ELSE IF Having(None) # {}
    THEN [slot |-> Least(Having(None)), map |-> [map EXCEPT ![Least(Having(None))] = i]]
    ELSE [slot |-> 1, map |-> map]


\* _dev_ft6236_parse_frame: a new contact is shown as DOWN or, when its
\* first frame came and went, as CONTACT; slots no contact took are freed.
Parsed(frame, first) ==
    LET Put(acc, i) ==
            LET r == Resolve(acc.map, i) IN
            [map |-> r.map, seen |-> acc.seen \cup {r.slot},
             touch |-> [acc.touch EXCEPT ![r.slot] =
                 [state |-> IF i \in first THEN "on" ELSE "repeat", at |-> i]]]
        all == FoldLeft(Put, [map |-> track, seen |-> {}, touch |-> [s \in Slots |-> Off]], frame)
    IN [all EXCEPT !.map = [s \in Slots |-> IF s \in all.seen THEN @[s] ELSE None]]

\* What the callback is given for a slot that changed: a contact that is
\* first seen held is told to begin first.
Told(was, touch) ==
    IF touch = was THEN <<>>
    ELSE IF was.state = "off" /\ touch.state = "repeat"
    THEN <<[touch EXCEPT !.state = "on"], touch>>
    ELSE <<touch>>

\* A contact continues only what was told of it in that slot.
Odd(before, event) ==
    event.state = "repeat" /\ ~(before.state \in {"on", "repeat"} /\ before.at = event.at)

Skips ==
    /\ pin /\ ~hadTouch
    /\ lastRead # 0 /\ now - lastRead < Reconcile

\* dev_ft6236_poll.  The interrupt line is active only while there is
\* something to show, and not at every poll even then.
PollQuiet ==
    /\ attached /\ Skips
    /\ lastPoll' = now
    /\ UNCHANGED <<pin, panel, driver, attached, now, events>>

PollFails ==
    /\ attached /\ (Skips => down # <<>>)
    /\ lastPoll' = now
    /\ since' = now
    /\ UNCHANGED <<pin, down, fresh, driver, attached, now, events>>

Poll ==
    /\ attached /\ (Skips => down # <<>>)
    /\ lastPoll' = now /\ lastRead' = now
    /\ \E first \in SUBSET fresh :
       LET p == Parsed(down, first)
           News(s) == Told(last[s], p.touch[s]) IN
       /\ track' = p.map
       /\ last' = p.touch
       /\ hadTouch' = (down # <<>>)
       /\ told' = [s \in Slots |-> IF News(s) = <<>> THEN told[s] ELSE Last(News(s))]
       /\ odd' = (odd \/ \E s \in Slots : News(s) # <<>> /\ Odd(told[s], Head(News(s))))
    /\ fresh' = {}
    /\ UNCHANGED <<pin, down, attached, now, since>>

Next ==
    \/ \E i \in Ids : Land(i) \/ Lift(i)
    \/ Tick \/ Register \/ Deregister
    \/ PollQuiet \/ PollFails \/ Poll

Spec == Init /\ [][Next]_vars

----------------------------------------------------------------------------
\* What was told last of each contact that is down, slot by slot.
Shown(i) == {s \in Slots : last[s].at = i /\ last[s].state # "off"}

\* Every contact is told under one slot, which it keeps, and with its
\* beginning; and a contact that stays is seen within a reconcile and a poll
\* even if the interrupt line never showed it.
TouchSound ==
    /\ ~odd
    /\ \A i \in Ids : Cardinality(Shown(i)) <= 1
    /\ attached /\ lastRead = now /\ lastPoll = now /\ fresh = {}
       => \A i \in ToSet(down) : Shown(i) # {}
    /\ attached /\ fresh # {} => now - since <= Reconcile + PollGap
=============================================================================
