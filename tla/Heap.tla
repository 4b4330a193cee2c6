---------------------------------- MODULE Heap ----------------------------------
(***************************************************************************)
(* sys_malloc, sys_realloc, sys_calloc and sys_free of                     *)
(* src/picofuse/sys/mem/mem.c over a chain of arenas that grows as needed, *)
(* or over the system's allocator while there is no chain.                 *)
(*                                                                         *)
(* A thread locks the chain once per arena it looks at: between two looks  *)
(* others allocate, free, and append arenas of their own.  What the system *)
(* hands out, to the program or for a region, is outside the chain.        *)
(*                                                                         *)
(* An arena of src/picofuse/sys/mem/arena.c is a value and each call of it *)
(* a function from arenas to arenas, as it runs under the mutex of its     *)
(* chain from its first look to its last change: a region that holds       *)
(* allocations and their headers side by side, linked in the order of      *)
(* their addresses, which count from the first byte of the payload.  There *)
(* is no list of free blocks: free space lies between two allocations.     *)
(***************************************************************************)
EXTENDS Integers, Sequences, SequencesExt, FiniteSets

CONSTANTS
    Align,      \* _sys_mem_arena_alignment()
    HeaderSize, \* sizeof(sys_mem_arena_header_t)
    StructSize, \* sizeof(sys_mem_arena_t)
    Granule,    \* regions are a multiple of this, 64 in the code
    SizeMax     \* SIZE_MAX

ASSUME LayoutAssumption ==
    /\ {Align, HeaderSize, StructSize, Granule, SizeMax} \subseteq Nat \ {0}
    /\ StructSize + Align + HeaderSize + Granule < SizeMax

-----------------------------------------------------------------------------
(* Addresses, and an arena. *)

AlignTo(n, unit) == ((n + unit - 1) \div unit) * unit
AlignUp(n) == AlignTo(n, Align)

PayloadOffset == AlignUp(StructSize)

\* The payload of a region that _sys_mem_arena_create_region makes for a request,
\* and whether it gets as far as asking malloc_fn for one.
RegionFits(size) == size <= SizeMax - PayloadOffset /\ PayloadOffset + size <= SizeMax - (Granule - 1)
PayloadSize(size) == AlignTo(PayloadOffset + size, Granule) - PayloadOffset

\* blocks is the list from alloc_head; the rest is the arena's stats.
NewArena(payload) == [blocks |-> <<>>, size |-> payload, used |-> 0, allocations |-> 0]

EndOf(b) == b.ptr + b.size

\* The addresses a header and its allocation would have behind the i-th block (the
\* arena's begin, if i is 0), and where the next block or the end of the arena is.
HeaderBehind(a, i) == AlignUp(IF i = 0 THEN 0 ELSE EndOf(a.blocks[i]))
PtrBehind(a, i) == AlignUp(HeaderBehind(a, i) + HeaderSize)
LimitBehind(a, i) == IF i = Len(a.blocks) THEN a.size ELSE a.blocks[i + 1].at

\* _sys_mem_arena_find_header: the places of a pointer in the list, one or none.
At(a, ptr) == {i \in DOMAIN a.blocks : a.blocks[i].ptr = ptr}

-----------------------------------------------------------------------------
(* sys_mem_arena_alloc: first fit. *)

Room(a, size) ==
    {k \in 0..Len(a.blocks) :
        PtrBehind(a, k) <= a.size /\ size <= a.size - PtrBehind(a, k) /\
        PtrBehind(a, k) + size <= LimitBehind(a, k)}

FirstFit(a, size) == {k \in Room(a, size) : \A l \in Room(a, size) : k <= l}

Alloc(a, k, size) ==
    [a EXCEPT !.blocks = InsertAt(@, k + 1, [at |-> HeaderBehind(a, k), ptr |-> PtrBehind(a, k),
                                             size |-> size]),
              !.used = @ + size, !.allocations = @ + 1]

-----------------------------------------------------------------------------
(* sys_mem_arena_free. *)

\* The i-th block is unlinked from its predecessor: prev->next = header->next.
Unlink(a, prev, i) ==
    [a EXCEPT !.blocks = SubSeq(@, 1, prev) \o SubSeq(@, i + 1, Len(@)),
              !.used = @ - a.blocks[i].size, !.allocations = @ - 1]

-----------------------------------------------------------------------------
(* sys_mem_arena_realloc of the i-th block. *)

\* Mutant: only the end of the arena limits an allocation.
ResizableInArena(a, i, size) ==
    LET b == a.blocks[i] IN size <= b.size \/ size <= a.size - b.ptr

\* It shrinks, or grows into the gap behind it.
Resizable(a, i, size) ==
    LET b == a.blocks[i] IN size <= b.size \/ size <= LimitBehind(a, i) - b.ptr

Resize(a, i, size) ==
    [a EXCEPT !.blocks[i].size = size, !.used = @ - a.blocks[i].size + size]

\* Mutant: the predecessor found before the replacement was made is used after it.
MoveStale(a, i, k, size) ==
    LET b == Alloc(a, k, size)
        prev == IF i = 1 THEN {0} ELSE At(b, a.blocks[i - 1].ptr)
    IN  {Unlink(b, j, l) : j \in prev, l \in At(b, a.blocks[i].ptr)}

\* It moves behind the k-th block: the replacement may now be its predecessor.
Move(a, i, k, size) ==
    LET b == Alloc(a, k, size) IN {Unlink(b, l - 1, l) : l \in At(b, a.blocks[i].ptr)}

\* What becomes of the arena, and the address of the block.
Realloc(a, i, size) ==
    IF Resizable(a, i, size)
      THEN {[arena |-> Resize(a, i, size), ptr |-> a.blocks[i].ptr]}
      ELSE UNION {{[arena |-> b, ptr |-> PtrBehind(a, k)] : b \in Move(a, i, k, size)} :
                    k \in FirstFit(a, size)}

-----------------------------------------------------------------------------

\* The blocks follow each other without overlap, headers included, end within the
\* arena, and start where any object may.
Tiled(a) ==
    \A i \in DOMAIN a.blocks :
        LET b == a.blocks[i] IN
        /\ b.at % Align = 0 /\ b.ptr % Align = 0
        /\ b.at >= (IF i = 1 THEN 0 ELSE EndOf(a.blocks[i - 1]))
        /\ b.at + HeaderSize <= b.ptr /\ b.size > 0
        /\ EndOf(b) <= LimitBehind(a, i)

-----------------------------------------------------------------------------
(* The chain. *)

CONSTANTS
    Threads,
    Capacity,   \* what sys_init gives _sys_mem_module_init
    MinSlack,   \* SYS_MEM_ARENA_GROWTH_MIN_SLACK
    Sizes,      \* what the application asks for
    Foreign,    \* pointers of the system's allocator
    MaxArenas,  \* the system has no memory for more, if it has for that many
    MaxLive     \* allocations the application has at a time

ASSUME HeapAssumption ==
    /\ Capacity \in Nat \ {0} /\ RegionFits(Capacity)
    /\ MinSlack \in Nat /\ Sizes \subseteq 1..SizeMax
    /\ MaxArenas \in Nat \ {0} /\ MaxLive \in Nat

VARIABLES
    chain,  \* the arenas from _sys_mem_default_head to the tail
    phase,  \* "before" _sys_mem_module_init, "on", "exiting", "off"
    held,   \* the pointers the application has and no call is about
    pc,     \* where each thread is
    call    \* and what it knows there

vars == <<chain, phase, held, pc, call>>

\* A pointer is told by its arena, of which the system's have none.
Pointer(i, ptr, size) == [arena |-> i, ptr |-> ptr, size |-> size]
NoPointer == Pointer(0, 0, 0)
FromSystem == {Pointer(0, f, 0) : f \in Foreign}

\* at: the arena it looks at; tail: the last one it saw; owner: that of old;
\* refused: malloc_fn has just refused it a region; new: what old is copied to.
NoCall == [op |-> "none", want |-> 0, old |-> NoPointer, at |-> 0, tail |-> 0,
           owner |-> 0, refused |-> FALSE, new |-> NoPointer]

Init ==
    /\ chain = <<>> /\ phase = "before" /\ held = {}
    /\ pc = [p \in Threads |-> "idle"]
    /\ call = [p \in Threads |-> NoCall]

Goto(p, place) == pc' = [pc EXCEPT ![p] = place]
Idle == \A p \in Threads : pc[p] = "idle"
SetArena(i, a) == chain' = [chain EXCEPT ![i] = a]

\* A call ends and leaves the application with these pointers of its own.
Return(p, pointers) ==
    /\ Goto(p, "idle")
    /\ call' = [call EXCEPT ![p] = NoCall]
    /\ held' = held \cup pointers

-----------------------------------------------------------------------------
(* _sys_mem_module_init and _sys_mem_module_exit, which sys_init and sys_exit *)
(* call while no other thread is there.                                       *)

ModuleInit ==
    /\ phase = "before" /\ Idle
    /\ chain' = <<NewArena(PayloadSize(Capacity))>>
    /\ phase' = "on"
    /\ UNCHANGED <<held, pc, call>>

\* The application has freed what the arenas held.
BeginExit ==
    /\ phase = "on" /\ Idle /\ held \subseteq FromSystem
    /\ phase' = "exiting"
    /\ UNCHANGED <<chain, held, pc, call>>

\* sys_mem_arena_delete, tail first.
DeleteTail ==
    /\ phase = "exiting"
    /\ chain' = Front(chain)
    /\ phase' = IF Len(chain) = 1 THEN "off" ELSE phase
    /\ UNCHANGED <<held, pc, call>>

-----------------------------------------------------------------------------
(* The calls, and the system's allocator beneath them without a chain. *)

Taken == Cardinality(held) + Cardinality({p \in Threads : pc[p] # "idle"})

Begin(p, op, want, old) ==
    /\ pc[p] = "idle" /\ phase = "on"
    /\ Goto(p, "tail")
    /\ call' = [call EXCEPT ![p] = [NoCall EXCEPT !.op = op, !.want = want, !.old = old, !.at = 1]]
    /\ held' = held \ {old}
    /\ UNCHANGED <<chain, phase>>

\* sys_calloc asks for a product, unless it is zero or overflows.
Malloc(p) == Taken < MaxLive /\ \E size \in Sizes : Begin(p, "alloc", size, NoPointer)
ReallocCall(p) == \E old \in held, size \in Sizes : Begin(p, "realloc", size, old)
FreeCall(p) == \E old \in held : Begin(p, "free", 0, old)

SystemMalloc(p) ==
    /\ pc[p] = "idle" /\ phase \in {"before", "off"} /\ Taken < MaxLive
    /\ \E f \in FromSystem \ held : held' = held \cup {f}
    /\ UNCHANGED <<chain, phase, pc, call>>

SystemFree(p) ==
    /\ pc[p] = "idle" /\ phase \in {"before", "off"}
    /\ \E f \in held : held' = held \ {f}
    /\ UNCHANGED <<chain, phase, pc, call>>

-----------------------------------------------------------------------------
(* _sys_mem_default_tail *)

\* Where a call goes on from the tail.
Searching(p) == call[p].op # "alloc" /\ call[p].owner = 0

\* The walk ends at what is the last arena when it looks at it.
Walk(p) ==
    /\ pc[p] = "tail"
    /\ call' = [call EXCEPT ![p].at = Len(chain), ![p].tail = Len(chain)]
    /\ Goto(p, IF Searching(p) THEN "search" ELSE "try")
    /\ UNCHANGED <<chain, phase, held>>

-----------------------------------------------------------------------------
(* _sys_mem_default_alloc *)

\* An arena with room: a realloc copies to it, and frees the old allocation.
Allocated(p, i) ==
    \E k \in FirstFit(chain[i], call[p].want) :
        LET new == Pointer(i, PtrBehind(chain[i], k), call[p].want) IN
        /\ SetArena(i, Alloc(chain[i], k, call[p].want))
        /\ IF call[p].op = "alloc"
             THEN Return(p, {new})
             ELSE Goto(p, "freeOld") /\ call' = [call EXCEPT ![p].new = new] /\ UNCHANGED held
        /\ UNCHANGED phase

\* From the tail to the head; prev of an arena never changes.
Try(p) ==
    /\ pc[p] = "try"
    /\ LET i == call[p].at IN
         \/ Allocated(p, i)
         \/ /\ Room(chain[i], call[p].want) = {}
            /\ IF i > 1 THEN call' = [call EXCEPT ![p].at = i - 1] /\ UNCHANGED pc
                        ELSE Goto(p, "grow") /\ UNCHANGED call
            /\ UNCHANGED <<chain, phase, held>>

Larger(m, n) == IF m >= n THEN m ELSE n

\* _sys_mem_default_growth_size
GrowthSize(previous, required) ==
    LET slack == Larger(required \div 2, MinSlack) IN
    IF required <= previous THEN previous
    ELSE IF required > SizeMax - slack THEN required ELSE required + slack

\* sys_mem_arena_init with prev: only behind the tail, and if there is memory.
Grow(p) ==
    /\ pc[p] = "grow"
    /\ LET size == GrowthSize(chain[call[p].tail].size, call[p].want) IN
         \/ /\ call[p].tail = Len(chain) /\ RegionFits(size) /\ Len(chain) < MaxArenas
            /\ chain' = Append(chain, NewArena(PayloadSize(size)))
            /\ Goto(p, "new")
            /\ UNCHANGED call
         \/ /\ call[p].tail = Len(chain)
            /\ Goto(p, "check")
            /\ call' = [call EXCEPT ![p].refused = TRUE]
            /\ UNCHANGED chain
         \/ /\ call[p].tail < Len(chain)
            /\ Goto(p, "check")
            /\ UNCHANGED <<chain, call>>
    /\ UNCHANGED <<phase, held>>

Again(p) ==
    Goto(p, "tail") /\ call' = [call EXCEPT ![p].at = 1, ![p].refused = FALSE] /\ UNCHANGED held

\* Out of memory: the old allocation, if any, stays with the application.
Fail(p) == Return(p, {call[p].old} \ {NoPointer})

\* Mutant: who loses a race for the tail gives up.
CheckNothing(p) ==
    /\ pc[p] = "check"
    /\ Fail(p)
    /\ UNCHANGED <<chain, phase>>

\* Mutant: who was refused a region asks again.
CheckAgain(p) ==
    /\ pc[p] = "check"
    /\ Again(p)
    /\ UNCHANGED <<chain, phase>>

\* "Either another thread already appended past tail or the underlying allocator
\* is genuinely out of memory."
Check(p) ==
    /\ pc[p] = "check"
    /\ IF call[p].tail = Len(chain) THEN Fail(p) ELSE Again(p)
    /\ UNCHANGED <<chain, phase>>

\* Others may have been faster to fill the new arena.
TryNew(p) ==
    /\ pc[p] = "new"
    /\ LET i == call[p].tail + 1 IN
         \/ Allocated(p, i)
         \/ Room(chain[i], call[p].want) = {} /\ Again(p) /\ UNCHANGED <<chain, phase>>

-----------------------------------------------------------------------------
(* sys_realloc and sys_free, from the search for the owner on. *)

Owns(i, pointer) == pointer.arena = i /\ At(chain[i], pointer.ptr) # {}

\* Mutant: only the newest arena is asked.
SearchTail(p) ==
    /\ pc[p] = "search"
    /\ IF Owns(call[p].tail, call[p].old)
         THEN call' = [call EXCEPT ![p].owner = call[p].tail] /\ Goto(p, call[p].op)
         ELSE Goto(p, "system") /\ UNCHANGED call
    /\ UNCHANGED <<chain, phase, held>>

\* _sys_mem_default_owner, from the tail to the head; what no arena owns is the
\* system's.  The looks at other arenas than the owner make no difference.
Search(p) ==
    /\ pc[p] = "search"
    /\ \/ \E i \in 1..call[p].tail :
            /\ Owns(i, call[p].old)
            /\ call' = [call EXCEPT ![p].owner = i]
            /\ Goto(p, call[p].op)
       \/ /\ \A i \in 1..call[p].tail : ~Owns(i, call[p].old)
          /\ Goto(p, "system")
          /\ UNCHANGED call
    /\ UNCHANGED <<chain, phase, held>>

\* free or realloc of the system, which may fail.
System(p) ==
    /\ pc[p] = "system"
    /\ Return(p, IF call[p].op = "free" THEN {} ELSE {call[p].old})
    /\ UNCHANGED <<chain, phase>>

\* The owner still has the allocation: nobody else may free it.
FreeOwned(p) ==
    /\ pc[p] \in {"free", "freeOld"}
    /\ LET o == call[p].owner IN
         \E i \in At(chain[o], call[p].old.ptr) : SetArena(o, Unlink(chain[o], i - 1, i))
    /\ Return(p, {call[p].new} \ {NoPointer})
    /\ UNCHANGED phase

ReallocOwned(p) ==
    /\ pc[p] = "realloc"
    /\ LET o == call[p].owner
           size == call[p].want
           places == At(chain[o], call[p].old.ptr)
       IN  \/ \E i \in places : \E r \in Realloc(chain[o], i, size) :
                /\ SetArena(o, r.arena)
                /\ Return(p, {Pointer(o, r.ptr, size)})
           \/ /\ \A i \in places : ~Resizable(chain[o], i, size) /\ Room(chain[o], size) = {}
              /\ Again(p)
              /\ UNCHANGED chain
    /\ UNCHANGED phase

-----------------------------------------------------------------------------

Calling(p) == Malloc(p) \/ ReallocCall(p) \/ FreeCall(p) \/ SystemMalloc(p) \/ SystemFree(p)

Going(p) ==
    \/ Walk(p) \/ Try(p) \/ Grow(p) \/ Check(p) \/ TryNew(p)
    \/ Search(p) \/ System(p) \/ FreeOwned(p) \/ ReallocOwned(p)

Next == ModuleInit \/ BeginExit \/ DeleteTail \/ \E p \in Threads : Calling(p) \/ Going(p)

Spec == Init /\ [][Next]_vars

\* A call goes on; nobody has to make one.
FairSpec == Spec /\ \A p \in Threads : WF_vars(Going(p))

-----------------------------------------------------------------------------
(* Properties. *)

\* The allocations the application has, or a call is about, in an arena.
Live ==
    (held \cup {call[p].old : p \in Threads} \cup {call[p].new : p \in Threads})
        \ (FromSystem \cup {NoPointer})

InArena(i) == {Pointer(i, b.ptr, b.size) : b \in Range(chain[i].blocks)}

\* "Another worker's allocation must have overlapped ours": no two allocations
\* overlap, nor does a header lie in one, in any arena at any time.
NoOverlap == \A i \in DOMAIN chain : Tiled(chain[i])

Total(blocks) ==
    LET sum[n \in 0..Len(blocks)] == IF n = 0 THEN 0 ELSE sum[n - 1] + blocks[n].size
    IN  sum[Len(blocks)]

\* The lists hold exactly what the application has: nothing it was given has been
\* dropped from them, and nothing it gave back takes up space; the stats agree.
Accounted ==
    /\ Live = UNION {InArena(i) : i \in DOMAIN chain}
    /\ \A i \in DOMAIN chain :
         /\ chain[i].allocations = Len(chain[i].blocks)
         /\ chain[i].used = Total(chain[i].blocks)

\* "Falling back to the system allocator only for a pointer the default arena
\* doesn't own": nothing that lives in an arena is given to free() or realloc().
SystemGetsItsOwn == \A p \in Threads : pc[p] = "system" => call[p].old \in FromSystem

\* A call fails only if the underlying allocator has just refused a region, and
\* never because another thread was faster to append one.
FailsOnlyWithoutMemory ==
    [][\A p \in Threads : pc[p] = "check" /\ pc'[p] = "idle" => call[p].refused]_vars

\* Every call returns, however the threads compete for what is appended.
CallsReturn == \A p \in Threads : pc[p] # "idle" ~> pc[p] = "idle"

\* "Allocation size that triggered growth": the arena appended for a request is
\* large enough for it.
GrowthSuffices ==
    \A p \in Threads : pc[p] = "new" =>
        Room(NewArena(chain[call[p].tail + 1].size), call[p].want) # {}
=============================================================================
