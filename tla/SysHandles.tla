----------------------------- MODULE SysHandles -----------------------------
(***************************************************************************)
(* The handles sys gives out from fixed pools: mutexes on a host            *)
(* (sys/pthread/mutex.c) and on the Pico (sys/pico/mutex.c), the pool of    *)
(* condition variables (sys/pthread/cond.c), threads on a host              *)
(* (sys/pthread/thread.c), the worker of core 1 (sys/pico/thread.c), and    *)
(* hashes (sys/openssl/hash.c, sys/pico/hash.c).                            *)
(* Each pool has its own lock (the Pico's one critical section), so a claim *)
(* or a release is one step; a handle is tested before it is used, outside  *)
(* that lock, but for a host's hashes, whose every call holds it to its end. *)
(* The pthread, pico-sdk and crypto libraries are external.  Hashes share   *)
(* nothing with the others, so a behaviour has either.                      *)
(***************************************************************************)
EXTENDS Integers, Sequences, FiniteSets

CONSTANTS
  Threads,     \* threads, or cores, that use mutexes or hashes
  Platforms,   \* "host", "pico"; for hashes "openssl", "mbedtls"
  Slots,       \* capacity of the pool of mutexes
  Jobs,        \* functions given to new threads
  ThreadSlots, \* capacity of the pool of threads on a host
  HashSlots,   \* SYS_HASH_CAPACITY
  Chunk,       \* bytes an update reads at a time
  MaxBytes,    \* bytes the stream of an update has
  Sizes,       \* how many an update asks for; 0 for all
  MaxUpdates,  \* updates, in all
  Disciplined  \* TRUE: a mutex is given back once nobody is about to take it, on the Pico once
               \* nobody holds it; it is taken and given up by one thread in turn, and so is a
               \* hash on the Pico

VARIABLES
  platform,
  mutex,    \* slot -> its record
  next,     \* where the search of the pool begins
  at,       \* thread -> the call it is in, and its slot
  knows,    \* thread -> the handles it made or was given and has not given back
  slots,    \* host: the slots of the thread pool
  job,      \* job -> where it stands
  fifo,     \* pico: what core 1 has not yet taken
  core1,    \* pico: whether the worker was started, the busy flag, and the job it runs
  hash,     \* slot -> its record: its bytes are those of the updates they were read by
  hashLock, \* openssl: whose update holds the lock of the pool
  updates   \* the updates made so far: slot, result, and the bytes they should have added

vars == <<platform, mutex, next, at, knows, slots, job, fifo, core1, hash, hashLock, updates>>
hashes == <<hash, hashLock, updates>>
mutexes == <<mutex, next, at, knows>>
threads == <<slots, job, fifo, core1, hashes>>

NoThread == "none"
NoJob    == "none"
Unused   == [init |-> FALSE, owner |-> NoThread]
Idle     == [op |-> "none", slot |-> 0]
NoSlot   == [in |-> FALSE, job |-> NoJob]
NoDigest == <<-1>>
Cleared  == <<0>>
NoHash   == [init |-> FALSE, live |-> FALSE, fed |-> <<>>, digest |-> Cleared, told |-> NoDigest]
Init ==
  /\ platform \in Platforms
  /\ mutex = [s \in 0 .. Slots - 1 |-> Unused] /\ next = 0
  /\ at = [t \in Threads |-> Idle] /\ knows = [t \in Threads |-> {}]
  /\ slots = [s \in 1 .. ThreadSlots |-> NoSlot] /\ job = [j \in Jobs |-> "none"]
  /\ fifo = <<>> /\ core1 = [started |-> FALSE, busy |-> FALSE, job |-> NoJob]
  /\ hash = [s \in 0 .. HashSlots - 1 |-> NoHash] /\ hashLock = NoThread /\ updates = <<>>

\* The search goes round from where the last one ended.
FirstOf(pool, capacity) ==
  {(next + k) % capacity : k \in {k \in 0 .. capacity - 1 :
     ~pool[(next + k) % capacity].init /\ \A l \in 0 .. k - 1 : pool[(next + l) % capacity].init}}
FirstFree == FirstOf(mutex, Slots)
MutexInit(t) ==
  /\ at[t] = Idle /\ platform \in {"host", "pico"}
  /\ \E s \in FirstFree :
       \/ /\ mutex' = [mutex EXCEPT ![s] = [init |-> TRUE, owner |-> NoThread]]
          /\ next' = (s + 1) % Slots
          /\ knows' = [u \in Threads |-> knows[u] \cup {s}]      \* a mutex is made to be shared
       \/ UNCHANGED <<mutex, next, knows>>                      \* the attributes or the mutex could not be set up
  /\ UNCHANGED <<at, threads, platform>>

\* A host's pthread mutex cannot be destroyed while it is held; the Pico's is
\* only marked free.
Held(s)      == mutex[s].owner # NoThread
\* A bug the checks must see: a slot is freed whatever it is doing.
Frees(s)     == TRUE
CanFree(s)   == platform = "pico" \/ ~Held(s)
MutexDeinit(t) ==
  /\ at[t] = Idle /\ platform \in {"host", "pico"}
  /\ \E s \in knows[t] :
       /\ Disciplined => (platform = "host" \/ ~Held(s)) /\ (\A u \in Threads : at[u].slot # s \/ at[u].op = "none")
       /\ IF mutex[s].init /\ CanFree(s)
          THEN mutex' = [mutex EXCEPT ![s].init = FALSE] ELSE mutex' = mutex
       /\ knows' = [u \in Threads |-> knows[u] \ {s}]
  /\ UNCHANGED <<next, at, threads, platform>>

\* Lock, try and unlock test the handle first and use it then.
Begin(t, op) ==
  /\ at[t] = Idle /\ platform \in {"host", "pico"}
  /\ \E s \in knows[t] :
       /\ mutex[s].init
       /\ Disciplined => IF op = "unlock" THEN mutex[s].owner = t ELSE mutex[s].owner # t
       /\ at' = [at EXCEPT ![t] = [op |-> op, slot |-> s]]
  /\ UNCHANGED <<mutex, next, knows, threads, platform>>
Done(t) == at' = [at EXCEPT ![t] = Idle] /\ UNCHANGED <<next, knows, threads, platform>>
Lock(t) ==
  /\ at[t].op = "lock"
  /\ LET s == at[t].slot IN
     \/ mutex[s].owner = NoThread /\ mutex' = [mutex EXCEPT ![s].owner = t]
     \* an error-checking mutex refuses the thread that holds it; the Pico's blocks
     \/ mutex[s].owner = t /\ platform = "host" /\ mutex' = mutex
  /\ Done(t)
TryLock(t) ==
  /\ at[t].op = "trylock"
  /\ LET s == at[t].slot IN mutex' = IF Held(s) THEN mutex ELSE [mutex EXCEPT ![s].owner = t]
  /\ Done(t)
Unlock(t) ==
  /\ at[t].op = "unlock"
  /\ LET s == at[t].slot IN
     mutex' = IF mutex[s].owner = t \/ platform = "pico" THEN [mutex EXCEPT ![s].owner = NoThread] ELSE mutex
  /\ Done(t)

----------------------------------------------------------------------------
\* A host thread: a slot carries the function to the wrapper, which frees it
\* at the end; pthread_create may fail.
Create(j) ==
  /\ platform = "host" /\ job[j] = "none"
  /\ \E s \in DOMAIN slots :
       /\ ~slots[s].in
       /\ \/ slots' = [slots EXCEPT ![s] = [in |-> TRUE, job |-> j]] /\ job' = [job EXCEPT ![j] = "made"]
          \/ UNCHANGED <<slots, job>>
  /\ UNCHANGED <<fifo, core1, mutexes, hashes, platform>>
Runs(s) ==
  /\ slots[s].in /\ job[slots[s].job] = "made" /\ job' = [job EXCEPT ![slots[s].job] = "running"]
  /\ UNCHANGED <<slots, fifo, core1, mutexes, hashes, platform>>
Release(s) ==
  /\ slots[s].in /\ job[slots[s].job] = "running"
  /\ job' = [job EXCEPT ![slots[s].job] = "ended"] /\ slots' = [slots EXCEPT ![s] = NoSlot]
  /\ UNCHANGED <<fifo, core1, mutexes, hashes, platform>>
\* On the Pico core 0 gives core 1 a function and its argument through the
\* FIFO, one at a time; the first call starts the worker.
Idle1 == ~core1.busy
CreateOnCore1(j) ==
  /\ platform = "pico" /\ job[j] = "none" /\ Idle1
  /\ core1' = [core1 EXCEPT !.started = TRUE, !.busy = TRUE]
  /\ fifo' = fifo \o <<<<"func", j>>, <<"arg", j>>>> /\ job' = [job EXCEPT ![j] = "made"]
  /\ UNCHANGED <<slots, mutexes, hashes, platform>>
Core1Takes ==
  /\ core1.started /\ core1.job = NoJob /\ Len(fifo) >= 2
  /\ job' = [job EXCEPT ![fifo[1][2]] = "running"] /\ core1' = [core1 EXCEPT !.job = fifo[1][2]]
  /\ fifo' = SubSeq(fifo, 3, Len(fifo)) /\ UNCHANGED <<slots, mutexes, hashes, platform>>
Core1Returns ==
  /\ core1.job # NoJob
  /\ job' = [job EXCEPT ![core1.job] = "ended"] /\ core1' = [core1 EXCEPT !.job = NoJob, !.busy = FALSE]
  /\ UNCHANGED <<slots, fifo, mutexes, hashes, platform>>

----------------------------------------------------------------------------
\* Hashes.  What changes a hash goes one call at a time: by the lock, or by
\* its users.
Shared == <<mutex, slots, job, fifo, core1, platform>>
Free(t, s) ==
  /\ at[t] = Idle
  /\ platform = "openssl" => hashLock = NoThread
  /\ platform = "mbedtls" /\ Disciplined => \A u \in Threads : at[u] # Idle => at[u].slot # s
HashInit(t) ==
  /\ platform \in {"openssl", "mbedtls"}
  /\ \E s \in FirstOf(hash, HashSlots) :
       /\ Free(t, s)
       /\ \/ /\ hash' = [hash EXCEPT ![s] = [init |-> TRUE, live |-> TRUE, fed |-> <<>>, digest |-> Cleared, told |-> NoDigest]]
             /\ next' = (s + 1) % HashSlots
             /\ knows' = [u \in Threads |-> knows[u] \cup {s}]
          \/ UNCHANGED <<hash, next, knows>>                   \* the library has no context to give
  /\ UNCHANGED <<at, hashLock, updates, Shared>>
\* A handle is not used once it is given back.
HashDeinit(t) ==
  /\ platform \in {"openssl", "mbedtls"}
  /\ \E s \in knows[t] :
       /\ Free(t, s)
       /\ hash' = [hash EXCEPT ![s] = IF @.init THEN NoHash ELSE @]
       /\ knows' = [u \in Threads |-> knows[u] \ {s}]
       /\ updates' = [i \in DOMAIN updates |-> IF updates[i].slot = s THEN [updates[i] EXCEPT !.ok = FALSE] ELSE updates[i]]
  /\ UNCHANGED <<next, at, hashLock, Shared>>

\* An update reads and adds bytes a chunk at a time, from a stream that may
\* have fewer than it is asked for and gives some of them at each read.
\* Bugs the checks must see: a finished hash is updated, and an update lets go of the lock.
Made(s)      == hash[s].init
LetsGo(t)    == hashLock' = hashLock
Live(s)      == hash[s].init /\ hash[s].live
TakesLock(t) == hashLock' = IF platform = "openssl" THEN t ELSE NoThread
UpdateBegins(t) ==
  /\ platform \in {"openssl", "mbedtls"} /\ Len(updates) < MaxUpdates
  /\ \E s \in knows[t], size \in Sizes, has \in 0 .. MaxBytes :
       /\ Free(t, s) /\ Live(s)
       /\ updates' = Append(updates, [slot |-> s, ok |-> FALSE, bytes |-> IF size = 0 THEN has ELSE size])
       /\ at' = [at EXCEPT ![t] = [op |-> "update", slot |-> s, all |-> size = 0, left |-> size, has |-> has,
                                  id |-> Len(updates) + 1]]
  /\ TakesLock(t) /\ UNCHANGED <<next, knows, hash, Shared>>
UpdateEnds(t, ok) ==
  /\ updates' = [updates EXCEPT ![at[t].id].ok = ok]
  /\ at' = [at EXCEPT ![t] = Idle] /\ hashLock' = NoThread
UpdateReads(t) ==
  /\ at[t].op = "update"
  /\ LET c    == at[t]
         want == IF c.all \/ c.left > Chunk THEN Chunk ELSE c.left
     IN  \/ want = 0 /\ UpdateEnds(t, TRUE) /\ hash' = hash
         \/ want > 0 /\ c.has = 0 /\ UpdateEnds(t, c.all) /\ hash' = hash
         \/ \E got \in 1 .. want :
              /\ got <= c.has
              /\ \/ UpdateEnds(t, FALSE) /\ hash' = hash          \* the library refuses them
                 \/ /\ hash' = [hash EXCEPT ![c.slot].fed = @ \o [k \in 1 .. got |-> c.id]]
                    /\ at' = [at EXCEPT ![t].has = @ - got, ![t].left = IF c.all THEN 0 ELSE @ - got]
                    /\ UNCHANGED <<updates, hashLock>>
  /\ UNCHANGED <<next, knows, Shared>>

\* The digest is kept, and returned again; that of a failure is zeros.
Finalize(t) ==
  /\ platform \in {"openssl", "mbedtls"}
  /\ \E s \in knows[t] :
       /\ Free(t, s) /\ hash[s].init
       /\ IF hash[s].live
          THEN \/ hash' = [hash EXCEPT ![s].live = FALSE, ![s].digest = hash[s].fed, ![s].told = hash[s].fed]
               \/ hash' = [hash EXCEPT ![s].live = FALSE, ![s].digest = Cleared]
          ELSE hash' = [hash EXCEPT ![s].told = hash[s].digest]
  /\ UNCHANGED <<next, at, knows, hashLock, updates, Shared>>

Next ==
  \/ \E t \in Threads :
       \/ HashInit(t) \/ HashDeinit(t) \/ UpdateBegins(t) \/ UpdateReads(t) \/ Finalize(t)
  \/ \E t \in Threads :
       \/ MutexInit(t) \/ MutexDeinit(t) \/ Lock(t) \/ TryLock(t) \/ Unlock(t)
       \/ \E op \in {"lock", "trylock", "unlock"} : Begin(t, op)
  \/ \E j \in Jobs : Create(j) \/ CreateOnCore1(j)
  \/ \E s \in DOMAIN slots : Runs(s) \/ Release(s)
  \/ Core1Takes \/ Core1Returns

Spec == Init /\ [][Next]_vars

------------------------------------------------------------------------------
(* A mutex that is held or being taken is not given out again under another   *)
(* name, a job given to a thread or to core 1 is never lost, and core 1 has   *)
(* no more than one of them.  A hash is of the bytes of its updates, whole    *)
(* ones of those that succeed, one after the other whoever makes them, and    *)
(* the digest returned is of all that was added and stays what it is.         *)
HandlesSound ==
  /\ \A s \in DOMAIN mutex : Held(s) => mutex[s].init
  /\ \A t \in Threads : at[t].op \in {"lock", "trylock", "unlock"} =>
       mutex[at[t].slot].init /\ at[t].slot \in knows[t]
  /\ \A j \in Jobs : job[j] \in {"made", "running"} =>
       IF platform = "host" THEN \E s \in DOMAIN slots : slots[s].in /\ slots[s].job = j
       ELSE core1.busy /\ (core1.job = j \/ (fifo # <<>> /\ fifo[1][2] = j))
  /\ \A s \in DOMAIN hash :
       LET fed == hash[s].fed
           Of(i) == {k \in DOMAIN fed : fed[k] = i}
       IN  /\ \A j, k, l \in DOMAIN fed : j < k /\ k < l /\ fed[j] = fed[l] => fed[k] = fed[j]
           /\ \A i \in DOMAIN updates :
                updates[i].slot = s /\ updates[i].ok => Cardinality(Of(i)) = updates[i].bytes
           /\ hash[s].told # NoDigest => hash[s].told = hash[s].digest /\ hash[s].digest \in {fed, Cleared}
  /\ \A t \in Threads : at[t].op = "update" => Live(at[t].slot)

------------------------------------------------------------------------------
(* The inductive invariant. *)
Hashes  == platform \in {"openssl", "mbedtls"}
Names   == 0 .. (IF Hashes THEN HashSlots ELSE Slots) - 1
Calls   == [op : {"none", "lock", "trylock", "unlock"}, slot : 0 .. Slots - 1]
Updates == [op : {"update"}, slot : 0 .. HashSlots - 1, all : BOOLEAN, left : Nat, has : Nat, id : Nat \ {0}]
Given(j) == <<<<"func", j>>, <<"arg", j>>>>
MutexTypes ==
  /\ platform \in {"host", "pico", "openssl", "mbedtls"} /\ next \in Nat
  /\ mutex \in [0 .. Slots - 1 -> [init : BOOLEAN, owner : Threads \cup {NoThread}]]
  /\ at \in [Threads -> IF Hashes THEN Updates \cup {Idle} ELSE Calls]
  /\ knows \in [Threads -> SUBSET Names]
JobTypes ==
  /\ slots \in [1 .. ThreadSlots -> [in : BOOLEAN, job : Jobs \cup {NoJob}]]
  /\ job \in [Jobs -> {"none", "made", "running", "ended"}]
  /\ fifo \in {<<>>} \cup {Given(j) : j \in Jobs}
  /\ core1 \in [started : BOOLEAN, busy : BOOLEAN, job : Jobs \cup {NoJob}]
HashTypes ==
  /\ hash \in [0 .. HashSlots - 1 -> [init : BOOLEAN, live : BOOLEAN, fed : Seq(Nat), digest : Seq(Int), told : Seq(Int)]]
  /\ hashLock \in Threads \cup {NoThread}
  /\ updates \in Seq([slot : 0 .. HashSlots - 1, ok : BOOLEAN, bytes : Nat])

\* A behaviour has mutexes and threads, or hashes.
PartsInv ==
  IF Hashes THEN (\A s \in DOMAIN mutex : ~Held(s)) /\ \A j \in Jobs : job[j] = "none"
  ELSE (\A s \in DOMAIN hash : hash[s] = NoHash) /\ updates = <<>>

MutexInv ==
  /\ \A s \in DOMAIN mutex : Held(s) => mutex[s].init
  /\ \A t \in Threads : at[t].op \in {"lock", "trylock", "unlock"} => mutex[at[t].slot].init /\ at[t].slot \in knows[t]

\* A slot in use has its job, and core 1 one job at most, in the FIFO or its own.
JobsInv ==
  /\ \A s \in DOMAIN slots : slots[s].in => slots[s].job \in Jobs /\ platform = "host"
  /\ core1.busy => platform = "pico"
  /\ ~core1.busy => core1.job = NoJob /\ fifo = <<>>
  /\ core1.job = NoJob \/ fifo = <<>>
  /\ \A j \in Jobs : job[j] \in {"made", "running"} =>
       IF platform = "host" THEN \E s \in DOMAIN slots : slots[s].in /\ slots[s].job = j
       ELSE core1.busy /\ (core1.job = j \/ fifo = Given(j))

\* One update at a time adds to a hash, and it is the last that began: the
\* bytes are in the order of their updates.
Bytes(fed, i) == Cardinality({k \in DOMAIN fed : fed[k] = i})
UpdateInv(c, h, all) ==
  /\ h.init /\ h.live /\ c.id \in DOMAIN all /\ all[c.id].slot = c.slot /\ ~all[c.id].ok
  /\ Bytes(h.fed, c.id) + (IF c.all THEN c.has ELSE c.left) = all[c.id].bytes
  /\ \A k \in DOMAIN h.fed : h.fed[k] <= c.id
FedInv(s, h, all) ==
  /\ \A k \in DOMAIN h.fed : h.fed[k] \in DOMAIN all
  /\ \A j, k \in DOMAIN h.fed : j <= k => h.fed[j] <= h.fed[k]
  /\ \A i \in DOMAIN all : all[i].slot = s /\ all[i].ok => h.init /\ Bytes(h.fed, i) = all[i].bytes
UpdatesInv ==
  /\ \A t \in Threads : at[t].op = "update" =>
       /\ UpdateInv(at[t], hash[at[t].slot], updates) /\ (platform = "openssl" => hashLock = t)
       /\ \A u \in Threads : at[u].op = "update" /\ at[u].slot = at[t].slot => u = t
  /\ \A s \in DOMAIN hash : FedInv(s, hash[s], updates)

\* A digest is there once the hash is no longer live, and stays.
DigestInv(h) ==
  /\ h.live \/ ~h.init => h.told = NoDigest
  /\ ~h.init => h.fed = <<>>
  /\ h.told # NoDigest => h.told = h.digest
  /\ h.init /\ ~h.live => h.digest \in {h.fed, Cleared}
DigestsInv == \A s \in DOMAIN hash : DigestInv(hash[s])

IInv == MutexTypes /\ JobTypes /\ HashTypes /\ PartsInv /\ MutexInv /\ JobsInv /\ UpdatesInv /\ DigestsInv
=============================================================================
