------------------------------- MODULE HeapProofs -------------------------------
(***************************************************************************)
(* The safety of module Heap, whatever an application asks for, and        *)
(* whatever the sizes of headers and alignments: no two allocations of an  *)
(* arena overlap (NoOverlap); the lists hold exactly what the application  *)
(* has (Accounted); the system's allocator gets only what is its own       *)
(* (SystemGetsItsOwn); and a call fails only if the system has just        *)
(* refused it a region (FailsOnlyWithoutMemory).                           *)
(*                                                                         *)
(* The arithmetic of one arena comes first, then the steps of the heap,    *)
(* each of which changes one arena by one operation.  What a list adds up  *)
(* to is the end of a recursive function: facts about it for every length  *)
(* follow from the least index at which they would be false.               *)
(***************************************************************************)
EXTENDS Heap, SequenceTheorems, FiniteSetTheorems, WellFoundedInduction, TLAPS

Block == [at : Nat, ptr : Nat, size : Nat \ {0}]
ArenaRecord == [blocks : Seq(Block), size : Nat, used : Int, allocations : Int]

-----------------------------------------------------------------------------
(* One arena. *)

\* Rounding up gives a multiple of the unit that is no smaller.
LEMMA AlignToProperties ==
    ASSUME NEW n \in Nat, NEW unit \in Nat \ {0}
    PROVE  AlignTo(n, unit) \in Nat /\ AlignTo(n, unit) >= n /\ AlignTo(n, unit) % unit = 0
<1> DEFINE q == (n + unit - 1) \div unit
           r == (n + unit - 1) % unit
<1>1. q \in Nat /\ r \in 0..(unit - 1) /\ n + unit - 1 = unit * q + r
  OBVIOUS
<1>2. AlignTo(n, unit) = q * unit
  BY DEF AlignTo
<1> HIDE DEF q, r
<1>3. q * unit \in Nat /\ q * unit = unit * q /\ (q * unit) % unit = 0
  BY SMTT(30), <1>1
<1> QED BY <1>1, <1>2, <1>3

\* The same of _sys_mem_arena_align_up.
LEMMA AlignUpProperties ==
    ASSUME NEW n \in Nat
    PROVE  AlignUp(n) \in Nat /\ AlignUp(n) >= n /\ AlignUp(n) % Align = 0
BY AlignToProperties, LayoutAssumption DEF AlignUp

\* A stretch of a list.
LEMMA Stretch ==
    ASSUME NEW s \in Seq(Block), NEW m \in 1..(Len(s) + 1), NEW n \in (m - 1)..Len(s)
    PROVE  /\ SubSeq(s, m, n) \in Seq(Block) /\ Len(SubSeq(s, m, n)) = n - m + 1
           /\ \A j \in 1..(n - m + 1) : SubSeq(s, m, n)[j] = s[m + j - 1]
<1>1. \A j \in m..n : s[j] \in Block
  BY ElementOfSeq
<1>2. m \in Int /\ n \in Int
  OBVIOUS
<1> QED BY <1>1, <1>2, SubSeqProperties

\* Two lists one after the other.
LEMMA Joined ==
    ASSUME NEW s \in Seq(Block), NEW t \in Seq(Block)
    PROVE  /\ s \o t \in Seq(Block) /\ Len(s \o t) = Len(s) + Len(t)
           /\ \A j \in Int : 1 <= j /\ j <= Len(s) => (s \o t)[j] = s[j]
           /\ \A j \in Int : Len(s) < j /\ j <= Len(s) + Len(t) => (s \o t)[j] = t[j - Len(s)]
BY ConcatProperties

\* The blocks of the list with one more behind the k-th.
LEMMA Inserted ==
    ASSUME NEW s \in Seq(Block), NEW k \in 0..Len(s), NEW b \in Block
    PROVE  /\ InsertAt(s, k + 1, b) \in Seq(Block)
           /\ Len(InsertAt(s, k + 1, b)) = Len(s) + 1
           /\ \A j \in 1..k : InsertAt(s, k + 1, b)[j] = s[j]
           /\ InsertAt(s, k + 1, b)[k + 1] = b
           /\ \A j \in (k + 1)..Len(s) : InsertAt(s, k + 1, b)[j + 1] = s[j]
<1> DEFINE front == SubSeq(s, 1, (k + 1) - 1)
           back == SubSeq(s, k + 1, Len(s))
           head == front \o <<b>>
<1>0. Len(s) \in Nat /\ k + 1 \in Nat /\ Len(s) - k \in Nat
  OBVIOUS
<1>1. front \in Seq(Block) /\ Len(front) = k /\ \A j \in 1..k : front[j] = s[j]
  <2>1. /\ SubSeq(s, 1, k) \in Seq(Block) /\ Len(SubSeq(s, 1, k)) = k - 1 + 1
        /\ \A j \in 1..(k - 1 + 1) : SubSeq(s, 1, k)[j] = s[1 + j - 1]
    BY <1>0, Stretch
  <2>2. (k + 1) - 1 = k
    OBVIOUS
  <2> QED BY <2>1, <2>2
<1>2. /\ back \in Seq(Block) /\ Len(back) = Len(s) - k
      /\ \A j \in 1..(Len(s) - k) : back[j] = s[k + j]
  <2>1. k + 1 \in 1..(Len(s) + 1) /\ Len(s) \in (k + 1 - 1)..Len(s)
    BY <1>0
  <2>2. /\ back \in Seq(Block) /\ Len(back) = Len(s) - (k + 1) + 1
        /\ \A j \in 1..(Len(s) - (k + 1) + 1) : back[j] = s[k + 1 + j - 1]
    BY <2>1, Stretch
  <2> HIDE DEF back
  <2> QED BY SMTT(30), <1>0, <2>2
<1>3. <<b>> \in Seq(Block) /\ Len(<<b>>) = 1 /\ <<b>>[1] = b
  OBVIOUS
<1>4. InsertAt(s, k + 1, b) = head \o back
  BY DEF InsertAt
<1> HIDE DEF front, back
<1>5. /\ head \in Seq(Block) /\ Len(head) = k + 1
      /\ \A j \in 1..(k + 1) : head[j] = IF j <= k THEN s[j] ELSE b
  BY <1>1, <1>3, Joined
<1> HIDE DEF head
<1>6. /\ head \o back \in Seq(Block) /\ Len(head \o back) = Len(head) + Len(back)
      /\ \A j \in Int : 1 <= j /\ j <= Len(head) => (head \o back)[j] = head[j]
      /\ \A j \in Int : Len(head) < j /\ j <= Len(head) + Len(back) =>
           (head \o back)[j] = back[j - Len(head)]
  BY <1>2, <1>5, Joined
<1>7. Len(head \o back) = Len(s) + 1
  BY <1>0, <1>2, <1>5, <1>6
<1>8. ASSUME NEW j \in 1..k
      PROVE  (head \o back)[j] = s[j]
  <2>1. (head \o back)[j] = head[j]
    BY <1>5, <1>6
  <2> QED BY <1>5, <2>1
<1>9. (head \o back)[k + 1] = b
  BY <1>5, <1>6
<1>10. ASSUME NEW j \in (k + 1)..Len(s)
       PROVE  (head \o back)[j + 1] = s[j]
  <2>1. j - k \in 1..(Len(s) - k) /\ k + (j - k) = j /\ (j + 1) - (k + 1) = j - k
    BY <1>0
  <2>2. j + 1 \in Int /\ Len(head) < j + 1 /\ j + 1 <= Len(head) + Len(back)
    BY <1>0, <1>2, <1>5
  <2>4. (head \o back)[j + 1] = back[(j + 1) - (k + 1)]
    BY <1>5, <1>6, <2>2
  <2>3. back[j - k] = s[k + (j - k)]
    BY <1>2, <2>1
  <2> QED BY <2>1, <2>3, <2>4
<1> QED BY <1>4, <1>6, <1>7, <1>8, <1>9, <1>10

\* The blocks of the list without the i-th.
Without(s, i) == SubSeq(s, 1, i - 1) \o SubSeq(s, i + 1, Len(s))

\* Where the other blocks are in it.
LEMMA Removed ==
    ASSUME NEW s \in Seq(Block), NEW i \in 1..Len(s)
    PROVE  /\ Without(s, i) \in Seq(Block) /\ Len(Without(s, i)) = Len(s) - 1
           /\ \A j \in 1..(i - 1) : Without(s, i)[j] = s[j]
           /\ \A j \in i..(Len(s) - 1) : Without(s, i)[j] = s[j + 1]
<1> DEFINE front == SubSeq(s, 1, i - 1)
           back == SubSeq(s, i + 1, Len(s))
<1>0. Len(s) \in Nat /\ i - 1 \in Nat /\ Len(s) - i \in Nat
  OBVIOUS
<1>1. front \in Seq(Block) /\ Len(front) = i - 1 /\ \A j \in 1..(i - 1) : front[j] = s[j]
  <2>1. i - 1 \in (1 - 1)..Len(s)
    BY <1>0
  <2>2. /\ front \in Seq(Block) /\ Len(front) = i - 1 - 1 + 1
        /\ \A j \in 1..(i - 1 - 1 + 1) : front[j] = s[1 + j - 1]
    BY <1>0, <2>1, Stretch
  <2> HIDE DEF front
  <2> QED BY <1>0, <2>2
<1>2. /\ back \in Seq(Block) /\ Len(back) = Len(s) - i
      /\ \A j \in 1..(Len(s) - i) : back[j] = s[i + j]
  <2>1. i + 1 \in 1..(Len(s) + 1) /\ Len(s) \in (i + 1 - 1)..Len(s)
    BY <1>0
  <2>2. /\ back \in Seq(Block) /\ Len(back) = Len(s) - (i + 1) + 1
        /\ \A j \in 1..(Len(s) - (i + 1) + 1) : back[j] = s[i + 1 + j - 1]
    BY <2>1, Stretch
  <2> HIDE DEF back
  <2> QED BY <1>0, <2>2
<1>3. Without(s, i) = front \o back
  BY DEF Without
<1> HIDE DEF front, back
<1>4. /\ front \o back \in Seq(Block) /\ Len(front \o back) = Len(front) + Len(back)
      /\ \A j \in Int : 1 <= j /\ j <= Len(front) => (front \o back)[j] = front[j]
      /\ \A j \in Int : Len(front) < j /\ j <= Len(front) + Len(back) =>
           (front \o back)[j] = back[j - Len(front)]
  BY <1>1, <1>2, Joined
<1>5. Len(front \o back) = Len(s) - 1
  BY <1>0, <1>1, <1>2, <1>4
<1>6. ASSUME NEW j \in 1..(i - 1)
      PROVE  (front \o back)[j] = s[j]
  <2>1. (front \o back)[j] = front[j]
    BY <1>1, <1>4
  <2> QED BY <1>1, <2>1
<1>7. ASSUME NEW j \in i..(Len(s) - 1)
      PROVE  (front \o back)[j] = s[j + 1]
  <2>1. j - (i - 1) \in 1..(Len(s) - i) /\ i + (j - (i - 1)) = j + 1
    BY <1>0
  <2>2. (front \o back)[j] = back[j - (i - 1)]
    BY <1>0, <1>1, <1>2, <1>4
  <2>3. back[j - (i - 1)] = s[i + (j - (i - 1))]
    BY <1>2, <2>1
  <2> QED BY <2>1, <2>2, <2>3
<1> QED BY <1>3, <1>4, <1>5, <1>6, <1>7

\* What holds of an arena between two calls.
GoodArena(a) == a \in ArenaRecord /\ Tiled(a)

\* A region as _sys_mem_arena_create_region leaves it.
LEMMA NewArenaGood ==
    ASSUME NEW n \in Nat
    PROVE  GoodArena(NewArena(n))
BY EmptySeq DEF GoodArena, ArenaRecord, NewArena, Tiled

\* A block that is put where there is room keeps clear of its neighbours.
LEMMA AllocGood ==
    ASSUME NEW a, GoodArena(a), NEW size \in Nat \ {0}, NEW k \in Room(a, size)
    PROVE  GoodArena(Alloc(a, k, size))
<1> DEFINE s == a.blocks
           b == [at |-> HeaderBehind(a, k), ptr |-> PtrBehind(a, k), size |-> size]
           t == InsertAt(s, k + 1, b)
           c == Alloc(a, k, size)
           from == IF k = 0 THEN 0 ELSE EndOf(s[k])
<1>1. a \in ArenaRecord /\ s \in Seq(Block) /\ Len(s) \in Nat /\ k \in 0..Len(s)
  BY DEF GoodArena, ArenaRecord, Room
<1>2. \A j \in 1..Len(s) : s[j] \in Block
  BY <1>1, ElementOfSeq
<1>3. from \in Nat
  BY SMTT(30), <1>1, <1>2 DEF EndOf, Block
<1>4. /\ b.at \in Nat /\ b.at >= from /\ b.at % Align = 0
      /\ b.ptr \in Nat /\ b.ptr >= b.at + HeaderSize /\ b.ptr % Align = 0
  <2>1. b.at = AlignUp(from) /\ b.ptr = AlignUp(b.at + HeaderSize)
    BY DEF HeaderBehind, PtrBehind
  <2>2. b.at \in Nat /\ b.at >= from /\ b.at % Align = 0
    BY <1>3, <2>1, AlignUpProperties
  <2>3. b.at + HeaderSize \in Nat
    BY <2>2, LayoutAssumption
  <2> HIDE DEF b
  <2> QED BY <2>1, <2>2, <2>3, AlignUpProperties
<1>5. b \in Block /\ b.size = size
  BY <1>4 DEF Block
<1>6. b.ptr + size <= LimitBehind(a, k)
  BY DEF Room
<1>7. /\ t \in Seq(Block) /\ Len(t) = Len(s) + 1
      /\ \A j \in 1..k : t[j] = s[j]
      /\ t[k + 1] = b
      /\ \A j \in (k + 1)..Len(s) : t[j + 1] = s[j]
  <2>1. s \in Seq(Block) /\ k \in 0..Len(s) /\ b \in Block
    BY <1>1, <1>5
  <2> HIDE DEF b, s
  <2> QED BY ZenonT(40), <2>1, Inserted
<1>8. c \in ArenaRecord /\ c.blocks = t /\ c.size = a.size
  <2>1. c = [a EXCEPT !.blocks = t, !.used = a.used + size, !.allocations = a.allocations + 1]
    BY DEF Alloc
  <2>2. a.used + size \in Int /\ a.allocations + 1 \in Int
    BY <1>1 DEF ArenaRecord
  <2>3. t \in Seq(Block)
    BY <1>7
  <2> HIDE DEF c, t
  <2> QED BY <1>1, <2>1, <2>2, <2>3 DEF ArenaRecord
<1> HIDE DEF b, t, c, from
<1>9. ASSUME NEW j \in 1..Len(t)
      PROVE  /\ t[j].at % Align = 0 /\ t[j].ptr % Align = 0
             /\ t[j].at >= (IF j = 1 THEN 0 ELSE EndOf(t[j - 1]))
             /\ t[j].at + HeaderSize <= t[j].ptr /\ t[j].size > 0
             /\ EndOf(t[j]) <= LimitBehind(c, j)
  <2> DEFINE limit == IF j = Len(s) + 1 THEN a.size ELSE t[j + 1].at
  <2>1. LimitBehind(c, j) = limit
    BY <1>7, <1>8 DEF LimitBehind
  <2>2. Tiled(a) /\ DOMAIN s = 1..Len(s)
    BY <1>1 DEF GoodArena
  <2>3. ASSUME NEW i \in 1..Len(s)
        PROVE  /\ s[i].at % Align = 0 /\ s[i].ptr % Align = 0
               /\ s[i].at >= (IF i = 1 THEN 0 ELSE EndOf(s[i - 1]))
               /\ s[i].at + HeaderSize <= s[i].ptr /\ s[i].size > 0
               /\ EndOf(s[i]) <= (IF i = Len(s) THEN a.size ELSE s[i + 1].at)
    BY <2>2 DEF Tiled, LimitBehind
  <2>4. CASE j < k
    <3>0. j \in 1..k /\ j + 1 \in 1..k /\ (j # 1 => j - 1 \in 1..k) /\ j # Len(s) /\ j \in 1..Len(s)
      BY <1>1, <1>7, <2>4
    <3>1. t[j] = s[j] /\ t[j + 1] = s[j + 1] /\ (j # 1 => t[j - 1] = s[j - 1])
      BY <1>7, <3>0
    <3>2. limit = s[j + 1].at
      BY <1>1, <2>4, <3>0, <3>1
    <3> HIDE DEF s, limit
    <3> QED BY <2>1, <2>3, <3>0, <3>1, <3>2
  <2>5. CASE j = k
    <3>0. k \in 1..k /\ k \in 1..Len(s) /\ (k # 1 => k - 1 \in 1..k)
      BY <1>1, <1>7, <2>5
    <3>1. k \in 1..Len(s) /\ t[j] = s[k] /\ t[j + 1] = b /\ (j # 1 => t[j - 1] = s[k - 1])
      BY <1>7, <2>5, <3>0
    <3>2. EndOf(s[k]) <= b.at
      BY <1>1, <1>4, <2>5, <3>1 DEF from
    <3> QED BY <1>1, <2>1, <2>3, <2>5, <3>1, <3>2
  <2>6. CASE j = k + 1
    <3>1. t[j] = b /\ (j # 1 => t[j - 1] = s[k])
      BY <1>1, <1>7, <2>6
    <3>2. k # Len(s) => t[j + 1] = s[k + 1]
      BY <1>1, <1>7, <2>6
    <3>3. limit = LimitBehind(a, k)
      BY <1>1, <2>6, <3>2 DEF LimitBehind
    <3>4. EndOf(b) <= limit
      BY <1>5, <1>6, <3>3 DEF EndOf
    <3>5. b.at >= (IF j = 1 THEN 0 ELSE EndOf(t[j - 1]))
      BY <1>1, <1>4, <2>6, <3>1 DEF from
    <3> QED BY <1>4, <1>5, <2>1, <3>1, <3>4, <3>5
  <2>7. CASE j > k + 1
    <3> DEFINE i == j - 1
    <3>1. i \in (k + 1)..Len(s) /\ i \in 1..Len(s) /\ j = i + 1
      BY <1>1, <1>7, <2>7
    <3> HIDE DEF i
    <3>2. t[j] = s[i]
      BY <1>7, <3>1
    <3>3. i # Len(s) => t[j + 1] = s[i + 1]
      <4>1. i # Len(s) => i + 1 \in (k + 1)..Len(s) /\ j + 1 = (i + 1) + 1
        BY <1>1, <3>1
      <4> QED BY <1>7, <4>1
    <3>4. limit = IF i = Len(s) THEN a.size ELSE s[i + 1].at
      BY <1>1, <3>1, <3>3
    <3>5. CASE i = k + 1
      <4>1. t[j - 1] = b /\ j # 1
        BY <1>1, <1>7, <3>1, <3>5
      <4>2. EndOf(b) <= s[i].at
        BY <1>1, <1>5, <1>6, <3>1, <3>5 DEF LimitBehind, EndOf
      <4> QED BY <2>1, <2>3, <3>1, <3>2, <3>4, <4>1, <4>2
    <3>6. CASE i # k + 1
      <4>1. i - 1 \in (k + 1)..Len(s) /\ j - 1 = (i - 1) + 1 /\ i # 1 /\ j # 1
        BY <1>1, <3>1, <3>6
      <4>2. t[j - 1] = s[i - 1]
        BY <1>7, <4>1
      <4> QED BY <2>1, <2>3, <3>1, <3>2, <3>4, <4>1, <4>2
    <3> QED BY <3>5, <3>6
  <2> QED BY <1>1, <1>7, <2>4, <2>5, <2>6, <2>7
<1>10. DOMAIN c.blocks = 1..Len(t)
  BY <1>7, <1>8
<1>11. Tiled(c)
  BY <1>8, <1>9, <1>10 DEF Tiled
<1> QED BY <1>8, <1>11 DEF GoodArena, c

\* A block ends no earlier than its header starts.
LEMMA BlockEnds ==
    ASSUME NEW b \in Block
    PROVE  /\ b.at \in Nat /\ b.ptr \in Nat /\ b.size \in Nat /\ EndOf(b) \in Nat
           /\ b.at + HeaderSize <= b.ptr => b.at <= EndOf(b)
<1>1. b.at \in Nat /\ b.ptr \in Nat /\ b.size \in Nat
  BY DEF Block
<1>2. HeaderSize \in Nat
  BY LayoutAssumption
<1> QED BY <1>1, <1>2 DEF EndOf

\* What is left when a block goes follows what was before it.
LEMMA UnlinkGood ==
    ASSUME NEW a, GoodArena(a), NEW i \in 1..Len(a.blocks)
    PROVE  GoodArena(Unlink(a, i - 1, i))
<1> DEFINE s == a.blocks
           t == Without(s, i)
           c == Unlink(a, i - 1, i)
<1>1. a \in ArenaRecord /\ s \in Seq(Block) /\ Len(s) \in Nat /\ i \in 1..Len(s)
  BY DEF GoodArena, ArenaRecord
<1>2. \A j \in 1..Len(s) : s[j] \in Block
  BY <1>1, ElementOfSeq
<1>3. /\ t \in Seq(Block) /\ Len(t) = Len(s) - 1
      /\ \A j \in 1..(i - 1) : t[j] = s[j]
      /\ \A j \in i..(Len(s) - 1) : t[j] = s[j + 1]
  <2> HIDE DEF s
  <2> QED BY <1>1, Removed
<1>4. c \in ArenaRecord /\ c.blocks = t /\ c.size = a.size
  <2>1. c = [a EXCEPT !.blocks = t, !.used = a.used - s[i].size, !.allocations = a.allocations - 1]
    BY DEF Unlink, Without
  <2>2. a.used - s[i].size \in Int /\ a.allocations - 1 \in Int
    <3>1. s[i].size \in Nat
      BY <1>1, <1>2, BlockEnds
    <3>2. a.used \in Int /\ a.allocations \in Int
      BY <1>1 DEF ArenaRecord
    <3> HIDE DEF s
    <3> QED BY <3>1, <3>2
  <2>3. t \in Seq(Block)
    BY <1>3
  <2> HIDE DEF c, t
  <2> QED BY <1>1, <2>1, <2>2, <2>3 DEF ArenaRecord
<1>5. ASSUME NEW j \in 1..Len(s)
      PROVE  /\ s[j].at % Align = 0 /\ s[j].ptr % Align = 0
             /\ s[j].at >= (IF j = 1 THEN 0 ELSE EndOf(s[j - 1]))
             /\ s[j].at + HeaderSize <= s[j].ptr /\ s[j].size > 0
             /\ EndOf(s[j]) <= (IF j = Len(s) THEN a.size ELSE s[j + 1].at)
  BY <1>1 DEF GoodArena, Tiled, LimitBehind
<1> HIDE DEF t, c
<1>6. ASSUME NEW j \in 1..Len(t)
      PROVE  /\ t[j].at % Align = 0 /\ t[j].ptr % Align = 0
             /\ t[j].at >= (IF j = 1 THEN 0 ELSE EndOf(t[j - 1]))
             /\ t[j].at + HeaderSize <= t[j].ptr /\ t[j].size > 0
             /\ EndOf(t[j]) <= LimitBehind(c, j)
  <2> DEFINE limit == IF j = Len(s) - 1 THEN a.size ELSE t[j + 1].at
             below == IF j = 1 THEN 0 ELSE EndOf(t[j - 1])
  <2>1. LimitBehind(c, j) = limit
    BY <1>3, <1>4 DEF LimitBehind
  <2>2. CASE j < i - 1
    <3>1. /\ j \in 1..(i - 1) /\ j + 1 \in 1..(i - 1) /\ (j # 1 => j - 1 \in 1..(i - 1))
          /\ j # Len(s) - 1 /\ j # Len(s) /\ j \in 1..Len(s)
      BY <1>1, <1>3, <2>2
    <3>2. t[j] = s[j] /\ t[j + 1] = s[j + 1] /\ (j # 1 => t[j - 1] = s[j - 1])
      BY <1>3, <3>1
    <3>3. limit = s[j + 1].at
      BY <3>1, <3>2
    <3> HIDE DEF s, limit
    <3> QED BY <1>5, <2>1, <3>1, <3>2, <3>3
  <2>3. CASE j = i - 1
    <3>1. /\ j \in 1..(i - 1) /\ (j # 1 => j - 1 \in 1..(i - 1)) /\ i = j + 1
          /\ j \in 1..Len(s) /\ j + 1 \in 1..Len(s)
          /\ (j # Len(s) - 1 => j + 1 \in i..(Len(s) - 1)) /\ j # Len(s)
      BY <1>1, <1>3, <2>3
    <3>2. t[j] = s[j] /\ (j # 1 => t[j - 1] = s[j - 1])
      BY <1>3, <3>1
    <3>3. limit = IF j + 1 = Len(s) THEN a.size ELSE s[(j + 1) + 1].at
      BY <1>1, <1>3, <3>1
    <3>4. EndOf(s[j]) <= s[j + 1].at /\ s[j + 1].at <= EndOf(s[j + 1]) /\ EndOf(s[j + 1]) <= limit
      <4>1. s[j + 1] \in Block /\ s[j] \in Block
        BY <1>2, <3>1
      <4>2. EndOf(s[j]) <= s[j + 1].at
        BY <1>5, <3>1
      <4>3. EndOf(s[j + 1]) <= limit
        BY <1>5, <3>1, <3>3
      <4>4. s[j + 1].at + HeaderSize <= s[j + 1].ptr
        BY <1>5, <3>1
      <4>5. s[j + 1].at <= EndOf(s[j + 1])
        BY <4>1, <4>4, BlockEnds
      <4> QED BY <4>2, <4>3, <4>5
    <3>5. EndOf(s[j]) \in Int /\ s[j + 1].at \in Int /\ EndOf(s[j + 1]) \in Int /\ limit \in Int
      <4>1. s[j + 1] \in Block /\ s[j] \in Block /\ (j + 1 # Len(s) => s[(j + 1) + 1] \in Block)
        BY <1>1, <1>2, <3>1
      <4>2. EndOf(s[j]) \in Int /\ s[j + 1].at \in Int /\ EndOf(s[j + 1]) \in Int
        BY <4>1, BlockEnds
      <4>3. a.size \in Int
        BY <1>1 DEF ArenaRecord
      <4>4. j + 1 # Len(s) => s[(j + 1) + 1].at \in Int
        BY <4>1, BlockEnds
      <4> HIDE DEF s, limit
      <4> QED BY <3>3, <4>2, <4>3, <4>4
    <3>6. EndOf(t[j]) <= limit
      BY <3>2, <3>4, <3>5
    <3> HIDE DEF s, limit
    <3> QED BY <1>5, <2>1, <3>1, <3>2, <3>6
  <2>4. CASE j > i - 1
    <3> DEFINE m == j + 1
    <3>1. /\ j \in i..(Len(s) - 1) /\ m \in 1..Len(s) /\ m # 1 /\ j = m - 1
          /\ (m # Len(s) => j + 1 \in i..(Len(s) - 1))
      BY <1>1, <1>3, <2>4
    <3>2. t[j] = s[m] /\ limit = IF m = Len(s) THEN a.size ELSE s[m + 1].at
      <4>1. t[j] = s[j + 1]
        BY <1>3, <3>1
      <4>2. m # Len(s) => t[j + 1] = s[(j + 1) + 1]
        BY <1>3, <3>1
      <4>3. j = Len(s) - 1 <=> m = Len(s)
        BY <1>1, <3>1
      <4> HIDE DEF s
      <4> QED BY <4>1, <4>2, <4>3
    <3>3. EndOf(s[m - 1]) <= s[m].at
      BY <1>5, <3>1
    <3>4. below <= s[m].at
      <4>1. CASE j = 1
        BY <1>2, <3>1, <4>1 DEF Block
      <4>2. CASE j # 1 /\ j # i
        <5>1. j - 1 \in i..(Len(s) - 1) /\ (j - 1) + 1 = m - 1
          BY <1>1, <3>1, <4>2
        <5>2. t[j - 1] = s[(j - 1) + 1]
          BY <1>3, <5>1
        <5> QED BY <3>3, <4>2, <5>1, <5>2
      <4>3. CASE j # 1 /\ j = i
        <5>1. j - 1 \in 1..(i - 1) /\ i \in 1..Len(s) /\ m - 1 = i /\ i # 1 /\ i - 1 \in 1..Len(s)
          BY <1>1, <3>1, <4>3
        <5>2. t[j - 1] = s[i - 1]
          BY <1>3, <4>3, <5>1
        <5>3. EndOf(s[i - 1]) <= s[i].at /\ s[i].at + HeaderSize <= s[i].ptr /\ EndOf(s[i]) <= s[m].at
          BY <1>5, <3>3, <5>1
        <5>4. s[i - 1] \in Block /\ s[i] \in Block /\ s[m] \in Block
          BY <1>2, <3>1, <5>1
        <5>6. s[i].at <= EndOf(s[i]) /\ s[i].at \in Nat /\ EndOf(s[i]) \in Nat
          BY <5>3, <5>4, BlockEnds
        <5>7. EndOf(s[i - 1]) \in Nat /\ s[m].at \in Nat
          BY <5>4, BlockEnds
        <5> HIDE DEF s, m
        <5>5. EndOf(s[i - 1]) <= s[m].at
          BY <5>3, <5>6, <5>7
        <5> QED BY <4>3, <5>2, <5>5
      <4> QED BY <4>1, <4>2, <4>3
    <3>5. below \in Int /\ s[m].at \in Int
      <4>1. j # 1 => t[j - 1] \in Block
        BY <1>3, ElementOfSeq
      <4>2. s[m] \in Block
        BY <1>2, <3>1
      <4> QED BY <4>1, <4>2 DEF Block, EndOf
    <3> HIDE DEF s, m, limit, below
    <3>6. t[j].at >= below
      BY <3>2, <3>4, <3>5
    <3> QED BY <1>5, <2>1, <3>1, <3>2, <3>6 DEF below
  <2> QED BY <1>1, <1>3, <2>2, <2>3, <2>4
<1>7. DOMAIN c.blocks = 1..Len(t)
  BY <1>3, <1>4
<1>8. Tiled(c)
  BY <1>4, <1>6, <1>7 DEF Tiled
<1> QED BY <1>4, <1>8 DEF GoodArena, c

\* A block that shrinks, or grows as far as the next one, keeps clear of it.
LEMMA ResizeGood ==
    ASSUME NEW a, GoodArena(a), NEW i \in 1..Len(a.blocks), NEW size \in Nat \ {0},
           Resizable(a, i, size)
    PROVE  GoodArena(Resize(a, i, size))
<1> DEFINE s == a.blocks
           b == [s[i] EXCEPT !.size = size]
           t == [s EXCEPT ![i] = b]
           c == Resize(a, i, size)
<1>1. a \in ArenaRecord /\ s \in Seq(Block) /\ Len(s) \in Nat /\ i \in 1..Len(s)
  BY DEF GoodArena, ArenaRecord
<1>2. \A j \in 1..Len(s) : s[j] \in Block
  BY <1>1, ElementOfSeq
<1>3. b \in Block /\ b.at = s[i].at /\ b.ptr = s[i].ptr /\ b.size = size
  BY <1>1, <1>2 DEF Block
<1>4. /\ t \in Seq(Block) /\ Len(t) = Len(s) /\ t[i] = b
      /\ \A j \in 1..Len(s) : j # i => t[j] = s[j]
  <2> HIDE DEF s, b
  <2> QED BY <1>1, <1>3
<1>5. c \in ArenaRecord /\ c.blocks = t /\ c.size = a.size
  <2>1. c = [a EXCEPT !.blocks = t, !.used = a.used - s[i].size + size]
    BY DEF Resize
  <2>2. a.used - s[i].size + size \in Int
    <3>1. s[i].size \in Nat
      BY <1>1, <1>2, BlockEnds
    <3>2. a.used \in Int
      BY <1>1 DEF ArenaRecord
    <3> HIDE DEF s
    <3> QED BY <3>1, <3>2
  <2>3. t \in Seq(Block)
    BY <1>4
  <2> HIDE DEF c, t
  <2> QED BY <1>1, <2>1, <2>2, <2>3 DEF ArenaRecord
<1>6. ASSUME NEW j \in 1..Len(s)
      PROVE  /\ s[j].at % Align = 0 /\ s[j].ptr % Align = 0
             /\ s[j].at >= (IF j = 1 THEN 0 ELSE EndOf(s[j - 1]))
             /\ s[j].at + HeaderSize <= s[j].ptr /\ s[j].size > 0
             /\ EndOf(s[j]) <= (IF j = Len(s) THEN a.size ELSE s[j + 1].at)
  BY <1>1 DEF GoodArena, Tiled, LimitBehind
<1> DEFINE limit == IF i = Len(s) THEN a.size ELSE s[i + 1].at
<1>7. EndOf(b) <= limit
  <2>1. size <= s[i].size \/ size <= limit - s[i].ptr
    BY DEF Resizable, LimitBehind
  <2>2. EndOf(s[i]) <= limit
    BY <1>1, <1>6
  <2>3. limit \in Nat
    <3>1. a.size \in Nat
      BY <1>1 DEF ArenaRecord
    <3>2. i # Len(s) => s[i + 1].at \in Nat
      BY <1>1, <1>2, BlockEnds
    <3> HIDE DEF s
    <3> QED BY <3>1, <3>2
  <2>4. s[i].ptr \in Nat /\ s[i].size \in Nat
    BY <1>1, <1>2, BlockEnds
  <2>5. EndOf(b) = s[i].ptr + size /\ EndOf(s[i]) = s[i].ptr + s[i].size
    BY <1>3 DEF EndOf
  <2> HIDE DEF limit, b, s
  <2> QED BY <2>1, <2>2, <2>3, <2>4, <2>5
<1> HIDE DEF t, c, b
<1>8. ASSUME NEW j \in 1..Len(t)
      PROVE  /\ t[j].at % Align = 0 /\ t[j].ptr % Align = 0
             /\ t[j].at >= (IF j = 1 THEN 0 ELSE EndOf(t[j - 1]))
             /\ t[j].at + HeaderSize <= t[j].ptr /\ t[j].size > 0
             /\ EndOf(t[j]) <= LimitBehind(c, j)
  <2>0. j \in 1..Len(s) /\ (j # 1 => j - 1 \in 1..Len(s)) /\ (j # Len(s) => j + 1 \in 1..Len(s))
    BY <1>1, <1>4
  <2>1. t[j].at = s[j].at /\ t[j].ptr = s[j].ptr /\ t[j].size > 0
    <3>1. CASE j = i
      BY <1>3, <1>4, <3>1
    <3>2. CASE j # i
      BY <1>4, <1>6, <2>0, <3>2
    <3> QED BY <3>1, <3>2
  <2>2. t[j].at >= (IF j = 1 THEN 0 ELSE EndOf(t[j - 1]))
    <3>1. CASE j = 1
      BY <1>6, <2>0, <2>1, <3>1
    <3>2. CASE j # 1 /\ j - 1 # i
      BY <1>4, <1>6, <2>0, <2>1, <3>2
    <3>3. CASE j # 1 /\ j - 1 = i
      <4>1. t[j - 1] = b
        BY <1>4, <3>3
      <4>2. limit = s[j].at
        BY <1>1, <2>0, <3>3
      <4>3. EndOf(b) \in Nat /\ s[j].at \in Nat
        BY <1>2, <1>3, <2>0, BlockEnds
      <4> HIDE DEF limit, s
      <4> QED BY <1>7, <2>1, <3>3, <4>1, <4>2, <4>3
    <3> QED BY <3>1, <3>2, <3>3
  <2>3. LimitBehind(c, j) = IF j = Len(s) THEN a.size ELSE s[j + 1].at
    <3>1. LimitBehind(c, j) = IF j = Len(s) THEN a.size ELSE t[j + 1].at
      BY <1>4, <1>5 DEF LimitBehind
    <3>2. j # Len(s) => t[j + 1].at = s[j + 1].at
      <4>1. CASE j + 1 = i
        BY <1>3, <1>4, <4>1
      <4>2. CASE j + 1 # i
        BY <1>4, <2>0, <4>2
      <4> QED BY <4>1, <4>2
    <3> HIDE DEF s
    <3> QED BY <3>1, <3>2
  <2>4. EndOf(t[j]) <= LimitBehind(c, j)
    <3>1. CASE j = i
      BY <1>4, <1>7, <2>3, <3>1
    <3>2. CASE j # i
      BY <1>4, <1>6, <2>0, <2>3, <3>2
    <3> QED BY <3>1, <3>2
  <2> QED BY <1>6, <2>0, <2>1, <2>2, <2>4
<1>9. DOMAIN c.blocks = 1..Len(t)
  BY <1>4, <1>5
<1>10. Tiled(c)
  BY <1>5, <1>8, <1>9 DEF Tiled
<1> QED BY <1>5, <1>10 DEF GoodArena, c

\* A realloc within an arena, in its place or by a move, leaves the arena good.
LEMMA ReallocGood ==
    ASSUME NEW a, GoodArena(a), NEW i \in 1..Len(a.blocks), NEW size \in Nat \ {0},
           NEW r \in Realloc(a, i, size)
    PROVE  GoodArena(r.arena)
<1>1. CASE Resizable(a, i, size)
  <2>1. r.arena = Resize(a, i, size)
    BY <1>1 DEF Realloc
  <2> QED BY <1>1, <2>1, ResizeGood
<1>2. CASE ~Resizable(a, i, size)
  <2>1. PICK k \in FirstFit(a, size) : \E b \in Move(a, i, k, size) : r.arena = b
    BY <1>2 DEF Realloc
  <2>2. k \in Room(a, size)
    BY <2>1 DEF FirstFit
  <2> DEFINE b == Alloc(a, k, size)
  <2>3. GoodArena(b)
    BY <2>2, AllocGood
  <2>4. PICK l \in At(b, a.blocks[i].ptr) : r.arena = Unlink(b, l - 1, l)
    BY <2>1 DEF Move
  <2>5. l \in 1..Len(b.blocks)
    BY <2>3 DEF At, GoodArena, ArenaRecord
  <2> HIDE DEF b
  <2> QED BY <2>3, <2>4, <2>5, UnlinkGood
<1> QED BY <1>1, <1>2

\* Where an allocation would go is an address.
LEMMA PlaceBehind ==
    ASSUME NEW a, GoodArena(a), NEW k \in 0..Len(a.blocks)
    PROVE  PtrBehind(a, k) \in Nat
<1> DEFINE from == IF k = 0 THEN 0 ELSE EndOf(a.blocks[k])
<1>1. from \in Nat
  <2>1. a.blocks \in Seq(Block)
    BY DEF GoodArena, ArenaRecord
  <2>2. k # 0 => a.blocks[k] \in Block
    BY <2>1, ElementOfSeq
  <2> QED BY <2>2, BlockEnds
<1>2. HeaderBehind(a, k) = AlignUp(from)
  BY DEF HeaderBehind
<1> HIDE DEF from
<1>3. HeaderBehind(a, k) \in Nat
  BY <1>1, <1>2, AlignUpProperties
<1>4. HeaderBehind(a, k) + HeaderSize \in Nat
  BY <1>3, LayoutAssumption
<1> QED BY <1>4, AlignUpProperties DEF PtrBehind

\* A region that is made for a request has a payload.
LEMMA PayloadIsNat ==
    ASSUME NEW size \in Nat
    PROVE  PayloadSize(size) \in Nat
<1>1. PayloadOffset \in Nat
  BY AlignUpProperties, LayoutAssumption DEF PayloadOffset
<1>2. PayloadOffset + size \in Nat
  BY <1>1
<1>3. /\ AlignTo(PayloadOffset + size, Granule) \in Nat
      /\ AlignTo(PayloadOffset + size, Granule) >= PayloadOffset + size
  BY <1>2, AlignToProperties, LayoutAssumption
<1> QED BY <1>1, <1>3 DEF PayloadSize

-----------------------------------------------------------------------------
(* The chain. *)

GoodChain(s) == s \in Seq(ArenaRecord) /\ \A i \in 1..Len(s) : GoodArena(s[i])

\* A chain of which one arena changes.
LEMMA SetGood ==
    ASSUME NEW s, GoodChain(s), NEW i \in 1..Len(s), NEW a, GoodArena(a)
    PROVE  GoodChain([s EXCEPT ![i] = a]) /\ Len([s EXCEPT ![i] = a]) = Len(s)
<1>1. s \in Seq(ArenaRecord) /\ a \in ArenaRecord
  BY DEF GoodChain, GoodArena
<1>2. /\ [s EXCEPT ![i] = a] \in Seq(ArenaRecord) /\ Len([s EXCEPT ![i] = a]) = Len(s)
      /\ \A j \in 1..Len(s) : [s EXCEPT ![i] = a][j] = IF j = i THEN a ELSE s[j]
  BY <1>1
<1> QED BY <1>2 DEF GoodChain

\* A chain that grows.
LEMMA AppendGood ==
    ASSUME NEW s, GoodChain(s), NEW n \in Nat
    PROVE  GoodChain(Append(s, NewArena(n))) /\ Len(Append(s, NewArena(n))) = Len(s) + 1
<1>1. GoodArena(NewArena(n)) /\ NewArena(n) \in ArenaRecord
  BY NewArenaGood DEF GoodArena
<1>2. s \in Seq(ArenaRecord)
  BY DEF GoodChain
<1> DEFINE a == NewArena(n)
<1> HIDE DEF a
<1>3. /\ Append(s, a) \in Seq(ArenaRecord) /\ Len(Append(s, a)) = Len(s) + 1
      /\ \A j \in 1..(Len(s) + 1) : Append(s, a)[j] = IF j = Len(s) + 1 THEN a ELSE s[j]
  BY <1>1, <1>2 DEF a
<1> QED BY <1>1, <1>3 DEF GoodChain, a

\* A chain without its tail.
LEMMA FrontGood ==
    ASSUME NEW s, GoodChain(s)
    PROVE  GoodChain(Front(s))
<1>1. s \in Seq(ArenaRecord) /\ Len(s) \in Nat
  BY DEF GoodChain
<1>2. \A j \in 1..(Len(s) - 1) : s[j] \in ArenaRecord
  BY <1>1, ElementOfSeq
<1> DEFINE t == SubSeq(s, 1, Len(s) - 1)
<1>3. /\ t \in Seq(ArenaRecord)
      /\ Len(t) = IF 1 <= Len(s) - 1 THEN Len(s) - 1 - 1 + 1 ELSE 0
      /\ \A j \in 1..(Len(s) - 1 - 1 + 1) : t[j] = s[1 + j - 1]
  BY <1>1, <1>2, SubSeqProperties
<1>4. Front(s) = t
  BY DEF Front
<1> HIDE DEF t
<1>5. ASSUME NEW j \in 1..Len(t)
      PROVE  GoodArena(t[j])
  <2>1. j \in 1..(Len(s) - 1) /\ j \in 1..(Len(s) - 1 - 1 + 1) /\ 1 + j - 1 = j /\ j \in 1..Len(s)
    BY <1>1, <1>3
  <2> QED BY <1>3, <2>1 DEF GoodChain
<1> QED BY <1>3, <1>4, <1>5 DEF GoodChain

-----------------------------------------------------------------------------
(* The heap.  Arenas are only appended while a call is under way, so that   *)
(* what a thread has seen of the chain stays true of it.                    *)

Pointers == [arena : Nat, ptr : Nat \cup Foreign, size : Nat]

Calls == [op : {"none", "alloc", "realloc", "free"}, want : Nat, old : Pointers, at : Nat,
          tail : Nat, owner : Nat, refused : BOOLEAN, new : Pointers]

Places == {"idle", "tail", "try", "grow", "check", "new", "search", "system",
           "realloc", "free", "freeOld"}

HeapType ==
    /\ phase \in {"before", "on", "exiting", "off"}
    /\ held \subseteq Pointers
    /\ pc \in [Threads -> Places]
    /\ call \in [Threads -> Calls]

\* What a thread at a place knows there, when the chain has n arenas.
Fits(place, c, n, when) ==
    /\ c.op \in {"alloc", "realloc"} => c.want > 0
    /\ c.owner \in 0..n
    /\ IF place = "idle" THEN c.owner = 0 ELSE when = "on"
    /\ place = "tail" => c.op # "none" /\ (c.op = "free" => c.owner = 0)
    /\ place = "search" => c.op \in {"realloc", "free"}
    /\ place \in {"try", "grow", "check", "new"} =>
         c.op = "alloc" \/ (c.op = "realloc" /\ c.owner > 0)
    /\ place \in {"realloc", "freeOld"} => c.op = "realloc" /\ c.owner > 0
    /\ place = "free" => c.owner > 0
    /\ place \in {"search", "try", "grow", "check", "new"} => c.tail \in 1..n
    /\ place = "try" => c.at \in 1..n
    /\ place = "new" => c.tail < n

HeapInv ==
    /\ HeapType
    /\ GoodChain(chain)
    /\ phase = "on" => Len(chain) > 0
    /\ \A p \in Threads : Fits(pc[p], call[p], Len(chain), phase)

\* A step of one thread that leaves no fewer arenas.
LEMMA ThreadStep ==
    ASSUME HeapInv, NEW p \in Threads, NEW place \in Places, NEW c \in Calls,
           pc' = [pc EXCEPT ![p] = place], call' = [call EXCEPT ![p] = c], phase' = phase,
           GoodChain(chain'), Len(chain') >= Len(chain), held' \subseteq Pointers,
           Fits(place, c, Len(chain'), phase)
    PROVE  HeapInv'
<1>1. HeapType'
  BY DEF HeapInv, HeapType
<1>2. Len(chain) \in Nat /\ Len(chain') \in Nat
  BY DEF HeapInv, GoodChain
<1>3. phase' = "on" => Len(chain') > 0
  BY <1>2 DEF HeapInv
<1>4. ASSUME NEW q \in Threads
      PROVE  Fits(pc[q], call[q], Len(chain), phase)'
  <2>1. CASE q = p
    BY <2>1 DEF HeapInv, HeapType
  <2>2. CASE q # p
    <3>1. pc'[q] = pc[q] /\ call'[q] = call[q] /\ Fits(pc[q], call[q], Len(chain), phase)
      BY <2>2 DEF HeapInv, HeapType
    <3>2. call[q] \in Calls
      BY DEF HeapInv, HeapType
    <3>3. call[q].owner \in Nat /\ call[q].tail \in Nat /\ call[q].at \in Nat
      BY <3>2 DEF Calls
    <3> QED BY <1>2, <3>1, <3>3 DEF Fits
  <2> QED BY <2>1, <2>2
<1> QED BY <1>1, <1>3, <1>4 DEF HeapInv

\* Pointers that are none, or the system's, have the type of a pointer.
LEMMA NoCallTyped ==
    NoPointer \in Pointers /\ FromSystem \subseteq Pointers /\ NoCall \in Calls
<1>1. NoPointer \in Pointers /\ FromSystem \subseteq Pointers
  BY DEF NoPointer, FromSystem, Pointer, Pointers
<1> QED BY <1>1 DEF NoCall, Calls

\* What is known of a thread that is in a call.
LEMMA Known ==
    ASSUME HeapInv, NEW p \in Threads
    PROVE  /\ call[p] \in Calls /\ call[p].old \in Pointers /\ call[p].new \in Pointers
           /\ call[p].want \in Nat /\ Len(chain) \in Nat
           /\ GoodChain(chain) /\ held \subseteq Pointers
           /\ Fits(pc[p], call[p], Len(chain), phase)
<1>1. call[p] \in Calls
  BY DEF HeapInv, HeapType
<1> QED BY <1>1 DEF HeapInv, HeapType, GoodChain, Calls

\* A call that ends, whatever it did to one arena.
LEMMA ReturnStep ==
    ASSUME HeapInv, NEW p \in Threads, NEW X \in SUBSET Pointers, Return(p, X),
           phase' = phase, GoodChain(chain'), Len(chain') >= Len(chain)
    PROVE  HeapInv'
<1>1. pc' = [pc EXCEPT ![p] = "idle"] /\ call' = [call EXCEPT ![p] = NoCall] /\ held' = held \cup X
  BY DEF Return, Goto
<1>2. held' \subseteq Pointers
  BY <1>1, Known
<1>3. Fits("idle", NoCall, Len(chain'), phase)
  BY DEF Fits, NoCall, GoodChain
<1> QED BY <1>1, <1>2, <1>3, NoCallTyped, ThreadStep DEF Places

\* A call that starts over.
LEMMA AgainStep ==
    ASSUME HeapInv, NEW p \in Threads, Again(p), UNCHANGED <<chain, phase>>,
           pc[p] \in {"check", "new", "realloc"}
    PROVE  HeapInv'
<1> DEFINE c == [call[p] EXCEPT !.at = 1, !.refused = FALSE]
<1>1. c \in Calls /\ c.op = call[p].op /\ c.owner = call[p].owner /\ c.want = call[p].want
  BY Known DEF Calls
<1>2. pc' = [pc EXCEPT ![p] = "tail"] /\ call' = [call EXCEPT ![p] = c] /\ held' = held
  BY DEF Again, Goto, HeapInv, HeapType
<1> HIDE DEF c
<1>3. Fits("tail", c, Len(chain'), phase)
  BY <1>1, Known DEF Fits
<1>4. GoodChain(chain') /\ Len(chain') >= Len(chain) /\ held' \subseteq Pointers
  BY <1>2, Known
<1> QED BY <1>1, <1>2, <1>3, <1>4, ThreadStep DEF Places

\* A step that moves a thread and leaves the arenas and the application's pointers.
LEMMA QuietStep ==
    ASSUME HeapInv, NEW p \in Threads, NEW place \in Places, NEW c \in Calls,
           Goto(p, place), call' = [call EXCEPT ![p] = c], UNCHANGED <<chain, phase, held>>,
           Fits(place, c, Len(chain), phase)
    PROVE  HeapInv'
<1>1. GoodChain(chain') /\ Len(chain') >= Len(chain) /\ held' \subseteq Pointers
  BY Known
<1> QED BY <1>1, ThreadStep DEF Goto

\* An allocation in an arena of the chain.
LEMMA AllocatedStep ==
    ASSUME HeapInv, NEW p \in Threads, NEW i \in 1..Len(chain), Allocated(p, i),
           pc[p] \in {"try", "new"}
    PROVE  HeapInv'
<1> DEFINE want == call[p].want
<1>1. want \in Nat \ {0}
  BY Known DEF Fits
<1>2. GoodArena(chain[i])
  BY Known DEF GoodChain
<1>3. PICK k \in FirstFit(chain[i], want) :
        LET new == Pointer(i, PtrBehind(chain[i], k), want) IN
        /\ SetArena(i, Alloc(chain[i], k, want))
        /\ IF call[p].op = "alloc"
             THEN Return(p, {new})
             ELSE Goto(p, "freeOld") /\ call' = [call EXCEPT ![p].new = new] /\ UNCHANGED held
        /\ UNCHANGED phase
  BY DEF Allocated
<1>4. k \in Room(chain[i], want) /\ k \in 0..Len(chain[i].blocks)
  BY DEF FirstFit, Room
<1> DEFINE new == Pointer(i, PtrBehind(chain[i], k), want)
<1>5. new \in Pointers
  <2>1. PtrBehind(chain[i], k) \in Nat
    BY <1>2, <1>4, PlaceBehind
  <2>2. i \in Nat
    BY Known
  <2> QED BY <1>1, <2>1, <2>2 DEF Pointer, Pointers
<1>6. GoodChain(chain') /\ Len(chain') = Len(chain) /\ Len(chain') >= Len(chain)
  <2>1. GoodArena(Alloc(chain[i], k, want))
    BY <1>1, <1>2, <1>4, AllocGood
  <2>2. chain' = [chain EXCEPT ![i] = Alloc(chain[i], k, want)]
    BY <1>3 DEF SetArena
  <2>3. GoodChain(chain') /\ Len(chain') = Len(chain)
    <3> DEFINE b == Alloc(chain[i], k, want)
    <3>1. GoodArena(b) /\ GoodChain(chain)
      BY <2>1, Known
    <3> HIDE DEF b
    <3>2. GoodChain([chain EXCEPT ![i] = b]) /\ Len([chain EXCEPT ![i] = b]) = Len(chain)
      BY <3>1, SetGood
    <3> QED BY <2>2, <3>2 DEF b
  <2> QED BY <2>3, Known
<1> HIDE DEF new
<1>7. CASE call[p].op = "alloc"
  <2>1. Return(p, {new}) /\ phase' = phase
    BY <1>3, <1>7 DEF new
  <2>2. {new} \in SUBSET Pointers
    BY <1>5
  <2> QED BY <1>6, <2>1, <2>2, ReturnStep
<1>8. CASE call[p].op # "alloc"
  <2> DEFINE c == [call[p] EXCEPT !.new = new]
  <2>1. /\ Goto(p, "freeOld") /\ call' = [call EXCEPT ![p] = c]
        /\ held' = held /\ phase' = phase
    BY <1>3, <1>8 DEF new, HeapInv, HeapType
  <2>2. c \in Calls /\ c.op = call[p].op /\ c.owner = call[p].owner /\ c.want = call[p].want
    BY <1>5, Known DEF Calls
  <2> HIDE DEF c
  <2>3. Fits("freeOld", c, Len(chain'), phase)
    <3>1. call[p].op = "realloc" /\ call[p].owner > 0
      BY <1>8, Known DEF Fits
    <3> QED BY <1>1, <1>6, <2>2, <3>1, Known DEF Fits
  <2>4. held' \subseteq Pointers
    BY <2>1, Known
  <2> QED BY <1>6, <2>1, <2>2, <2>3, <2>4, ThreadStep DEF Goto, Places
<1> QED BY <1>7, <1>8

\* A call of the heap begins.
LEMMA BeginStep ==
    ASSUME HeapInv, NEW p \in Threads, NEW op \in {"alloc", "realloc", "free"}, NEW want \in Nat,
           NEW old \in Pointers, op # "free" => want > 0, Begin(p, op, want, old)
    PROVE  HeapInv'
<1> DEFINE c == [NoCall EXCEPT !.op = op, !.want = want, !.old = old, !.at = 1]
<1>1. c \in Calls /\ c.op = op /\ c.want = want /\ c.owner = 0
  BY NoCallTyped DEF Calls, NoCall
<1>2. /\ pc' = [pc EXCEPT ![p] = "tail"] /\ call' = [call EXCEPT ![p] = c]
      /\ held' = held \ {old} /\ chain' = chain /\ phase' = phase /\ phase = "on"
  BY DEF Begin, Goto
<1> HIDE DEF c
<1>3. Fits("tail", c, Len(chain'), phase)
  BY <1>1, <1>2, Known DEF Fits
<1>4. GoodChain(chain') /\ Len(chain') >= Len(chain) /\ held' \subseteq Pointers
  BY <1>2, Known
<1> QED BY <1>1, <1>2, <1>3, <1>4, ThreadStep DEF Places

\* Whatever an application calls, of the heap or of the system.
LEMMA CallingStep ==
    ASSUME HeapInv, NEW p \in Threads, Calling(p)
    PROVE  HeapInv'
<1>0. \A size \in Sizes : size \in Nat /\ size > 0
  BY HeapAssumption
<1>1. CASE Malloc(p)
  BY <1>0, <1>1, BeginStep, NoCallTyped DEF Malloc
<1>2. CASE ReallocCall(p)
  BY <1>0, <1>2, BeginStep, Known DEF ReallocCall
<1>3. CASE FreeCall(p)
  BY <1>3, BeginStep, Known DEF FreeCall
<1>4. CASE SystemMalloc(p)
  <2>1. held' \subseteq Pointers /\ UNCHANGED <<chain, phase, pc, call>>
    BY <1>4, Known, NoCallTyped DEF SystemMalloc
  <2> QED BY <2>1 DEF HeapInv, HeapType
<1>5. CASE SystemFree(p)
  <2>1. held' \subseteq Pointers /\ UNCHANGED <<chain, phase, pc, call>>
    BY <1>5, Known DEF SystemFree
  <2> QED BY <2>1 DEF HeapInv, HeapType
<1> QED BY <1>1, <1>2, <1>3, <1>4, <1>5 DEF Calling

\* The walk to the tail.
LEMMA WalkStep ==
    ASSUME HeapInv, NEW p \in Threads, Walk(p)
    PROVE  HeapInv'
<1> DEFINE c == [call[p] EXCEPT !.at = Len(chain), !.tail = Len(chain)]
           place == IF Searching(p) THEN "search" ELSE "try"
<1>1. /\ c \in Calls /\ c.op = call[p].op /\ c.owner = call[p].owner /\ c.want = call[p].want
      /\ c.at = Len(chain) /\ c.tail = Len(chain)
  BY Known DEF Calls
<1>2. Goto(p, place) /\ call' = [call EXCEPT ![p] = c] /\ UNCHANGED <<chain, phase, held>>
  BY DEF Walk, HeapInv, HeapType
<1> HIDE DEF c
<1>3. phase = "on" /\ Len(chain) > 0 /\ pc[p] = "tail" /\ call[p].op # "none"
  BY Known DEF Walk, Fits, HeapInv
<1>4. Fits(place, c, Len(chain), phase)
  <2>1. CASE Searching(p)
    BY <1>1, <1>3, <2>1, Known DEF Fits, Searching, Calls
  <2>2. CASE ~Searching(p)
    BY <1>1, <1>3, <2>2, Known DEF Fits, Searching, Calls
  <2> QED BY <2>1, <2>2
<1>5. place \in Places
  BY DEF Places
<1> HIDE DEF place
<1> QED BY <1>1, <1>2, <1>4, <1>5, QuietStep

\* A look at one arena for room.
LEMMA TryStep ==
    ASSUME HeapInv, NEW p \in Threads, Try(p)
    PROVE  HeapInv'
<1> DEFINE i == call[p].at
<1>1. pc[p] = "try" /\ i \in 1..Len(chain)
  BY Known DEF Try, Fits
<1>2. CASE Allocated(p, i)
  BY <1>1, <1>2, AllocatedStep
<1>3. CASE i > 1 /\ call' = [call EXCEPT ![p].at = i - 1] /\ UNCHANGED <<pc, chain, phase, held>>
  <2> DEFINE c == [call[p] EXCEPT !.at = i - 1]
  <2>1. /\ c \in Calls /\ c.op = call[p].op /\ c.owner = call[p].owner
        /\ c.want = call[p].want /\ c.at = i - 1 /\ c.tail = call[p].tail
    BY <1>1, <1>3, Known DEF Calls
  <2>2. call' = [call EXCEPT ![p] = c] /\ Goto(p, "try")
    BY <1>1, <1>3 DEF Goto, HeapInv, HeapType
  <2> HIDE DEF c
  <2>3. Fits("try", c, Len(chain), phase)
    BY <1>1, <1>3, <2>1, Known DEF Fits
  <2> QED BY <1>3, <2>1, <2>2, <2>3, QuietStep DEF Places
<1>4. CASE Goto(p, "grow") /\ UNCHANGED <<call, chain, phase, held>>
  <2>1. call' = [call EXCEPT ![p] = call[p]]
    BY <1>4 DEF HeapInv, HeapType
  <2>2. Fits("grow", call[p], Len(chain), phase)
    BY <1>1, Known DEF Fits
  <2> QED BY <1>4, <2>1, <2>2, Known, QuietStep DEF Places
<1> QED BY <1>2, <1>3, <1>4 DEF Try

\* An arena is appended, or not.
LEMMA GrowStep ==
    ASSUME HeapInv, NEW p \in Threads, Grow(p)
    PROVE  HeapInv'
<1> DEFINE previous == chain[call[p].tail].size
           size == GrowthSize(previous, call[p].want)
<1>1. pc[p] = "grow" /\ call[p].tail \in 1..Len(chain)
  BY Known DEF Grow, Fits
<1>2. call[p].want \in Nat /\ Len(chain) \in Nat /\ held' = held /\ phase' = phase
  BY Known DEF Grow
<1>3. size \in Nat
  <2>1. previous \in Nat
    BY <1>1, Known DEF GoodChain, GoodArena, ArenaRecord
  <2>2. Larger(call[p].want \div 2, MinSlack) \in Nat
    <3>1. call[p].want \div 2 \in Nat
      BY <1>2
    <3> QED BY <3>1, HeapAssumption DEF Larger
  <2> HIDE DEF previous
  <2> QED BY <1>2, <2>1, <2>2 DEF GrowthSize
<1> HIDE DEF size
<1>4. CASE /\ call[p].tail = Len(chain) /\ chain' = Append(chain, NewArena(PayloadSize(size)))
           /\ Goto(p, "new") /\ UNCHANGED call
  <2>1. GoodChain(chain') /\ Len(chain') = Len(chain) + 1
    BY <1>3, <1>4, Known, PayloadIsNat, AppendGood
  <2>2. Fits("new", call[p], Len(chain'), phase)
    BY <1>1, <1>2, <1>4, <2>1, Known DEF Fits
  <2>3. pc' = [pc EXCEPT ![p] = "new"] /\ call' = [call EXCEPT ![p] = call[p]]
    BY <1>4 DEF Goto, HeapInv, HeapType
  <2>4. held' \subseteq Pointers /\ Len(chain') >= Len(chain)
    BY <1>2, <2>1, Known
  <2> QED BY <1>2, <2>1, <2>2, <2>3, <2>4, Known, ThreadStep DEF Places
<1>5. CASE /\ Goto(p, "check") /\ call' = [call EXCEPT ![p].refused = TRUE] /\ UNCHANGED chain
  <2> DEFINE c == [call[p] EXCEPT !.refused = TRUE]
  <2>1. /\ c \in Calls /\ c.op = call[p].op /\ c.owner = call[p].owner
        /\ c.want = call[p].want /\ c.tail = call[p].tail
    BY Known DEF Calls
  <2>2. call' = [call EXCEPT ![p] = c]
    BY <1>5 DEF HeapInv, HeapType
  <2> HIDE DEF c
  <2>3. Fits("check", c, Len(chain), phase)
    BY <1>1, <2>1, Known DEF Fits
  <2> QED BY <1>2, <1>5, <2>1, <2>2, <2>3, QuietStep DEF Places
<1>6. CASE Goto(p, "check") /\ UNCHANGED <<chain, call>>
  <2>1. call' = [call EXCEPT ![p] = call[p]]
    BY <1>6 DEF HeapInv, HeapType
  <2>2. Fits("check", call[p], Len(chain), phase)
    BY <1>1, Known DEF Fits
  <2> QED BY <1>2, <1>6, <2>1, <2>2, Known, QuietStep DEF Places
<1> QED BY <1>4, <1>5, <1>6 DEF Grow, size

\* What follows when none was.
LEMMA CheckStep ==
    ASSUME HeapInv, NEW p \in Threads, Check(p)
    PROVE  HeapInv'
<1>1. CASE Fail(p)
  <2>1. {call[p].old} \ {NoPointer} \in SUBSET Pointers
    BY Known
  <2>2. GoodChain(chain') /\ Len(chain') >= Len(chain) /\ phase' = phase
    BY Known DEF Check
  <2> QED BY <1>1, <2>1, <2>2, ReturnStep DEF Fail
<1>2. CASE Again(p)
  BY <1>2, AgainStep DEF Check
<1> QED BY <1>1, <1>2 DEF Check

\* The look at the arena that was appended.
LEMMA TryNewStep ==
    ASSUME HeapInv, NEW p \in Threads, TryNew(p)
    PROVE  HeapInv'
<1>1. call[p].tail + 1 \in 1..Len(chain) /\ pc[p] = "new"
  BY Known DEF TryNew, Fits
<1>2. CASE Allocated(p, call[p].tail + 1)
  BY <1>1, <1>2, AllocatedStep
<1>3. CASE Again(p) /\ UNCHANGED <<chain, phase>>
  BY <1>1, <1>3, AgainStep
<1> QED BY <1>2, <1>3 DEF TryNew

\* The search for the owner of a pointer.
LEMMA SearchStep ==
    ASSUME HeapInv, NEW p \in Threads, Search(p)
    PROVE  HeapInv'
<1>1. pc[p] = "search" /\ call[p].tail \in 1..Len(chain) /\ call[p].op \in {"realloc", "free"}
  BY Known DEF Search, Fits
<1>2. ASSUME NEW i \in 1..call[p].tail, call' = [call EXCEPT ![p].owner = i],
             Goto(p, call[p].op), UNCHANGED <<chain, phase, held>>
      PROVE  HeapInv'
  <2> DEFINE c == [call[p] EXCEPT !.owner = i]
  <2>1. /\ c \in Calls /\ c.op = call[p].op /\ c.owner = i /\ c.want = call[p].want
        /\ i \in 1..Len(chain)
    BY <1>1, Known DEF Calls
  <2>2. call' = [call EXCEPT ![p] = c]
    BY <1>2 DEF HeapInv, HeapType
  <2> HIDE DEF c
  <2>3. Fits(call[p].op, c, Len(chain), phase)
    BY <1>1, <2>1, Known DEF Fits
  <2>4. call[p].op \in Places
    BY <1>1 DEF Places
  <2> QED BY <1>2, <2>1, <2>2, <2>3, <2>4, QuietStep
<1>3. CASE Goto(p, "system") /\ UNCHANGED <<call, chain, phase, held>>
  <2>1. call' = [call EXCEPT ![p] = call[p]]
    BY <1>3 DEF HeapInv, HeapType
  <2>2. Fits("system", call[p], Len(chain), phase)
    BY <1>1, Known DEF Fits
  <2> QED BY <1>3, <2>1, <2>2, Known, QuietStep DEF Places
<1> QED BY <1>2, <1>3 DEF Search

\* The fallback to the system.
LEMMA SystemStep ==
    ASSUME HeapInv, NEW p \in Threads, System(p)
    PROVE  HeapInv'
<1> DEFINE X == IF call[p].op = "free" THEN {} ELSE {call[p].old}
<1>1. X \in SUBSET Pointers
  BY Known
<1>2. GoodChain(chain') /\ Len(chain') >= Len(chain) /\ phase' = phase
  BY Known DEF System
<1>3. Return(p, X)
  BY DEF System
<1> HIDE DEF X
<1> QED BY <1>1, <1>2, <1>3, ReturnStep

\* An allocation is freed, the old one of a realloc too.
LEMMA FreeOwnedStep ==
    ASSUME HeapInv, NEW p \in Threads, FreeOwned(p)
    PROVE  HeapInv'
<1> DEFINE o == call[p].owner
<1>1. o \in 1..Len(chain)
  BY Known DEF FreeOwned, Fits
<1>2. GoodArena(chain[o])
  BY <1>1, Known DEF GoodChain
<1>3. PICK i \in At(chain[o], call[p].old.ptr) : SetArena(o, Unlink(chain[o], i - 1, i))
  BY DEF FreeOwned
<1>4. GoodChain(chain') /\ Len(chain') = Len(chain)
  <2> DEFINE b == Unlink(chain[o], i - 1, i)
  <2>1. i \in 1..Len(chain[o].blocks)
    BY <1>2 DEF At, GoodArena, ArenaRecord
  <2>2. GoodArena(b) /\ GoodChain(chain)
    BY <1>2, <2>1, Known, UnlinkGood
  <2>3. chain' = [chain EXCEPT ![o] = b]
    BY <1>3 DEF SetArena
  <2> HIDE DEF b, o
  <2> QED BY <1>1, <2>2, <2>3, SetGood
<1>5. {call[p].new} \ {NoPointer} \in SUBSET Pointers
  BY Known
<1>6. Return(p, {call[p].new} \ {NoPointer}) /\ phase' = phase
  BY DEF FreeOwned
<1>7. Len(chain') >= Len(chain)
  BY <1>4, Known
<1> QED BY <1>4, <1>5, <1>6, <1>7, ReturnStep

\* The realloc within the owner.
LEMMA ReallocOwnedStep ==
    ASSUME HeapInv, NEW p \in Threads, ReallocOwned(p)
    PROVE  HeapInv'
<1> DEFINE o == call[p].owner
           size == call[p].want
           places == At(chain[o], call[p].old.ptr)
<1>1. pc[p] = "realloc" /\ o \in 1..Len(chain) /\ size \in Nat \ {0}
  BY Known DEF ReallocOwned, Fits
<1>2. GoodArena(chain[o])
  BY <1>1, Known DEF GoodChain
<1>3. ASSUME NEW i \in places, NEW r \in Realloc(chain[o], i, size), SetArena(o, r.arena),
             Return(p, {Pointer(o, r.ptr, size)}), phase' = phase
      PROVE  HeapInv'
  <2>1. i \in 1..Len(chain[o].blocks)
    BY <1>2 DEF At, GoodArena, ArenaRecord
  <2>2. GoodArena(r.arena)
    BY <1>1, <1>2, <2>1, ReallocGood
  <2>3. r.ptr \in Nat
    <3>1. CASE Resizable(chain[o], i, size)
      <4>1. r.ptr = chain[o].blocks[i].ptr
        BY <3>1 DEF Realloc
      <4>2. chain[o].blocks[i] \in Block
        BY <1>2, <2>1, ElementOfSeq DEF GoodArena, ArenaRecord
      <4> QED BY <4>1, <4>2, BlockEnds
    <3>2. CASE ~Resizable(chain[o], i, size)
      <4>1. PICK k \in FirstFit(chain[o], size) : r.ptr = PtrBehind(chain[o], k)
        BY <3>2 DEF Realloc
      <4>2. k \in 0..Len(chain[o].blocks)
        BY DEF FirstFit, Room
      <4> QED BY <1>2, <4>1, <4>2, PlaceBehind
    <3> QED BY <3>1, <3>2
  <2>4. {Pointer(o, r.ptr, size)} \in SUBSET Pointers
    BY <1>1, <2>3, Known DEF Pointer, Pointers
  <2>5. GoodChain(chain') /\ Len(chain') = Len(chain)
    <3>1. chain' = [chain EXCEPT ![o] = r.arena]
      BY <1>3 DEF SetArena
    <3> QED BY <1>1, <2>2, <3>1, Known, SetGood
  <2>6. Len(chain') >= Len(chain)
    BY <2>5, Known
  <2> QED BY <1>3, <2>4, <2>5, <2>6, ReturnStep
<1>4. CASE Again(p) /\ UNCHANGED <<chain, phase>>
  BY <1>1, <1>4, AgainStep
<1> QED BY <1>3, <1>4 DEF ReallocOwned

-----------------------------------------------------------------------------
(* No overlap. *)

\* sys_init and sys_exit find every thread outside the heap.
LEMMA NobodyCalls ==
    ASSUME HeapInv, phase # "on"
    PROVE  \A p \in Threads : pc[p] = "idle" /\ call[p].owner = 0 /\
             (call[p].op \in {"alloc", "realloc"} => call[p].want > 0)
BY DEF HeapInv, Fits

\* Before sys_init there is no chain.
LEMMA InitGood == Init => HeapInv
<1> SUFFICES ASSUME Init PROVE HeapInv
  OBVIOUS
<1>1. HeapType
  BY NoCallTyped DEF Init, HeapType, Places
<1>2. GoodChain(chain)
  BY EmptySeq DEF Init, GoodChain
<1>3. \A p \in Threads : Fits(pc[p], call[p], Len(chain), phase)
  BY <1>2 DEF Init, Fits, NoCall, GoodChain
<1> QED BY <1>1, <1>2, <1>3 DEF Init, HeapInv

\* sys_init makes a chain, sys_exit takes it apart.
LEMMA LifecycleGood ==
    ASSUME HeapInv, ModuleInit \/ BeginExit \/ DeleteTail
    PROVE  HeapInv'
<1>1. HeapType'
  BY DEF HeapInv, HeapType, ModuleInit, BeginExit, DeleteTail
<1>2. GoodChain(chain') /\ (phase' = "on" => Len(chain') > 0)
  <2>1. CASE ModuleInit
    <3>1. PayloadSize(Capacity) \in Nat
      BY HeapAssumption, PayloadIsNat
    <3>2. GoodChain(<<>>)
      BY EmptySeq DEF GoodChain
    <3>3. chain' = Append(<<>>, NewArena(PayloadSize(Capacity)))
      BY <2>1 DEF ModuleInit
    <3> DEFINE n == PayloadSize(Capacity)
               none == <<>>
    <3> HIDE DEF n, none
    <3>4. GoodChain(Append(none, NewArena(n))) /\ Len(Append(none, NewArena(n))) = Len(none) + 1
      BY <3>1, <3>2, AppendGood DEF n, none
    <3>5. Len(none) = 0
      BY DEF none
    <3>6. chain' = Append(none, NewArena(n))
      BY <3>3 DEF n, none
    <3> QED BY <3>4, <3>5, <3>6
  <2>2. CASE BeginExit
    BY <2>2 DEF BeginExit, HeapInv
  <2>3. CASE DeleteTail
    BY <2>3, FrontGood DEF DeleteTail, HeapInv
  <2> QED BY <2>1, <2>2, <2>3
<1>3. ASSUME NEW p \in Threads
      PROVE  Fits(pc[p], call[p], Len(chain), phase)'
  <2>1. pc'[p] = "idle" /\ pc' = pc /\ call' = call
    <3>1. CASE ModuleInit \/ BeginExit
      BY <3>1 DEF ModuleInit, BeginExit, Idle
    <3>2. CASE DeleteTail
      BY <3>2, NobodyCalls DEF DeleteTail
    <3> QED BY <3>1, <3>2
  <2>2. /\ call[p].owner = 0
        /\ call[p].op \in {"alloc", "realloc"} => call[p].want > 0
    BY <2>1 DEF HeapInv, Fits
  <2>3. Len(chain') \in Nat
    BY <1>2 DEF GoodChain
  <2> QED BY <2>1, <2>2, <2>3 DEF Fits
<1> QED BY <1>1, <1>2, <1>3 DEF HeapInv

\* A thread that is in a call works on an arena that exists, and each arena is good.
THEOREM HeapInvariant == Spec => []HeapInv
<1>1. HeapInv /\ [Next]_vars => HeapInv'
  <2> SUFFICES ASSUME HeapInv, [Next]_vars PROVE HeapInv'
    OBVIOUS
  <2>1. CASE ModuleInit \/ BeginExit \/ DeleteTail
    BY <2>1, LifecycleGood
  <2>2. ASSUME NEW p \in Threads, Calling(p)
        PROVE  HeapInv'
    BY <2>2, CallingStep
  <2>3. ASSUME NEW p \in Threads, Going(p)
        PROVE  HeapInv'
    BY <2>3, WalkStep, TryStep, GrowStep, CheckStep, TryNewStep, SearchStep, SystemStep,
       FreeOwnedStep, ReallocOwnedStep DEF Going
  <2>4. CASE UNCHANGED vars
    BY <2>4 DEF vars, HeapInv, HeapType
  <2> QED BY <2>1, <2>2, <2>3, <2>4 DEF Next
<1> QED BY InitGood, <1>1, PTL DEF Spec

\* sys_malloc, sys_realloc and sys_calloc never hand out memory that overlaps another
\* allocation or the header of one, for any number of threads and any sizes.
THEOREM NoOverlapAlways == Spec => []NoOverlap
<1>1. HeapInv => NoOverlap
  BY DEF HeapInv, GoodChain, GoodArena, NoOverlap
<1> QED BY <1>1, HeapInvariant, PTL

-----------------------------------------------------------------------------
(* Lists in the order of their addresses. *)

\* Among numbers up to n there is a least one.
LEMMA LeastOf ==
    ASSUME NEW n \in Nat, NEW S \in SUBSET (0..n), S # {}
    PROVE  \E m \in S : \A k \in S : m <= k
<1> DEFINE Below(x) == {y \in S : y < x}
           F == {Below(x) : x \in S}
<1>0. S \subseteq Int /\ IsFiniteSet(S)
  <2>1. IsFiniteSet(0..n)
    BY FS_Interval
  <2>2. S \subseteq 0..n
    OBVIOUS
  <2>3. IsFiniteSet(S)
    BY <2>1, <2>2, FS_Subset
  <2> QED BY <2>2, <2>3
<1>1. F \subseteq FiniteSubsetsOf(S)
  <2> SUFFICES ASSUME NEW x \in S PROVE Below(x) \in FiniteSubsetsOf(S)
    OBVIOUS
  <2>1. Below(x) \subseteq S
    OBVIOUS
  <2>2. IsFiniteSet(Below(x))
    BY <1>0, <2>1, FS_Subset
  <2> QED BY <2>1, <2>2 DEF FiniteSubsetsOf
<1>2. F # {}
  <2>1. PICK x : x \in S
    OBVIOUS
  <2> QED BY <2>1
<1>3. PICK U \in F : \A V \in F : ~(<<V, U>> \in StrictSubsetOrdering(S))
  <2> HIDE DEF F
  <2>1. IsWellFoundedOn(StrictSubsetOrdering(S), FiniteSubsetsOf(S))
    BY FS_StrictSubsetOrderingWellFounded
  <2> QED BY <1>1, <1>2, <2>1, WFMin
<1>4. PICK m \in S : U = Below(m)
  BY <1>3
<1>5. \A k \in S : ~(k < m)
  <2> SUFFICES ASSUME NEW k \in S, k < m PROVE FALSE
    OBVIOUS
  <2>0. k \in Int /\ m \in Int
    BY <1>0
  <2>1. Below(k) \subseteq Below(m)
    <3> SUFFICES ASSUME NEW y \in S, y < k PROVE y < m
      OBVIOUS
    <3>1. y \in Int
      BY <1>0
    <3> QED BY <3>1, <2>0
  <2>2. k \in Below(m) /\ k \notin Below(k)
    BY <2>0
  <2>3. Below(k) \in F
    OBVIOUS
  <2>4. Below(k) \in SUBSET S /\ Below(m) \in SUBSET S /\ Below(k) # Below(m)
    BY <2>2
  <2> HIDE DEF Below, F
  <2>5. <<Below(k), Below(m)>> \in StrictSubsetOrdering(S)
    BY <2>1, <2>4 DEF StrictSubsetOrdering
  <2> QED BY <1>3, <1>4, <2>3, <2>5
<1>6. \A k \in S : m <= k
  BY <1>0, <1>5
<1> QED BY <1>6

-----------------------------------------------------------------------------
(* What a list adds up to. *)

\* f adds up the sizes of a list from its head.
Adds(f, s) ==
    /\ f \in [0..Len(s) -> Int] /\ f[0] = 0
    /\ \A n \in 1..Len(s) : f[n] = f[n - 1] + s[n].size

\* There is such a function for every list.
LEMMA AddsExists ==
    ASSUME NEW s \in Seq(Block)
    PROVE  \E f : Adds(f, s)
<1> DEFINE Upto(f, m) == /\ f \in [0..m -> Int] /\ f[0] = 0
                         /\ \A n \in 1..m : f[n] = f[n - 1] + s[n].size
           Missing == {m \in 0..Len(s) : \A f : ~Upto(f, m)}
<1>0. Len(s) \in Nat
  OBVIOUS
<1>1. Missing = {}
  <2> SUFFICES ASSUME Missing # {} PROVE FALSE
    OBVIOUS
  <2>1. Missing \in SUBSET (0..Len(s))
    OBVIOUS
  <2>2. PICK m \in Missing : \A k \in Missing : m <= k
    <3> HIDE DEF Missing
    <3> QED BY <1>0, <2>1, LeastOf
  <2>3. CASE m = 0
    <3>1. Upto([n \in 0..0 |-> 0], 0)
      OBVIOUS
    <3> QED BY <2>3, <3>1
  <2>4. CASE m # 0
    <3>1. m \in 1..Len(s) /\ m - 1 \in 0..Len(s) /\ m \in Nat
      BY <1>0, <2>4
    <3>2. m - 1 \notin Missing
      <4> HIDE DEF Missing
      <4> QED BY <2>2, <3>1
    <3>3. PICK f : Upto(f, m - 1)
      BY <3>1, <3>2
    <3>4. s[m].size \in Int
      <4>1. s[m] \in Block
        BY <3>1, ElementOfSeq
      <4> QED BY <4>1 DEF Block
    <3> DEFINE g == [n \in 0..m |-> IF n = m THEN f[m - 1] + s[m].size ELSE f[n]]
    <3>5. g \in [0..m -> Int]
      <4> SUFFICES ASSUME NEW n \in 0..m PROVE g[n] \in Int
        OBVIOUS
      <4>1. CASE n = m
        BY <3>1, <3>3, <3>4, <4>1
      <4>2. CASE n # m
        BY <3>1, <3>3, <4>2
      <4> QED BY <4>1, <4>2
    <3>6. g[0] = 0
      BY <3>1, <3>3
    <3>7. \A n \in 1..m : g[n] = g[n - 1] + s[n].size
      <4> SUFFICES ASSUME NEW n \in 1..m PROVE g[n] = g[n - 1] + s[n].size
        OBVIOUS
      <4>1. CASE n = m
        BY <3>1, <4>1
      <4>2. CASE n # m
        BY <3>1, <3>3, <4>2
      <4> QED BY <4>1, <4>2
    <3>8. Upto(g, m)
      BY <3>5, <3>6, <3>7
    <3> QED BY <2>2, <3>8
  <2> QED BY <2>3, <2>4
<1>2. Len(s) \notin Missing
  BY <1>1
<1> QED BY <1>0, <1>2 DEF Adds

\* Total is where that function ends.
LEMMA TotalIs ==
    ASSUME NEW s \in Seq(Block), NEW f, Adds(f, s)
    PROVE  Total(s) = f[Len(s)]
<1> DEFINE Eq(g) == g = [n \in 0..Len(s) |-> IF n = 0 THEN 0 ELSE g[n - 1] + s[n].size]
           sum == CHOOSE g : Eq(g)
<1>0. Len(s) \in Nat
  OBVIOUS
<1>1. Eq(f)
  <2> DEFINE h == [n \in 0..Len(s) |-> IF n = 0 THEN 0 ELSE f[n - 1] + s[n].size]
  <2>1. \A n \in 0..Len(s) : f[n] = h[n]
    BY <1>0 DEF Adds
  <2>2. DOMAIN f = 0..Len(s) /\ f = [n \in DOMAIN f |-> f[n]]
    BY DEF Adds
  <2> QED BY <2>1, <2>2
<1>2. Eq(sum)
  BY <1>1
<1>3. Total(s) = sum[Len(s)]
  BY DEF Total
<1> HIDE DEF sum
<1>4. \A n \in 0..Len(s) : sum[n] = IF n = 0 THEN 0 ELSE sum[n - 1] + s[n].size
  BY <1>2
<1>5. sum[0] = 0 /\ \A n \in 1..Len(s) : sum[n] = sum[n - 1] + s[n].size
  BY <1>0, <1>4
<1> DEFINE Off == {n \in 0..Len(s) : f[n] # sum[n]}
<1>6. Off = {}
  <2> SUFFICES ASSUME Off # {} PROVE FALSE
    OBVIOUS
  <2>1. Off \in SUBSET (0..Len(s))
    OBVIOUS
  <2>2. PICK m \in Off : \A k \in Off : m <= k
    <3> HIDE DEF Off
    <3> QED BY <1>0, <2>1, LeastOf
  <2>3. m # 0
    BY <1>5, <2>2 DEF Adds
  <2>4. m \in 1..Len(s) /\ m - 1 \in 0..Len(s) /\ m - 1 \notin Off
    <3>1. m \in 0..Len(s) /\ m \in Int
      OBVIOUS
    <3>2. m \in 1..Len(s) /\ m - 1 \in 0..Len(s)
      BY <1>0, <2>3, <3>1
    <3> HIDE DEF Off
    <3> QED BY <2>2, <3>1, <3>2
  <2>5. f[m - 1] = sum[m - 1]
    BY <2>4
  <2>6. f[m] = sum[m]
    BY <1>5, <2>4, <2>5 DEF Adds
  <2> QED BY <2>6
<1>7. Len(s) \in 0..Len(s)
  BY <1>0
<1> QED BY <1>3, <1>6, <1>7

\* A list of one more block adds up to that much more.
LEMMA TotalInserted ==
    ASSUME NEW s \in Seq(Block), NEW k \in 0..Len(s), NEW b \in Block
    PROVE  Total(InsertAt(s, k + 1, b)) = Total(s) + b.size
<1> DEFINE t == InsertAt(s, k + 1, b)
<1>1. PICK f : Adds(f, s)
  BY AddsExists
<1> DEFINE g == [n \in 0..Len(t) |-> IF n <= k THEN f[n] ELSE f[n - 1] + b.size]
<1>2. /\ t \in Seq(Block) /\ Len(t) = Len(s) + 1
      /\ \A j \in 1..k : t[j] = s[j]
      /\ t[k + 1] = b
      /\ \A j \in (k + 1)..Len(s) : t[j + 1] = s[j]
  BY ZenonT(40), Inserted
<1>3. Len(s) \in Nat /\ k \in Nat /\ b.size \in Int
  BY DEF Block
<1> HIDE DEF t
<1>4. \A n \in 0..Len(s) : f[n] \in Int
  BY <1>1 DEF Adds
<1>5. g \in [0..Len(t) -> Int] /\ g[0] = 0
  <2>1. \A n \in 0..Len(t) : n <= k => n \in 0..Len(s)
    BY <1>2, <1>3
  <2>2. \A n \in 0..Len(t) : ~(n <= k) => n - 1 \in 0..Len(s)
    BY <1>2, <1>3
  <2>3. 0 <= k /\ 0 \in 0..Len(t) /\ f[0] = 0
    BY <1>1, <1>2, <1>3 DEF Adds
  <2> QED BY SMTT(30), <1>3, <1>4, <2>1, <2>2, <2>3
<1>6. ASSUME NEW n \in 1..Len(t)
      PROVE  g[n] = g[n - 1] + t[n].size
  <2>0. n \in 0..Len(t) /\ n - 1 \in 0..Len(t)
    BY <1>2, <1>3
  <2>1. CASE n <= k
    <3>1. n \in 1..Len(s) /\ n \in 1..k /\ n - 1 <= k
      BY <1>3, <2>1
    <3>2. f[n] = f[n - 1] + s[n].size /\ t[n] = s[n]
      BY <1>1, <1>2, <3>1 DEF Adds
    <3>3. g[n] = f[n] /\ g[n - 1] = f[n - 1]
      BY <2>0, <2>1, <3>1
    <3> QED BY <3>2, <3>3
  <2>2. CASE n = k + 1
    <3>1. n - 1 = k /\ ~(n <= k) /\ n - 1 <= k
      BY <1>3, <2>2
    <3>2. g[n] = f[k] + b.size /\ g[n - 1] = f[k]
      BY <2>0, <3>1
    <3> QED BY <1>2, <2>2, <3>2
  <2>3. CASE n > k + 1
    <3>1. n - 1 \in (k + 1)..Len(s) /\ n - 1 \in 1..Len(s) /\ ~(n <= k) /\ ~(n - 1 <= k)
          /\ (n - 1) + 1 = n /\ n - 2 = (n - 1) - 1 /\ n - 2 \in 0..Len(s)
      BY <1>2, <1>3, <2>3
    <3>2. t[n] = s[n - 1]
      BY <1>2, <3>1
    <3>3. f[n - 1] = f[n - 2] + s[n - 1].size
      BY <1>1, <3>1 DEF Adds
    <3>4. g[n] = f[n - 1] + b.size /\ g[n - 1] = f[(n - 1) - 1] + b.size
      BY <2>0, <3>1
    <3>5. s[n - 1].size \in Int
      <4>1. s[n - 1] \in Block
        BY <3>1, ElementOfSeq
      <4> QED BY <4>1 DEF Block
    <3>6. f[n - 2] \in Int
      BY <1>4, <3>1
    <3> HIDE DEF g
    <3> QED BY <1>3, <3>1, <3>2, <3>3, <3>4, <3>5, <3>6
  <2> QED BY <1>2, <1>3, <2>1, <2>2, <2>3
<1>7. Adds(g, t)
  BY <1>5, <1>6 DEF Adds
<1>8. g[Len(t)] = f[Len(s)] + b.size
  <2>1. Len(t) \in 0..Len(t) /\ ~(Len(t) <= k) /\ Len(t) - 1 = Len(s)
    BY <1>2, <1>3
  <2> QED BY <2>1
<1> HIDE DEF g
<1>9. Total(t) = g[Len(t)] /\ Total(s) = f[Len(s)]
  BY <1>1, <1>2, <1>7, TotalIs
<1> QED BY <1>8, <1>9 DEF t

\* A list of one block less.
LEMMA TotalRemoved ==
    ASSUME NEW s \in Seq(Block), NEW i \in 1..Len(s)
    PROVE  Total(Without(s, i)) = Total(s) - s[i].size
<1> DEFINE t == Without(s, i)
<1>1. PICK f : Adds(f, s)
  BY AddsExists
<1> DEFINE g == [n \in 0..Len(t) |-> IF n < i THEN f[n] ELSE f[n + 1] - s[i].size]
<1>2. /\ t \in Seq(Block) /\ Len(t) = Len(s) - 1
      /\ \A j \in 1..(i - 1) : t[j] = s[j]
      /\ \A j \in i..(Len(s) - 1) : t[j] = s[j + 1]
  BY Removed
<1>3. Len(s) \in Nat /\ i \in Nat /\ i > 0 /\ i <= Len(s)
  OBVIOUS
<1>4. \A n \in 0..Len(s) : f[n] \in Int
  BY <1>1 DEF Adds
<1>5. \A n \in 1..Len(s) : s[n].size \in Int
  <2> SUFFICES ASSUME NEW n \in 1..Len(s) PROVE s[n].size \in Int
    OBVIOUS
  <2>1. s[n] \in Block
    BY ElementOfSeq
  <2> QED BY <2>1 DEF Block
<1> HIDE DEF t
<1>6. g \in [0..Len(t) -> Int] /\ g[0] = 0
  <2>1. \A n \in 0..Len(t) : n \in 0..Len(s) /\ n + 1 \in 0..Len(s)
    BY <1>2, <1>3
  <2>2. 0 < i /\ 0 \in 0..Len(t) /\ f[0] = 0 /\ s[i].size \in Int
    BY <1>1, <1>2, <1>3, <1>5 DEF Adds
  <2> QED BY <1>4, <2>1, <2>2
<1>7. ASSUME NEW n \in 1..Len(t)
      PROVE  g[n] = g[n - 1] + t[n].size
  <2>0. n \in 0..Len(t) /\ n - 1 \in 0..Len(t) /\ n \in 1..Len(s) /\ n + 1 \in 1..Len(s)
    BY <1>2, <1>3
  <2>1. CASE n < i
    <3>1. n \in 1..(i - 1) /\ n - 1 < i
      BY <1>3, <2>0, <2>1
    <3>2. f[n] = f[n - 1] + s[n].size /\ t[n] = s[n]
      BY <1>1, <1>2, <2>0, <3>1 DEF Adds
    <3>3. g[n] = f[n] /\ g[n - 1] = f[n - 1]
      BY <2>0, <2>1, <3>1
    <3> QED BY <3>2, <3>3
  <2>2. CASE n >= i
    <3>1. n \in i..(Len(s) - 1) /\ ~(n < i) /\ (n + 1) - 1 = n
      BY <1>2, <1>3, <2>0, <2>2
    <3>2. f[n + 1] = f[n] + s[n + 1].size /\ t[n] = s[n + 1]
      BY <1>1, <1>2, <2>0, <3>1 DEF Adds
    <3>3. g[n] = f[n + 1] - s[i].size
      BY <2>0, <3>1
    <3>4. g[n - 1] = f[n] - s[i].size
      <4>1. CASE n = i
        <5>1. n - 1 < i
          BY <1>3, <4>1
        <5>2. g[n - 1] = f[n - 1]
          BY <2>0, <5>1
        <5>3. f[n] = f[n - 1] + s[n].size
          BY <1>1, <2>0 DEF Adds
        <5>4. f[n - 1] \in Int /\ s[n].size \in Int
          <6>1. n - 1 \in 0..Len(s)
            BY <1>3, <2>0
          <6> QED BY <1>4, <1>5, <2>0, <6>1
        <5> HIDE DEF g
        <5> QED BY <4>1, <5>2, <5>3, <5>4
      <4>2. CASE n # i
        <5>1. ~(n - 1 < i) /\ (n - 1) + 1 = n
          BY <1>3, <2>0, <2>2, <4>2
        <5> QED BY <2>0, <5>1
      <4> QED BY <4>1, <4>2
    <3>5. f[n] \in Int /\ s[n + 1].size \in Int /\ s[i].size \in Int
      <4>1. n \in 0..Len(s)
        BY <1>3, <2>0
      <4> QED BY <1>3, <1>4, <1>5, <2>0, <4>1
    <3> HIDE DEF g
    <3> QED BY <3>2, <3>3, <3>4, <3>5
  <2> QED BY <1>3, <2>0, <2>1, <2>2
<1>8. Adds(g, t)
  BY <1>6, <1>7 DEF Adds
<1>9. g[Len(t)] = f[Len(s)] - s[i].size
  <2>1. Len(t) \in 0..Len(t) /\ Len(t) + 1 = Len(s)
    BY <1>2, <1>3
  <2>2. CASE Len(t) < i
    <3>1. i = Len(s) /\ Len(t) = Len(s) - 1 /\ Len(s) \in 1..Len(s)
      BY <1>2, <1>3, <2>2
    <3>2. f[Len(s)] = f[Len(s) - 1] + s[i].size
      BY <1>1, <3>1 DEF Adds
    <3>3. f[Len(s) - 1] \in Int /\ s[i].size \in Int
      <4>1. Len(s) - 1 \in 0..Len(s)
        BY <1>3
      <4> QED BY <1>4, <1>5, <4>1
    <3>4. g[Len(t)] = f[Len(s) - 1]
      BY <2>1, <2>2, <3>1
    <3> HIDE DEF g
    <3> QED BY <3>2, <3>3, <3>4
  <2>3. CASE ~(Len(t) < i)
    BY <2>1, <2>3
  <2> QED BY <2>2, <2>3
<1> HIDE DEF g
<1>10. Total(t) = g[Len(t)] /\ Total(s) = f[Len(s)]
  BY <1>1, <1>2, <1>8, TotalIs
<1> QED BY <1>9, <1>10 DEF t

\* A list of which one block changes its size.
LEMMA TotalResized ==
    ASSUME NEW s \in Seq(Block), NEW i \in 1..Len(s), NEW n \in Nat \ {0}
    PROVE  Total([s EXCEPT ![i].size = n]) = Total(s) - s[i].size + n
<1> DEFINE b == [s[i] EXCEPT !.size = n]
           t == [s EXCEPT ![i] = b]
<1>1. PICK f : Adds(f, s)
  BY AddsExists
<1> DEFINE g == [m \in 0..Len(s) |-> IF m < i THEN f[m] ELSE f[m] - s[i].size + n]
<1>2. \A m \in 1..Len(s) : s[m] \in Block /\ s[m].size \in Int
  <2> SUFFICES ASSUME NEW m \in 1..Len(s) PROVE s[m] \in Block /\ s[m].size \in Int
    OBVIOUS
  <2>1. s[m] \in Block
    BY ElementOfSeq
  <2> QED BY <2>1 DEF Block
<1>3. b \in Block /\ b.size = n
  BY <1>2 DEF Block
<1>4. t \in Seq(Block) /\ Len(t) = Len(s) /\ t[i] = b /\ \A m \in 1..Len(s) : m # i => t[m] = s[m]
  <2> HIDE DEF b
  <2> QED BY <1>3
<1>5. [s EXCEPT ![i].size = n] = t
  OBVIOUS
<1>6. Len(s) \in Nat /\ i \in Nat /\ i > 0 /\ i <= Len(s) /\ n \in Int
  OBVIOUS
<1>7. \A m \in 0..Len(s) : f[m] \in Int
  BY <1>1 DEF Adds
<1> HIDE DEF t, b
<1>8. g \in [0..Len(t) -> Int] /\ g[0] = 0
  <2>1. f[0] = 0 /\ 0 \in 0..Len(s) /\ 0 < i /\ s[i].size \in Int
    BY <1>1, <1>2, <1>6 DEF Adds
  <2> QED BY <1>4, <1>6, <1>7, <2>1
<1>9. ASSUME NEW m \in 1..Len(t)
      PROVE  g[m] = g[m - 1] + t[m].size
  <2>0. m \in 1..Len(s) /\ m \in 0..Len(s) /\ m - 1 \in 0..Len(s)
    BY <1>4, <1>6
  <2>1. f[m] = f[m - 1] + s[m].size /\ f[m] \in Int /\ f[m - 1] \in Int /\ s[m].size \in Int
        /\ s[i].size \in Int
    BY <1>1, <1>2, <1>6, <1>7, <2>0 DEF Adds
  <2>2. CASE m < i
    <3>1. t[m] = s[m] /\ m - 1 < i
      BY <1>4, <1>6, <2>0, <2>2
    <3>2. g[m] = f[m] /\ g[m - 1] = f[m - 1]
      BY <2>0, <2>2, <3>1
    <3> QED BY <2>1, <3>1, <3>2
  <2>3. CASE m = i
    <3>1. t[m].size = n /\ ~(m < i) /\ m - 1 < i
      BY <1>3, <1>4, <1>6, <2>3
    <3>2. g[m] = f[m] - s[i].size + n /\ g[m - 1] = f[m - 1]
      BY <2>0, <3>1
    <3> HIDE DEF g
    <3> QED BY <1>6, <2>1, <2>3, <3>1, <3>2
  <2>4. CASE m > i
    <3>1. t[m] = s[m] /\ ~(m < i) /\ ~(m - 1 < i)
      BY <1>4, <1>6, <2>0, <2>4
    <3>2. g[m] = f[m] - s[i].size + n /\ g[m - 1] = f[m - 1] - s[i].size + n
      BY <2>0, <3>1
    <3>3. t[m].size = s[m].size
      BY <3>1
    <3> DEFINE before == f[m - 1]
               size == s[m].size
               was == s[i].size
               after == f[m]
    <3>4. before \in Int /\ size \in Int /\ was \in Int /\ after = before + size
      BY <2>1
    <3>5. g[m] = after - was + n /\ g[m - 1] = before - was + n
      BY <3>2
    <3> HIDE DEF g, before, size, was, after
    <3>6. g[m] = g[m - 1] + size
      BY <1>6, <3>4, <3>5
    <3> QED BY <3>3, <3>6 DEF size
  <2> QED BY <1>6, <2>0, <2>2, <2>3, <2>4
<1>10. Adds(g, t)
  BY <1>8, <1>9 DEF Adds
<1>11. g[Len(t)] = f[Len(s)] - s[i].size + n
  <2>1. Len(s) \in 0..Len(s) /\ ~(Len(s) < i)
    BY <1>6
  <2> QED BY <1>4, <2>1
<1> HIDE DEF g
<1>12. Total(t) = g[Len(t)] /\ Total(s) = f[Len(s)]
  BY <1>1, <1>4, <1>10, TotalIs
<1> QED BY <1>5, <1>11, <1>12

-----------------------------------------------------------------------------
(* The allocations of an arena. *)

\* The blocks of an arena are in the order of their addresses.
LEMMA InOrder ==
    ASSUME NEW a, GoodArena(a), NEW j \in DOMAIN a.blocks, NEW k \in DOMAIN a.blocks, j < k
    PROVE  a.blocks[j].ptr < a.blocks[k].ptr
<1> DEFINE s == a.blocks
           Early == {m \in 0..Len(s) : m > j /\ ~(EndOf(s[j]) <= s[m].at)}
<1>1. s \in Seq(Block) /\ Len(s) \in Nat /\ DOMAIN s = 1..Len(s)
  BY DEF GoodArena, ArenaRecord
<1>2. ASSUME NEW m \in 1..Len(s)
      PROVE  /\ s[m].at \in Nat /\ s[m].ptr \in Nat /\ s[m].size \in Nat /\ s[m].size > 0
             /\ EndOf(s[m]) = s[m].ptr + s[m].size
             /\ s[m].at + HeaderSize <= s[m].ptr
             /\ m # 1 => s[m].at >= EndOf(s[m - 1])
  <2>1. s[m] \in Block
    BY <1>1, ElementOfSeq
  <2>2. m \in DOMAIN a.blocks
    BY <1>1
  <2>3. s[m].at + HeaderSize <= s[m].ptr /\ (m # 1 => s[m].at >= EndOf(s[m - 1]))
    BY <2>2 DEF GoodArena, Tiled
  <2> HIDE DEF s
  <2> QED BY <2>1, <2>3 DEF Block, EndOf
<1>3. j \in 1..Len(s) /\ k \in 1..Len(s) /\ HeaderSize \in Nat /\ HeaderSize > 0
  BY <1>1, LayoutAssumption
<1> HIDE DEF s
<1>4. Early = {}
  <2> SUFFICES ASSUME Early # {} PROVE FALSE
    OBVIOUS
  <2>1. Early \in SUBSET (0..Len(s))
    OBVIOUS
  <2>2. PICK m \in Early : \A l \in Early : m <= l
    <3> HIDE DEF Early
    <3> QED BY <1>1, <2>1, LeastOf
  <2>3. m \in 1..Len(s) /\ m - 1 \in 1..Len(s) /\ m # 1 /\ m > j
    BY <1>1, <1>3
  <2>4. s[m].at >= EndOf(s[m - 1])
    BY <1>2, <2>3
  <2>5. CASE m - 1 = j
    BY <2>2, <2>4, <2>5, <1>2, <1>3, <2>3
  <2>6. CASE m - 1 # j
    <3>1. m - 1 > j /\ m - 1 \in 0..Len(s) /\ ~(m <= m - 1)
      BY <1>1, <1>3, <2>3, <2>6
    <3>2. m - 1 \notin Early
      <4> HIDE DEF Early
      <4> QED BY <2>2, <3>1
    <3>3. EndOf(s[j]) <= s[m - 1].at
      BY <3>1, <3>2
    <3>4. /\ s[m - 1].at \in Nat /\ s[m - 1].ptr \in Nat /\ s[m - 1].size \in Nat
          /\ EndOf(s[m - 1]) = s[m - 1].ptr + s[m - 1].size
          /\ s[m - 1].at + HeaderSize <= s[m - 1].ptr
      BY <1>2, <2>3
    <3>5. /\ s[j].ptr \in Nat /\ s[j].size \in Nat /\ EndOf(s[j]) = s[j].ptr + s[j].size
          /\ s[m].at \in Nat
      BY <1>2, <1>3, <2>3
    <3>6. EndOf(s[j]) <= s[m].at
      <4> HIDE DEF Early
      <4>1. EndOf(s[m - 1]) \in Nat /\ s[m - 1].at <= EndOf(s[m - 1])
        <5> DEFINE at == s[m - 1].at
                   ptr == s[m - 1].ptr
                   size == s[m - 1].size
        <5>1. at \in Nat /\ ptr \in Nat /\ size \in Nat /\ at + HeaderSize <= ptr
              /\ EndOf(s[m - 1]) = ptr + size
          BY <3>4
        <5> HIDE DEF at, ptr, size
        <5>2. ptr + size \in Nat /\ at <= ptr + size
          BY <1>3, <5>1
        <5> QED BY <5>1, <5>2 DEF at
      <4>2. EndOf(s[j]) \in Nat
        BY <3>5
      <4> DEFINE e == EndOf(s[m - 1])
                 f == EndOf(s[j])
                 g == s[m - 1].at
      <4>3. e \in Nat /\ f \in Nat /\ g \in Nat /\ s[m].at \in Nat /\ s[m].at >= e /\ g <= e /\ f <= g
        BY <2>4, <3>3, <3>4, <3>5, <4>1, <4>2
      <4> HIDE DEF e, f, g
      <4>4. f <= s[m].at
        BY <4>3
      <4> QED BY <4>4 DEF f
    <3> QED BY <2>2, <3>6
  <2> QED BY <2>5, <2>6
<1>5. EndOf(s[j]) <= s[k].at
  BY <1>3, <1>4
<1>6. s[j].ptr < s[k].ptr
  <2>1. /\ s[j].ptr \in Nat /\ s[j].size \in Nat /\ s[j].size > 0 /\ EndOf(s[j]) = s[j].ptr + s[j].size
        /\ s[k].at \in Nat /\ s[k].ptr \in Nat /\ s[k].at + HeaderSize <= s[k].ptr
    BY <1>2, <1>3
  <2> QED BY <1>3, <1>5, <2>1
<1> QED BY <1>6 DEF s

\* So a pointer is at one place of its arena at most.
LEMMA OnePlace ==
    ASSUME NEW a, GoodArena(a), NEW j \in DOMAIN a.blocks, NEW k \in DOMAIN a.blocks,
           a.blocks[j].ptr = a.blocks[k].ptr
    PROVE  j = k
<1>1. j \in Nat /\ k \in Nat
  BY DEF GoodArena, ArenaRecord
<1>2. \A m \in DOMAIN a.blocks : a.blocks[m].ptr \in Nat
  <2> SUFFICES ASSUME NEW m \in DOMAIN a.blocks PROVE a.blocks[m].ptr \in Nat
    OBVIOUS
  <2>1. a.blocks \in Seq(Block) /\ m \in 1..Len(a.blocks)
    BY DEF GoodArena, ArenaRecord
  <2>2. a.blocks[m] \in Block
    BY <2>1, ElementOfSeq
  <2> QED BY <2>2 DEF Block
<1>3. ~(j < k)
  <2> SUFFICES ASSUME j < k PROVE FALSE
    OBVIOUS
  <2>1. a.blocks[j].ptr < a.blocks[k].ptr
    BY InOrder
  <2> QED BY <1>2, <2>1
<1>4. ~(k < j)
  <2> SUFFICES ASSUME k < j PROVE FALSE
    OBVIOUS
  <2>1. a.blocks[k].ptr < a.blocks[j].ptr
    BY InOrder
  <2> QED BY <1>2, <2>1
<1> QED BY <1>1, <1>3, <1>4

\* What is allocated in the i-th arena, if that is a.
PointersOf(i, a) == {Pointer(i, b.ptr, b.size) : b \in Range(a.blocks)}

\* A block has a pointer and a pointer a block.
LEMMA PointersAre ==
    ASSUME NEW i, NEW a, GoodArena(a)
    PROVE  /\ \A j \in DOMAIN a.blocks : Pointer(i, a.blocks[j].ptr, a.blocks[j].size) \in PointersOf(i, a)
           /\ \A x \in PointersOf(i, a) : \E j \in DOMAIN a.blocks :
                x = Pointer(i, a.blocks[j].ptr, a.blocks[j].size)
           /\ \A x \in PointersOf(i, a) : x.arena = i
           /\ DOMAIN a.blocks = 1..Len(a.blocks)
BY DEF PointersOf, Range, Pointer, GoodArena, ArenaRecord

\* What stands in an arena agrees with its statistics.
StatsAgree(a) == a.allocations = Len(a.blocks) /\ a.used = Total(a.blocks)

\* An allocation adds its pointer, which is that of no other.
LEMMA AllocHolds ==
    ASSUME NEW i \in Nat, NEW a, GoodArena(a), StatsAgree(a), NEW size \in Nat \ {0},
           NEW k \in Room(a, size)
    PROVE  /\ PointersOf(i, Alloc(a, k, size)) = PointersOf(i, a) \cup {Pointer(i, PtrBehind(a, k), size)}
           /\ \A x \in PointersOf(i, a) : x.ptr # PtrBehind(a, k)
           /\ StatsAgree(Alloc(a, k, size))
<1> DEFINE s == a.blocks
           b == [at |-> HeaderBehind(a, k), ptr |-> PtrBehind(a, k), size |-> size]
           t == InsertAt(s, k + 1, b)
           c == Alloc(a, k, size)
<1>1. s \in Seq(Block) /\ Len(s) \in Nat /\ k \in 0..Len(s) /\ a \in ArenaRecord
  BY DEF GoodArena, ArenaRecord, Room
<1>2. c.blocks = t /\ c.used = a.used + size /\ c.allocations = a.allocations + 1
  BY <1>1 DEF Alloc, ArenaRecord
<1>3. GoodArena(c)
  BY AllocGood
<1>4. b \in Block
  <2> DEFINE from == IF k = 0 THEN 0 ELSE EndOf(s[k])
  <2>1. from \in Nat
    <3>1. k # 0 => s[k] \in Block
      BY <1>1, ElementOfSeq
    <3> QED BY <3>1, BlockEnds
  <2>2. b.at = AlignUp(from)
    BY DEF HeaderBehind
  <2> HIDE DEF from
  <2>3. b.at \in Nat
    BY <2>1, <2>2, AlignUpProperties
  <2>4. b.ptr \in Nat
    BY <1>1, PlaceBehind
  <2> QED BY <2>3, <2>4 DEF Block
<1>5. /\ t \in Seq(Block) /\ Len(t) = Len(s) + 1
      /\ \A j \in 1..k : t[j] = s[j]
      /\ t[k + 1] = b
      /\ \A j \in (k + 1)..Len(s) : t[j + 1] = s[j]
  <2> HIDE DEF b, s
  <2> QED BY ZenonT(40), <1>1, <1>4, Inserted
<1>6. b.ptr = PtrBehind(a, k) /\ b.size = size
  OBVIOUS
<1> HIDE DEF s, b, t, c
<1>7. DOMAIN s = 1..Len(s) /\ DOMAIN t = 1..Len(t) /\ DOMAIN c.blocks = 1..Len(t) /\ s = a.blocks
  BY <1>1, <1>2, <1>5 DEF s
\* Where each of the old blocks is now.
<1>8. ASSUME NEW j \in 1..Len(s)
      PROVE  \E l \in 1..Len(t) : t[l] = s[j] /\ l # k + 1
  <2>1. CASE j <= k
    BY <1>1, <1>5, <2>1
  <2>2. CASE j > k
    <3>1. j \in (k + 1)..Len(s) /\ j + 1 \in 1..Len(t) /\ j + 1 # k + 1
      BY <1>1, <1>5, <2>2
    <3> QED BY <1>5, <3>1
  <2> QED BY <1>1, <2>1, <2>2
<1>9. ASSUME NEW l \in 1..Len(t), l # k + 1
      PROVE  \E j \in 1..Len(s) : t[l] = s[j]
  <2>1. CASE l <= k
    BY <1>1, <1>5, <2>1
  <2>2. CASE l > k + 1
    <3>1. l - 1 \in (k + 1)..Len(s) /\ l - 1 \in 1..Len(s) /\ (l - 1) + 1 = l
      BY <1>1, <1>5, <2>2
    <3> QED BY <1>5, <3>1
  <2> QED BY <1>1, <1>9, <2>1, <2>2
<1>10. k + 1 \in 1..Len(t)
  BY <1>1, <1>5
<1>11. PointersOf(i, c) = PointersOf(i, a) \cup {Pointer(i, PtrBehind(a, k), size)}
  <2>1. \A x \in PointersOf(i, c) : x \in PointersOf(i, a) \/ x = Pointer(i, PtrBehind(a, k), size)
    <3> SUFFICES ASSUME NEW x \in PointersOf(i, c)
                 PROVE  x \in PointersOf(i, a) \/ x = Pointer(i, PtrBehind(a, k), size)
      OBVIOUS
    <3>1. PICK l \in 1..Len(t) : x = Pointer(i, t[l].ptr, t[l].size)
      BY <1>2, <1>3, <1>7, PointersAre
    <3>2. CASE l = k + 1
      BY <1>5, <1>6, <3>1, <3>2
    <3>3. CASE l # k + 1
      <4>1. PICK j \in 1..Len(s) : t[l] = s[j]
        BY <1>9, <3>3
      <4> QED BY <1>7, <3>1, <4>1, PointersAre
    <3> QED BY <3>2, <3>3
  <2>2. \A x \in PointersOf(i, a) : x \in PointersOf(i, c)
    <3> SUFFICES ASSUME NEW x \in PointersOf(i, a) PROVE x \in PointersOf(i, c)
      OBVIOUS
    <3>1. PICK j \in 1..Len(s) : x = Pointer(i, s[j].ptr, s[j].size)
      BY <1>7, PointersAre
    <3>2. PICK l \in 1..Len(t) : t[l] = s[j]
      BY <1>8
    <3> QED BY <1>2, <1>3, <1>7, <3>1, <3>2, PointersAre
  <2>3. Pointer(i, PtrBehind(a, k), size) \in PointersOf(i, c)
    BY <1>2, <1>3, <1>5, <1>6, <1>7, <1>10, PointersAre
  <2> QED BY <2>1, <2>2, <2>3
<1>12. ASSUME NEW x \in PointersOf(i, a)
       PROVE  x.ptr # PtrBehind(a, k)
  <2>1. PICK j \in 1..Len(s) : x = Pointer(i, s[j].ptr, s[j].size)
    BY <1>7, PointersAre
  <2>2. PICK l \in 1..Len(t) : t[l] = s[j] /\ l # k + 1
    BY <1>8
  <2>3. t[l].ptr # t[k + 1].ptr
    BY <1>2, <1>3, <1>7, <1>10, <2>2, OnePlace
  <2> QED BY <1>5, <1>6, <2>1, <2>2, <2>3 DEF Pointer
<1>13. StatsAgree(c)
  <2>1. Total(t) = Total(s) + size
    BY <1>1, <1>4, <1>6, TotalInserted DEF t
  <2> QED BY <1>2, <1>5, <1>7, <2>1 DEF StatsAgree
<1> QED BY <1>11, <1>12, <1>13 DEF c

\* A block that goes takes its pointer, and no other, along.
LEMMA UnlinkHolds ==
    ASSUME NEW i \in Nat, NEW a, GoodArena(a), StatsAgree(a), NEW j \in 1..Len(a.blocks)
    PROVE  /\ PointersOf(i, Unlink(a, j - 1, j)) =
                PointersOf(i, a) \ {Pointer(i, a.blocks[j].ptr, a.blocks[j].size)}
           /\ StatsAgree(Unlink(a, j - 1, j))
<1> DEFINE s == a.blocks
           t == Without(s, j)
           c == Unlink(a, j - 1, j)
<1>1. s \in Seq(Block) /\ Len(s) \in Nat /\ j \in 1..Len(s) /\ a \in ArenaRecord
  BY DEF GoodArena, ArenaRecord
<1>2. c.blocks = t /\ c.used = a.used - s[j].size /\ c.allocations = a.allocations - 1
  BY <1>1 DEF Unlink, Without, ArenaRecord
<1>3. GoodArena(c)
  BY UnlinkGood
<1>4. /\ t \in Seq(Block) /\ Len(t) = Len(s) - 1
      /\ \A l \in 1..(j - 1) : t[l] = s[l]
      /\ \A l \in j..(Len(s) - 1) : t[l] = s[l + 1]
  <2> HIDE DEF s
  <2> QED BY <1>1, Removed
<1> HIDE DEF s, t, c
<1>5. DOMAIN s = 1..Len(s) /\ DOMAIN t = 1..Len(t) /\ DOMAIN c.blocks = 1..Len(t) /\ s = a.blocks
  BY <1>1, <1>2, <1>4 DEF s
<1>6. ASSUME NEW m \in 1..Len(s), m # j
      PROVE  \E l \in 1..Len(t) : t[l] = s[m]
  <2>1. CASE m < j
    <3>1. m \in 1..(j - 1) /\ m \in 1..Len(t)
      BY <1>1, <1>4, <2>1
    <3> QED BY <1>4, <3>1
  <2>2. CASE m > j
    <3>1. m - 1 \in j..(Len(s) - 1) /\ m - 1 \in 1..Len(t) /\ (m - 1) + 1 = m
      BY <1>1, <1>4, <2>2
    <3> QED BY <1>4, <3>1
  <2> QED BY <1>1, <1>6, <2>1, <2>2
<1>7. ASSUME NEW l \in 1..Len(t)
      PROVE  \E m \in 1..Len(s) : t[l] = s[m] /\ m # j
  <2>1. CASE l < j
    <3>1. l \in 1..(j - 1) /\ l \in 1..Len(s) /\ l # j
      BY <1>1, <1>4, <2>1
    <3> QED BY <1>4, <3>1
  <2>2. CASE l >= j
    <3>1. l \in j..(Len(s) - 1) /\ l + 1 \in 1..Len(s) /\ l + 1 # j
      BY <1>1, <1>4, <2>2
    <3> QED BY <1>4, <3>1
  <2> QED BY <1>1, <1>4, <2>1, <2>2
<1> DEFINE x0 == Pointer(i, s[j].ptr, s[j].size)
<1>8. ASSUME NEW m \in 1..Len(s), m # j
      PROVE  Pointer(i, s[m].ptr, s[m].size) # x0
  <2>1. s[m].ptr # s[j].ptr
    BY <1>1, <1>5, <1>8, OnePlace
  <2> QED BY <2>1 DEF Pointer
<1>9. \A x \in PointersOf(i, c) : x \in PointersOf(i, a) /\ x # x0
  <2> SUFFICES ASSUME NEW x \in PointersOf(i, c) PROVE x \in PointersOf(i, a) /\ x # x0
    OBVIOUS
  <2>1. PICK l \in 1..Len(t) : x = Pointer(i, t[l].ptr, t[l].size)
    BY <1>2, <1>3, <1>5, PointersAre
  <2>2. PICK m \in 1..Len(s) : t[l] = s[m] /\ m # j
    BY <1>7
  <2> HIDE DEF x0
  <2> QED BY <1>5, <1>8, <2>1, <2>2, PointersAre
<1>10. \A x \in PointersOf(i, a) : x # x0 => x \in PointersOf(i, c)
  <2> SUFFICES ASSUME NEW x \in PointersOf(i, a), x # x0 PROVE x \in PointersOf(i, c)
    OBVIOUS
  <2>1. PICK m \in 1..Len(s) : x = Pointer(i, s[m].ptr, s[m].size)
    BY SMTT(30), <1>5, PointersAre
  <2>2. m # j
    BY <2>1
  <2>3. PICK l \in 1..Len(t) : t[l] = s[m]
    BY <1>6, <2>2
  <2> QED BY <1>2, <1>3, <1>5, <2>1, <2>3, PointersAre
<1>11. PointersOf(i, c) = PointersOf(i, a) \ {x0}
  <2> HIDE DEF x0
  <2> QED BY <1>9, <1>10
<1>12. StatsAgree(c)
  <2>1. Total(t) = Total(s) - s[j].size
    BY <1>1, TotalRemoved DEF t
  <2> QED BY <1>2, <1>4, <1>5, <2>1 DEF StatsAgree
<1> QED BY <1>5, <1>11, <1>12 DEF c

\* A block that is resized in its place.
LEMMA ResizeHolds ==
    ASSUME NEW i \in Nat, NEW a, GoodArena(a), StatsAgree(a), NEW j \in 1..Len(a.blocks),
           NEW size \in Nat \ {0}, Resizable(a, j, size)
    PROVE  /\ PointersOf(i, Resize(a, j, size)) =
                (PointersOf(i, a) \ {Pointer(i, a.blocks[j].ptr, a.blocks[j].size)})
                  \cup {Pointer(i, a.blocks[j].ptr, size)}
           /\ StatsAgree(Resize(a, j, size))
<1> DEFINE s == a.blocks
           b == [s[j] EXCEPT !.size = size]
           t == [s EXCEPT ![j] = b]
           c == Resize(a, j, size)
<1>1. s \in Seq(Block) /\ Len(s) \in Nat /\ j \in 1..Len(s) /\ a \in ArenaRecord
  BY DEF GoodArena, ArenaRecord
<1>2. s[j] \in Block
  BY <1>1, ElementOfSeq
<1>3. b \in Block /\ b.ptr = s[j].ptr /\ b.size = size
  BY <1>2 DEF Block
<1>4. t \in Seq(Block) /\ Len(t) = Len(s) /\ t[j] = b /\ \A l \in 1..Len(s) : l # j => t[l] = s[l]
  <2> HIDE DEF s, b
  <2> QED BY <1>1, <1>3
<1>5. c.blocks = t /\ c.used = a.used - s[j].size + size /\ c.allocations = a.allocations
  BY <1>1 DEF Resize, ArenaRecord
<1>6. GoodArena(c)
  BY ResizeGood
<1>7. StatsAgree(c)
  <2>1. Total(t) = Total(s) - s[j].size + size
    BY <1>1, TotalResized
  <2> HIDE DEF t, c, s
  <2> QED BY <1>4, <1>5, <2>1 DEF StatsAgree, s
<1> HIDE DEF s, b, t, c
<1>8. DOMAIN s = 1..Len(s) /\ DOMAIN t = 1..Len(t) /\ DOMAIN c.blocks = 1..Len(t) /\ s = a.blocks
  BY <1>1, <1>4, <1>5 DEF s
<1> DEFINE x0 == Pointer(i, s[j].ptr, s[j].size)
           x1 == Pointer(i, s[j].ptr, size)
<1>9. ASSUME NEW m \in 1..Len(s), m # j
      PROVE  Pointer(i, s[m].ptr, s[m].size) # x0
  <2>1. s[m].ptr # s[j].ptr
    BY <1>1, <1>8, <1>9, OnePlace
  <2> QED BY <2>1 DEF Pointer
<1>10. x1 \in PointersOf(i, c)
  BY <1>1, <1>3, <1>4, <1>5, <1>6, <1>8, PointersAre
<1>11. \A x \in PointersOf(i, c) : x = x1 \/ (x \in PointersOf(i, a) /\ x # x0)
  <2> SUFFICES ASSUME NEW x \in PointersOf(i, c) PROVE x = x1 \/ (x \in PointersOf(i, a) /\ x # x0)
    OBVIOUS
  <2>1. PICK l \in 1..Len(s) : x = Pointer(i, t[l].ptr, t[l].size)
    <3> HIDE DEF x0, x1
    <3>1. DOMAIN t = 1..Len(s)
      BY <1>4, <1>8
    <3>2. \E l \in DOMAIN c.blocks : x = Pointer(i, c.blocks[l].ptr, c.blocks[l].size)
      BY <1>6, PointersAre
    <3> QED BY <1>5, <3>1, <3>2
  <2>2. CASE l = j
    BY <1>3, <1>4, <2>1, <2>2
  <2>3. CASE l # j
    <3> HIDE DEF x0, x1
    <3>1. t[l] = s[l] /\ l \in DOMAIN a.blocks /\ a.blocks[l] = s[l]
      BY <1>4, <1>8, <2>3
    <3>2. x = Pointer(i, s[l].ptr, s[l].size)
      BY <2>1, <3>1
    <3>3. x \in PointersOf(i, a)
      BY <3>1, <3>2, PointersAre
    <3> QED BY <1>9, <2>3, <3>2, <3>3
  <2> QED BY <2>2, <2>3
<1>12. \A x \in PointersOf(i, a) : x # x0 => x \in PointersOf(i, c)
  <2> SUFFICES ASSUME NEW x \in PointersOf(i, a), x # x0 PROVE x \in PointersOf(i, c)
    OBVIOUS
  <2>1. PICK m \in 1..Len(s) : x = Pointer(i, s[m].ptr, s[m].size)
    <3> HIDE DEF x0
    <3>1. \E m \in DOMAIN a.blocks : x = Pointer(i, a.blocks[m].ptr, a.blocks[m].size)
      BY PointersAre
    <3> QED BY <1>8, <3>1
  <2>2. m # j /\ m \in 1..Len(t)
    BY <1>4, <2>1
  <2>3. t[m] = s[m]
    BY <1>4, <2>2, <2>1
  <2>4. x = Pointer(i, t[m].ptr, t[m].size)
    BY <2>1, <2>3
  <2> HIDE DEF x0
  <2> QED BY <1>5, <1>6, <1>8, <2>2, <2>4, PointersAre
<1>13. PointersOf(i, c) = (PointersOf(i, a) \ {x0}) \cup {x1}
  <2> HIDE DEF x0, x1
  <2> QED BY <1>10, <1>11, <1>12
<1> QED BY <1>7, <1>8, <1>13 DEF c

\* In an arena an address tells an allocation.
LEMMA PlaceTells ==
    ASSUME NEW i \in Nat, NEW a, GoodArena(a), NEW x \in PointersOf(i, a), NEW y \in PointersOf(i, a),
           x.ptr = y.ptr
    PROVE  x = y
<1>1. PICK j \in DOMAIN a.blocks : x = Pointer(i, a.blocks[j].ptr, a.blocks[j].size)
  BY PointersAre
<1>2. PICK k \in DOMAIN a.blocks : y = Pointer(i, a.blocks[k].ptr, a.blocks[k].size)
  BY PointersAre
<1>3. a.blocks[j].ptr = a.blocks[k].ptr
  BY <1>1, <1>2 DEF Pointer
<1>4. j \in 1..Len(a.blocks) /\ k \in 1..Len(a.blocks)
  BY PointersAre
<1>5. j = k
  BY <1>3, <1>4, OnePlace
<1> QED BY <1>1, <1>2, <1>5

\* A realloc within an arena exchanges the old pointer for the new one.
LEMMA ReallocHolds ==
    ASSUME NEW i \in Nat, NEW a, GoodArena(a), StatsAgree(a), NEW j \in 1..Len(a.blocks),
           NEW size \in Nat \ {0}, NEW r \in Realloc(a, j, size)
    PROVE  LET old == Pointer(i, a.blocks[j].ptr, a.blocks[j].size)
               new == Pointer(i, r.ptr, size)
           IN  /\ PointersOf(i, r.arena) = (PointersOf(i, a) \ {old}) \cup {new}
               /\ new \notin PointersOf(i, a) \ {old}
               /\ StatsAgree(r.arena)
<1> DEFINE old == Pointer(i, a.blocks[j].ptr, a.blocks[j].size)
           new == Pointer(i, r.ptr, size)
<1>1. old \in PointersOf(i, a) /\ old.ptr = a.blocks[j].ptr /\ new.ptr = r.ptr
  BY PointersAre DEF Pointer
<1>2. CASE Resizable(a, j, size)
  <2>1. r.arena = Resize(a, j, size) /\ r.ptr = a.blocks[j].ptr
    BY <1>2 DEF Realloc
  <2>2. /\ PointersOf(i, r.arena) = (PointersOf(i, a) \ {old}) \cup {new}
        /\ StatsAgree(r.arena)
    BY <1>2, <2>1, ResizeHolds
  <2> HIDE DEF old, new
  <2>3. new \notin PointersOf(i, a) \ {old}
    BY <1>1, <2>1, PlaceTells
  <2> QED BY <2>2, <2>3 DEF old, new
<1>3. CASE ~Resizable(a, j, size)
  <2>1. PICK k \in FirstFit(a, size) : r.ptr = PtrBehind(a, k) /\ r.arena \in Move(a, j, k, size)
    BY <1>3 DEF Realloc
  <2>2. k \in Room(a, size)
    BY <2>1 DEF FirstFit
  <2> DEFINE b == Alloc(a, k, size)
  <2>3. GoodArena(b)
    BY <2>2, AllocGood
  <2>4. PICK l \in At(b, a.blocks[j].ptr) : r.arena = Unlink(b, l - 1, l)
    BY <2>1 DEF Move
  <2>5. /\ PointersOf(i, b) = PointersOf(i, a) \cup {new}
        /\ \A x \in PointersOf(i, a) : x.ptr # r.ptr
        /\ StatsAgree(b)
    BY <2>1, <2>2, AllocHolds
  <2> HIDE DEF b
  <2>6. l \in 1..Len(b.blocks) /\ l \in DOMAIN b.blocks /\ b.blocks[l].ptr = a.blocks[j].ptr
    BY <2>3, <2>4 DEF At, GoodArena, ArenaRecord
  <2> DEFINE gone == Pointer(i, b.blocks[l].ptr, b.blocks[l].size)
  <2>7. gone \in PointersOf(i, b) /\ gone.ptr = b.blocks[l].ptr
    BY <2>3, <2>6, PointersAre DEF Pointer
  <2>8. PointersOf(i, r.arena) = PointersOf(i, b) \ {gone} /\ StatsAgree(r.arena)
    <3>1. /\ PointersOf(i, Unlink(b, l - 1, l)) =
                PointersOf(i, b) \ {Pointer(i, b.blocks[l].ptr, b.blocks[l].size)}
          /\ StatsAgree(Unlink(b, l - 1, l))
      <4> HIDE DEF gone, old, new
      <4> QED BY <2>3, <2>5, <2>6, UnlinkHolds
    <3> QED BY <2>4, <3>1
  <2> HIDE DEF gone, old, new
  <2>9. gone = old
    BY <1>1, <2>3, <2>5, <2>6, <2>7, PlaceTells
  <2>10. new # old /\ new \notin PointersOf(i, a)
    BY <1>1, <2>5
  <2> QED BY <2>5, <2>8, <2>9, <2>10 DEF old, new
<1> QED BY <1>2, <1>3

-----------------------------------------------------------------------------
(* Who has what. *)

InArenas(S) == {x \in S : x.arena > 0}

\* What the arenas hold, and what of it the call of a thread is about.
Allocations(s) == UNION {PointersOf(i, s[i]) : i \in 1..Len(s)}
Lent(c) == InArenas({c.old, c.new})

\* Everything in an arena belongs to one: the application, or the call of one thread.
Owned ==
    /\ Allocations(chain) = InArenas(held) \cup UNION {Lent(call[p]) : p \in Threads}
    /\ \A p \in Threads : Lent(call[p]) \cap held = {}
    /\ \A p, q \in Threads : p # q => Lent(call[p]) \cap Lent(call[q]) = {}

\* What a thread at a place knows of the two pointers it is about.
Knows(place, c) ==
    /\ place = "idle" => c = NoCall
    /\ c.new # NoPointer => place = "freeOld"
    /\ c.op = "alloc" => c.old = NoPointer
    /\ c.op \in {"realloc", "free"} /\ c.old.arena = 0 => c.old \in FromSystem
    /\ c.old.arena = 0 => c.old \in FromSystem \cup {NoPointer}
    /\ c.new.arena = 0 => c.new = NoPointer
    /\ c.old = c.new => c.old.arena = 0
    /\ c.owner > 0 => c.owner = c.old.arena
    /\ place = "search" => c.old.arena <= c.tail
    /\ place = "system" => c.old \in FromSystem

OwnInv ==
    /\ Owned
    /\ \A p \in Threads : Knows(pc[p], call[p])
    /\ held \ InArenas(held) \subseteq FromSystem
    /\ phase # "on" => Allocations(chain) = {}
    /\ \A i \in 1..Len(chain) : StatsAgree(chain[i])

\* The pointer of an allocation tells its arena.
LEMMA Located ==
    ASSUME NEW s, GoodChain(s), NEW x \in Allocations(s)
    PROVE  x.arena \in 1..Len(s) /\ x.arena > 0 /\ x \in PointersOf(x.arena, s[x.arena])
<1>1. PICK i \in 1..Len(s) : x \in PointersOf(i, s[i])
  BY DEF Allocations
<1>2. GoodArena(s[i])
  BY DEF GoodChain
<1>3. x.arena = i
  BY <1>1, <1>2, PointersAre
<1> QED BY <1>1, <1>3

\* One arena changes: some of its pointers go and others come.
LEMMA SetHolds ==
    ASSUME NEW s, GoodChain(s), NEW i \in 1..Len(s), NEW b, GoodArena(b), StatsAgree(b),
           NEW X, NEW Y, \A y \in Y : y.arena = i,
           PointersOf(i, b) = (PointersOf(i, s[i]) \ Y) \cup X,
           \A j \in 1..Len(s) : StatsAgree(s[j])
    PROVE  /\ Allocations([s EXCEPT ![i] = b]) = (Allocations(s) \ Y) \cup X
           /\ \A j \in 1..Len([s EXCEPT ![i] = b]) : StatsAgree([s EXCEPT ![i] = b][j])
<1> DEFINE t == [s EXCEPT ![i] = b]
<1>1. s \in Seq(ArenaRecord) /\ b \in ArenaRecord
  BY DEF GoodChain, GoodArena
<1>2. Len(t) = Len(s) /\ \A j \in 1..Len(s) : t[j] = IF j = i THEN b ELSE s[j]
  BY <1>1
<1> HIDE DEF t
<1>3. \A x \in Allocations(t) : x \in (Allocations(s) \ Y) \cup X
  <2> SUFFICES ASSUME NEW x \in Allocations(t) PROVE x \in (Allocations(s) \ Y) \cup X
    OBVIOUS
  <2>1. PICK j \in 1..Len(s) : x \in PointersOf(j, t[j])
    BY <1>2 DEF Allocations
  <2>2. CASE j = i
    BY <1>2, <2>1, <2>2 DEF Allocations
  <2>3. CASE j # i
    <3>1. x \in PointersOf(j, s[j]) /\ x.arena = j
      BY <1>2, <2>1, <2>3, PointersAre DEF GoodChain
    <3> QED BY <2>3, <3>1 DEF Allocations
  <2> QED BY <2>2, <2>3
<1>4. \A x \in (Allocations(s) \ Y) \cup X : x \in Allocations(t)
  <2>1. \A x \in X : x \in PointersOf(i, t[i])
    BY <1>2
  <2>2. ASSUME NEW x \in Allocations(s) \ Y
        PROVE  \E j \in 1..Len(t) : x \in PointersOf(j, t[j])
    <3>1. PICK j \in 1..Len(s) : x \in PointersOf(j, s[j])
      BY DEF Allocations
    <3>2. CASE j = i
      BY <1>2, <3>1, <3>2
    <3>3. CASE j # i
      BY <1>2, <3>1, <3>3
    <3> QED BY <3>2, <3>3
  <2> QED BY <1>2, <2>1, <2>2 DEF Allocations
<1>5. \A j \in 1..Len(t) : StatsAgree(t[j])
  BY <1>2
<1> QED BY <1>3, <1>4, <1>5 DEF t

\* An arena without blocks adds nothing.
LEMMA EmptyHolds ==
    ASSUME NEW n
    PROVE  (\A i : PointersOf(i, NewArena(n)) = {}) /\ StatsAgree(NewArena(n))
<1>1. NewArena(n).blocks = <<>> /\ NewArena(n).used = 0 /\ NewArena(n).allocations = 0
  BY DEF NewArena
<1>2. Total(<<>>) = 0
  <2> DEFINE f == [m \in 0..0 |-> 0]
             none == <<>>
  <2>1. none \in Seq(Block) /\ Len(none) = 0
    OBVIOUS
  <2>2. f \in [0..0 -> Int] /\ f[0] = 0
    OBVIOUS
  <2> HIDE DEF f, none
  <2>3. Adds(f, none)
    BY <2>1, <2>2 DEF Adds
  <2>4. Total(none) = f[Len(none)]
    BY <2>1, <2>3, TotalIs
  <2> QED BY <2>1, <2>2, <2>4 DEF none
<1>3. DOMAIN <<>> = {}
  OBVIOUS
<1> QED BY <1>1, <1>2, <1>3 DEF PointersOf, StatsAgree, Range

\* A new arena at the end of the chain changes nothing.
LEMMA AppendAdds ==
    ASSUME NEW s, GoodChain(s), NEW n, \A j \in 1..Len(s) : StatsAgree(s[j])
    PROVE  /\ Allocations(Append(s, NewArena(n))) = Allocations(s)
           /\ \A j \in 1..Len(Append(s, NewArena(n))) : StatsAgree(Append(s, NewArena(n))[j])
<1> DEFINE a == NewArena(n)
           t == Append(s, a)
<1>1. (\A i : PointersOf(i, a) = {}) /\ StatsAgree(a)
  BY EmptyHolds
<1>2. s \in Seq(ArenaRecord) /\ Len(s) \in Nat
  BY DEF GoodChain
<1> HIDE DEF a
<1>3. Len(t) = Len(s) + 1 /\ \A j \in 1..(Len(s) + 1) : t[j] = IF j = Len(s) + 1 THEN a ELSE s[j]
  BY <1>1, <1>2
<1> HIDE DEF t
<1>4. \A j \in 1..Len(t) : StatsAgree(t[j])
  BY <1>1, <1>2, <1>3
<1>5. \A x \in Allocations(t) : x \in Allocations(s)
  <2> SUFFICES ASSUME NEW x \in Allocations(t) PROVE x \in Allocations(s)
    OBVIOUS
  <2>1. PICK j \in 1..Len(t) : x \in PointersOf(j, t[j])
    BY DEF Allocations
  <2>2. j # Len(s) + 1
    BY <1>1, <1>2, <1>3, <2>1
  <2>3. j \in 1..Len(s) /\ t[j] = s[j]
    BY <1>2, <1>3, <2>2
  <2> QED BY <2>1, <2>3 DEF Allocations
<1>6. \A x \in Allocations(s) : x \in Allocations(t)
  <2> SUFFICES ASSUME NEW x \in Allocations(s) PROVE x \in Allocations(t)
    OBVIOUS
  <2>1. PICK j \in 1..Len(s) : x \in PointersOf(j, s[j])
    BY DEF Allocations
  <2>2. j \in 1..Len(t) /\ t[j] = s[j]
    BY <1>2, <1>3
  <2> QED BY <2>1, <2>2 DEF Allocations
<1> QED BY <1>4, <1>5, <1>6 DEF t, a

\* Without its tail a chain is what it was.
LEMMA FrontKeeps ==
    ASSUME NEW s, GoodChain(s)
    PROVE  \A j \in 1..Len(Front(s)) : j \in 1..Len(s) /\ Front(s)[j] = s[j]
<1>1. s \in Seq(ArenaRecord) /\ Len(s) \in Nat
  BY DEF GoodChain
<1>2. \A j \in 1..(Len(s) - 1) : s[j] \in ArenaRecord
  BY <1>1, ElementOfSeq
<1> DEFINE t == SubSeq(s, 1, Len(s) - 1)
<1>3. /\ Len(t) = IF 1 <= Len(s) - 1 THEN Len(s) - 1 - 1 + 1 ELSE 0
      /\ \A j \in 1..(Len(s) - 1 - 1 + 1) : t[j] = s[1 + j - 1]
  BY <1>1, <1>2, SubSeqProperties
<1>4. Front(s) = t
  BY DEF Front
<1> HIDE DEF t
<1> QED BY <1>1, <1>3, <1>4

\* A step of one thread that hands pointers between the arenas, the application and
\* its call, and leaves everyone else's alone.
LEMMA OwnStep ==
    ASSUME HeapInv, OwnInv, NEW p \in Threads, NEW place, NEW c \in Calls,
           pc' = [pc EXCEPT ![p] = place], call' = [call EXCEPT ![p] = c],
           phase' = phase, phase = "on" \/ Allocations(chain') = {},
           Knows(place, c), held' \ InArenas(held') \subseteq FromSystem,
           \A i \in 1..Len(chain') : StatsAgree(chain'[i]),
           Lent(c) \cap held' = {},
           LET mine == InArenas(held) \cup Lent(call[p])
               next == InArenas(held') \cup Lent(c)
               others == Allocations(chain) \ mine
           IN  Allocations(chain') = others \cup next /\ next \cap others = {}
    PROVE  OwnInv'
<1> DEFINE mine == InArenas(held) \cup Lent(call[p])
           next == InArenas(held') \cup Lent(c)
           others == Allocations(chain) \ mine
<1>1. call'[p] = c /\ pc'[p] = place
      /\ \A q \in Threads : q # p => call'[q] = call[q] /\ pc'[q] = pc[q]
  BY DEF HeapInv, HeapType
<1>2. /\ Allocations(chain) = InArenas(held) \cup UNION {Lent(call[q]) : q \in Threads}
      /\ \A q \in Threads : Lent(call[q]) \cap held = {}
      /\ \A q, r \in Threads : q # r => Lent(call[q]) \cap Lent(call[r]) = {}
  BY DEF OwnInv, Owned
<1> DEFINE L(q) == Lent(call[q])
           M(q) == Lent(call'[q])
           H == InArenas(held)
           K == InArenas(held')
<1>3. \A q \in Threads : L(q) \cap H = {}
  BY <1>2 DEF InArenas
<1>4. \A q \in Threads : q # p => M(q) = L(q) /\ L(q) \subseteq others
  BY <1>1, <1>2, <1>3
<1>5. M(p) = Lent(c) /\ M(p) \cap K = {}
  BY <1>1 DEF InArenas
<1>6. \A x \in others : \E q \in Threads : q # p /\ x \in L(q)
  BY <1>2
<1>7. Allocations(chain') = others \cup (K \cup M(p)) /\ (K \cup M(p)) \cap others = {}
  BY <1>5
<1>8. \A q \in Threads : M(q) \cap held' = {}
  <2> SUFFICES ASSUME NEW q \in Threads, q # p PROVE M(q) \cap held' = {}
    BY <1>1
  <2>1. \A x \in M(q) : x.arena > 0
    BY DEF Lent, InArenas
  <2>2. M(q) \cap K = {}
    <3> HIDE DEF L, M, H, K, others
    <3> QED BY <1>4, <1>7
  <2> QED BY <2>1, <2>2 DEF InArenas
<1> HIDE DEF L, M, H, K, others, mine, next
<1>9. Allocations(chain') = K \cup UNION {M(q) : q \in Threads}
  BY <1>4, <1>6, <1>7
<1>10. \A q, r \in Threads : q # r => M(q) \cap M(r) = {}
  <2> SUFFICES ASSUME NEW q \in Threads, NEW r \in Threads, q # r PROVE M(q) \cap M(r) = {}
    OBVIOUS
  <2>1. CASE q # p /\ r # p
    BY <1>2, <1>4, <2>1 DEF L
  <2>2. CASE q = p \/ r = p
    BY <1>4, <1>7, <2>2
  <2> QED BY <2>1, <2>2
<1>11. Owned'
  BY <1>8, <1>9, <1>10 DEF Owned, K, M
<1>12. \A q \in Threads : Knows(pc'[q], call'[q])
  BY <1>1 DEF OwnInv
<1>13. (phase # "on" => Allocations(chain) = {})'
  OBVIOUS
<1> QED BY <1>11, <1>12, <1>13 DEF OwnInv

\* What is known of the pointers a thread is about.
LEMMA Holds ==
    ASSUME HeapInv, OwnInv, NEW p \in Threads
    PROVE  /\ Knows(pc[p], call[p])
           /\ InArenas(held) \subseteq Allocations(chain) /\ Lent(call[p]) \subseteq Allocations(chain)
           /\ Lent(call[p]) \cap held = {}
           /\ held \ InArenas(held) \subseteq FromSystem
           /\ phase # "on" => Allocations(chain) = {}
           /\ \A i \in 1..Len(chain) : StatsAgree(chain[i])
BY DEF OwnInv, Owned

\* No pointer of the system's, nor the null pointer, is in an arena.
LEMMA Outside ==
    /\ \A x \in FromSystem : x.arena = 0
    /\ NoPointer.arena = 0 /\ NoCall.old = NoPointer /\ NoCall.new = NoPointer /\ Lent(NoCall) = {}
BY DEF FromSystem, NoPointer, Pointer, NoCall, Lent, InArenas

\* A step that only moves a thread.
LEMMA StillOwned ==
    ASSUME HeapInv, OwnInv, NEW p \in Threads, NEW place, NEW c \in Calls,
           Goto(p, place), call' = [call EXCEPT ![p] = c], UNCHANGED <<chain, phase, held>>,
           Knows(place, c), c.old = call[p].old, c.new = call[p].new, phase = "on"
    PROVE  OwnInv'
<1>1. Lent(c) = Lent(call[p])
  BY DEF Lent
<1> DEFINE mine == InArenas(held) \cup Lent(call[p])
           next == InArenas(held') \cup Lent(c)
           others == Allocations(chain) \ mine
<1>2. next = mine
  BY <1>1
<1>3. mine \subseteq Allocations(chain)
  BY Holds
<1> HIDE DEF mine
<1>4. Allocations(chain') = others \cup next /\ next \cap others = {}
  BY <1>2, <1>3
<1>5. Lent(c) \cap held' = {} /\ held' \ InArenas(held') \subseteq FromSystem
      /\ \A i \in 1..Len(chain') : StatsAgree(chain'[i])
  BY <1>1, Holds
<1> HIDE DEF others, next
<1> QED BY <1>4, <1>5, OwnStep DEF Goto, mine, others, next

\* A call that ends: the application has what it had, what the call brings, and what
\* it lent to it.
LEMMA ReturnOwned ==
    ASSUME HeapInv, OwnInv, NEW p \in Threads, NEW X, Return(p, X),
           phase' = phase, phase = "on", X \ InArenas(X) \subseteq FromSystem,
           \A i \in 1..Len(chain') : StatsAgree(chain'[i]),
           LET mine == InArenas(held) \cup Lent(call[p])
               next == InArenas(held) \cup InArenas(X)
               others == Allocations(chain) \ mine
           IN  Allocations(chain') = others \cup next /\ next \cap others = {}
    PROVE  OwnInv'
<1>1. pc' = [pc EXCEPT ![p] = "idle"] /\ call' = [call EXCEPT ![p] = NoCall] /\ held' = held \cup X
  BY DEF Return, Goto
<1>2. Lent(NoCall) = {} /\ Lent(NoCall) \cap held' = {}
  BY Outside
<1>3. InArenas(held') \cup Lent(NoCall) = InArenas(held) \cup InArenas(X)
  BY <1>1, <1>2 DEF InArenas
<1>4. held' \ InArenas(held') \subseteq FromSystem
  BY <1>1, Holds DEF InArenas
<1>5. Knows("idle", NoCall)
  BY Outside DEF Knows, NoCall
<1>6. NoCall \in Calls
  BY NoCallTyped
<1> QED BY <1>1, <1>2, <1>3, <1>4, <1>5, <1>6, OwnStep

\* A call that starts over.
LEMMA AgainOwned ==
    ASSUME HeapInv, OwnInv, NEW p \in Threads, Again(p), UNCHANGED <<chain, phase>>,
           pc[p] \in {"check", "new", "realloc"}
    PROVE  OwnInv'
<1> DEFINE c == [call[p] EXCEPT !.at = 1, !.refused = FALSE]
<1>1. /\ c \in Calls /\ c.op = call[p].op /\ c.owner = call[p].owner
      /\ c.old = call[p].old /\ c.new = call[p].new
  BY Known DEF Calls
<1>2. Goto(p, "tail") /\ call' = [call EXCEPT ![p] = c] /\ held' = held
  BY DEF Again, Goto, HeapInv, HeapType
<1> HIDE DEF c
<1>3. phase = "on"
  BY Known DEF Fits
<1>4. Knows("tail", c)
  BY <1>1, Holds DEF Knows
<1> QED BY <1>1, <1>2, <1>3, <1>4, StillOwned

\* An allocation belongs to whom it is for, or to the call that will copy to it.
LEMMA AllocatedOwned ==
    ASSUME HeapInv, OwnInv, NEW p \in Threads, NEW i \in 1..Len(chain), Allocated(p, i),
           pc[p] \in {"try", "new"}
    PROVE  OwnInv'
<1> DEFINE want == call[p].want
<1>1. want \in Nat \ {0} /\ phase = "on" /\ call[p].op \in {"alloc", "realloc"}
  BY Known DEF Fits
<1>2. GoodArena(chain[i]) /\ StatsAgree(chain[i]) /\ i \in Nat /\ i > 0
  BY Known, Holds DEF GoodChain
<1>3. PICK k \in FirstFit(chain[i], want) :
        LET new == Pointer(i, PtrBehind(chain[i], k), want) IN
        /\ SetArena(i, Alloc(chain[i], k, want))
        /\ IF call[p].op = "alloc"
             THEN Return(p, {new})
             ELSE Goto(p, "freeOld") /\ call' = [call EXCEPT ![p].new = new] /\ UNCHANGED held
        /\ UNCHANGED phase
  BY DEF Allocated
<1>4. k \in Room(chain[i], want) /\ k \in 0..Len(chain[i].blocks)
  BY DEF FirstFit, Room
<1> DEFINE new == Pointer(i, PtrBehind(chain[i], k), want)
           b == Alloc(chain[i], k, want)
<1>5. new \in Pointers /\ new.arena = i /\ new.ptr = PtrBehind(chain[i], k)
  <2>1. PtrBehind(chain[i], k) \in Nat
    BY <1>2, <1>4, PlaceBehind
  <2> QED BY <1>1, <1>2, <2>1 DEF Pointer, Pointers
<1>6. /\ PointersOf(i, b) = PointersOf(i, chain[i]) \cup {new}
      /\ \A x \in PointersOf(i, chain[i]) : x.ptr # new.ptr
      /\ StatsAgree(b)
  BY <1>1, <1>2, <1>4, <1>5, AllocHolds
<1>7. GoodArena(b)
  BY <1>1, <1>2, <1>4, AllocGood
<1>8. chain' = [chain EXCEPT ![i] = b] /\ phase' = phase
  BY <1>3 DEF SetArena
<1> HIDE DEF new, b, want
<1>9. new \notin Allocations(chain)
  BY <1>5, <1>6, Known, Located
<1>10. /\ Allocations(chain') = Allocations(chain) \cup {new}
       /\ \A j \in 1..Len(chain') : StatsAgree(chain'[j])
  <2>1. PointersOf(i, b) = (PointersOf(i, chain[i]) \ {}) \cup {new}
    BY <1>6
  <2>2. \A y \in {} : y.arena = i
    OBVIOUS
  <2>3. /\ Allocations([chain EXCEPT ![i] = b]) = (Allocations(chain) \ {}) \cup {new}
        /\ \A j \in 1..Len([chain EXCEPT ![i] = b]) : StatsAgree([chain EXCEPT ![i] = b][j])
    BY <1>6, <1>7, <2>1, <2>2, Known, Holds, SetHolds
  <2> QED BY <1>8, <2>3
<1> DEFINE mine == InArenas(held) \cup Lent(call[p])
           others == Allocations(chain) \ mine
<1>11. InArenas({new}) = {new}
  BY <1>2, <1>5 DEF InArenas
<1>12. mine \subseteq Allocations(chain)
  BY Holds
<1>13. CASE call[p].op = "alloc"
  <2>1. Return(p, {new})
    BY <1>3, <1>13 DEF new, want
  <2>2. Lent(call[p]) = {}
    <3>1. call[p].old = NoPointer /\ call[p].new = NoPointer
      BY <1>13, Holds DEF Knows
    <3> QED BY <3>1, Outside DEF Lent, InArenas
  <2> DEFINE next == InArenas(held) \cup InArenas({new})
  <2>3. next = mine \cup {new}
    BY <1>11, <2>2
  <2> HIDE DEF mine, next
  <2>4. Allocations(chain') = others \cup next /\ next \cap others = {}
    BY <1>9, <1>10, <1>12, <2>3
  <2>5. {new} \ InArenas({new}) \subseteq FromSystem
    BY <1>11
  <2> HIDE DEF others
  <2> QED BY <1>1, <1>8, <1>10, <2>1, <2>4, <2>5, ReturnOwned DEF mine, others, next
<1>14. CASE call[p].op = "realloc"
  <2> DEFINE c == [call[p] EXCEPT !.new = new]
  <2>1. /\ pc' = [pc EXCEPT ![p] = "freeOld"] /\ call' = [call EXCEPT ![p] = c] /\ held' = held
    BY <1>3, <1>14 DEF new, want, HeapInv, HeapType, Goto
  <2>2. /\ c \in Calls /\ c.op = call[p].op /\ c.owner = call[p].owner
        /\ c.old = call[p].old /\ c.new = new
    BY <1>5, Known DEF Calls
  <2> HIDE DEF c
  <2>3. call[p].new = NoPointer /\ call[p].new.arena = 0
    BY Holds, Outside DEF Knows
  <2>4. Lent(c) = Lent(call[p]) \cup {new}
    BY <1>11, <2>2, <2>3 DEF Lent, InArenas
  <2>5. call[p].old # new
    <3>1. new.arena > 0
      BY <1>2, <1>5
    <3>2. call[p].old.arena > 0 => call[p].old \in Lent(call[p])
      BY DEF Lent, InArenas
    <3> QED BY <1>9, <3>1, <3>2, Holds
  <2>6. Knows("freeOld", c)
    <3>1. new.arena # 0
      BY <1>2, <1>5
    <3>2. Knows(pc[p], call[p])
      BY Holds
    <3> QED BY <1>14, <2>2, <2>5, <3>1, <3>2 DEF Knows
  <2> DEFINE next == InArenas(held') \cup Lent(c)
  <2>7. next = mine \cup {new}
    BY <2>1, <2>4
  <2>8. Lent(c) \cap held' = {}
    <3>1. new \notin held
      BY <1>2, <1>5, <1>9, Holds DEF InArenas
    <3> QED BY <2>1, <2>4, <3>1, Holds
  <2> HIDE DEF mine, next
  <2>9. Allocations(chain') = others \cup next /\ next \cap others = {}
    BY <1>9, <1>10, <1>12, <2>7
  <2>10. held' \ InArenas(held') \subseteq FromSystem
    BY <2>1, Holds
  <2> HIDE DEF others
  <2> QED BY <1>1, <1>8, <1>10, <2>1, <2>2, <2>6, <2>8, <2>9, <2>10, OwnStep DEF mine, others, next
<1> QED BY <1>1, <1>13, <1>14

\* A call begins with an allocation of the application, or with none.
LEMMA BeginOwned ==
    ASSUME HeapInv, OwnInv, NEW p \in Threads, NEW op \in {"alloc", "realloc", "free"}, NEW want \in Nat,
           NEW old \in Pointers, Begin(p, op, want, old),
           IF op = "alloc" THEN old = NoPointer ELSE old \in held
    PROVE  OwnInv'
<1> DEFINE c == [NoCall EXCEPT !.op = op, !.want = want, !.old = old, !.at = 1]
<1>1. c \in Calls /\ c.op = op /\ c.owner = 0 /\ c.old = old /\ c.new = NoPointer
  BY NoCallTyped DEF Calls, NoCall
<1>2. /\ pc' = [pc EXCEPT ![p] = "tail"] /\ call' = [call EXCEPT ![p] = c]
      /\ held' = held \ {old} /\ chain' = chain /\ phase' = phase /\ phase = "on"
      /\ pc[p] = "idle"
  BY DEF Begin, Goto
<1> HIDE DEF c
<1>3. Lent(call[p]) = {}
  BY <1>2, Holds, Outside DEF Knows
<1>4. Lent(c) = InArenas({old})
  BY <1>1, Outside DEF Lent, InArenas
<1>5. Lent(c) \subseteq InArenas(held) /\ InArenas(held) = InArenas(held') \cup Lent(c)
  BY <1>2, <1>4, Outside DEF InArenas
<1>6. Lent(c) \cap held' = {}
  BY <1>2, <1>4 DEF InArenas
<1>7. Knows("tail", c)
  <2>1. old.arena = 0 => old \in FromSystem \/ (op = "alloc" /\ old = NoPointer)
    BY Holds DEF InArenas
  <2> QED BY <1>1, <2>1, Outside DEF Knows
<1>8. held' \ InArenas(held') \subseteq FromSystem
  BY <1>2, Holds DEF InArenas
<1> DEFINE mine == InArenas(held) \cup Lent(call[p])
           next == InArenas(held') \cup Lent(c)
           others == Allocations(chain) \ mine
<1>9. next = mine /\ mine \subseteq Allocations(chain)
  BY <1>3, <1>5, Holds
<1> HIDE DEF mine, next
<1>10. Allocations(chain') = others \cup next /\ next \cap others = {}
  BY <1>2, <1>9
<1>11. \A i \in 1..Len(chain') : StatsAgree(chain'[i])
  BY <1>2, Holds
<1> HIDE DEF others
<1> QED BY <1>1, <1>2, <1>6, <1>7, <1>8, <1>10, <1>11, OwnStep DEF mine, others, next

\* Whatever an application calls, of the heap or of the system.
LEMMA CallingOwned ==
    ASSUME HeapInv, OwnInv, NEW p \in Threads, Calling(p)
    PROVE  OwnInv'
<1>0. \A size \in Sizes : size \in Nat /\ size > 0
  BY HeapAssumption
<1>1. CASE Malloc(p)
  BY <1>0, <1>1, BeginOwned, NoCallTyped DEF Malloc
<1>2. CASE ReallocCall(p)
  BY <1>0, <1>2, BeginOwned, Known DEF ReallocCall
<1>3. CASE FreeCall(p)
  BY <1>3, BeginOwned, Known DEF FreeCall
<1>4. CASE SystemMalloc(p) \/ SystemFree(p)
  <2>1. /\ UNCHANGED <<chain, phase, pc, call>> /\ phase # "on" /\ pc[p] = "idle"
        /\ \A x \in held' : x \in held \/ x \in FromSystem
    BY <1>4 DEF SystemMalloc, SystemFree
  <2>2. Allocations(chain) = {} /\ InArenas(held) = {}
    BY <2>1, Holds
  <2>3. InArenas(held') = {}
    BY <2>1, <2>2, Outside DEF InArenas
  <2>4. held' \ InArenas(held') \subseteq FromSystem
    BY <2>1, <2>2, Holds DEF InArenas
  <2>5. Owned'
    <3>1. \A q \in Threads : Lent(call[q]) = {}
      BY <2>2, Holds
    <3> QED BY <2>1, <2>2, <2>3, <3>1 DEF Owned
  <2> QED BY <2>1, <2>4, <2>5 DEF OwnInv
<1> QED BY <1>1, <1>2, <1>3, <1>4 DEF Calling

\* The walk to the tail passes the arena of what the call is about.
LEMMA WalkOwned ==
    ASSUME HeapInv, OwnInv, NEW p \in Threads, Walk(p)
    PROVE  OwnInv'
<1> DEFINE c == [call[p] EXCEPT !.at = Len(chain), !.tail = Len(chain)]
           place == IF Searching(p) THEN "search" ELSE "try"
<1>1. /\ c \in Calls /\ c.op = call[p].op /\ c.owner = call[p].owner
      /\ c.old = call[p].old /\ c.new = call[p].new /\ c.tail = Len(chain)
  BY Known DEF Calls
<1>2. Goto(p, place) /\ call' = [call EXCEPT ![p] = c] /\ UNCHANGED <<chain, phase, held>>
  BY DEF Walk, HeapInv, HeapType
<1> HIDE DEF c
<1>3. phase = "on" /\ pc[p] = "tail"
  BY Known DEF Walk, Fits
<1>4. c.old.arena <= Len(chain)
  <2>1. c.old.arena \in Nat /\ Len(chain) \in Nat
    BY <1>1, Known DEF Pointers
  <2>2. c.old.arena > 0 => c.old \in Lent(call[p])
    BY <1>1 DEF Lent, InArenas
  <2>3. c.old.arena > 0 => c.old.arena \in 1..Len(chain)
    BY <2>2, Known, Holds, Located
  <2> QED BY <2>1, <2>3
<1>5. Knows(place, c)
  BY <1>1, <1>3, <1>4, Holds DEF Knows
<1> HIDE DEF place
<1> QED BY <1>1, <1>2, <1>3, <1>5, StillOwned

\* A look at one arena for room.
LEMMA TryOwned ==
    ASSUME HeapInv, OwnInv, NEW p \in Threads, Try(p)
    PROVE  OwnInv'
<1> DEFINE i == call[p].at
<1>1. pc[p] = "try" /\ i \in 1..Len(chain) /\ phase = "on"
  BY Known DEF Try, Fits
<1>2. CASE Allocated(p, i)
  BY <1>1, <1>2, AllocatedOwned
<1>3. CASE i > 1 /\ call' = [call EXCEPT ![p].at = i - 1] /\ UNCHANGED <<pc, chain, phase, held>>
  <2> DEFINE c == [call[p] EXCEPT !.at = i - 1]
  <2>1. /\ c \in Calls /\ c.op = call[p].op /\ c.owner = call[p].owner
        /\ c.old = call[p].old /\ c.new = call[p].new /\ c.tail = call[p].tail
    BY <1>1, <1>3, Known DEF Calls
  <2>2. call' = [call EXCEPT ![p] = c] /\ Goto(p, "try")
    BY <1>1, <1>3 DEF Goto, HeapInv, HeapType
  <2> HIDE DEF c
  <2>3. Knows("try", c)
    BY <1>1, <2>1, Holds DEF Knows
  <2> QED BY <1>1, <1>3, <2>1, <2>2, <2>3, StillOwned
<1>4. CASE Goto(p, "grow") /\ UNCHANGED <<call, chain, phase, held>>
  <2>1. call' = [call EXCEPT ![p] = call[p]]
    BY <1>4 DEF HeapInv, HeapType
  <2>2. Knows("grow", call[p])
    BY <1>1, Holds DEF Knows
  <2> QED BY <1>1, <1>4, <2>1, <2>2, Known, StillOwned
<1> QED BY <1>2, <1>3, <1>4 DEF Try

\* An arena is appended, or not.
LEMMA GrowOwned ==
    ASSUME HeapInv, OwnInv, NEW p \in Threads, Grow(p)
    PROVE  OwnInv'
<1>1. pc[p] = "grow" /\ phase = "on" /\ held' = held /\ phase' = phase
  BY Known DEF Grow, Fits
<1>2. PICK refused \in BOOLEAN, place \in {"new", "check"} :
        /\ call' = [call EXCEPT ![p] = [call[p] EXCEPT !.refused = refused]] /\ Goto(p, place)
        /\ chain' = chain \/ \E size : chain' = Append(chain, NewArena(PayloadSize(size)))
  <2>1. call[p] = [call[p] EXCEPT !.refused = call[p].refused] /\ call[p].refused \in BOOLEAN
    BY Known DEF Calls
  <2>2. \/ call' = call
        \/ call' = [call EXCEPT ![p] = [call[p] EXCEPT !.refused = TRUE]]
    BY DEF Grow, HeapInv, HeapType
  <2>3. \E refused \in BOOLEAN : call' = [call EXCEPT ![p] = [call[p] EXCEPT !.refused = refused]]
    BY <2>1, <2>2 DEF HeapInv, HeapType
  <2>4. Goto(p, "new") \/ Goto(p, "check")
    BY DEF Grow
  <2>5. chain' = chain \/ \E size : chain' = Append(chain, NewArena(PayloadSize(size)))
    BY DEF Grow
  <2> QED BY <2>3, <2>4, <2>5
<1> DEFINE c == [call[p] EXCEPT !.refused = refused]
<1>3. /\ c \in Calls /\ c.op = call[p].op /\ c.owner = call[p].owner
      /\ c.old = call[p].old /\ c.new = call[p].new /\ c.tail = call[p].tail
  BY Known DEF Calls
<1> HIDE DEF c
<1>4. Knows(place, c)
  BY <1>1, <1>3, Holds DEF Knows
<1>5. Allocations(chain') = Allocations(chain) /\ \A i \in 1..Len(chain') : StatsAgree(chain'[i])
  <2>1. CASE chain' = chain
    BY <2>1, Holds
  <2>2. ASSUME NEW size, chain' = Append(chain, NewArena(PayloadSize(size)))
        PROVE  Allocations(chain') = Allocations(chain) /\ \A i \in 1..Len(chain') : StatsAgree(chain'[i])
    BY <2>2, Known, Holds, AppendAdds
  <2> QED BY <1>2, <2>1, <2>2
<1> DEFINE mine == InArenas(held) \cup Lent(call[p])
           next == InArenas(held') \cup Lent(c)
           others == Allocations(chain) \ mine
<1>6. next = mine /\ mine \subseteq Allocations(chain)
  BY <1>1, <1>3, Holds DEF Lent
<1> HIDE DEF mine, next
<1>7. Allocations(chain') = others \cup next /\ next \cap others = {}
  BY <1>5, <1>6
<1>8. Lent(c) \cap held' = {} /\ held' \ InArenas(held') \subseteq FromSystem
  BY <1>1, <1>3, Holds DEF Lent
<1> HIDE DEF others
<1> QED BY <1>1, <1>2, <1>3, <1>4, <1>5, <1>7, <1>8, OwnStep DEF Goto, mine, others, next, c

\* A call without memory gives the old allocation back.
LEMMA CheckOwned ==
    ASSUME HeapInv, OwnInv, NEW p \in Threads, Check(p)
    PROVE  OwnInv'
<1>1. pc[p] = "check" /\ phase = "on" /\ UNCHANGED <<chain, phase>> /\ call[p].op \in {"alloc", "realloc"}
  BY Known DEF Check, Fits
<1>2. CASE Again(p)
  BY <1>1, <1>2, AgainOwned
<1>3. CASE Fail(p)
  <2> DEFINE X == {call[p].old} \ {NoPointer}
             mine == InArenas(held) \cup Lent(call[p])
             next == InArenas(held) \cup InArenas(X)
             others == Allocations(chain) \ mine
  <2>1. call[p].new = NoPointer
    BY <1>1, Holds DEF Knows
  <2>2. InArenas(X) = Lent(call[p])
    BY <2>1, Outside DEF InArenas, Lent
  <2>3. X \ InArenas(X) \subseteq FromSystem
    <3>1. call[p].old.arena \in Nat
      BY Known DEF Pointers
    <3>2. call[p].old.arena = 0 => call[p].old \in FromSystem \cup {NoPointer}
      BY Holds DEF Knows
    <3> QED BY <3>1, <3>2 DEF InArenas
  <2>4. next = mine /\ mine \subseteq Allocations(chain)
    BY <2>2, Holds
  <2>5. Return(p, X)
    BY <1>3 DEF Fail
  <2> HIDE DEF X, mine, next
  <2>6. Allocations(chain') = others \cup next /\ next \cap others = {}
    BY <1>1, <2>4
  <2>7. \A i \in 1..Len(chain') : StatsAgree(chain'[i])
    BY <1>1, Holds
  <2> HIDE DEF others
  <2> QED BY <1>1, <2>3, <2>5, <2>6, <2>7, ReturnOwned DEF mine, next, others
<1> QED BY <1>2, <1>3 DEF Check

\* The look at the arena that was appended.
LEMMA TryNewOwned ==
    ASSUME HeapInv, OwnInv, NEW p \in Threads, TryNew(p)
    PROVE  OwnInv'
<1>1. call[p].tail + 1 \in 1..Len(chain) /\ pc[p] = "new"
  BY Known DEF TryNew, Fits
<1>2. CASE Allocated(p, call[p].tail + 1)
  BY <1>1, <1>2, AllocatedOwned
<1>3. CASE Again(p) /\ UNCHANGED <<chain, phase>>
  BY <1>1, <1>3, AgainOwned
<1> QED BY <1>2, <1>3 DEF TryNew

\* The search finds the arena of what is in one: only the rest is the system's.
LEMMA SearchOwned ==
    ASSUME HeapInv, OwnInv, NEW p \in Threads, Search(p)
    PROVE  OwnInv'
<1>1. /\ pc[p] = "search" /\ call[p].tail \in 1..Len(chain) /\ call[p].op \in {"realloc", "free"}
      /\ phase = "on"
  BY Known DEF Search, Fits
<1>2. ASSUME NEW i \in 1..call[p].tail, Owns(i, call[p].old), call' = [call EXCEPT ![p].owner = i],
             Goto(p, call[p].op), UNCHANGED <<chain, phase, held>>
      PROVE  OwnInv'
  <2> DEFINE c == [call[p] EXCEPT !.owner = i]
  <2>1. /\ c \in Calls /\ c.op = call[p].op /\ c.owner = i
        /\ c.old = call[p].old /\ c.new = call[p].new
    BY <1>1, Known DEF Calls
  <2>2. call' = [call EXCEPT ![p] = c]
    BY <1>2 DEF HeapInv, HeapType
  <2> HIDE DEF c
  <2>3. Knows(call[p].op, c)
    BY <1>1, <1>2, <2>1, Holds DEF Knows, Owns
  <2> QED BY <1>1, <1>2, <2>1, <2>2, <2>3, StillOwned
<1>3. CASE /\ \A i \in 1..call[p].tail : ~Owns(i, call[p].old)
           /\ Goto(p, "system") /\ UNCHANGED <<call, chain, phase, held>>
  <2>1. call' = [call EXCEPT ![p] = call[p]]
    BY <1>3 DEF HeapInv, HeapType
  <2>2. call[p].old.arena = 0
    <3> SUFFICES ASSUME call[p].old.arena # 0 PROVE FALSE
      OBVIOUS
    <3> DEFINE o == call[p].old.arena
    <3>1. o \in Nat /\ o > 0
      BY Known DEF Pointers
    <3>2. call[p].old \in Allocations(chain)
      BY <3>1, Holds DEF Lent, InArenas
    <3>3. o \in 1..Len(chain) /\ call[p].old \in PointersOf(o, chain[o])
      BY <3>2, Known, Located
    <3>4. GoodArena(chain[o])
      BY <3>3, Known DEF GoodChain
    <3>5. PICK j \in DOMAIN chain[o].blocks :
            call[p].old = Pointer(o, chain[o].blocks[j].ptr, chain[o].blocks[j].size)
      BY <3>3, <3>4, PointersAre
    <3>6. At(chain[o], call[p].old.ptr) # {}
      <4>1. call[p].old.ptr = chain[o].blocks[j].ptr
        BY <3>5 DEF Pointer
      <4> QED BY <3>5, <4>1 DEF At
    <3>7. o \in 1..call[p].tail
      <4>1. o <= call[p].tail
        BY <1>1, Holds DEF Knows
      <4> QED BY <1>1, <3>1, <4>1
    <3> QED BY <1>3, <3>6, <3>7 DEF Owns
  <2>3. Knows("system", call[p])
    BY <1>1, <2>2, Holds DEF Knows
  <2> QED BY <1>1, <1>3, <2>1, <2>3, Known, StillOwned
<1> QED BY <1>2, <1>3 DEF Search

\* The system's allocator gets what is its own, and no arena hears of it.
LEMMA SystemOwned ==
    ASSUME HeapInv, OwnInv, NEW p \in Threads, System(p)
    PROVE  OwnInv'
<1> DEFINE X == IF call[p].op = "free" THEN {} ELSE {call[p].old}
           mine == InArenas(held) \cup Lent(call[p])
           next == InArenas(held) \cup InArenas(X)
           others == Allocations(chain) \ mine
<1>1. pc[p] = "system" /\ phase = "on" /\ UNCHANGED <<chain, phase>> /\ Return(p, X)
  BY Known DEF System, Fits
<1>2. call[p].old \in FromSystem /\ call[p].new = NoPointer
  BY <1>1, Holds DEF Knows
<1>3. Lent(call[p]) = {} /\ InArenas(X) = {} /\ X \subseteq FromSystem
  BY <1>2, Outside DEF Lent, InArenas
<1>4. next = mine /\ mine \subseteq Allocations(chain) /\ X \ InArenas(X) \subseteq FromSystem
  BY <1>3, Holds
<1> HIDE DEF X, mine, next
<1>5. Allocations(chain') = others \cup next /\ next \cap others = {}
  BY <1>1, <1>4
<1>6. \A i \in 1..Len(chain') : StatsAgree(chain'[i])
  BY <1>1, Holds
<1> HIDE DEF others
<1> QED BY <1>1, <1>4, <1>5, <1>6, ReturnOwned DEF mine, next, others

\* The owner of what a call is about has it, at its address.
LEMMA OwnerHas ==
    ASSUME HeapInv, OwnInv, NEW p \in Threads, call[p].owner > 0,
           NEW i \in At(chain[call[p].owner], call[p].old.ptr)
    PROVE  LET o == call[p].owner IN
           /\ o \in 1..Len(chain) /\ i \in 1..Len(chain[o].blocks) /\ o = call[p].old.arena
           /\ GoodArena(chain[o]) /\ StatsAgree(chain[o])
           /\ call[p].old = Pointer(o, chain[o].blocks[i].ptr, chain[o].blocks[i].size)
           /\ call[p].old \in Lent(call[p]) /\ call[p].old \in Allocations(chain)
<1> DEFINE o == call[p].owner
<1>1. o \in 1..Len(chain) /\ o = call[p].old.arena
  BY Known, Holds DEF Fits, Knows
<1>2. GoodArena(chain[o]) /\ StatsAgree(chain[o])
  BY <1>1, Known, Holds DEF GoodChain
<1>3. call[p].old \in Lent(call[p]) /\ call[p].old \in Allocations(chain)
  BY <1>1, Holds DEF Lent, InArenas
<1>4. call[p].old \in PointersOf(o, chain[o])
  BY <1>1, <1>3, Known, Located
<1>5. i \in DOMAIN chain[o].blocks /\ chain[o].blocks[i].ptr = call[p].old.ptr
      /\ i \in 1..Len(chain[o].blocks)
  BY <1>2, PointersAre DEF At
<1> DEFINE x == Pointer(o, chain[o].blocks[i].ptr, chain[o].blocks[i].size)
<1>6. x \in PointersOf(o, chain[o]) /\ x.ptr = call[p].old.ptr
  BY <1>2, <1>5, PointersAre DEF Pointer
<1>7. o \in Nat
  BY <1>1
<1> HIDE DEF x, o
<1>8. call[p].old = x
  BY <1>2, <1>4, <1>6, <1>7, PlaceTells
<1> QED BY <1>1, <1>2, <1>3, <1>5, <1>8 DEF x, o

\* A free takes the allocation from its arena; after a move the copy is handed out.
LEMMA FreeOwnedOwned ==
    ASSUME HeapInv, OwnInv, NEW p \in Threads, FreeOwned(p)
    PROVE  OwnInv'
<1> DEFINE o == call[p].owner
           old == call[p].old
           X == {call[p].new} \ {NoPointer}
<1>1. phase = "on" /\ phase' = phase /\ Return(p, X) /\ o > 0
  BY Known DEF FreeOwned, Fits
<1>2. PICK i \in At(chain[o], old.ptr) : SetArena(o, Unlink(chain[o], i - 1, i))
  BY DEF FreeOwned
<1>3. /\ o \in 1..Len(chain) /\ i \in 1..Len(chain[o].blocks) /\ o = old.arena /\ o \in Nat
      /\ GoodArena(chain[o]) /\ StatsAgree(chain[o])
      /\ old = Pointer(o, chain[o].blocks[i].ptr, chain[o].blocks[i].size)
      /\ old \in Lent(call[p]) /\ old \in Allocations(chain)
  BY <1>1, <1>2, OwnerHas
<1> DEFINE b == Unlink(chain[o], i - 1, i)
<1>4. GoodArena(b)
  BY <1>3, UnlinkGood
<1>5. PointersOf(o, b) = PointersOf(o, chain[o]) \ {old} /\ StatsAgree(b)
  <2> DEFINE a == chain[o]
  <2>1. GoodArena(a) /\ StatsAgree(a) /\ i \in 1..Len(a.blocks) /\ o \in Nat
        /\ old = Pointer(o, a.blocks[i].ptr, a.blocks[i].size)
    BY <1>3
  <2> HIDE DEF a, o, old
  <2>2. /\ PointersOf(o, Unlink(a, i - 1, i)) =
              PointersOf(o, a) \ {Pointer(o, a.blocks[i].ptr, a.blocks[i].size)}
        /\ StatsAgree(Unlink(a, i - 1, i))
    BY <2>1, UnlinkHolds
  <2> QED BY <2>1, <2>2 DEF a
<1>6. chain' = [chain EXCEPT ![o] = b]
  BY <1>2 DEF SetArena
<1> HIDE DEF b, o, old, X
<1>7. /\ Allocations(chain') = Allocations(chain) \ {old}
      /\ \A j \in 1..Len(chain') : StatsAgree(chain'[j])
  <2> DEFINE Y == {old}
             Z == {}
  <2>1. PointersOf(o, b) = (PointersOf(o, chain[o]) \ Y) \cup Z /\ \A y \in Y : y.arena = o
    BY <1>3, <1>5
  <2>2. GoodChain(chain) /\ \A j \in 1..Len(chain) : StatsAgree(chain[j])
    BY Known, Holds
  <2>3. o \in 1..Len(chain) /\ GoodArena(b) /\ StatsAgree(b)
    BY <1>3, <1>4, <1>5
  <2> HIDE DEF Y, Z
  <2>4. /\ Allocations([chain EXCEPT ![o] = b]) = (Allocations(chain) \ Y) \cup Z
        /\ \A j \in 1..Len([chain EXCEPT ![o] = b]) : StatsAgree([chain EXCEPT ![o] = b][j])
    BY <2>1, <2>2, <2>3, SetHolds
  <2> QED BY <1>6, <2>4 DEF Y, Z
<1> DEFINE mine == InArenas(held) \cup Lent(call[p])
           next == InArenas(held) \cup InArenas(X)
           others == Allocations(chain) \ mine
<1>8. call[p].new.arena \in Nat /\ (call[p].new.arena = 0 => call[p].new = NoPointer)
  BY Known, Holds DEF Knows, Pointers
<1>9. Lent(call[p]) = {old} \cup InArenas(X) /\ old \notin InArenas(X)
  <2>1. call[p].old = call[p].new => call[p].old.arena = 0
    BY Holds DEF Knows
  <2>2. InArenas(X) = InArenas({call[p].new})
    BY <1>8, Outside DEF X, InArenas
  <2>3. old.arena > 0 /\ old = call[p].old
    BY <1>3 DEF o, old, Lent, InArenas
  <2>4. Lent(call[p]) = {old} \cup InArenas({call[p].new})
    BY <2>3 DEF Lent, InArenas
  <2>5. old # call[p].new
    BY <2>1, <2>3
  <2>6. old \notin InArenas({call[p].new})
    BY <2>5 DEF InArenas
  <2> QED BY <2>2, <2>4, <2>6
<1>10. old \notin InArenas(held)
  BY <1>3, Holds DEF InArenas
<1>11. mine \subseteq Allocations(chain)
  BY Holds
<1>12. next = mine \ {old}
  BY <1>9, <1>10
<1>13. X \ InArenas(X) \subseteq FromSystem
  BY <1>8 DEF X, InArenas
<1>14. old \in mine
  BY <1>9
<1> HIDE DEF mine, next
<1>15. Allocations(chain') = others \cup next /\ next \cap others = {}
  BY <1>7, <1>11, <1>12, <1>14
<1> HIDE DEF others
<1> QED BY <1>1, <1>7, <1>13, <1>15, ReturnOwned DEF mine, next, others

\* A realloc within the owner exchanges one pointer for another.
LEMMA ReallocOwnedOwned ==
    ASSUME HeapInv, OwnInv, NEW p \in Threads, ReallocOwned(p)
    PROVE  OwnInv'
<1> DEFINE o == call[p].owner
           old == call[p].old
           size == call[p].want
<1>1. pc[p] = "realloc" /\ phase = "on" /\ phase' = phase /\ o > 0 /\ size \in Nat \ {0}
  BY Known DEF ReallocOwned, Fits
<1>2. CASE Again(p) /\ UNCHANGED <<chain, phase>>
  BY <1>1, <1>2, AgainOwned
<1>3. ASSUME NEW i \in At(chain[o], old.ptr), NEW r \in Realloc(chain[o], i, size),
             SetArena(o, r.arena), Return(p, {Pointer(o, r.ptr, size)})
      PROVE  OwnInv'
  <2>1. /\ o \in 1..Len(chain) /\ i \in 1..Len(chain[o].blocks) /\ o = old.arena /\ o \in Nat
        /\ GoodArena(chain[o]) /\ StatsAgree(chain[o])
        /\ old = Pointer(o, chain[o].blocks[i].ptr, chain[o].blocks[i].size)
        /\ old \in Lent(call[p]) /\ old \in Allocations(chain)
    <3>1. i \in At(chain[call[p].owner], call[p].old.ptr) /\ call[p].owner > 0
      BY <1>1, <1>3
    <3>2. LET w == call[p].owner IN
          /\ w \in 1..Len(chain) /\ i \in 1..Len(chain[w].blocks) /\ w = call[p].old.arena
          /\ GoodArena(chain[w]) /\ StatsAgree(chain[w])
          /\ call[p].old = Pointer(w, chain[w].blocks[i].ptr, chain[w].blocks[i].size)
          /\ call[p].old \in Lent(call[p]) /\ call[p].old \in Allocations(chain)
      <4> HIDE DEF o, old, size
      <4> QED BY <3>1, OwnerHas
    <3>3. o \in Nat
      BY Known DEF Calls
    <3> QED BY <3>2, <3>3
  <2> DEFINE new == Pointer(o, r.ptr, size)
             b == r.arena
  <2>2. GoodArena(b)
    BY <1>1, <2>1, ReallocGood
  <2>3. /\ PointersOf(o, b) = (PointersOf(o, chain[o]) \ {old}) \cup {new}
        /\ new \notin PointersOf(o, chain[o]) \ {old}
        /\ StatsAgree(b)
    <3> DEFINE a == chain[o]
    <3>1. /\ GoodArena(a) /\ StatsAgree(a) /\ i \in 1..Len(a.blocks) /\ o \in Nat /\ size \in Nat \ {0}
          /\ old = Pointer(o, a.blocks[i].ptr, a.blocks[i].size) /\ r \in Realloc(a, i, size)
      BY <1>1, <1>3, <2>1
    <3> HIDE DEF a, o, old, size
    <3>2. LET was == Pointer(o, a.blocks[i].ptr, a.blocks[i].size)
              is == Pointer(o, r.ptr, size)
          IN  /\ PointersOf(o, r.arena) = (PointersOf(o, a) \ {was}) \cup {is}
              /\ is \notin PointersOf(o, a) \ {was}
              /\ StatsAgree(r.arena)
      BY <3>1, ReallocHolds
    <3> QED BY <3>1, <3>2 DEF a
  <2>4. chain' = [chain EXCEPT ![o] = b] /\ new.arena = o
    BY <1>3 DEF SetArena, Pointer
  <2> HIDE DEF b, o, old, new, size
  <2>5. /\ Allocations(chain') = (Allocations(chain) \ {old}) \cup {new}
        /\ \A j \in 1..Len(chain') : StatsAgree(chain'[j])
    <3> DEFINE Y == {old}
               Z == {new}
    <3>1. PointersOf(o, b) = (PointersOf(o, chain[o]) \ Y) \cup Z /\ \A y \in Y : y.arena = o
      BY <2>1, <2>3
    <3>2. GoodChain(chain) /\ \A j \in 1..Len(chain) : StatsAgree(chain[j])
      BY Known, Holds
    <3>3. o \in 1..Len(chain) /\ GoodArena(b) /\ StatsAgree(b)
      BY <2>1, <2>2, <2>3
    <3> HIDE DEF Y, Z
    <3>4. /\ Allocations([chain EXCEPT ![o] = b]) = (Allocations(chain) \ Y) \cup Z
          /\ \A j \in 1..Len([chain EXCEPT ![o] = b]) : StatsAgree([chain EXCEPT ![o] = b][j])
      BY <3>1, <3>2, <3>3, SetHolds
    <3> QED BY <2>4, <3>4 DEF Y, Z
  <2>6. new \notin Allocations(chain) \ {old}
    BY <2>3, <2>4, Known, Located
  <2> DEFINE X == {new}
             mine == InArenas(held) \cup Lent(call[p])
             next == InArenas(held) \cup InArenas(X)
             others == Allocations(chain) \ mine
  <2>7. InArenas(X) = {new}
    <3>1. new.arena > 0
      BY <1>1, <2>4
    <3> QED BY <3>1 DEF InArenas
  <2>8. Lent(call[p]) = {old}
    <3>1. call[p].new = NoPointer
      BY <1>1, Holds DEF Knows
    <3> QED BY <2>1, <3>1, Outside DEF Lent, InArenas, old
  <2>9. old \notin InArenas(held) /\ mine \subseteq Allocations(chain) /\ old \in mine
    BY <2>1, Holds DEF InArenas
  <2>10. next = (mine \ {old}) \cup {new}
    BY <2>7, <2>8, <2>9
  <2>11. X \ InArenas(X) \subseteq FromSystem
    BY <2>7
  <2>12. Return(p, X)
    BY <1>3 DEF new, o, size
  <2> HIDE DEF mine, next, X
  <2>13. Allocations(chain') = others \cup next /\ next \cap others = {}
    BY <2>5, <2>6, <2>9, <2>10
  <2> HIDE DEF others
  <2> QED BY <1>1, <2>5, <2>11, <2>12, <2>13, ReturnOwned DEF mine, next, others
<1> QED BY <1>2, <1>3 DEF ReallocOwned

\* The list of a new heap is empty, and so is that of one that is taken apart.
LEMMA LifecycleOwned ==
    ASSUME HeapInv, OwnInv, ModuleInit \/ BeginExit \/ DeleteTail
    PROVE  OwnInv'
<1>1. UNCHANGED <<held, call>> /\ pc' = pc
  <2>1. CASE ModuleInit \/ BeginExit
    BY <2>1 DEF ModuleInit, BeginExit
  <2>2. CASE DeleteTail
    BY <2>2 DEF DeleteTail
  <2> QED BY <2>1, <2>2
<1>2. Allocations(chain) = {}
  <2>1. CASE ModuleInit \/ DeleteTail
    BY <2>1 DEF ModuleInit, DeleteTail, OwnInv
  <2>2. CASE BeginExit
    <3>1. InArenas(held) = {}
      BY <2>2, Outside DEF BeginExit, InArenas
    <3>2. \A p \in Threads : Lent(call[p]) = {}
      BY <2>2, Outside DEF BeginExit, Idle, OwnInv, Knows
    <3> QED BY <3>1, <3>2 DEF OwnInv, Owned
  <2> QED BY <2>1, <2>2
<1>3. Allocations(chain') = {} /\ \A i \in 1..Len(chain') : StatsAgree(chain'[i])
  <2>1. CASE ModuleInit
    <3> DEFINE a == NewArena(PayloadSize(Capacity))
    <3>1. chain' = <<a>> /\ (\A i : PointersOf(i, a) = {}) /\ StatsAgree(a)
      BY <2>1, EmptyHolds DEF ModuleInit
    <3> HIDE DEF a
    <3>2. Len(chain') = 1 /\ chain'[1] = a
      BY <3>1
    <3> QED BY <3>1, <3>2 DEF Allocations
  <2>2. CASE BeginExit
    BY <1>2, <2>2 DEF BeginExit, OwnInv
  <2>3. CASE DeleteTail
    <3>1. chain' = Front(chain) /\ Len(chain) \in Nat /\ chain \in Seq(ArenaRecord)
      BY <2>3, Known DEF DeleteTail, GoodChain, HeapInv
    <3>2. GoodChain(chain')
      BY <2>3, FrontGood DEF DeleteTail, HeapInv
    <3>3. \A j \in 1..Len(chain') : j \in 1..Len(chain) /\ chain'[j] = chain[j]
      BY <3>1, Known, FrontKeeps DEF HeapInv
    <3>4. \A j \in 1..Len(chain') : StatsAgree(chain'[j])
      BY <3>3 DEF OwnInv
    <3>5. \A j \in 1..Len(chain') : PointersOf(j, chain'[j]) = {}
      BY <1>2, <3>3 DEF Allocations
    <3>6. UNION {PointersOf(j, chain'[j]) : j \in 1..Len(chain')} = {}
      BY <3>5
    <3> QED BY <3>4, <3>6 DEF Allocations
  <2> QED BY <2>1, <2>2, <2>3
<1>4. Owned'
  BY <1>1, <1>2, <1>3 DEF OwnInv, Owned
<1> QED BY <1>1, <1>3, <1>4 DEF OwnInv

\* Before sys_init nothing is in an arena.
LEMMA InitOwned == Init => OwnInv
<1> SUFFICES ASSUME Init PROVE OwnInv
  OBVIOUS
<1>1. Allocations(chain) = {} /\ \A i \in 1..Len(chain) : StatsAgree(chain[i])
  BY DEF Init, Allocations
<1>2. \A p \in Threads : Lent(call[p]) = {} /\ Knows(pc[p], call[p])
  BY Outside DEF Init, Knows, NoCall
<1>3. InArenas(held) = {}
  BY DEF Init, InArenas
<1> QED BY <1>1, <1>2, <1>3 DEF OwnInv, Owned, Init

\* Everything in an arena has one owner at any time, and a thread knows which of the
\* pointers it is about is in which arena.
THEOREM OwnInvariant == Spec => [](HeapInv /\ OwnInv)
<1>1. Init => HeapInv /\ OwnInv
  BY InitGood, InitOwned
<1>2. HeapInv /\ HeapInv' /\ OwnInv /\ [Next]_vars => OwnInv'
  <2> SUFFICES ASSUME HeapInv, OwnInv, [Next]_vars PROVE OwnInv'
    OBVIOUS
  <2>1. CASE ModuleInit \/ BeginExit \/ DeleteTail
    BY <2>1, LifecycleOwned
  <2>2. ASSUME NEW p \in Threads, Calling(p)
        PROVE  OwnInv'
    BY <2>2, CallingOwned
  <2>3. ASSUME NEW p \in Threads, Going(p)
        PROVE  OwnInv'
    BY <2>3, WalkOwned, TryOwned, GrowOwned, CheckOwned, TryNewOwned, SearchOwned, SystemOwned,
       FreeOwnedOwned, ReallocOwnedOwned DEF Going
  <2>4. CASE UNCHANGED vars
    BY <2>4 DEF vars, OwnInv, Owned
  <2> QED BY <2>1, <2>2, <2>3, <2>4 DEF Next
<1> QED BY <1>1, <1>2, HeapInvariant, PTL DEF Spec

\* The lists of the arenas hold exactly what the application has, or a call is about:
\* nothing is lost and nothing given back stays, and the statistics agree, for any
\* number of threads and any sizes.
THEOREM AccountedAlways == Spec => []Accounted
<1>1. HeapInv /\ OwnInv => Accounted
  <2> SUFFICES ASSUME HeapInv, OwnInv PROVE Accounted
    OBVIOUS
  <2>1. DOMAIN chain = 1..Len(chain)
    BY DEF HeapInv, GoodChain
  <2>2. Allocations(chain) = UNION {InArena(i) : i \in DOMAIN chain}
    BY <2>1 DEF Allocations, InArena, PointersOf
  <2>3. \A i \in DOMAIN chain :
          /\ chain[i].allocations = Len(chain[i].blocks)
          /\ chain[i].used = Total(chain[i].blocks)
    BY <2>1 DEF OwnInv, StatsAgree
  <2>4. \A x \in Live : x \in Allocations(chain)
    <3> SUFFICES ASSUME NEW x \in Live PROVE x \in Allocations(chain)
      OBVIOUS
    <3>1. x \notin FromSystem /\ x # NoPointer
      BY DEF Live
    <3>2. CASE x \in held
      BY <3>1, <3>2 DEF OwnInv, Owned
    <3>3. ASSUME NEW p \in Threads, x = call[p].old \/ x = call[p].new
          PROVE  x \in Allocations(chain)
      <4>1. x.arena \in Nat
        BY <3>3, Known DEF Pointers
      <4>2. x.arena # 0
        BY <3>1, <3>3, Holds DEF Knows
      <4>3. x \in Lent(call[p])
        BY <3>3, <4>1, <4>2 DEF Lent, InArenas
      <4> QED BY <4>3, Holds
    <3> QED BY <3>2, <3>3 DEF Live
  <2>5. \A x \in Allocations(chain) : x \in Live
    <3> SUFFICES ASSUME NEW x \in Allocations(chain) PROVE x \in Live
      OBVIOUS
    <3>1. x.arena > 0
      BY Located DEF HeapInv
    <3>2. x \notin FromSystem /\ x # NoPointer
      BY <3>1, Outside
    <3>3. x \in held \/ \E p \in Threads : x \in Lent(call[p])
      BY DEF OwnInv, Owned, InArenas
    <3> QED BY <3>2, <3>3 DEF Live, Lent, InArenas
  <2> QED BY <2>2, <2>3, <2>4, <2>5 DEF Accounted
<1> QED BY <1>1, OwnInvariant, PTL

\* free() and realloc() of the system never see a pointer that is in an arena, however
\* many arenas others append while its owner is looked for.
THEOREM SystemGetsItsOwnAlways == Spec => []SystemGetsItsOwn
<1>1. OwnInv => SystemGetsItsOwn
  BY DEF OwnInv, Knows, SystemGetsItsOwn
<1> QED BY <1>1, OwnInvariant, PTL

-----------------------------------------------------------------------------
(* Why a call fails. *)

\* Who is about to look why it has no arena was refused one, or was overtaken.
Overtaken == \A p \in Threads : pc[p] = "check" => call[p].refused \/ call[p].tail < Len(chain)

\* The chain does not shrink while a thread is in a call, and a thread moves no other.
LEMMA OthersStay ==
    ASSUME HeapInv, HeapInv', NEW q \in Threads, Calling(q) \/ Going(q)
    PROVE  /\ Len(chain') >= Len(chain)
           /\ \A p \in Threads : p # q => pc'[p] = pc[p] /\ call'[p] = call[p]
<1>1. /\ chain \in Seq(ArenaRecord) /\ chain' \in Seq(ArenaRecord)
      /\ Len(chain) \in Nat /\ Len(chain') \in Nat
      /\ DOMAIN chain = 1..Len(chain) /\ DOMAIN chain' = 1..Len(chain')
  BY DEF HeapInv, GoodChain
<1>2. \/ chain' = chain
      \/ \E i, a : SetArena(i, a)
      \/ \E a : chain' = Append(chain, a)
  <2>1. CASE Calling(q)
    BY <2>1 DEF Calling, Malloc, ReallocCall, FreeCall, Begin, SystemMalloc, SystemFree
  <2>2. CASE Walk(q) \/ Check(q) \/ Search(q) \/ System(q)
    BY <2>2 DEF Walk, Check, Search, System
  <2>3. CASE Try(q) \/ TryNew(q)
    BY <2>3 DEF Try, TryNew, Allocated
  <2>4. CASE Grow(q)
    BY <2>4 DEF Grow
  <2>5. CASE FreeOwned(q) \/ ReallocOwned(q)
    BY <2>5 DEF FreeOwned, ReallocOwned
  <2> QED BY <2>1, <2>2, <2>3, <2>4, <2>5 DEF Going
<1>3. Len(chain') >= Len(chain)
  <2>1. ASSUME NEW i, NEW a, SetArena(i, a)
        PROVE  Len(chain') = Len(chain)
    <3>1. DOMAIN chain' = DOMAIN chain
      BY <2>1 DEF SetArena
    <3> DEFINE m == Len(chain)
               n == Len(chain')
    <3>2. m \in Nat /\ n \in Nat /\ 1..m = 1..n
      BY <1>1, <3>1
    <3> HIDE DEF m, n
    <3>3. ~(m > n)
      <4> SUFFICES ASSUME m > n PROVE FALSE
        OBVIOUS
      <4>1. m \in 1..m /\ m \notin 1..n
        BY <3>2
      <4> QED BY <3>2, <4>1
    <3>4. ~(n > m)
      <4> SUFFICES ASSUME n > m PROVE FALSE
        OBVIOUS
      <4>1. n \in 1..n /\ n \notin 1..m
        BY <3>2
      <4> QED BY <3>2, <4>1
    <3>5. m = n
      BY <3>2, <3>3, <3>4
    <3> QED BY <3>5 DEF m, n
  <2>2. ASSUME NEW a, chain' = Append(chain, a)
        PROVE  Len(chain') = Len(chain) + 1
    BY <1>1, <2>2
  <2>3. Len(chain') = Len(chain) \/ Len(chain') = Len(chain) + 1
    BY <1>2, <2>1, <2>2
  <2> DEFINE m == Len(chain)
             n == Len(chain')
  <2>4. m \in Nat /\ n \in Nat /\ (n = m \/ n = m + 1)
    BY <1>1, <2>3
  <2> HIDE DEF m, n
  <2>5. n >= m
    BY <2>4
  <2> QED BY <2>5 DEF m, n
<1>4. \/ UNCHANGED <<pc, call>>
      \/ \E place, c : (pc' = pc \/ Goto(q, place)) /\ (call' = call \/ call' = [call EXCEPT ![q] = c])
  <2>1. CASE Calling(q)
    BY <2>1 DEF Calling, Malloc, ReallocCall, FreeCall, Begin, SystemMalloc, SystemFree
  <2>2. CASE Walk(q) \/ Check(q) \/ Search(q) \/ System(q)
    BY <2>2 DEF Walk, Check, Fail, Again, Return, Search, System
  <2>3. CASE Try(q) \/ TryNew(q)
    BY <2>3 DEF Try, TryNew, Allocated, Again, Return
  <2>4. CASE Grow(q)
    BY <2>4 DEF Grow
  <2>5. CASE FreeOwned(q) \/ ReallocOwned(q)
    BY <2>5 DEF FreeOwned, ReallocOwned, Again, Return
  <2> QED BY <2>1, <2>2, <2>3, <2>4, <2>5 DEF Going
<1>5. \A p \in Threads : p # q => pc'[p] = pc[p] /\ call'[p] = call[p]
  BY <1>4 DEF Goto, HeapInv, HeapType
<1> QED BY <1>3, <1>5

\* Only a growth that got no arena makes a thread look why.
LEMMA OvertakenStep ==
    ASSUME HeapInv, HeapInv', Overtaken, [Next]_vars
    PROVE  Overtaken'
<1> SUFFICES ASSUME NEW p \in Threads, pc'[p] = "check"
             PROVE  call'[p].refused \/ call'[p].tail < Len(chain')
  BY DEF Overtaken
<1>1. Len(chain) \in Nat /\ Len(chain') \in Nat /\ call[p].tail \in Nat
  BY Known DEF HeapInv, GoodChain, Calls
<1>2. ASSUME NEW q \in Threads, Calling(q) \/ Going(q)
      PROVE  call'[p].refused \/ call'[p].tail < Len(chain')
  <2>1. CASE q # p
    BY <1>1, <1>2, <2>1, OthersStay DEF Overtaken
  <2>2. CASE q = p
    <3>1. CASE Grow(p)
      <4>1. \/ call[p].tail = Len(chain) /\ Goto(p, "new")
            \/ call' = [call EXCEPT ![p].refused = TRUE]
            \/ call[p].tail < Len(chain) /\ UNCHANGED <<chain, call>>
        BY <3>1 DEF Grow
      <4>2. ~Goto(p, "new")
        BY DEF Goto, HeapInv, HeapType
      <4>3. call' = [call EXCEPT ![p].refused = TRUE] => call'[p].refused
        BY Known DEF HeapInv, HeapType, Calls
      <4> QED BY <4>1, <4>2, <4>3
    <3>2. CASE Calling(p) /\ pc' # pc
      BY <3>2 DEF Calling, Malloc, ReallocCall, FreeCall, Begin, SystemMalloc, SystemFree, Goto,
           HeapInv, HeapType
    <3>3. CASE Calling(p) /\ pc' = pc
      <4>1. pc[p] = "idle"
        BY <3>3 DEF Calling, Malloc, ReallocCall, FreeCall, Begin, SystemMalloc, SystemFree
      <4> QED BY <3>3, <4>1
    <3>4. CASE Walk(p) \/ Check(p) \/ System(p)
      BY <3>4 DEF Walk, Check, Fail, Again, Return, System, Goto, HeapInv, HeapType
    <3>5. CASE Search(p)
      <4>1. call[p].op \in {"realloc", "free"}
        BY <3>5, Known DEF Search, Fits
      <4> QED BY <3>5, <4>1 DEF Search, Goto, HeapInv, HeapType
    <3>6. CASE Try(p) \/ TryNew(p)
      <4>1. pc[p] # "check"
        BY <3>6 DEF Try, TryNew
      <4>2. UNCHANGED pc \/ Goto(p, "grow") \/ Goto(p, "freeOld") \/ Goto(p, "idle") \/ Goto(p, "tail")
        BY <3>6 DEF Try, TryNew, Allocated, Again, Return
      <4> QED BY <4>1, <4>2 DEF Goto, HeapInv, HeapType
    <3>7. CASE FreeOwned(p) \/ ReallocOwned(p)
      <4>1. Goto(p, "idle") \/ Goto(p, "tail")
        BY <3>7 DEF FreeOwned, ReallocOwned, Again, Return
      <4> QED BY <4>1 DEF Goto, HeapInv, HeapType
    <3> QED BY <1>2, <2>2, <3>1, <3>2, <3>3, <3>4, <3>5, <3>6, <3>7 DEF Going
  <2> QED BY <2>1, <2>2
<1>3. CASE ModuleInit \/ BeginExit \/ DeleteTail
  <2>1. \A q \in Threads : pc'[q] = "idle"
    <3>1. phase' = phase => pc' = pc /\ phase # "on"
      BY <1>3 DEF ModuleInit, BeginExit, DeleteTail
    <3>2. CASE ModuleInit \/ BeginExit
      BY <3>2 DEF ModuleInit, BeginExit, Idle
    <3>3. CASE DeleteTail
      BY <3>3, NobodyCalls DEF DeleteTail
    <3> QED BY <1>3, <3>2, <3>3
  <2> QED BY <2>1
<1>4. CASE UNCHANGED vars
  BY <1>4 DEF vars, Overtaken
<1> QED BY <1>2, <1>3, <1>4 DEF Next

\* A call of the heap fails only if the underlying allocator refused a region, and never
\* because another thread appended an arena first.
THEOREM FailsOnlyWithoutMemoryAlways == Spec => FailsOnlyWithoutMemory
<1>1. Init => Overtaken
  BY DEF Init, Overtaken
<1>2. HeapInv /\ HeapInv' /\ Overtaken /\ [Next]_vars => Overtaken'
  BY OvertakenStep
<1>3. HeapInv /\ HeapInv' /\ Overtaken /\ [Next]_vars =>
        [\A p \in Threads : pc[p] = "check" /\ pc'[p] = "idle" => call[p].refused]_vars
  <2> SUFFICES ASSUME HeapInv, HeapInv', Overtaken, Next, NEW p \in Threads,
                      pc[p] = "check", pc'[p] = "idle"
               PROVE  call[p].refused
    BY DEF vars
  <2>1. ASSUME NEW q \in Threads, Calling(q) \/ Going(q)
        PROVE  call[p].refused
    <3>1. q = p
      BY <2>1, OthersStay
    <3>2. Check(p)
      BY <2>1, <3>1 DEF Calling, Malloc, ReallocCall, FreeCall, Begin, SystemMalloc, SystemFree,
           Going, Walk, Try, Grow, TryNew, Search, System, FreeOwned, ReallocOwned
    <3>3. CASE call[p].tail = Len(chain)
      BY <3>3 DEF Overtaken
    <3>4. CASE call[p].tail # Len(chain)
      BY <3>2, <3>4 DEF Check, Again, Goto, HeapInv, HeapType
    <3> QED BY <3>3, <3>4
  <2>2. CASE ModuleInit \/ BeginExit \/ DeleteTail
    BY <2>2, NobodyCalls DEF ModuleInit, BeginExit, DeleteTail, Idle
  <2> QED BY <2>1, <2>2 DEF Next
<1> QED BY <1>1, <1>2, <1>3, HeapInvariant, PTL DEF Spec, FailsOnlyWithoutMemory
================================================================================
