----------------------------- MODULE HeapProofs -----------------------------
(***************************************************************************)
(* Proofs about the allocator, for every arena, alignment, header size,    *)
(* set of clients and set of request sizes: its types, that its blocks     *)
(* tile the arena, that each client owns the block it was given and finds  *)
(* in it what it wrote, and that the arena is one block again once all of  *)
(* it is freed.  All follow from one invariant, HeapInv.                   *)
(***************************************************************************)
EXTENDS Heap, Integers, TLAPS

----------------------------------------------------------------------------
(* Arithmetic of the alignment.                                            *)

LEMMA QuotientAndRest ==
  ASSUME NEW x \in Int, NEW A \in Nat \ {0}, NEW k \in Int, NEW r \in 0 .. A - 1,
         x = k * A + r
  PROVE  r = x % A
OBVIOUS

(* The multiples of A are closed under addition and subtraction.           *)
LEMMA MultiplesClosed ==
  ASSUME NEW A \in Nat \ {0}, NEW x \in Int, NEW y \in Int, x % A = 0, y % A = 0
  PROVE  (x + y) % A = 0 /\ (x - y) % A = 0
<1> DEFINE i == x \div A
           j == y \div A
<1>1. x = i * A /\ y = j * A /\ i \in Int /\ j \in Int
  OBVIOUS
<1>2. x + y = (i + j) * A + 0 /\ x - y = (i - j) * A + 0
  BY <1>1
<1> HIDE DEF i, j
<1>3. (x + y) % A = 0
  BY <1>1, <1>2, QuotientAndRest
<1>4. (x - y) % A = 0
  BY <1>1, <1>2, QuotientAndRest
<1> QED
  BY <1>3, <1>4

(* align_up rounds up, to a multiple of ALIGN.                             *)
LEMMA AlignUp ==
  ASSUME NEW n \in Nat
  PROVE  /\ align_up(n) \in Nat
         /\ align_up(n) >= n
         /\ align_up(n) % ALIGN = 0
<1>1. align_up(n) \in Nat /\ align_up(n) >= n
  BY HeapAssumption DEF align_up
<1>2. align_up(n) % ALIGN = 0
  BY HeapAssumption DEF align_up
<1> QED
  BY <1>1, <1>2

LEMMA Bounds == First \in Nat /\ End \in Nat
<1>1. First \in Nat
  BY AlignUp, HeapAssumption DEF First
<1> QED
  BY <1>1, HeapAssumption DEF End

(* The addresses a whole number of words from the start of the arena.      *)
OnGrid(a) == a \in Nat /\ First <= a /\ (a - First) % ALIGN = 0

LEMMA GridAdd ==
  ASSUME NEW a, OnGrid(a), NEW d \in Nat, d % ALIGN = 0
  PROVE  OnGrid(a + d)
<1>1. a + d \in Nat /\ First <= a + d
  BY Bounds DEF OnGrid
<1>2. (a - First) \in Int /\ (a - First) % ALIGN = 0 /\ ALIGN \in Nat \ {0}
  BY Bounds, HeapAssumption DEF OnGrid
<1>3. ((a - First) + d) % ALIGN = 0
  BY <1>2, MultiplesClosed
<1>4. (a - First) + d = (a + d) - First
  BY Bounds DEF OnGrid
<1> QED
  BY <1>1, <1>3, <1>4 DEF OnGrid

(* The word that is as far from c as a is from b.                          *)
LEMMA GridShift ==
  ASSUME NEW a, NEW b, NEW c, OnGrid(a), OnGrid(b), OnGrid(c), b <= a
  PROVE  OnGrid(c + (a - b))
<1>1. (a - First) % ALIGN = 0 /\ (b - First) % ALIGN = 0
  BY DEF OnGrid
<1>2. a - First \in Int /\ b - First \in Int /\ ALIGN \in Nat \ {0}
  BY Bounds, HeapAssumption DEF OnGrid
<1>3. ((a - First) - (b - First)) % ALIGN = 0
  BY <1>1, <1>2, MultiplesClosed
<1>4. (a - First) - (b - First) = a - b
  BY Bounds DEF OnGrid
<1>5. a - b \in Nat
  BY DEF OnGrid
<1> QED
  BY <1>3, <1>4, <1>5, GridAdd

LEMMA WordIsGrid == \A a : a \in Word <=> OnGrid(a) /\ a < End
BY Bounds DEF Word, OnGrid

----------------------------------------------------------------------------
(* The list of blocks, and what split and Merge do to it.                  *)

After(bs, b) == b + HEADER_SIZE + bs[b].size

(* What is true of a list of blocks: its headers are on the grid and in    *)
(* the arena, no block reaches into another, and each ends where the next  *)
(* one on the list begins.                                                 *)
ListOK(bs) ==
  /\ First \in DOMAIN bs
  /\ \A b \in DOMAIN bs :
       /\ OnGrid(b)
       /\ bs[b] \in [size : Nat, free : BOOLEAN, next : Nat \cup {Null}]
       /\ After(bs, b) <= End
       /\ IF bs[b].next = Null THEN After(bs, b) = End
          ELSE bs[b].next = After(bs, b) /\ After(bs, b) \in DOMAIN bs
       /\ \A c \in DOMAIN bs : b < c => After(bs, b) <= c

(* split keeps a list a list; it changes no block but b, which keeps at    *)
(* least what was asked for and does not grow.                             *)
LEMMA SplitList ==
  ASSUME NEW bs, ListOK(bs), NEW b \in DOMAIN bs, NEW s \in Nat, s % ALIGN = 0,
         bs[b].size >= s
  PROVE  LET cs == split(bs, b, s) IN
         /\ ListOK(cs)
         /\ DOMAIN bs \subseteq DOMAIN cs
         /\ \A a \in DOMAIN bs : a # b => cs[a] = bs[a]
         /\ \A a \in DOMAIN cs \ DOMAIN bs : cs[a].free
         /\ cs[b].free = bs[b].free
         /\ cs[b].size >= s /\ cs[b].size <= bs[b].size
         /\ bs[b].next = Null \/ cs[b].next # Null
         /\ Splits(bs, b, s) => After(cs, b) = Remainder(b, s)
<1>1. CASE ~Splits(bs, b, s)
  BY <1>1 DEF split, ListOK
<1>2. CASE Splits(bs, b, s)
  <2> DEFINE cs == split(bs, b, s)
             r == Remainder(b, s)
  <2>1. b \in Nat /\ HEADER_SIZE \in Nat \ {0} /\ ALIGN \in Nat \ {0} /\ HEADER_SIZE % ALIGN = 0
    BY HeapAssumption DEF ListOK, OnGrid
  <2>2. bs[b].size \in Nat /\ bs[b].next \in Nat \cup {Null} /\ bs[b].free \in BOOLEAN
    BY DEF ListOK
  <2>3. OnGrid(r)
    <3>1. HEADER_SIZE + s \in Nat /\ (HEADER_SIZE + s) % ALIGN = 0
      BY <2>1, MultiplesClosed
    <3>2. OnGrid(b + (HEADER_SIZE + s))
      BY <3>1, GridAdd DEF ListOK
    <3> QED
      BY <2>1, <3>2 DEF Remainder
  <2>4. b < r /\ r + HEADER_SIZE < After(bs, b) /\ r \in Nat
    BY <1>2, <2>1, <2>2 DEF Splits, Remainder, After
  <2>5. r \notin DOMAIN bs
    BY <2>1, <2>2, <2>4 DEF ListOK, After
  <2>6. /\ DOMAIN cs = DOMAIN bs \cup {r}
        /\ \A a \in DOMAIN bs : a # b => cs[a] = bs[a]
        /\ cs[b] = [bs[b] EXCEPT !.size = s, !.next = r]
        /\ cs[r] = [size |-> bs[b].size - s - HEADER_SIZE, free |-> TRUE, next |-> bs[b].next]
    BY <1>2, <2>5 DEF split
  <2>7. /\ cs[b].size = s /\ cs[b].next = r /\ cs[b].free = bs[b].free
        /\ cs[b] \in [size : Nat, free : BOOLEAN, next : Nat \cup {Null}]
        /\ cs[r].size = bs[b].size - s - HEADER_SIZE /\ cs[r].free /\ cs[r].next = bs[b].next
        /\ cs[r] \in [size : Nat, free : BOOLEAN, next : Nat \cup {Null}]
    <3>1. bs[b] \in [size : Nat, free : BOOLEAN, next : Nat \cup {Null}]
      BY DEF ListOK
    <3>2. bs[b].size - s - HEADER_SIZE \in Nat
      BY <1>2, <2>1, <2>2 DEF Splits
    <3>3. r \in Nat
      BY <2>4
    <3> HIDE DEF cs, r
    <3>4. /\ cs[b].size = s /\ cs[b].next = r /\ cs[b].free = bs[b].free
          /\ cs[b] \in [size : Nat, free : BOOLEAN, next : Nat \cup {Null}]
      BY <2>6, <3>1, <3>3
    <3>5. /\ cs[r].size = bs[b].size - s - HEADER_SIZE /\ cs[r].free /\ cs[r].next = bs[b].next
          /\ cs[r] \in [size : Nat, free : BOOLEAN, next : Nat \cup {Null}]
      BY <2>2, <2>6, <3>2
    <3> QED
      BY <3>4, <3>5
  <2> HIDE DEF cs, r
  <2>8. After(cs, b) = r /\ After(cs, r) = After(bs, b)
    BY <2>1, <2>2, <2>4, <2>7 DEF After, r, Remainder
  <2>9. \A a \in DOMAIN bs : a # b => After(cs, a) = After(bs, a)
    BY <2>6 DEF After
  <2>10. ListOK(cs)
    <3>1. First \in DOMAIN cs
      BY <2>6 DEF ListOK
    <3>2. ASSUME NEW a \in DOMAIN cs
          PROVE  /\ OnGrid(a)
                 /\ cs[a] \in [size : Nat, free : BOOLEAN, next : Nat \cup {Null}]
                 /\ After(cs, a) <= End
                 /\ IF cs[a].next = Null THEN After(cs, a) = End
                    ELSE cs[a].next = After(cs, a) /\ After(cs, a) \in DOMAIN cs
      <4>1. CASE a = b
        BY <4>1, <2>3, <2>4, <2>6, <2>7, <2>8, HeapAssumption, Bounds DEF ListOK, After
      <4>2. CASE a = r
        BY <4>2, <2>3, <2>6, <2>7, <2>8 DEF ListOK
      <4>3. CASE a # b /\ a # r
        BY <4>3, <2>6, <2>9 DEF ListOK
      <4> QED
        BY <4>1, <4>2, <4>3
    <3>3. ASSUME NEW a \in DOMAIN cs, NEW c \in DOMAIN cs, a < c
          PROVE  After(cs, a) <= c
      <4>0. \A x \in DOMAIN cs : x \in Nat
        BY <3>2 DEF OnGrid
      <4>1. \A x, y \in DOMAIN bs : x < y => After(bs, x) <= y
        BY DEF ListOK
      <4>2. \A x \in DOMAIN bs : After(bs, x) \in Nat
        BY <2>1 DEF ListOK, OnGrid, After
      <4>3. CASE a = r
        BY <4>3, <3>3, <4>0, <4>1, <4>2, <2>4, <2>6, <2>8
      <4>4. CASE c = r /\ a # r
        BY <4>4, <3>3, <4>0, <4>1, <4>2, <2>1, <2>4, <2>6, <2>8, <2>9
      <4>5. CASE a # r /\ c # r
        BY <4>5, <3>3, <4>0, <4>1, <4>2, <2>1, <2>4, <2>6, <2>8, <2>9
      <4> QED
        BY <4>3, <4>4, <4>5
    <3> QED
      BY <3>1, <3>2, <3>3 DEF ListOK
  <2> QED
    BY <1>2, <2>1, <2>2, <2>4, <2>5, <2>6, <2>7, <2>8, <2>10, HeapAssumption DEF cs, r, Splits
<1> QED
  BY <1>1, <1>2

(* Merge keeps a list a list; it takes one block off it and changes only   *)
(* the block that takes it in.                                             *)
LEMMA MergeList ==
  ASSUME NEW bs, ListOK(bs), NEW a \in DOMAIN bs, bs[a].next # Null
  PROVE  LET n == bs[a].next
             cs == Merge(bs, a)
         IN
         /\ ListOK(cs)
         /\ n \in DOMAIN bs /\ a < n /\ n = After(bs, a)
         /\ DOMAIN cs = DOMAIN bs \ {n}
         /\ \A x \in DOMAIN cs : x # a => cs[x] = bs[x]
         /\ cs[a].size = bs[a].size + HEADER_SIZE + bs[n].size
         /\ cs[a].free = bs[a].free
         /\ cs[a].next = bs[n].next
         /\ After(cs, a) = After(bs, n)
<1> DEFINE n == bs[a].next
           cs == Merge(bs, a)
<1>1. HEADER_SIZE \in Nat \ {0} /\ a \in Nat /\ bs[a].size \in Nat
  BY HeapAssumption DEF ListOK, OnGrid
<1>2. n \in DOMAIN bs /\ n = After(bs, a) /\ n \in Nat
  BY DEF ListOK, OnGrid
<1>3. a < n
  BY <1>1, <1>2 DEF After
<1>4. bs[n] \in [size : Nat, free : BOOLEAN, next : Nat \cup {Null}]
  BY <1>2 DEF ListOK
<1>5. bs[a] \in [size : Nat, free : BOOLEAN, next : Nat \cup {Null}]
  BY DEF ListOK
<1>6. /\ DOMAIN cs = DOMAIN bs \ {n}
      /\ \A x \in DOMAIN cs : x # a => cs[x] = bs[x]
      /\ cs[a] = [bs[a] EXCEPT !.size = @ + HEADER_SIZE + bs[n].size, !.next = bs[n].next]
      /\ a \in DOMAIN cs
  BY <1>1, <1>3 DEF Merge
<1> HIDE DEF cs
<1>7. /\ cs[a].size = bs[a].size + HEADER_SIZE + bs[n].size
      /\ cs[a].free = bs[a].free
      /\ cs[a].next = bs[n].next
  BY <1>5, <1>6
<1>8. cs[a] \in [size : Nat, free : BOOLEAN, next : Nat \cup {Null}]
  <2>1. bs[a].size + HEADER_SIZE + bs[n].size \in Nat
    BY <1>1, <1>4
  <2>2. bs[n].next \in Nat \cup {Null}
    BY <1>4
  <2> QED
    BY <1>5, <1>6, <2>1, <2>2
<1>9. After(cs, a) = After(bs, n) /\ After(bs, n) \in Nat
  BY <1>1, <1>2, <1>4, <1>7 DEF After
<1>10. \A x \in DOMAIN cs : x # a => After(cs, x) = After(bs, x)
  BY <1>6 DEF After
<1>11. After(bs, n) # n /\ \A x \in DOMAIN bs : x # a => After(bs, x) # n
  <2>1. After(bs, n) # n
    BY <1>1, <1>2, <1>4 DEF After
  <2>2. ASSUME NEW x \in DOMAIN bs, x # a, After(bs, x) = n
        PROVE  FALSE
    <3>1. x \in Nat /\ bs[x].size \in Nat
      BY DEF ListOK, OnGrid
    <3>2. CASE x < a
      BY <1>1, <1>2, <1>3, <2>2, <3>2 DEF ListOK
    <3>3. CASE a < x
      BY <1>1, <1>2, <2>2, <3>1, <3>3 DEF ListOK, After
    <3> QED
      BY <1>1, <2>2, <3>1, <3>2, <3>3
  <2> QED
    BY <2>1, <2>2
<1>12. ListOK(cs)
  <2>1. First \in DOMAIN cs
    BY <1>1, <1>2, <1>3, <1>6 DEF ListOK, OnGrid
  <2>2. ASSUME NEW x \in DOMAIN cs
        PROVE  /\ OnGrid(x)
               /\ cs[x] \in [size : Nat, free : BOOLEAN, next : Nat \cup {Null}]
               /\ After(cs, x) <= End
               /\ IF cs[x].next = Null THEN After(cs, x) = End
                  ELSE cs[x].next = After(cs, x) /\ After(cs, x) \in DOMAIN cs
    <3>1. CASE x = a
      BY <3>1, <1>2, <1>6, <1>7, <1>8, <1>9, <1>11 DEF ListOK
    <3>2. CASE x # a
      BY <3>2, <1>6, <1>10, <1>11 DEF ListOK
    <3> QED
      BY <3>1, <3>2
  <2>3. ASSUME NEW x \in DOMAIN cs, NEW y \in DOMAIN cs, x < y
        PROVE  After(cs, x) <= y
    <3>0. x \in Nat /\ y \in Nat /\ x \in DOMAIN bs /\ y \in DOMAIN bs /\ y # n
      BY <1>6, <2>2 DEF OnGrid
    <3>1. CASE x = a
      <4>1. n <= y
        BY <3>0, <3>1, <2>3, <1>2 DEF ListOK
      <4> QED
        BY <4>1, <3>0, <3>1, <1>2, <1>9 DEF ListOK
    <3>2. CASE x # a
      BY <3>0, <3>2, <2>3, <1>10 DEF ListOK
    <3> QED
      BY <3>1, <3>2
  <2> QED
    BY <2>1, <2>2, <2>3 DEF ListOK
<1> QED
  BY <1>2, <1>3, <1>6, <1>7, <1>9, <1>12 DEF cs

(* Marking a block free or used keeps a list a list.                       *)
LEMMA MarkList ==
  ASSUME NEW bs, ListOK(bs), NEW b \in DOMAIN bs, NEW v \in BOOLEAN
  PROVE  LET cs == [bs EXCEPT ![b].free = v] IN
         /\ ListOK(cs)
         /\ DOMAIN cs = DOMAIN bs
         /\ \A a \in DOMAIN bs : a # b => cs[a] = bs[a]
         /\ cs[b].free = v /\ cs[b].size = bs[b].size /\ cs[b].next = bs[b].next
<1> DEFINE cs == [bs EXCEPT ![b].free = v]
<1>1. bs[b] \in [size : Nat, free : BOOLEAN, next : Nat \cup {Null}]
  BY DEF ListOK
<1>2. /\ DOMAIN cs = DOMAIN bs
      /\ \A a \in DOMAIN bs : a # b => cs[a] = bs[a]
      /\ cs[b] = [bs[b] EXCEPT !.free = v]
  OBVIOUS
<1> HIDE DEF cs
<1>3. /\ cs[b].free = v /\ cs[b].size = bs[b].size /\ cs[b].next = bs[b].next
      /\ cs[b] \in [size : Nat, free : BOOLEAN, next : Nat \cup {Null}]
  BY <1>1, <1>2
<1>4. \A a \in DOMAIN bs : After(cs, a) = After(bs, a) /\ cs[a].next = bs[a].next
  BY <1>2, <1>3 DEF After
<1>5. ListOK(cs)
  BY <1>2, <1>3, <1>4 DEF ListOK
<1> QED
  BY <1>2, <1>3, <1>5 DEF cs

(* A block has one predecessor at most, and none of them is itself; the    *)
(* first block has none.                                                   *)
LEMMA OnePredecessor ==
  ASSUME NEW bs, ListOK(bs), NEW a \in DOMAIN bs, bs[a].next # Null
  PROVE  /\ \A c \in DOMAIN bs : bs[c].next = bs[a].next => c = a
         /\ a < bs[a].next /\ bs[a].next # First
<1>1. HEADER_SIZE \in Nat \ {0} /\ First \in Nat
  BY HeapAssumption, Bounds
<1>2. \A c \in DOMAIN bs : c \in Nat /\ First <= c /\ bs[c].size \in Nat
  BY DEF ListOK, OnGrid
<1>3. bs[a].next = After(bs, a) /\ a < bs[a].next /\ bs[a].next \in Nat
  BY <1>1, <1>2 DEF ListOK, After
<1>4. ASSUME NEW c \in DOMAIN bs, bs[c].next = bs[a].next
      PROVE  c = a
  <2>1. bs[c].next = After(bs, c) /\ c < bs[c].next
    BY <1>1, <1>2, <1>4 DEF ListOK, After
  <2>2. ~(a < c)
    BY <1>2, <1>3, <1>4, <2>1 DEF ListOK
  <2>3. ~(c < a)
    BY <1>2, <1>3, <1>4, <2>1 DEF ListOK
  <2> QED
    BY <1>2, <2>2, <2>3
<1> QED
  BY <1>1, <1>2, <1>3, <1>4

LEMMA BlocksDisjoint ==
  ASSUME NEW bs, ListOK(bs), NEW a \in DOMAIN bs, NEW b \in DOMAIN bs, a # b
  PROVE  After(bs, a) <= b \/ After(bs, b) <= a
<1>1. a \in Nat /\ b \in Nat
  BY DEF ListOK, OnGrid
<1> QED
  BY <1>1 DEF ListOK

(* The block heap_alloc claims is used, large enough, and does not grow;   *)
(* what it is split from is free, and no other block changes.              *)
LEMMA ClaimedList ==
  ASSUME ListOK(block), NEW b \in Address, NEW s \in Nat, s % ALIGN = 0, block[b].size >= s
  PROVE  LET cs == Claimed(b, s) IN
         /\ ListOK(cs)
         /\ Address \subseteq DOMAIN cs
         /\ \A a \in Address : a # b => cs[a] = block[a]
         /\ \A a \in DOMAIN cs \ Address : cs[a].free
         /\ ~cs[b].free
         /\ cs[b].size >= s /\ cs[b].size <= block[b].size
         /\ block[b].next = Null \/ cs[b].next # Null
         /\ Splits(block, b, s) => After(cs, b) = Remainder(b, s)
<1> DEFINE bs == split(block, b, s)
           cs == Claimed(b, s)
<1>1. /\ ListOK(bs)
      /\ Address \subseteq DOMAIN bs
      /\ \A a \in Address : a # b => bs[a] = block[a]
      /\ \A a \in DOMAIN bs \ Address : bs[a].free
      /\ bs[b].size >= s /\ bs[b].size <= block[b].size
      /\ block[b].next = Null \/ bs[b].next # Null
      /\ Splits(block, b, s) => After(bs, b) = Remainder(b, s)
  BY SplitList DEF Address
<1>2. cs = [bs EXCEPT ![b].free = FALSE]
  BY DEF Claimed
<1> HIDE DEF cs, bs
<1>3. /\ ListOK(cs)
      /\ DOMAIN cs = DOMAIN bs
      /\ \A a \in DOMAIN bs : a # b => cs[a] = bs[a]
      /\ cs[b].free = FALSE /\ cs[b].size = bs[b].size /\ cs[b].next = bs[b].next
  BY <1>1, <1>2, MarkList
<1>4. \A a \in Address : a # b => cs[a] = block[a]
  BY <1>1, <1>3
<1>5. \A a \in DOMAIN cs \ Address : cs[a].free
  BY <1>1, <1>3
<1>6. After(cs, b) = After(bs, b)
  BY <1>3 DEF After
<1> QED
  BY <1>1, <1>3, <1>4, <1>5, <1>6 DEF cs

----------------------------------------------------------------------------
(* Memory.                                                                 *)

Content == Client \cup {Junk}

LEMMA WriteWord ==
  ASSUME NEW m \in [Word -> Content], NEW from, NEW length, NEW v \in Content
  PROVE  /\ Write(m, from, length, v) \in [Word -> Content]
         /\ \A a \in Word : Write(m, from, length, v)[a]
                              = IF from <= a /\ a < from + length THEN v ELSE m[a]
BY DEF Write

(* A copy between two places in the arena moves words to words.            *)
LEMMA CopyWord ==
  ASSUME NEW m \in [Word -> Content], NEW from, NEW to, NEW length \in Nat,
         OnGrid(from), OnGrid(to), from + length <= End
  PROVE  /\ Copy(m, from, to, length) \in [Word -> Content]
         /\ \A a \in Word : Copy(m, from, to, length)[a]
                              = IF to <= a /\ a < to + length THEN m[from + (a - to)] ELSE m[a]
         /\ \A a \in Word : to <= a /\ a < to + length => from + (a - to) \in Word
<1>1. ASSUME NEW a \in Word, to <= a, a < to + length
      PROVE  from + (a - to) \in Word
  <2>1. OnGrid(a)
    BY WordIsGrid
  <2>2. OnGrid(from + (a - to))
    BY <1>1, <2>1, GridShift
  <2>3. from + (a - to) < End
    BY <1>1, <2>1, Bounds DEF OnGrid
  <2> QED
    BY <2>2, <2>3, WordIsGrid
<1> QED
  BY <1>1 DEF Copy

----------------------------------------------------------------------------
(* The invariant.                                                          *)

Holding == [ptr : Nat, size : Nat, filled : Nat]

(* No client has written more than it asked for.                           *)
FilledOK == \A i \in Client : live[i] # Null => live[i].filled <= live[i].size

(* While a block is coalesced it is free; it is left with no free block    *)
(* after it; and a free block at the start of the arena is followed by     *)
(* another one only while that block, or the one after it, is coalesced.   *)
Coalescing ==
  /\ pc \in {"idle", "forward", "backward"}
  /\ IF pc = "idle" THEN cur = Null ELSE cur \in Address /\ block[cur].free
  /\ pc = "backward" => ~MergesForward
  /\ LET n == block[First].next IN
     block[First].free /\ n # Null /\ block[n].free =>
       \/ pc = "forward" /\ cur = First
       \/ pc # "idle" /\ cur = n

HeapInv ==
  /\ ListOK(block)
  /\ live \in [Client -> {Null} \cup Holding]
  /\ Ownership
  /\ FilledOK
  /\ mem \in [Word -> Content]
  /\ Contents
  /\ Coalescing

(* What the memory of the block at b holds is not changed.                 *)
Untouched(b) ==
  \A a \in Word : b + HEADER_SIZE <= a /\ a < After(block, b) => mem'[a] = mem[a]

LEMMA HoldingIs ==
  ASSUME HeapInv, NEW i \in Client, live[i] # Null
  PROVE  /\ live[i] \in Holding
         /\ Header(i) \in Address /\ Header(i) \in Nat /\ live[i].ptr = Header(i) + HEADER_SIZE
         /\ ~block[Header(i)].free
         /\ block[Header(i)].size >= live[i].size /\ block[Header(i)].size \in Nat
         /\ live[i].filled <= live[i].size
         /\ \A j \in Client : live[j] # Null /\ i # j => Header(i) # Header(j)
<1>1. live[i] \in Holding /\ \A j \in Client : live[j] # Null => live[j].ptr \in Nat
  BY DEF HeapInv, Holding
<1>2. Header(i) \in Address /\ ~block[Header(i)].free /\ block[Header(i)].size >= live[i].size
  BY DEF HeapInv, Ownership
<1>3. Header(i) \in Nat /\ block[Header(i)].size \in Nat
  BY <1>2 DEF HeapInv, ListOK, OnGrid, Address
<1>4. live[i].ptr = Header(i) + HEADER_SIZE
  BY <1>1, <1>3, HeapAssumption DEF Header, Holding
<1>5. ASSUME NEW j \in Client, live[j] # Null, i # j
      PROVE  Header(i) # Header(j)
  <2>1. live[i].ptr # live[j].ptr
    BY <1>5 DEF HeapInv, Ownership
  <2> QED
    BY <1>1, <1>5, <2>1, HeapAssumption DEF Header, Holding
<1> QED
  BY <1>1, <1>2, <1>3, <1>4, <1>5 DEF HeapInv, FilledOK

(* What is left to show of a step of client i: that the blocks and the     *)
(* memory of the others are as they were, and that the used blocks are     *)
(* theirs and its own.                                                     *)
LEMMA OthersKept ==
  ASSUME HeapInv, NEW i \in Client,
         live' \in [Client -> {Null} \cup Holding],
         \A j \in Client : j # i => live'[j] = live[j],
         \A j \in Client : j # i /\ live[j] # Null =>
           /\ Header(j) \in Address'
           /\ block'[Header(j)] = block[Header(j)]
           /\ Untouched(Header(j)),
         live'[i] # Null =>
           /\ Header(i)' \in Address'
           /\ ~block'[Header(i)'].free
           /\ block'[Header(i)'].size >= live'[i].size
           /\ live'[i].filled <= live'[i].size
           /\ \A j \in Client : j # i /\ live[j] # Null => Header(j) # Header(i)'
           /\ \A a \in Word : live'[i].ptr <= a /\ a < live'[i].ptr + live'[i].filled => mem'[a] = i,
         \A b \in Address' : ~block'[b].free =>
           \/ live'[i] # Null /\ Header(i)' = b
           \/ b \in Address /\ ~block[b].free /\ (live[i] # Null => b # Header(i))
  PROVE  Ownership' /\ FilledOK' /\ Contents'
<1>1. ASSUME NEW j \in Client, j # i, live'[j] # Null
      PROVE  /\ live[j] # Null /\ Header(j)' = Header(j)
             /\ Header(j) \in Address' /\ ~block'[Header(j)].free
             /\ block'[Header(j)].size >= live'[j].size
             /\ live'[j].filled <= live'[j].size
             /\ \A a \in Word : live'[j].ptr <= a /\ a < live'[j].ptr + live'[j].filled => mem'[a] = j
  <2>1. live'[j] = live[j] /\ live[j] # Null /\ Header(j)' = Header(j)
    BY <1>1 DEF Header
  <2>2. /\ live[j] \in Holding /\ live[j].ptr = Header(j) + HEADER_SIZE
        /\ block[Header(j)].size >= live[j].size /\ block[Header(j)].size \in Nat
        /\ ~block[Header(j)].free
        /\ live[j].filled <= live[j].size
        /\ Header(j) \in Nat
    BY <2>1, HoldingIs
  <2>3. ASSUME NEW a \in Word, live'[j].ptr <= a, a < live'[j].ptr + live'[j].filled
        PROVE  mem'[a] = j
    <3>1. mem[a] = j
      BY <2>1, <2>3 DEF HeapInv, Contents
    <3>2. a \in Nat
      BY WordIsGrid DEF OnGrid
    <3>3. Header(j) + HEADER_SIZE <= a /\ a < After(block, Header(j))
      BY <2>1, <2>2, <2>3, <3>2, HeapAssumption DEF After, Holding
    <3> QED
      BY <1>1, <2>1, <3>1, <3>3 DEF Untouched
  <2> QED
    BY <1>1, <2>1, <2>2, <2>3
<1>2. FilledOK'
  BY <1>1 DEF FilledOK
<1>3. Contents'
  BY <1>1 DEF Contents, Word
<1>4. Ownership'
  <2>1. ASSUME NEW j \in Client, live'[j] # Null
        PROVE  Header(j)' \in Address' /\ ~block'[Header(j)'].free /\ block'[Header(j)'].size >= live'[j].size
    BY <1>1, <2>1
  <2>2. ASSUME NEW j \in Client, NEW k \in Client, j # k, live'[j] # Null, live'[k] # Null
        PROVE  live'[j].ptr # live'[k].ptr
    <3>1. Header(j)' # Header(k)'
      <4>1. CASE j = i
        BY <1>1, <2>2, <4>1
      <4>2. CASE k = i
        BY <1>1, <2>2, <4>2
      <4>3. CASE j # i /\ k # i
        BY <1>1, <2>2, <4>3, HoldingIs
      <4> QED
        BY <4>1, <4>2, <4>3
    <3> QED
      BY <3>1 DEF Header
  <2>3. ASSUME NEW b \in Address', ~block'[b].free
        PROVE  \E j \in Client : live'[j] # Null /\ Header(j)' = b
    <3>1. CASE live'[i] # Null /\ Header(i)' = b
      BY <3>1
    <3>2. CASE b \in Address /\ ~block[b].free /\ (live[i] # Null => b # Header(i))
      <4>1. PICK j \in Client : live[j] # Null /\ Header(j) = b
        BY <3>2 DEF HeapInv, Ownership
      <4>2. j # i
        BY <3>2, <4>1
      <4>3. live'[j] = live[j]
        BY <4>2
      <4>4. live'[j] # Null /\ Header(j)' = b
        BY <4>1, <4>3 DEF Header
      <4> QED
        BY <4>4
    <3> QED
      BY <2>3, <3>1, <3>2
  <2> QED
    BY <2>1, <2>2, <2>3 DEF Ownership
<1> QED
  BY <1>2, <1>3, <1>4

----------------------------------------------------------------------------
(* The invariant holds at first and is kept by every action.               *)

LEMMA InitInv == Init => HeapInv
<1> SUFFICES ASSUME Init PROVE HeapInv
  OBVIOUS
<1>1. OnGrid(First)
  <2>1. First - First = 0 * ALIGN + 0 /\ First - First \in Int /\ ALIGN \in Nat \ {0}
    BY Bounds, HeapAssumption
  <2>2. (First - First) % ALIGN = 0
    BY <2>1, QuotientAndRest
  <2> QED
    BY <2>2, Bounds DEF OnGrid
<1>2. First >= Base
  BY AlignUp, HeapAssumption DEF First
<1>3. (Size - (First - Base)) - HEADER_SIZE \in Nat
  BY <1>2, Bounds, HeapAssumption DEF End
<1>4. /\ Address = {First}
      /\ block[First] = [size |-> (Size - (First - Base)) - HEADER_SIZE, free |-> TRUE, next |-> Null]
  BY DEF Init, Address
<1>5. After(block, First) = End
  BY <1>2, <1>3, <1>4, Bounds, HeapAssumption DEF After, End
<1>6. ListOK(block)
  <2>1. block[First] \in [size : Nat, free : BOOLEAN, next : Nat \cup {Null}] /\ block[First].next = Null
    BY <1>3, <1>4
  <2>2. DOMAIN block = {First} /\ ~(First < First) /\ End <= End
    BY <1>4, Bounds DEF Address
  <2>3. ASSUME NEW b \in DOMAIN block
        PROVE  /\ OnGrid(b)
               /\ block[b] \in [size : Nat, free : BOOLEAN, next : Nat \cup {Null}]
               /\ After(block, b) = End /\ block[b].next = Null
               /\ \A c \in DOMAIN block : ~(b < c)
    BY <1>1, <1>5, <2>1, <2>2
  <2> QED
    BY <2>2, <2>3, Bounds DEF ListOK
<1>7. Ownership
  BY <1>4 DEF Init, Ownership
<1> QED
  BY <1>4, <1>6, <1>7 DEF Init, HeapInv, FilledOK, Contents, Coalescing, Content, Address

(* What is asked for, rounded up.                                          *)
LEMMA RequestIs ==
  ASSUME NEW n \in Request
  PROVE  n \in Nat /\ align_up(n) \in Nat /\ align_up(n) >= n /\ align_up(n) % ALIGN = 0
BY AlignUp, HeapAssumption

(* A split writes its header inside the block it splits.                   *)
LEMMA SplitMemIs ==
  ASSUME NEW bs, ListOK(bs), NEW b \in DOMAIN bs, NEW s \in Nat, bs[b].size >= s,
         NEW m \in [Word -> Content]
  PROVE  /\ SplitMem(bs, m, b, s) \in [Word -> Content]
         /\ \A a \in Word : a < b + HEADER_SIZE + s \/ a >= After(bs, b) =>
              SplitMem(bs, m, b, s)[a] = m[a]
<1>1. Junk \in Content
  BY DEF Content
<1>2. CASE Splits(bs, b, s)
  <2>1. /\ SplitMem(bs, m, b, s) \in [Word -> Content]
        /\ \A a \in Word : SplitMem(bs, m, b, s)[a]
              = IF Remainder(b, s) <= a /\ a < Remainder(b, s) + HEADER_SIZE THEN Junk ELSE m[a]
    BY <1>1, <1>2, WriteWord DEF SplitMem
  <2>2. Remainder(b, s) = b + HEADER_SIZE + s /\ Remainder(b, s) + HEADER_SIZE <= After(bs, b)
    BY <1>2, HeapAssumption DEF Remainder, Splits, After, ListOK, OnGrid
  <2>3. \A a \in Word : a \in Nat
    BY WordIsGrid DEF OnGrid
  <2>4. Remainder(b, s) \in Nat /\ After(bs, b) \in Nat
    BY HeapAssumption DEF Remainder, After, ListOK, OnGrid
  <2> QED
    BY <2>1, <2>2, <2>3, <2>4, HeapAssumption
<1>3. CASE ~Splits(bs, b, s)
  BY <1>3 DEF SplitMem
<1> QED
  BY <1>2, <1>3

(* What is changed inside one block changes nothing in the others.         *)
LEMMA UntouchedBy ==
  ASSUME ListOK(block), NEW b \in Address, NEW c \in Address, b # c,
         \A a \in Word : a < b + HEADER_SIZE \/ a >= After(block, b) => mem'[a] = mem[a]
  PROVE  Untouched(c)
<1>1. b \in Nat /\ c \in Nat /\ After(block, b) \in Nat /\ After(block, c) \in Nat
  BY HeapAssumption DEF ListOK, OnGrid, Address, After
<1>2. \A a \in Word : a \in Nat
  BY WordIsGrid DEF OnGrid
<1>3. After(block, b) <= c \/ After(block, c) <= b
  BY BlocksDisjoint DEF Address
<1> QED
  BY <1>1, <1>2, <1>3, HeapAssumption DEF Untouched

LEMMA AllocInv ==
  ASSUME HeapInv, NEW i \in Client, NEW n \in Request, Alloc(i, n)
  PROVE  HeapInv'
<1> DEFINE s == align_up(n)
<1>1. PICK b \in Address :
        /\ FirstFit(b, s)
        /\ block' = Claimed(b, s)
        /\ mem' = SplitMem(block, mem, b, s)
        /\ live' = [live EXCEPT ![i] = [ptr |-> b + HEADER_SIZE, size |-> n, filled |-> 0]]
  BY DEF Alloc
<1>2. s \in Nat /\ s >= n /\ s % ALIGN = 0 /\ n \in Nat
  BY RequestIs
<1> HIDE DEF s
<1>3. block[b].free /\ block[b].size >= s /\ ListOK(block)
  BY <1>1 DEF FirstFit, Fits, HeapInv
<1>4. b \in Nat /\ b + HEADER_SIZE \in Nat /\ block[b].size \in Nat
  BY <1>3, HeapAssumption DEF ListOK, OnGrid, Address
<1>5. /\ ListOK(block')
      /\ Address \subseteq Address'
      /\ \A a \in Address : a # b => block'[a] = block[a]
      /\ \A a \in Address' \ Address : block'[a].free
      /\ ~block'[b].free
      /\ block'[b].size >= s
      /\ block[b].next = Null \/ block'[b].next # Null
  BY <1>1, <1>2, <1>3, ClaimedList DEF Address
<1>6. /\ live \in [Client -> {Null} \cup Holding]
      /\ live[i] = Null /\ pc = "idle" /\ pc' = "idle" /\ cur' = cur /\ cur = Null
  BY DEF HeapInv, Alloc, Coalescing
<1>7. /\ live' \in [Client -> {Null} \cup Holding]
      /\ live'[i] = [ptr |-> b + HEADER_SIZE, size |-> n, filled |-> 0]
      /\ \A j \in Client : j # i => live'[j] = live[j]
  BY <1>1, <1>2, <1>4, <1>6 DEF Holding
<1>8. live'[i].ptr = b + HEADER_SIZE /\ live'[i].size = n /\ live'[i].filled = 0 /\ Header(i)' = b
  BY <1>4, <1>7, HeapAssumption DEF Header
<1>9. mem' \in [Word -> Content] /\ \A j \in Client : live[j] # Null => Untouched(Header(j))
  <2>1. /\ mem' \in [Word -> Content]
        /\ \A a \in Word : a < b + HEADER_SIZE + s \/ a >= After(block, b) => mem'[a] = mem[a]
    BY <1>1, <1>2, <1>3, SplitMemIs DEF HeapInv, Address
  <2>2. \A a \in Word : a < b + HEADER_SIZE \/ a >= After(block, b) => mem'[a] = mem[a]
    <3>1. \A a \in Word : a \in Nat
      BY WordIsGrid DEF OnGrid
    <3> QED
      BY <2>1, <3>1, <1>2, <1>4
  <2>3. ASSUME NEW j \in Client, live[j] # Null PROVE Untouched(Header(j))
    <3>1. Header(j) \in Address /\ ~block[Header(j)].free
      BY <2>3, HoldingIs
    <3> QED
      BY <1>3, <2>2, <3>1, UntouchedBy
  <2> QED
    BY <2>1, <2>3
<1>10. Ownership' /\ FilledOK' /\ Contents'
  <2>1. \A j \in Client : live[j] # Null => Header(j) \in Address /\ Header(j) # b
    BY <1>3, HoldingIs
  <2>2. \A a \in Word : ~(live'[i].ptr <= a /\ a < live'[i].ptr + live'[i].filled)
    BY <1>4, <1>8, WordIsGrid DEF OnGrid
  <2>3. \A c \in Address' : ~block'[c].free =>
           \/ live'[i] # Null /\ Header(i)' = c
           \/ c \in Address /\ ~block[c].free /\ (live[i] # Null => c # Header(i))
    <3>1. live'[i] # Null
      BY <1>2, <1>4, <1>7, HeapAssumption
    <3> QED
      BY <3>1, <1>5, <1>6, <1>8
  <2>4. /\ Header(i)' \in Address' /\ ~block'[Header(i)'].free
        /\ block'[Header(i)'].size >= live'[i].size
        /\ live'[i].filled <= live'[i].size
    <3>1. block'[b].size \in Nat
      BY <1>5 DEF ListOK, Address
    <3> QED
      BY <3>1, <1>2, <1>5, <1>8
  <2> QED
    BY <1>5, <1>7, <1>8, <1>9, <2>1, <2>2, <2>3, <2>4, OthersKept
<1>11. Coalescing'
  <2>1. First \in Address
    BY DEF HeapInv, ListOK, Address
  <2>2. block'[First].free => First # b /\ block'[First] = block[First]
    BY <1>5, <2>1
  <2>3. ~(block'[First].free /\ block'[First].next # Null /\ block'[block'[First].next].free)
    <3>1. SUFFICES ASSUME block'[First].free, block'[First].next # Null PROVE ~block'[block'[First].next].free
      OBVIOUS
    <3>2. block[First].free /\ block[First].next # Null /\ block'[First].next = block[First].next
      BY <2>2, <3>1
    <3>3. ~block[block[First].next].free
      BY <1>6, <3>2 DEF HeapInv, Coalescing
    <3>4. block[First].next \in Address
      BY <3>2, <2>1 DEF HeapInv, ListOK, Address
    <3> QED
      BY <1>3, <1>5, <3>2, <3>3, <3>4
  <2> QED
    BY <1>6, <2>3 DEF Coalescing
<1> QED
  BY <1>5, <1>7, <1>9, <1>10, <1>11 DEF HeapInv

LEMMA FreeInv ==
  ASSUME HeapInv, NEW i \in Client, Free(i)
  PROVE  HeapInv'
<1> DEFINE h == Header(i)
<1>1. /\ live[i] # Null /\ pc = "idle" /\ pc' = "forward" /\ cur' = h
      /\ block' = [block EXCEPT ![h].free = TRUE]
      /\ live' = [live EXCEPT ![i] = Null]
      /\ mem' = Write(mem, live[i].ptr, block[h].size, Junk)
  BY DEF Free
<1>2. /\ h \in Address /\ h \in Nat /\ ~block[h].free /\ live[i].ptr = h + HEADER_SIZE
      /\ \A j \in Client : live[j] # Null /\ i # j => h # Header(j)
  BY <1>1, HoldingIs
<1> HIDE DEF h
<1>3. /\ ListOK(block)
      /\ ListOK(block')
      /\ Address' = Address
      /\ \A a \in Address : a # h => block'[a] = block[a]
      /\ block'[h].free /\ block'[h].next = block[h].next
  BY <1>1, <1>2, MarkList DEF Address, HeapInv
<1>4. /\ live' \in [Client -> {Null} \cup Holding]
      /\ live'[i] = Null
      /\ \A j \in Client : j # i => live'[j] = live[j]
  BY <1>1 DEF HeapInv
<1>5. mem' \in [Word -> Content] /\ \A j \in Client : j # i /\ live[j] # Null => Untouched(Header(j))
  <2>1. /\ mem' \in [Word -> Content]
        /\ \A a \in Word : mem'[a] = IF h + HEADER_SIZE <= a /\ a < h + HEADER_SIZE + block[h].size
                                     THEN Junk ELSE mem[a]
    BY <1>1, <1>2, WriteWord DEF HeapInv, Content
  <2>2. \A a \in Word : a < h + HEADER_SIZE \/ a >= After(block, h) => mem'[a] = mem[a]
    <3>1. \A a \in Word : a \in Nat
      BY WordIsGrid DEF OnGrid
    <3>2. h + HEADER_SIZE \in Nat /\ After(block, h) \in Nat
      BY <1>2, <1>3, HeapAssumption DEF After, ListOK, Address
    <3> QED
      BY <2>1, <3>1, <3>2 DEF After
  <2>3. ASSUME NEW j \in Client, j # i, live[j] # Null PROVE Untouched(Header(j))
    <3>1. Header(j) \in Address /\ Header(j) # h
      BY <1>2, <2>3, HoldingIs
    <3> QED
      BY <1>2, <1>3, <2>2, <3>1, UntouchedBy
  <2> QED
    BY <2>1, <2>3
<1>6. Ownership' /\ FilledOK' /\ Contents'
  <2>1. \A j \in Client : j # i /\ live[j] # Null => Header(j) \in Address' /\ block'[Header(j)] = block[Header(j)]
    BY <1>2, <1>3, HoldingIs
  <2>2. \A c \in Address' : ~block'[c].free => c \in Address /\ ~block[c].free /\ c # h
    BY <1>3
  <2> QED
    BY <1>4, <1>5, <2>1, <2>2, OthersKept DEF h
<1>7. Coalescing'
  <2>1. First \in Address
    BY DEF HeapInv, ListOK, Address
  <2>2. ASSUME block'[First].free, block'[First].next # Null, block'[block'[First].next].free
        PROVE  cur' = First \/ cur' = block'[First].next
    <3>1. block'[First].next = block[First].next /\ block[First].next \in Address
      BY <1>3, <2>1, <2>2 DEF ListOK, Address
    <3> QED
      BY <1>1, <1>3, <2>1, <2>2, <3>1 DEF HeapInv, Coalescing
  <2> QED
    BY <1>1, <1>2, <1>3, <2>2 DEF Coalescing
<1> QED
  BY <1>3, <1>4, <1>5, <1>6, <1>7 DEF HeapInv

(* Merging a free block into a, which nobody else's block is, changes no   *)
(* used block but a.                                                       *)
LEMMA MergeFree ==
  ASSUME HeapInv, NEW a \in Address, block[a].next # Null, block[block[a].next].free
  PROVE  LET n == block[a].next
             cs == Merge(block, a)
         IN
         /\ ListOK(cs)
         /\ n \in Address /\ a < n
         /\ DOMAIN cs = Address \ {n}
         /\ \A x \in DOMAIN cs : x # a => cs[x] = block[x]
         /\ cs[a].free = block[a].free /\ cs[a].next = block[n].next
         /\ cs[a].size = block[a].size + HEADER_SIZE + block[n].size
         /\ After(cs, a) = After(block, n) /\ After(block, a) = n
         /\ \A j \in Client : live[j] # Null => Header(j) \in DOMAIN cs /\ Header(j) # n
<1> DEFINE n == block[a].next
           cs == Merge(block, a)
<1>1. ListOK(block)
  BY DEF HeapInv
<1>2. \A j \in Client : live[j] # Null => Header(j) \in Address /\ Header(j) # n
  BY HoldingIs
<1>3. /\ ListOK(cs)
      /\ n \in Address /\ a < n /\ n = After(block, a)
      /\ DOMAIN cs = Address \ {n}
      /\ \A x \in DOMAIN cs : x # a => cs[x] = block[x]
      /\ cs[a].size = block[a].size + HEADER_SIZE + block[n].size
      /\ cs[a].free = block[a].free
      /\ cs[a].next = block[n].next
      /\ After(cs, a) = After(block, n)
  <2>1. a \in DOMAIN block /\ Address = DOMAIN block
    BY DEF Address
  <2>2. /\ ListOK(cs)
        /\ n \in DOMAIN block /\ a < n /\ n = After(block, a)
        /\ DOMAIN cs = DOMAIN block \ {n}
        /\ \A x \in DOMAIN cs : x # a => cs[x] = block[x]
        /\ cs[a].size = block[a].size + HEADER_SIZE + block[n].size
        /\ cs[a].free = block[a].free
        /\ cs[a].next = block[n].next
        /\ After(cs, a) = After(block, n)
    BY ONLY block[a].next # Null, <1>1, <2>1, MergeList, Zenon
  <2> QED
    BY <2>1, <2>2, Zenon
<1> HIDE DEF n, cs
<1>4. \A j \in Client : live[j] # Null => Header(j) \in DOMAIN cs /\ Header(j) # n
  BY <1>2, <1>3
<1> QED
  BY <1>3, <1>4 DEF n, cs

(* A step that only takes a free block into a free one keeps what the      *)
(* clients hold.                                                           *)
LEMMA MergeKeeps ==
  ASSUME HeapInv, NEW a \in Address, block[a].free, block[a].next # Null,
         block[block[a].next].free, block' = Merge(block, a), UNCHANGED <<mem, live>>
  PROVE  Ownership' /\ FilledOK' /\ Contents' /\ ListOK(block')
<1> DEFINE n == block[a].next
<1>1. /\ ListOK(block')
      /\ Address' = Address \ {n}
      /\ \A x \in Address' : x # a => block'[x] = block[x]
      /\ block'[a].free
      /\ \A j \in Client : live[j] # Null => Header(j) \in Address' /\ Header(j) # a
  BY MergeFree, HoldingIs DEF Address
<1>2. \A j \in Client : Header(j)' = Header(j)
  BY DEF Header
<1>3. FilledOK'
  BY DEF HeapInv, FilledOK
<1>4. Contents'
  BY DEF HeapInv, Contents, Word
<1>5. \A j \in Client : live[j] # Null => block'[Header(j)] = block[Header(j)]
  BY <1>1
<1>6. \A b \in Address' : ~block'[b].free => b \in Address /\ ~block[b].free
  BY <1>1
<1>7. Ownership'
  BY <1>1, <1>2, <1>5, <1>6 DEF HeapInv, Ownership
<1> QED
  BY <1>1, <1>3, <1>4, <1>7

LEMMA MergeForwardInv ==
  ASSUME HeapInv, MergeForward
  PROVE  HeapInv'
<1> DEFINE n == block[cur].next
<1>1. /\ pc = "forward" /\ pc' = pc /\ cur' = cur /\ n # Null /\ block[n].free
      /\ block' = Merge(block, cur) /\ UNCHANGED <<mem, live>>
      /\ cur \in Address /\ block[cur].free
  BY DEF MergeForward, MergesForward, HeapInv, Coalescing
<1>2. Ownership' /\ FilledOK' /\ Contents' /\ ListOK(block')
  BY <1>1, MergeKeeps
<1>3. /\ cur < n /\ Address' = Address \ {n}
      /\ \A x \in Address' : x # cur => block'[x] = block[x]
      /\ block'[cur].free /\ cur \in Nat /\ n \in Nat
  BY <1>1, MergeFree DEF Address, HeapInv, ListOK, OnGrid
<1>4. Coalescing'
  <2>1. First \in Address /\ First \in Address'
    BY <1>2 DEF HeapInv, ListOK, Address
  <2>2. ASSUME block'[First].free, block'[First].next # Null, block'[block'[First].next].free
        PROVE  cur' = First \/ cur' = block'[First].next
    <3>1. SUFFICES ASSUME cur # First PROVE cur = block'[First].next
      BY <1>1
    <3>2. block'[First] = block[First] /\ block[First].next \in Address' /\ block[First].next \in Address
      BY <1>2, <1>3, <2>1, <2>2, <3>1 DEF ListOK, Address
    <3>3. SUFFICES ASSUME block[First].next # cur PROVE FALSE
      BY <3>2
    <3>4. block[block[First].next].free
      BY <1>3, <2>2, <3>2, <3>3
    <3> QED
      BY <1>1, <2>2, <3>1, <3>2, <3>3, <3>4 DEF HeapInv, Coalescing
  <2>3. cur \in Address'
    BY <1>1, <1>3
  <2> QED
    BY <1>1, <1>3, <2>2, <2>3 DEF Coalescing
<1> QED
  BY <1>1, <1>2, <1>4 DEF HeapInv

LEMMA LeaveLoopInv ==
  ASSUME HeapInv, LeaveLoop
  PROVE  HeapInv'
<1>1. /\ pc = "forward" /\ pc' = "backward" /\ ~MergesForward
      /\ block' = block /\ mem' = mem /\ live' = live /\ cur' = cur
  BY DEF LeaveLoop
<1>2. Ownership' /\ FilledOK' /\ Contents' /\ ListOK(block')
  BY <1>1 DEF HeapInv, Ownership, FilledOK, Contents, Header, Address
<1>3. Coalescing'
  BY <1>1 DEF HeapInv, Coalescing, MergesForward, Address
<1> QED
  BY <1>1, <1>2, <1>3 DEF HeapInv

LEMMA MergeBackwardInv ==
  ASSUME HeapInv, MergeBackward
  PROVE  HeapInv'
<1>1. /\ pc = "backward" /\ pc' = "idle" /\ cur' = Null /\ mem' = mem /\ live' = live
      /\ cur \in Address /\ block[cur].free /\ ~MergesForward
      /\ ListOK(block) /\ First \in Address
  BY DEF MergeBackward, HeapInv, Coalescing, ListOK, Address
<1>2. cur # Null
  BY <1>1, HeapAssumption DEF ListOK, OnGrid, Address
<1>3. ASSUME NEW a \in Address, block[a].next = cur, block[a].free
      PROVE  HeapInv'
  <2>1. \A c \in Address : block[c].next = cur => c = a
    BY <1>1, <1>2, <1>3, OnePredecessor DEF Address
  <2>2. (CHOOSE c \in Address : block[c].next = cur) = a
    BY <1>3, <2>1
  <2>3. block' = Merge(block, a)
    BY <1>3, <2>2 DEF MergeBackward
  <2>4. Ownership' /\ FilledOK' /\ Contents' /\ ListOK(block')
    BY <1>1, <1>2, <1>3, <2>3, MergeKeeps
  <2>5. /\ Address' = Address \ {cur}
        /\ \A x \in Address' : x # a => block'[x] = block[x]
        /\ block'[a].next = block[cur].next
        /\ a < cur /\ a \in Nat
    BY <1>1, <1>2, <1>3, <2>3, MergeFree DEF Address, ListOK, OnGrid
  <2>6. Coalescing'
    <3>1. SUFFICES ASSUME block'[First].free, block'[First].next # Null, block'[block'[First].next].free
                   PROVE  FALSE
      BY <1>1 DEF Coalescing
    <3>2. First \in Address' /\ block'[First].next \in Address' /\ First # block'[First].next
      BY <2>4, <3>1, OnePredecessor DEF ListOK, Address
    <3>3. CASE First = a
      <4>1. block[cur].next # Null /\ block'[First].next = block[cur].next
        BY <2>5, <3>1, <3>3
      <4>2. block'[block[cur].next] = block[block[cur].next]
        BY <2>5, <3>2, <3>3, <4>1
      <4> QED
        BY <1>1, <3>1, <4>1, <4>2 DEF MergesForward
    <3>4. CASE First # a
      <4>1. block'[First] = block[First] /\ block[First].next # cur
        BY <1>1, <2>1, <2>5, <3>2, <3>4
      <4>2. ~(block[First].free /\ block[First].next # Null /\ block[block[First].next].free)
        BY <1>1, <4>1 DEF HeapInv, Coalescing
      <4>3. ~block[block[First].next].free /\ block[First].next = block'[First].next
        BY <3>1, <4>1, <4>2
      <4>4. block[First].next = a
        BY <2>5, <3>1, <3>2, <4>3
      <4> QED
        BY <1>3, <4>3, <4>4
    <3> QED
      BY <3>3, <3>4
  <2> QED
    BY <1>1, <2>4, <2>6 DEF HeapInv
<1>4. ASSUME ~\E a \in Address : block[a].next = cur /\ block[a].free
      PROVE  HeapInv'
  <2>1. block' = block
    BY <1>4 DEF MergeBackward
  <2>2. Ownership' /\ FilledOK' /\ Contents' /\ ListOK(block')
    BY <1>1, <2>1 DEF HeapInv, Ownership, FilledOK, Contents, Header, Address
  <2>3. Coalescing'
    BY <1>1, <1>4, <2>1 DEF HeapInv, Coalescing
  <2> QED
    BY <1>1, <2>2, <2>3 DEF HeapInv
<1> QED
  BY <1>3, <1>4

(* What Resized does to the clients.                                       *)
LEMMA ResizedIs ==
  ASSUME live \in [Client -> {Null} \cup Holding], NEW i \in Client, live[i] \in Holding,
         NEW ptr \in Nat, NEW n \in Nat, live' = Resized(i, ptr, n)
  PROVE  /\ live' \in [Client -> {Null} \cup Holding]
         /\ \A j \in Client : j # i => live'[j] = live[j]
         /\ live'[i].ptr = ptr /\ live'[i].size = n
         /\ live'[i].filled \in Nat /\ live'[i].filled <= n /\ live'[i].filled <= live[i].filled
         /\ live'[i] # Null
<1>1. live[i].filled \in Nat
  BY DEF Holding
<1>2. LET f == Least(live[i].filled, n) IN f \in Nat /\ f <= n /\ f <= live[i].filled
  BY <1>1 DEF Least
<1>3. live' = [live EXCEPT ![i] = [ptr |-> ptr, size |-> n, filled |-> Least(live[i].filled, n)]]
  BY DEF Resized
<1>4. live'[i] = [ptr |-> ptr, size |-> n, filled |-> Least(live[i].filled, n)]
  BY <1>3
<1>5. live'[i] \in Holding
  BY <1>2, <1>4 DEF Holding
<1>6. live' \in [Client -> {Null} \cup Holding]
  BY <1>3, <1>4, <1>5
<1> QED
  BY <1>2, <1>3, <1>4, <1>5, <1>6, HeapAssumption DEF Holding

(* A step that resizes the block of client i in place, to s bytes or more, *)
(* and writes nothing before its end but past the s bytes it asked for.    *)
LEMMA ResizeInPlace ==
  ASSUME HeapInv, NEW i \in Client, live[i] # Null, pc = "idle", UNCHANGED <<pc, cur>>,
         NEW n \in Nat, NEW s \in Nat, n <= s,
         live' = Resized(i, live[i].ptr, n),
         ListOK(block'), Header(i) \in Address',
         ~block'[Header(i)].free, block'[Header(i)].size >= s,
         \A a \in Address' : a # Header(i) /\ ~block'[a].free =>
            a \in Address /\ block'[a] = block[a],
         \A a \in Address : a # Header(i) /\ ~block[a].free =>
            a \in Address' /\ block'[a] = block[a],
         First # Header(i) => block'[First] = block[First],
         mem' \in [Word -> Content],
         \A a \in Word : a < Header(i) + HEADER_SIZE + s => mem'[a] = mem[a],
         \A j \in Client : j # i /\ live[j] # Null => Untouched(Header(j))
  PROVE  HeapInv'
<1> DEFINE h == Header(i)
<1>1. /\ live[i] \in Holding /\ h \in Address /\ h \in Nat /\ live[i].ptr = h + HEADER_SIZE
      /\ ~block[h].free /\ live[i].filled <= live[i].size
      /\ \A j \in Client : live[j] # Null /\ i # j => h # Header(j)
  BY HoldingIs
<1>2. live[i].ptr \in Nat
  BY <1>1 DEF Holding
<1>3. /\ live' \in [Client -> {Null} \cup Holding]
      /\ \A j \in Client : j # i => live'[j] = live[j]
      /\ live'[i].ptr = live[i].ptr /\ live'[i].size = n
      /\ live'[i].filled \in Nat /\ live'[i].filled <= n /\ live'[i].filled <= live[i].filled
      /\ live'[i] # Null
  BY <1>1, <1>2, ResizedIs DEF HeapInv
<1>4. Header(i)' = h
  BY <1>3 DEF Header
<1>5. \A a \in Word : live'[i].ptr <= a /\ a < live'[i].ptr + live'[i].filled => mem'[a] = i
  <2>1. SUFFICES ASSUME NEW a \in Word, live'[i].ptr <= a, a < live'[i].ptr + live'[i].filled
                 PROVE  mem'[a] = i
    OBVIOUS
  <2>2. a \in Nat
    BY WordIsGrid DEF OnGrid
  <2>3. live[i].ptr <= a /\ a < live[i].ptr + live[i].filled /\ a < h + HEADER_SIZE + s
    BY <1>1, <1>2, <1>3, <2>1, <2>2, HeapAssumption DEF Holding
  <2>4. mem[a] = i
    BY <2>3 DEF HeapInv, Contents
  <2> QED
    BY <2>3, <2>4
<1>6. Ownership' /\ FilledOK' /\ Contents'
  <2>1. \A j \in Client : j # i /\ live[j] # Null =>
           Header(j) \in Address' /\ block'[Header(j)] = block[Header(j)] /\ Untouched(Header(j))
    BY <1>1, HoldingIs
  <2>2. block'[h].size >= n
    BY <1>1 DEF ListOK, Address
  <2>3. \A b \in Address' : ~block'[b].free =>
           \/ live'[i] # Null /\ Header(i)' = b
           \/ b \in Address /\ ~block[b].free /\ (live[i] # Null => b # Header(i))
    BY <1>3, <1>4
  <2> QED
    BY <1>1, <1>3, <1>4, <1>5, <2>1, <2>2, <2>3, OthersKept
<1>7. Coalescing'
  <2>1. First \in Address /\ cur = Null
    BY DEF HeapInv, ListOK, Address, Coalescing
  <2>2. SUFFICES ASSUME block'[First].free, block'[First].next # Null, block'[block'[First].next].free
                 PROVE  FALSE
    BY <2>1 DEF Coalescing
  <2>3. First # h /\ block'[First] = block[First]
    BY <2>2
  <2>4. ~block[block[First].next].free /\ block[First].next \in Address
    BY <2>1, <2>2, <2>3 DEF HeapInv, Coalescing, ListOK, Address
  <2> QED
    BY <2>2, <2>3, <2>4
<1> QED
  BY <1>3, <1>6, <1>7 DEF HeapInv

LEMMA ShrinkInv ==
  ASSUME HeapInv, NEW i \in Client, NEW n \in Request, Shrink(i, n)
  PROVE  HeapInv'
<1> DEFINE h == Header(i)
           s == align_up(n)
<1>1. /\ live[i] # Null /\ pc = "idle" /\ UNCHANGED <<pc, cur>>
      /\ block[h].size >= s
      /\ block' = split(block, h, s) /\ mem' = SplitMem(block, mem, h, s)
      /\ live' = Resized(i, live[i].ptr, n)
  BY DEF Shrink, Resizing, FitsInPlace
<1>2. s \in Nat /\ s >= n /\ s % ALIGN = 0 /\ n \in Nat
  BY RequestIs
<1>3. ListOK(block) /\ h \in Address /\ h \in Nat /\ ~block[h].free
  BY <1>1, HoldingIs DEF HeapInv
<1> HIDE DEF s, h
<1>4. /\ ListOK(block') /\ Address \subseteq Address'
      /\ \A a \in Address : a # h => block'[a] = block[a]
      /\ \A a \in Address' \ Address : block'[a].free
      /\ ~block'[h].free /\ block'[h].size >= s
  BY <1>1, <1>2, <1>3, SplitList DEF Address
<1>5. /\ mem' \in [Word -> Content]
      /\ \A a \in Word : a < h + HEADER_SIZE + s \/ a >= After(block, h) => mem'[a] = mem[a]
  BY <1>1, <1>2, <1>3, SplitMemIs DEF HeapInv, Address
<1>6. ASSUME NEW j \in Client, j # i, live[j] # Null PROVE Untouched(Header(j))
  <2>1. Header(j) \in Address /\ Header(j) # h
    BY <1>1, <1>6, HoldingIs DEF h
  <2>2. \A a \in Word : a < h + HEADER_SIZE \/ a >= After(block, h) => mem'[a] = mem[a]
    <3>1. \A a \in Word : a \in Nat
      BY WordIsGrid DEF OnGrid
    <3> QED
      BY <1>2, <1>3, <1>5, <3>1, HeapAssumption
  <2> QED
    BY <1>3, <2>1, <2>2, UntouchedBy
<1>7. First \in Address
  BY <1>3 DEF ListOK, Address
<1> QED
  BY <1>1, <1>2, <1>3, <1>4, <1>5, <1>6, <1>7, ResizeInPlace DEF h

LEMMA GrowInPlaceInv ==
  ASSUME HeapInv, NEW i \in Client, NEW n \in Request, GrowInPlace(i, n)
  PROVE  HeapInv'
<1> DEFINE h == Header(i)
           s == align_up(n)
           m == Merge(block, h)
           x == block[h].next
<1>1. /\ live[i] # Null /\ pc = "idle" /\ UNCHANGED <<pc, cur>>
      /\ x # Null /\ block[x].free
      /\ block[h].size + HEADER_SIZE + block[x].size >= s
      /\ block' = split(m, h, s) /\ mem' = SplitMem(m, mem, h, s)
      /\ live' = Resized(i, live[i].ptr, n)
  BY DEF GrowInPlace, Resizing, GrowsInPlace
<1>2. s \in Nat /\ s >= n /\ s % ALIGN = 0 /\ n \in Nat
  BY RequestIs
<1>3. ListOK(block) /\ h \in Address /\ h \in Nat /\ ~block[h].free
  BY <1>1, HoldingIs DEF HeapInv
<1> HIDE DEF s, h
<1>4. /\ ListOK(m) /\ x \in Address /\ h < x
      /\ DOMAIN m = Address \ {x}
      /\ \A a \in DOMAIN m : a # h => m[a] = block[a]
      /\ m[h].free = block[h].free
      /\ m[h].size = block[h].size + HEADER_SIZE + block[x].size
      /\ After(m, h) = After(block, x)
      /\ \A j \in Client : live[j] # Null => Header(j) \in DOMAIN m
  BY <1>1, <1>3, MergeFree
<1> HIDE DEF m, x
<1>5. h \in DOMAIN m /\ m[h].size >= s
  BY <1>1, <1>3, <1>4
<1>6. /\ ListOK(block') /\ DOMAIN m \subseteq Address'
      /\ \A a \in DOMAIN m : a # h => block'[a] = m[a]
      /\ \A a \in Address' \ DOMAIN m : block'[a].free
      /\ ~block'[h].free /\ block'[h].size >= s
  BY <1>1, <1>2, <1>3, <1>4, <1>5, SplitList DEF Address
<1>7. \A a \in Address : a # h /\ ~block[a].free => a \in DOMAIN m /\ a \in Address' /\ block'[a] = block[a]
  BY <1>1, <1>4, <1>6
<1>8. \A a \in Address' : a # h /\ ~block'[a].free => a \in Address /\ block'[a] = block[a]
  BY <1>4, <1>6
<1>9. /\ mem' \in [Word -> Content]
      /\ \A a \in Word : a < h + HEADER_SIZE + s \/ a >= After(m, h) => mem'[a] = mem[a]
  BY <1>1, <1>2, <1>4, <1>5, SplitMemIs DEF HeapInv
<1>10. ASSUME NEW j \in Client, j # i, live[j] # Null PROVE Untouched(Header(j))
  <2> DEFINE c == Header(j)
  <2>1. c \in DOMAIN m /\ c # h /\ c \in Address
    BY <1>1, <1>4, <1>10, HoldingIs DEF h
  <2>2. After(m, c) <= h \/ After(m, h) <= c
    BY <1>4, <1>5, <2>1, BlocksDisjoint
  <2>3. After(m, c) = After(block, c) /\ c \in Nat /\ After(block, c) \in Nat /\ After(m, h) \in Nat
    BY <1>3, <1>4, <1>5, <2>1, HeapAssumption DEF After, ListOK, OnGrid, Address
  <2>4. \A a \in Word : a \in Nat
    BY WordIsGrid DEF OnGrid
  <2> HIDE DEF c
  <2>5. Untouched(c)
    BY <1>2, <1>3, <1>9, <2>2, <2>3, <2>4, HeapAssumption DEF Untouched
  <2> QED
    BY <2>5 DEF c
<1>11. First # h => block'[First] = block[First]
  <2>1. First \in DOMAIN m
    BY <1>4 DEF ListOK
  <2> QED
    BY <1>4, <1>6, <2>1
<1>12. h \in Address' /\ \A a \in Word : a < h + HEADER_SIZE + s => mem'[a] = mem[a]
  BY <1>5, <1>6, <1>9
<1> QED
  BY <1>1, <1>2, <1>6, <1>7, <1>8, <1>9, <1>10, <1>11, <1>12, ResizeInPlace DEF h

LEMMA MoveInv ==
  ASSUME HeapInv, NEW i \in Client, NEW n \in Request, Move(i, n)
  PROVE  HeapInv'
<1> DEFINE old == Header(i)
           s == align_up(n)
<1>1. PICK b \in Address :
        /\ FirstFit(b, s)
        /\ block' = [Claimed(b, s) EXCEPT ![old].free = TRUE]
        /\ mem' = Write(Copy(SplitMem(block, mem, b, s), live[i].ptr, b + HEADER_SIZE, block[old].size),
                        live[i].ptr, block[old].size, Junk)
        /\ live' = Resized(i, b + HEADER_SIZE, n)
        /\ cur' = old
  BY DEF Move
<1>2. live[i] # Null /\ pc = "idle" /\ pc' = "forward" /\ ~(block[old].size >= s)
  BY DEF Move, Resizing, FitsInPlace
<1>3. s \in Nat /\ s >= n /\ s % ALIGN = 0 /\ n \in Nat
  BY RequestIs
<1>4. /\ ListOK(block) /\ old \in Address /\ old \in Nat /\ ~block[old].free /\ block[old].size \in Nat
      /\ live[i] \in Holding /\ live[i].ptr = old + HEADER_SIZE /\ live[i].filled <= live[i].size
      /\ block[old].size >= live[i].size
      /\ \A j \in Client : live[j] # Null /\ i # j => old # Header(j)
  BY <1>2, HoldingIs DEF HeapInv
<1>5. /\ live[i].size \in Nat /\ live[i].filled \in Nat /\ live[i].ptr \in Nat
  BY <1>4 DEF Holding
<1> HIDE DEF s, old
<1>6. block[b].free /\ block[b].size >= s /\ b # old
  BY <1>1, <1>4 DEF FirstFit, Fits
<1>7. b \in Nat /\ b + HEADER_SIZE \in Nat /\ block[b].size \in Nat
  BY <1>4, HeapAssumption DEF ListOK, OnGrid, Address
<1> DEFINE cs == Claimed(b, s)
<1>8. /\ ListOK(cs)
      /\ Address \subseteq DOMAIN cs
      /\ \A a \in Address : a # b => cs[a] = block[a]
      /\ \A a \in DOMAIN cs \ Address : cs[a].free
      /\ ~cs[b].free /\ cs[b].size >= s
  BY <1>3, <1>4, <1>6, ClaimedList
<1> HIDE DEF cs
<1>9. /\ ListOK(block')
      /\ Address' = DOMAIN cs
      /\ \A a \in Address' : a # old => block'[a] = cs[a]
      /\ block'[old].free /\ block'[old].next = cs[old].next
  <2>1. block' = [cs EXCEPT ![old].free = TRUE] /\ old \in DOMAIN cs /\ Address' = DOMAIN block'
    BY <1>1, <1>4, <1>8 DEF cs, Address
  <2>2. /\ ListOK(block') /\ DOMAIN block' = DOMAIN cs
        /\ \A a \in DOMAIN cs : a # old => block'[a] = cs[a]
        /\ block'[old].free = TRUE /\ block'[old].next = cs[old].next
    BY <1>8, <2>1, MarkList
  <2> QED
    BY <2>1, <2>2
<1>10. /\ live' \in [Client -> {Null} \cup Holding]
       /\ \A j \in Client : j # i => live'[j] = live[j]
       /\ live'[i].ptr = b + HEADER_SIZE /\ live'[i].size = n
       /\ live'[i].filled \in Nat /\ live'[i].filled <= n /\ live'[i].filled <= live[i].filled
       /\ live'[i] # Null
  BY <1>1, <1>3, <1>4, <1>7, ResizedIs DEF HeapInv
<1>11. Header(i)' = b
  BY <1>7, <1>10, HeapAssumption DEF Header
<1> DEFINE m1 == SplitMem(block, mem, b, s)
           m2 == Copy(m1, live[i].ptr, b + HEADER_SIZE, block[old].size)
<1>12. /\ m1 \in [Word -> Content]
       /\ \A a \in Word : a < b + HEADER_SIZE + s \/ a >= After(block, b) => m1[a] = mem[a]
  BY <1>3, <1>4, <1>6, SplitMemIs DEF HeapInv, Address
<1> HIDE DEF m1
<1>13. /\ m2 \in [Word -> Content]
       /\ \A a \in Word : m2[a] = IF b + HEADER_SIZE <= a /\ a < b + HEADER_SIZE + block[old].size
                                  THEN m1[live[i].ptr + (a - (b + HEADER_SIZE))] ELSE m1[a]
       /\ \A a \in Word : b + HEADER_SIZE <= a /\ a < b + HEADER_SIZE + block[old].size =>
            live[i].ptr + (a - (b + HEADER_SIZE)) \in Word
  <2>1. OnGrid(live[i].ptr) /\ OnGrid(b + HEADER_SIZE)
    <3>1. OnGrid(old) /\ OnGrid(b)
      BY <1>4 DEF ListOK, Address
    <3>2. HEADER_SIZE \in Nat /\ HEADER_SIZE % ALIGN = 0
      BY HeapAssumption
    <3>3. OnGrid(old + HEADER_SIZE) /\ OnGrid(b + HEADER_SIZE)
      BY <3>1, <3>2, GridAdd
    <3> QED
      BY <1>4, <3>3
  <2>2. live[i].ptr + block[old].size <= End
    BY <1>4 DEF ListOK, After, Address
  <2> QED
    BY <1>4, <1>12, <2>1, <2>2, CopyWord
<1> HIDE DEF m2
<1>14. /\ mem' \in [Word -> Content]
       /\ \A a \in Word : mem'[a] = IF live[i].ptr <= a /\ a < live[i].ptr + block[old].size
                                    THEN Junk ELSE m2[a]
  <2>1. mem' = Write(m2, live[i].ptr, block[old].size, Junk)
    BY <1>1 DEF m1, m2
  <2> QED
    BY <1>13, <2>1, WriteWord DEF Content
<1>15. \A a \in Word : a \in Nat
  BY WordIsGrid DEF OnGrid
<1>16. \A j \in Client : j # i /\ live[j] # Null => Untouched(Header(j))
  <2>1. SUFFICES ASSUME NEW j \in Client, j # i, live[j] # Null,
                        NEW a \in Word, Header(j) + HEADER_SIZE <= a, a < After(block, Header(j))
                 PROVE  mem'[a] = mem[a]
    BY DEF Untouched
  <2> DEFINE c == Header(j)
  <2>2. c \in Address /\ c \in Nat /\ c # old /\ c # b
    BY <1>4, <1>6, <2>1, HoldingIs
  <2> HIDE DEF c
  <2>3. c + HEADER_SIZE <= a /\ a < After(block, c) /\ a \in Nat
    BY <1>15, <2>1 DEF c
  <2>4. After(block, c) \in Nat /\ After(block, old) \in Nat /\ After(block, b) \in Nat
    BY <1>4, <1>7, <2>2, HeapAssumption DEF After, ListOK, Address
  <2>5. After(block, c) <= old \/ After(block, old) <= c
    BY <1>4, <2>2, BlocksDisjoint DEF Address
  <2>6. After(block, c) <= b \/ After(block, b) <= c
    BY <1>4, <2>2, BlocksDisjoint DEF Address
  <2>7. ~(live[i].ptr <= a /\ a < live[i].ptr + block[old].size)
    BY <1>4, <2>2, <2>3, <2>4, <2>5, HeapAssumption DEF After
  <2>8. a < b \/ a >= After(block, b)
    BY <1>7, <2>2, <2>3, <2>4, <2>6, HeapAssumption
  <2>9. ~(b + HEADER_SIZE <= a /\ a < b + HEADER_SIZE + block[old].size)
    BY <1>2, <1>3, <1>4, <1>6, <1>7, <2>3, <2>4, <2>8, HeapAssumption DEF After
  <2>10. m1[a] = mem[a]
    BY <1>3, <1>7, <1>12, <2>3, <2>4, <2>8, HeapAssumption
  <2> QED
    BY <1>13, <1>14, <2>7, <2>9, <2>10
<1>17. \A a \in Word : live'[i].ptr <= a /\ a < live'[i].ptr + live'[i].filled => mem'[a] = i
  <2>1. SUFFICES ASSUME NEW a \in Word, live'[i].ptr <= a, a < live'[i].ptr + live'[i].filled
                 PROVE  mem'[a] = i
    OBVIOUS
  <2> DEFINE c == live[i].ptr + (a - (b + HEADER_SIZE))
  <2>2. /\ a \in Nat /\ b + HEADER_SIZE <= a /\ a < b + HEADER_SIZE + live[i].filled
        /\ a < b + HEADER_SIZE + block[old].size
        /\ block[old].size < s
    BY <1>2, <1>3, <1>4, <1>5, <1>7, <1>10, <1>15, <2>1
  <2>3. c \in Word /\ m2[a] = m1[c]
    BY <1>13, <2>2
  <2>4. c \in Nat /\ live[i].ptr <= c /\ c < live[i].ptr + live[i].filled /\ c < live[i].ptr + block[old].size
    BY <1>4, <1>5, <1>7, <2>2
  <2> HIDE DEF c
  <2>5. mem[c] = i
    BY <1>2, <2>3, <2>4 DEF HeapInv, Contents
  <2>6. After(block, old) <= b \/ After(block, b) <= old
    BY <1>4, <1>6, BlocksDisjoint DEF Address
  <2>7. After(block, old) \in Nat /\ After(block, b) \in Nat
    BY <1>4, <1>7, HeapAssumption DEF After
  <2>8. c < b \/ c >= After(block, b)
    BY <1>4, <1>7, <2>4, <2>6, <2>7, HeapAssumption DEF After
  <2>9. m1[c] = mem[c]
    BY <1>3, <1>7, <1>12, <2>3, <2>4, <2>7, <2>8, HeapAssumption
  <2>10. ~(live[i].ptr <= a /\ a < live[i].ptr + block[old].size)
    BY <1>3, <1>4, <1>6, <1>7, <2>2, <2>6, <2>7, HeapAssumption DEF After
  <2> QED
    BY <1>14, <2>3, <2>5, <2>9, <2>10
<1>18. Ownership' /\ FilledOK' /\ Contents'
  <2>1. \A j \in Client : j # i /\ live[j] # Null =>
           /\ Header(j) \in Address' /\ Header(j) # b
           /\ block'[Header(j)] = block[Header(j)]
    BY <1>4, <1>6, <1>8, <1>9, HoldingIs
  <2>2. block'[b] = cs[b] /\ b \in Address' /\ cs[b].size \in Nat
    BY <1>6, <1>8, <1>9 DEF ListOK
  <2>3. ~block'[b].free /\ block'[b].size >= live'[i].size /\ live'[i].filled <= live'[i].size
    BY <1>3, <1>8, <1>10, <2>2
  <2>4. \A c \in Address' : ~block'[c].free => c = b \/ (c \in Address /\ ~block[c].free /\ c # old)
    BY <1>8, <1>9
  <2>5. \A c \in Address' : ~block'[c].free =>
           \/ live'[i] # Null /\ Header(i)' = c
           \/ c \in Address /\ ~block[c].free /\ (live[i] # Null => c # Header(i))
    BY <1>10, <1>11, <2>4 DEF old
  <2> QED
    BY <1>10, <1>11, <1>16, <1>17, <2>1, <2>2, <2>3, <2>5, OthersKept
<1>19. Coalescing'
  <2>1. First \in Address /\ old \in Address'
    BY <1>4, <1>8, <1>9 DEF ListOK, Address
  <2>2. ASSUME block'[First].free, block'[First].next # Null, block'[block'[First].next].free,
               First # old, block'[First].next # old
        PROVE  FALSE
    <3>1. block'[First].next \in Address'
      BY <1>8, <1>9, <2>1, <2>2 DEF ListOK, Address
    <3>2. First # b /\ block'[First].next # b
      BY <1>6, <1>8, <1>9, <2>1, <2>2
    <3>3. block'[First] = block[First]
      BY <1>8, <1>9, <2>1, <2>2, <3>2
    <3>4. block[First].next \in Address /\ block[First].next # b /\ block[First].next # old
      BY <1>4, <2>1, <2>2, <3>2, <3>3 DEF ListOK, Address
    <3>5. block'[block[First].next] = block[block[First].next]
      BY <1>8, <1>9, <3>4
    <3> QED
      BY <1>2, <2>2, <3>3, <3>5 DEF HeapInv, Coalescing
  <2> QED
    BY <1>1, <1>2, <1>9, <2>1, <2>2 DEF Coalescing
<1> QED
  BY <1>9, <1>10, <1>14, <1>18, <1>19 DEF HeapInv

LEMMA UseInv ==
  ASSUME HeapInv, NEW i \in Client, Use(i)
  PROVE  HeapInv'
<1> DEFINE h == Header(i)
<1>1. /\ live[i] # Null /\ pc = "idle" /\ UNCHANGED <<block, pc, cur>>
      /\ mem' = Write(mem, live[i].ptr, live[i].size, i)
      /\ live' = [live EXCEPT ![i].filled = live[i].size]
  BY DEF Use
<1>2. /\ live[i] \in Holding /\ h \in Address /\ h \in Nat /\ live[i].ptr = h + HEADER_SIZE
      /\ ~block[h].free /\ block[h].size >= live[i].size /\ block[h].size \in Nat
      /\ \A j \in Client : live[j] # Null /\ i # j => h # Header(j)
      /\ ListOK(block) /\ live \in [Client -> {Null} \cup Holding]
  BY <1>1, HoldingIs DEF HeapInv
<1>3. live'[i] = [live[i] EXCEPT !.filled = live[i].size] /\ \A j \in Client : j # i => live'[j] = live[j]
  BY <1>1, <1>2
<1>4. live'[i] \in Holding /\ live'[i].filled = live[i].size /\ live'[i].size = live[i].size
      /\ live'[i].ptr = live[i].ptr /\ live[i].size \in Nat
  BY <1>2, <1>3 DEF Holding
<1>5. live' \in [Client -> {Null} \cup Holding]
  <2>1. live' = [j \in Client |-> IF j = i THEN [live[i] EXCEPT !.filled = live[i].size] ELSE live[j]]
    BY <1>1, <1>2
  <2> QED
    BY <1>2, <1>3, <1>4, <2>1
<1>6. /\ mem' \in [Word -> Content]
      /\ \A a \in Word : mem'[a] = IF live[i].ptr <= a /\ a < live[i].ptr + live[i].size
                                   THEN i ELSE mem[a]
  BY <1>1, WriteWord DEF HeapInv, Content
<1> HIDE DEF h
<1>7. ASSUME NEW j \in Client, j # i, live[j] # Null PROVE Untouched(Header(j))
  <2>1. Header(j) \in Address /\ Header(j) # h
    BY <1>2, <1>7, HoldingIs
  <2>2. \A a \in Word : a < h + HEADER_SIZE \/ a >= After(block, h) => mem'[a] = mem[a]
    <3>1. \A a \in Word : a \in Nat
      BY WordIsGrid DEF OnGrid
    <3> QED
      BY <1>2, <1>4, <1>6, <3>1, HeapAssumption DEF After
  <2> QED
    BY <1>2, <2>1, <2>2, UntouchedBy
<1>8. Ownership' /\ FilledOK' /\ Contents'
  <2>1. Header(i)' = h /\ Address' = Address
    BY <1>1, <1>4 DEF Header, h, Address
  <2>2. \A j \in Client : j # i /\ live[j] # Null =>
           Header(j) \in Address' /\ block'[Header(j)] = block[Header(j)] /\ Header(j) # h
    BY <1>1, <1>2, <2>1, HoldingIs
  <2>3. \A c \in Address' : ~block'[c].free =>
           \/ live'[i] # Null /\ Header(i)' = c
           \/ c \in Address /\ ~block[c].free /\ (live[i] # Null => c # Header(i))
    BY <1>1, <1>4, <2>1, HeapAssumption DEF h, Holding
  <2>4. /\ h \in Address' /\ ~block'[h].free /\ block'[h].size >= live'[i].size
        /\ live'[i].filled <= live'[i].size
    BY <1>1, <1>2, <1>4, <2>1
  <2>5. \A a \in Word : live'[i].ptr <= a /\ a < live'[i].ptr + live'[i].filled => mem'[a] = i
    BY <1>4, <1>6
  <2> QED
    BY <1>3, <1>5, <1>7, <2>1, <2>2, <2>3, <2>4, <2>5, OthersKept
<1>9. Coalescing' /\ ListOK(block')
  BY <1>1, <1>2 DEF HeapInv, Coalescing, MergesForward, Address
<1> QED
  BY <1>5, <1>6, <1>8, <1>9 DEF HeapInv

LEMMA NothingInv ==
  ASSUME HeapInv, UNCHANGED vars
  PROVE  HeapInv'
<1>1. block' = block /\ mem' = mem /\ live' = live /\ pc' = pc /\ cur' = cur
  BY DEF vars
<1>2. ListOK(block') /\ live' \in [Client -> {Null} \cup Holding] /\ mem' \in [Word -> Content]
  BY <1>1 DEF HeapInv
<1>3. Ownership' /\ FilledOK' /\ Contents' /\ Coalescing'
  BY <1>1 DEF HeapInv, Ownership, FilledOK, Contents, Coalescing, Header, MergesForward, Address
<1> QED
  BY <1>2, <1>3 DEF HeapInv

(* The invariant holds in every state of every run of the allocator.       *)
THEOREM Invariance == Spec => []HeapInv
<1>1. HeapInv /\ [Next]_vars => HeapInv'
  <2> SUFFICES ASSUME HeapInv, [Next]_vars PROVE HeapInv'
    OBVIOUS
  <2>1. ASSUME NEW i \in Client, NEW n \in Request, Fail(i, n) PROVE HeapInv'
    BY <2>1, NothingInv DEF Fail
  <2> QED
    BY <2>1, AllocInv, FreeInv, MergeForwardInv, LeaveLoopInv, MergeBackwardInv, ShrinkInv,
       GrowInPlaceInv, MoveInv, UseInv, NothingInv DEF Next
<1> QED
  BY <1>1, InitInv, PTL DEF Spec

----------------------------------------------------------------------------
(* What the runs check, for every value of the constants.                  *)

(* Every block's header has the types the code gives it; in particular no  *)
(* split or merge takes a size below zero, and what coalesce is at work on *)
(* is on the list (heap.rs, split and coalesce).                           *)
THEOREM TypeCorrect == Spec => []TypeOK
<1>1. HeapInv => TypeOK
  BY DEF HeapInv, TypeOK, ListOK, OnGrid, Address, Coalescing, Content, Holding
<1> QED
  BY <1>1, Invariance, PTL

(* The blocks tile the arena through every split and merge: walking the    *)
(* list from its head reaches the end of the region, and skips nothing.    *)
THEOREM Tiled == Spec => []Tiling
<1>1. HeapInv => Tiling
  BY DEF HeapInv, Tiling, ListOK, After, Address
<1> QED
  BY <1>1, Invariance, PTL

(* No block is handed to two clients, leaked, or smaller than asked for,   *)
(* whichever way heap_realloc ends.                                        *)
THEOREM Owned == Spec => []Ownership
<1>1. HeapInv => Ownership
  BY DEF HeapInv
<1> QED
  BY <1>1, Invariance, PTL

(* What a client wrote stays as it wrote it: no header, no other client    *)
(* and no copy of heap_realloc reaches into its memory.                    *)
THEOREM ContentsKept == Spec => []Contents
<1>1. HeapInv => Contents
  BY DEF HeapInv
<1> QED
  BY <1>1, Invariance, PTL

(* When every client has freed what it held, the arena is one block again, *)
(* though a realloc that shrinks leaves free blocks side by side.          *)
THEOREM NoFragments == Spec => []WholeAgain
<1>1. HeapInv => WholeAgain
  <2> SUFFICES ASSUME HeapInv, pc = "idle", \A i \in Client : live[i] = Null
               PROVE  Address = {First}
    BY DEF WholeAgain
  <2>1. \A b \in Address : block[b].free
    BY DEF HeapInv, Ownership
  <2>2. First \in Address /\ First \in Nat
    BY Bounds DEF HeapInv, ListOK, Address
  <2>3. block[First].next = Null
    <3>1. SUFFICES ASSUME block[First].next # Null PROVE FALSE
      OBVIOUS
    <3>2. block[First].next \in Address
      BY <2>2, <3>1 DEF HeapInv, ListOK, Address
    <3> QED
      BY <2>1, <2>2, <3>1, <3>2 DEF HeapInv, Coalescing
  <2>4. After(block, First) = End
    BY <2>2, <2>3 DEF HeapInv, ListOK, Address
  <2>5. ASSUME NEW b \in Address, b # First PROVE FALSE
    <3>1. b \in Nat /\ First < b /\ block[b].size \in Nat
      BY <2>2, <2>5 DEF HeapInv, ListOK, OnGrid, Address
    <3>2. End <= b /\ After(block, b) <= End
      BY <2>2, <2>4, <3>1 DEF HeapInv, ListOK, Address
    <3> QED
      BY <3>1, <3>2, Bounds, HeapAssumption DEF After
  <2> QED
    BY <2>2, <2>5
<1> QED
  BY <1>1, Invariance, PTL
=============================================================================
