-------------------------------- MODULE Heap --------------------------------
(***************************************************************************)
(* The allocator of heap.rs: a list of blocks in one arena, first fit,     *)
(* split on allocation, coalesced on free, with a realloc that shrinks or  *)
(* grows in place when it can and copies when it cannot.  Everything the   *)
(* interpreter stores (program lines, arrays, strings) is a Vec that lives *)
(* here and is resized with realloc.                                       *)
(*                                                                         *)
(* Nothing interrupts the allocator (handlers do not allocate), so a call  *)
(* is one step, except that each round of coalesce's loop is a step of its *)
(* own.  The clients are Vecs and Boxes: they pass back only pointers they *)
(* hold, so the magic number always matches, and never ask for 0 bytes.    *)
(* A client fills its memory with its own name, which shows whether a      *)
(* header or another client was written over it; what it wrote counts as   *)
(* junk once it has freed it.                                              *)
(***************************************************************************)
EXTENDS Naturals, FiniteSets

CONSTANTS
  ALIGN, HEADER_SIZE,
  Base, Size,      \* the region heap_init is given
  Client,          \* the owners of allocations, one each
  Request,         \* the sizes asked for, in bytes
  Null,            \* the null pointer
  Junk             \* what a word holds that no client wrote

align_up(val) == ((val + ALIGN - 1) \div ALIGN) * ALIGN

First == align_up(Base)
End == Base + Size

ASSUME HeapAssumption ==
  /\ ALIGN \in Nat \ {0}
  /\ HEADER_SIZE \in Nat \ {0} /\ HEADER_SIZE % ALIGN = 0
  /\ Base \in Nat /\ Size \in Nat
  /\ First + HEADER_SIZE <= End
  /\ Request \subseteq Nat \ {0}
  /\ Null \notin Nat /\ Null \notin [ptr : Nat, size : Nat, filled : Nat]
  /\ Junk \notin Client

VARIABLES
  block,   \* the headers on the list: address -> [size, free, next]
  mem,     \* the words of the arena
  live,    \* what each client holds: Null or [ptr, size, filled]
  pc,      \* where heap_free is: "idle", "forward" or "backward"
  cur      \* the block being coalesced

vars == <<block, mem, live, pc, cur>>

Word == {a \in First .. End - 1 : (a - First) % ALIGN = 0}
Address == DOMAIN block

Init ==
  /\ block = [b \in {First} |-> [size |-> (Size - (First - Base)) - HEADER_SIZE,
                                 free |-> TRUE, next |-> Null]]
  /\ mem = [a \in Word |-> Junk]
  /\ live = [i \in Client |-> Null]
  /\ pc = "idle"
  /\ cur = Null

----------------------------------------------------------------------------
(* Operations on the list and on memory.                                   *)

(* Mutant: the room for the new header is forgotten.                       *)
SplitsTight(bs, b, size) == bs[b].size >= size + ALIGN

Splits(bs, b, size) == bs[b].size >= size + HEADER_SIZE + ALIGN
Remainder(b, size) == b + HEADER_SIZE + size

split(bs, b, size) ==
  IF ~Splits(bs, b, size) THEN bs
  ELSE [a \in DOMAIN bs \cup {Remainder(b, size)} |->
         IF a = b THEN [bs[b] EXCEPT !.size = size, !.next = Remainder(b, size)]
         ELSE IF a = Remainder(b, size)
         THEN [size |-> bs[b].size - size - HEADER_SIZE, free |-> TRUE, next |-> bs[b].next]
         ELSE bs[a]]

(* Mutant: the header taken in is not counted.                             *)
MergeUncounted(bs, a) ==
  LET n == bs[a].next IN
  [x \in DOMAIN bs \ {n} |->
    IF x = a THEN [bs[a] EXCEPT !.size = @ + bs[n].size, !.next = bs[n].next] ELSE bs[x]]

(* Block a takes in the block after it.                                    *)
Merge(bs, a) ==
  LET n == bs[a].next IN
  [x \in DOMAIN bs \ {n} |->
    IF x = a THEN [bs[a] EXCEPT !.size = @ + HEADER_SIZE + bs[n].size, !.next = bs[n].next]
             ELSE bs[x]]

Write(m, from, length, v) ==
  [a \in Word |-> IF from <= a /\ a < from + length THEN v ELSE m[a]]

(* Mutant: the copy starts at the header.                                  *)
CopyFromHeader(m, from, to, length) ==
  [a \in Word |-> IF to <= a /\ a < to + length THEN m[(from - HEADER_SIZE) + (a - to)] ELSE m[a]]

Copy(m, from, to, length) ==
  [a \in Word |-> IF to <= a /\ a < to + length THEN m[from + (a - to)] ELSE m[a]]

(* The header a split writes.                                              *)
SplitMem(bs, m, b, size) ==
  IF Splits(bs, b, size) THEN Write(m, Remainder(b, size), HEADER_SIZE, Junk) ELSE m

(* The list is in address order: first fit is the lowest address that fits. *)
Fits(b, size) == block[b].free /\ block[b].size >= size
FirstFit(b, size) == Fits(b, size) /\ \A a \in Address : a < b => ~Fits(a, size)
NoFit(size) == \A b \in Address : ~Fits(b, size)

Claimed(b, size) ==
  LET bs == split(block, b, size) IN [bs EXCEPT ![b].free = FALSE]

Header(i) == live[i].ptr - HEADER_SIZE

----------------------------------------------------------------------------
(* heap_alloc                                                              *)

Alloc(i, n) ==
  /\ pc = "idle"
  /\ live[i] = Null
  /\ LET size == align_up(n) IN
     \E b \in Address :
       /\ FirstFit(b, size)
       /\ block' = Claimed(b, size)
       /\ mem' = SplitMem(block, mem, b, size)
       /\ live' = [live EXCEPT ![i] = [ptr |-> b + HEADER_SIZE, size |-> n, filled |-> 0]]
  /\ UNCHANGED <<pc, cur>>

(* heap_free, up to the loop of coalesce.                                  *)
Free(i) ==
  /\ pc = "idle"
  /\ live[i] # Null
  /\ block' = [block EXCEPT ![Header(i)].free = TRUE]
  /\ live' = [live EXCEPT ![i] = Null]
  /\ pc' = "forward"
  /\ cur' = Header(i)
  /\ mem' = Write(mem, live[i].ptr, block[Header(i)].size, Junk)

MergesForward == block[cur].next # Null /\ block[block[cur].next].free

(* Mutant: only one free block is taken in.                                *)
MergeForwardOnce ==
  /\ pc = "forward"
  /\ MergesForward
  /\ block' = Merge(block, cur)
  /\ pc' = "backward"
  /\ UNCHANGED <<mem, live, cur>>

(* One round of the first loop of coalesce.                                *)
MergeForward ==
  /\ pc = "forward"
  /\ MergesForward
  /\ block' = Merge(block, cur)
  /\ UNCHANGED <<mem, live, pc, cur>>

LeaveLoop ==
  /\ pc = "forward"
  /\ ~MergesForward
  /\ pc' = "backward"
  /\ UNCHANGED <<block, mem, live, cur>>

(* The predecessor of cur on the list takes it in, if it is free.          *)
MergeBackward ==
  /\ pc = "backward"
  /\ block' = IF \E a \in Address : block[a].next = cur /\ block[a].free
              THEN Merge(block, CHOOSE a \in Address : block[a].next = cur)
              ELSE block
  /\ pc' = "idle"
  /\ cur' = Null
  /\ UNCHANGED <<mem, live>>

----------------------------------------------------------------------------
(* heap_realloc, by the way it ends.                                       *)

Least(a, b) == IF a <= b THEN a ELSE b

(* The client's bytes up to the smaller size are its own still.            *)
Resized(i, ptr, n) ==
  [live EXCEPT ![i] = [ptr |-> ptr, size |-> n, filled |-> Least(live[i].filled, n)]]

Resizing(i) == pc = "idle" /\ live[i] # Null

FitsInPlace(i, n) == block[Header(i)].size >= align_up(n)

Shrink(i, n) ==
  /\ Resizing(i)
  /\ FitsInPlace(i, n)
  /\ block' = split(block, Header(i), align_up(n))
  /\ mem' = SplitMem(block, mem, Header(i), align_up(n))
  /\ live' = Resized(i, live[i].ptr, n)
  /\ UNCHANGED <<pc, cur>>

(* Mutant: the next block is taken in whether it is free or not.           *)
GrowsIntoAny(i, n) ==
  LET b == Header(i) IN
  /\ block[b].next # Null
  /\ block[b].size + HEADER_SIZE + block[block[b].next].size >= align_up(n)

GrowsInPlace(i, n) ==
  LET b == Header(i) IN
  /\ block[b].next # Null
  /\ block[block[b].next].free
  /\ block[b].size + HEADER_SIZE + block[block[b].next].size >= align_up(n)

GrowInPlace(i, n) ==
  /\ Resizing(i)
  /\ ~FitsInPlace(i, n)
  /\ GrowsInPlace(i, n)
  /\ LET b == Header(i)
         merged == Merge(block, b)
     IN /\ block' = split(merged, b, align_up(n))
        /\ mem' = SplitMem(merged, mem, b, align_up(n))
  /\ live' = Resized(i, live[i].ptr, n)
  /\ UNCHANGED <<pc, cur>>

(* heap_alloc, the copy of the whole old block, and heap_free of it.       *)
Move(i, n) ==
  /\ Resizing(i)
  /\ ~FitsInPlace(i, n)
  /\ ~GrowsInPlace(i, n)
  /\ LET size == align_up(n)
         old == Header(i)
     IN \E b \in Address :
          /\ FirstFit(b, size)
          /\ block' = [Claimed(b, size) EXCEPT ![old].free = TRUE]
          /\ LET copied == Copy(SplitMem(block, mem, b, size),
                                live[i].ptr, b + HEADER_SIZE, block[old].size)
             IN mem' = Write(copied, live[i].ptr, block[old].size, Junk)
          /\ live' = Resized(i, b + HEADER_SIZE, n)
          /\ cur' = old
  /\ pc' = "forward"

(* heap_alloc and heap_realloc return null, and nothing has changed.       *)
Fail(i, n) ==
  /\ pc = "idle"
  /\ NoFit(align_up(n))
  /\ live[i] # Null => ~FitsInPlace(i, n) /\ ~GrowsInPlace(i, n)
  /\ UNCHANGED vars

(* The client writes all of its memory.                                    *)
Use(i) ==
  /\ pc = "idle"
  /\ live[i] # Null
  /\ mem' = Write(mem, live[i].ptr, live[i].size, i)
  /\ live' = [live EXCEPT ![i].filled = live[i].size]
  /\ UNCHANGED <<block, pc, cur>>

Next ==
  \/ \E i \in Client, n \in Request :
       Alloc(i, n) \/ Shrink(i, n) \/ GrowInPlace(i, n) \/ Move(i, n) \/ Fail(i, n)
  \/ \E i \in Client : Free(i) \/ Use(i)
  \/ MergeForward
  \/ LeaveLoop
  \/ MergeBackward

Spec == Init /\ [][Next]_vars

----------------------------------------------------------------------------
(* Properties.                                                             *)

(* Types; in particular no block's size ever goes below zero.              *)
TypeOK ==
  /\ \A b \in Address :
       /\ b \in Nat
       /\ block[b] \in [size : Nat, free : BOOLEAN, next : Nat \cup {Null}]
  /\ mem \in [Word -> Client \cup {Junk}]
  /\ \A i \in Client : live[i] = Null \/ live[i] \in [ptr : Nat, size : Nat, filled : Nat]
  /\ pc \in {"idle", "forward", "backward"}
  /\ cur \in Address \cup {Null}

(* The blocks tile the arena: each ends where the next begins, and the     *)
(* last one at the end of the region, through every split and merge.       *)
Tiling ==
  /\ First \in Address
  /\ \A b \in Address :
       LET after == b + HEADER_SIZE + block[b].size IN
       IF block[b].next = Null THEN after = End
                               ELSE block[b].next = after /\ after \in Address

(* A block is in use exactly when a client holds it, no two clients hold   *)
(* the same one, and it is as large as was asked for.                      *)
Ownership ==
  /\ \A i \in Client : live[i] # Null =>
       /\ Header(i) \in Address
       /\ ~block[Header(i)].free
       /\ block[Header(i)].size >= live[i].size
  /\ \A i, j \in Client : i # j /\ live[i] # Null /\ live[j] # Null => live[i].ptr # live[j].ptr
  /\ \A b \in Address : ~block[b].free => \E i \in Client : live[i] # Null /\ Header(i) = b

(* A client finds in its memory what it wrote there, up to the smaller of  *)
(* the sizes since: no header, no other client and no realloc changed it.  *)
Contents ==
  \A i \in Client : live[i] # Null =>
    \A a \in Word : live[i].ptr <= a /\ a < live[i].ptr + live[i].filled => mem[a] = i

(* Nothing is lost to fragmentation for good: when every client has freed  *)
(* its memory, the arena is one block again, although a realloc that       *)
(* shrinks leaves its remainder beside a free block without merging them.  *)
WholeAgain == pc = "idle" /\ (\A i \in Client : live[i] = Null) => Address = {First}
=============================================================================
