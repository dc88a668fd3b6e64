--------------------------- MODULE KeyRingProofs ---------------------------
(***************************************************************************)
(* Proofs about the key ring, for every size of the ring and every set of  *)
(* key codes: its types, its invariant, and that it implements the queue   *)
(* of module KeyQueue.                                                     *)
(***************************************************************************)
EXTENDS KeyRing, TLAPS, SequenceTheorems

----------------------------------------------------------------------------
(* Arithmetic of the ring.                                                 *)

(* The index after i, without the modulus.                                 *)
LEMMA SuccIs ==
  ASSUME NEW i \in Slot
  PROVE  Succ(i) = IF i + 1 = KEYBUF_SIZE THEN 0 ELSE i + 1
<1>1. CASE i + 1 = KEYBUF_SIZE
  BY <1>1, RingAssumption DEF Succ, Slot
<1>2. CASE i + 1 < KEYBUF_SIZE
  BY <1>2, RingAssumption DEF Succ, Slot
<1> QED
  BY <1>1, <1>2, RingAssumption DEF Slot

LEMMA SuccInSlot ==
  ASSUME NEW i \in Slot
  PROVE  Succ(i) \in Slot
BY SuccIs, RingAssumption DEF Slot

LEMMA DistType ==
  ASSUME NEW a \in Slot, NEW b \in Slot
  PROVE  /\ Dist(a, b) \in 0 .. KEYBUF_SIZE - 1
         /\ Dist(a, b) = 0 <=> a = b
BY RingAssumption DEF Dist, Slot

(* Putting a key in a ring that is not full lengthens it by one; a put     *)
(* that finds the next slot to be the tail finds the ring full.            *)
LEMMA DistPut ==
  ASSUME NEW a \in Slot, NEW b \in Slot
  PROVE  /\ Succ(b) # a => Dist(a, Succ(b)) = Dist(a, b) + 1
         /\ Succ(b) = a <=> Dist(a, b) = KEYBUF_SIZE - 1
BY SuccIs, RingAssumption DEF Dist, Slot

(* Taking a key from a ring that is not empty shortens it by one.          *)
LEMMA DistTake ==
  ASSUME NEW a \in Slot, NEW b \in Slot, a # b
  PROVE  Dist(Succ(a), b) = Dist(a, b) - 1
BY SuccIs, RingAssumption DEF Dist, Slot

LEMMA NthType ==
  ASSUME NEW a \in Slot, NEW i \in 0 .. KEYBUF_SIZE - 1
  PROVE  Nth(a, i) \in Slot
BY RingAssumption DEF Nth, Slot

LEMMA NthDist ==
  ASSUME NEW a \in Slot, NEW b \in Slot
  PROVE  /\ Nth(a, Dist(a, b)) = b
         /\ \A i \in 0 .. KEYBUF_SIZE - 1 : Nth(a, i) = b => i = Dist(a, b)
BY RingAssumption DEF Nth, Dist, Slot

LEMMA NthSucc ==
  ASSUME NEW a \in Slot, NEW i \in 0 .. KEYBUF_SIZE - 2
  PROVE  Nth(Succ(a), i) = Nth(a, i + 1)
BY SuccIs, RingAssumption DEF Nth, Slot

(* The slots that follow slot b, seen from a slot a before it.             *)
LEMMA NthFrom ==
  ASSUME NEW a \in Slot, NEW b \in Slot, NEW d \in Slot,
         Dist(a, b) <= Dist(a, d)
  PROVE  /\ Dist(b, d) = Dist(a, d) - Dist(a, b)
         /\ \A i \in 0 .. Dist(b, d) : Nth(b, i) = Nth(a, i + Dist(a, b))
BY RingAssumption DEF Nth, Dist, Slot

----------------------------------------------------------------------------
(* Types.                                                                  *)

LEMMA TypeInit == RingInit => TypeOK
<1> SUFFICES ASSUME RingInit PROVE TypeOK
  OBVIOUS
<1>1. 0 \in Slot
  BY RingAssumption DEF Slot
<1>2. buf \in [Slot -> Key \cup {NoKey}]
  BY DEF RingInit
<1> QED
  BY <1>1, <1>2 DEF RingInit, TypeOK, Pc, Op

LEMMA TypeStep == TypeOK /\ [RingNext]_ringVars => TypeOK'
<1> SUFFICES ASSUME TypeOK, [RingNext]_ringVars PROVE TypeOK'
  OBVIOUS
<1> USE DEF TypeOK, shared, locals, Leave, At, Pc, Op
<1>0. 0 \in Slot /\ Succ(head) \in Slot /\ Succ(t) \in Slot
  BY SuccInSlot, RingAssumption DEF Slot
<1>1. ASSUME NEW k \in Key, KeyIrq(k) PROVE TypeOK'
  BY <1>0, <1>1 DEF KeyIrq, keybuf_put
<1>2. CASE QuietIrq BY <1>2 DEF QuietIrq
<1>3. CASE TimerIrq
  <2>1. left' \in Nat
    BY <1>3 DEF TimerIrq
  <2> QED
    BY <1>3, <2>1 DEF TimerIrq
<1>4. ASSUME NEW o \in {"blocking", "try", "flush"}, Call(o) PROVE TypeOK'
  BY <1>4 DEF Call
<1>5. ASSUME NEW ms \in 0 .. MaxMs, StartDelay(ms) PROVE TypeOK'
  BY <1>5, RingAssumption DEF StartDelay, ticks_needed
<1>6. CASE CheckTicks BY <1>0, <1>6 DEF CheckTicks
<1>7. CASE ReadHead BY <1>7 DEF ReadHead
<1>8. CASE FindNothing BY <1>0, <1>8 DEF FindNothing
<1>9. CASE FindKey BY <1>9 DEF FindKey
<1>10. CASE RereadTail BY <1>10 DEF RereadTail
<1>11. CASE Hlt BY <1>11 DEF Hlt
<1>12. CASE LoadFirst BY <1>12 DEF LoadFirst
<1>13. CASE Advance BY <1>0, <1>13 DEF Advance
<1>14. CASE AdvanceFirst BY <1>0, <1>14 DEF AdvanceFirst
<1>15. CASE LoadLast BY <1>0, <1>15 DEF LoadLast
<1>16. CASE Flush BY <1>0, <1>16 DEF Flush
<1>17. CASE UNCHANGED ringVars BY <1>17 DEF ringVars
<1> QED
  BY <1>1, <1>2, <1>3, <1>4, <1>5, <1>6, <1>7, <1>8, <1>9, <1>10, <1>11,
     <1>12, <1>13, <1>14, <1>15, <1>16, <1>17
  DEF RingNext, Enter, Foreground

(* Every variable of the ring keeps its type; head and tail, written by    *)
(* different sides, always index a slot.                                   *)
THEOREM TypeCorrect == RingSafe => []TypeOK
<1>1. RingInit => TypeOK BY TypeInit
<1>2. TypeOK /\ [RingNext]_ringVars => TypeOK' BY TypeStep
<1> QED BY <1>1, <1>2, PTL DEF RingSafe

----------------------------------------------------------------------------
(* The invariant of the ring.                                              *)

LEMMA InvInit == RingInit => RingInv
<1> SUFFICES ASSUME RingInit PROVE RingInv
  OBVIOUS
<1>1. Dist(tail, head) = 0
  BY RingAssumption DEF RingInit, Dist
<1>2. PendingAreKeys
  BY <1>1 DEF PendingAreKeys
<1> QED
  BY <1>2 DEF RingInit, RingInv, Where, StaysNonempty, SlotKept, FlushInside,
     Reading, Flushing

(* A key put in the ring is beyond the pending ones, and not in a slot the *)
(* foreground still has to load.                                           *)
LEMMA InvKeyIrq ==
  ASSUME TypeOK, RingInv, NEW k \in Key, KeyIrq(k)
  PROVE  RingInv'
<1> USE DEF TypeOK
<1>1. CASE Succ(head) = tail
  <2>1. UNCHANGED <<buf, head, tail, pc, op, h, t, c>>
    BY <1>1 DEF KeyIrq, keybuf_put, locals
  <2> QED
    BY <2>1 DEF RingInv, Where, PendingAreKeys, StaysNonempty, SlotKept, FlushInside,
       Reading, Flushing, Dist, Nth, Succ
<1>2. CASE Succ(head) # tail
  <2>1. /\ buf' = [buf EXCEPT ![head] = k]
        /\ head' = Succ(head)
        /\ UNCHANGED <<tail, pc, op, h, t, c>>
    BY <1>2 DEF KeyIrq, keybuf_put, locals
  <2>2. Dist(tail, head)' = Dist(tail, head) + 1
    BY <1>2, <2>1, DistPut DEF Dist
  <2>3. Where'
    BY <2>1 DEF RingInv, Where
  <2>4. PendingAreKeys'
    <3> SUFFICES ASSUME NEW i \in 1 .. Dist(tail, head) + 1
                 PROVE  buf'[Nth(tail, i - 1)] \in Key
      BY <2>1, <2>2 DEF PendingAreKeys, Nth
    <3>1. Dist(tail, head) \in 0 .. KEYBUF_SIZE - 1 /\ i - 1 \in 0 .. KEYBUF_SIZE - 1
      BY <1>2, DistType, DistPut, RingAssumption
    <3>2. CASE i = Dist(tail, head) + 1
      <4>1. Nth(tail, i - 1) = head
        BY <3>1, <3>2, NthDist
      <4> QED
        BY <2>1, <4>1
    <3>3. CASE i \in 1 .. Dist(tail, head)
      <4>1. Nth(tail, i - 1) \in Slot
        BY <3>1, NthType
      <4> QED
        BY <2>1, <3>3, <4>1 DEF RingInv, PendingAreKeys
    <3> QED
      BY <3>1, <3>2, <3>3
  <2>5. StaysNonempty'
    BY <1>2, <2>1 DEF RingInv, StaysNonempty, Reading
  <2>6. SlotKept'
    <3>1. CASE pc = "advance" /\ op # "flush"
      BY <2>1, <3>1 DEF RingInv, SlotKept, StaysNonempty, Reading
    <3>2. CASE pc = "load"
      BY <1>2, <2>1, <3>2 DEF RingInv, SlotKept
    <3> QED
      BY <2>1, <3>1, <3>2 DEF SlotKept
  <2>7. FlushInside'
    BY <2>1, <2>2, DistType, RingAssumption DEF RingInv, FlushInside, Flushing, Dist
  <2> QED
    BY <2>3, <2>4, <2>5, <2>6, <2>7 DEF RingInv
<1> QED
  BY <1>1, <1>2

(* A key taken is the oldest of the pending ones: the others remain.       *)
LEMMA PendingTake ==
  ASSUME TypeOK, PendingAreKeys, head # tail, tail' = Succ(tail), UNCHANGED <<buf, head>>
  PROVE  PendingAreKeys'
<1> SUFFICES ASSUME NEW i \in 1 .. Dist(tail, head) - 1
             PROVE  buf[Nth(Succ(tail), i - 1)] \in Key
  BY DistTake DEF TypeOK, PendingAreKeys, Dist, Nth
<1>1. Dist(tail, head) \in 0 .. KEYBUF_SIZE - 1
  BY DistType DEF TypeOK
<1>2. Nth(Succ(tail), i - 1) = Nth(tail, i)
  BY <1>1, NthSucc, RingAssumption DEF TypeOK
<1>3. i + 1 \in 1 .. Dist(tail, head)
  BY <1>1
<1> QED
  BY <1>2, <1>3 DEF PendingAreKeys

(* A flush leaves the keys that arrived after it began.                    *)
LEMMA PendingFlush ==
  ASSUME TypeOK, PendingAreKeys, Dist(tail, h) <= Dist(tail, head),
         tail' = h, UNCHANGED <<buf, head>>
  PROVE  PendingAreKeys'
<1> SUFFICES ASSUME NEW i \in 1 .. Dist(h, head)
             PROVE  buf[Nth(h, i - 1)] \in Key
  BY DEF PendingAreKeys, Dist, Nth
<1>1. /\ Dist(tail, head) \in 0 .. KEYBUF_SIZE - 1
      /\ Dist(tail, h) \in 0 .. KEYBUF_SIZE - 1
  BY DistType DEF TypeOK
<1>2. /\ Dist(h, head) = Dist(tail, head) - Dist(tail, h)
      /\ \A j \in 0 .. Dist(h, head) : Nth(h, j) = Nth(tail, j + Dist(tail, h))
  BY NthFrom DEF TypeOK
<1>3. Nth(h, i - 1) = Nth(tail, (i + Dist(tail, h)) - 1)
  BY <1>1, <1>2
<1>4. i + Dist(tail, h) \in 1 .. Dist(tail, head)
  BY <1>1, <1>2
<1> QED
  BY <1>3, <1>4 DEF PendingAreKeys

LEMMA InvForeground ==
  ASSUME TypeOK, RingInv, Foreground
  PROVE  RingInv'
<1> USE DEF TypeOK, RingInv, At, Leave, shared, locals
<1>0. \A a, b \in Slot : Dist(a, b) \in 0 .. KEYBUF_SIZE - 1 /\ (Dist(a, b) = 0 <=> a = b)
  BY DistType
<1>1. ASSUME UNCHANGED <<buf, head, tail>> PROVE PendingAreKeys'
  BY <1>1 DEF PendingAreKeys, Dist, Nth
<1>2. CASE CheckTicks
  BY <1>1, <1>2 DEF CheckTicks, Where, StaysNonempty, SlotKept, FlushInside, Reading, Flushing
<1>3. CASE ReadHead
  BY <1>1, <1>3, <1>0 DEF ReadHead, Where, StaysNonempty, SlotKept, FlushInside,
     Reading, Flushing, Dist
<1>4. CASE FindNothing
  BY <1>1, <1>4 DEF FindNothing, Where, StaysNonempty, SlotKept, FlushInside, Reading, Flushing
<1>5. CASE FindKey
  BY <1>1, <1>5 DEF FindKey, Where, StaysNonempty, SlotKept, FlushInside, Reading, Flushing
<1>6. CASE RereadTail
  BY <1>1, <1>6 DEF RereadTail, Where, StaysNonempty, SlotKept, FlushInside, Reading, Flushing
<1>7. CASE Hlt
  BY <1>1, <1>7 DEF Hlt, Where, StaysNonempty, SlotKept, FlushInside, Reading, Flushing
<1>8. CASE LoadFirst
  BY <1>1, <1>8 DEF LoadFirst, Where, StaysNonempty, SlotKept, FlushInside, Reading, Flushing
<1>9. CASE Advance
  <2>1. head # tail /\ tail' = Succ(tail) /\ UNCHANGED <<buf, head>>
    BY <1>9 DEF Advance, StaysNonempty, Reading
  <2>2. PendingAreKeys'
    BY <2>1, PendingTake
  <2> QED
    BY <1>9, <2>2 DEF Advance, Where, StaysNonempty, SlotKept, FlushInside, Reading, Flushing
<1>10. CASE AdvanceFirst
  <2>1. head # tail /\ t = tail /\ tail' = Succ(tail) /\ UNCHANGED <<buf, head, t>>
    BY <1>10 DEF AdvanceFirst, StaysNonempty, Reading
  <2>2. PendingAreKeys'
    BY <2>1, PendingTake
  <2>3. buf[t] \in Key
    <3>1. Nth(tail, 0) = tail
      BY RingAssumption DEF Nth, Slot
    <3>2. Dist(tail, head) \in 0 .. KEYBUF_SIZE - 1 /\ Dist(tail, head) # 0
      BY <2>1, DistType
    <3>3. 1 \in 1 .. Dist(tail, head) /\ 1 - 1 = 0
      BY <3>2
    <3> QED
      BY <2>1, <3>1, <3>3 DEF PendingAreKeys
  <2>4. SlotKept'
    BY <1>10, <2>1, <2>3 DEF AdvanceFirst, SlotKept, Succ
  <2> QED
    BY <1>10, <2>2, <2>4 DEF AdvanceFirst, Where, StaysNonempty, FlushInside, Reading, Flushing
<1>11. CASE LoadLast
  BY <1>1, <1>11 DEF LoadLast, Where, StaysNonempty, SlotKept, FlushInside, Reading, Flushing
<1>12. CASE Flush
  <2>1. PendingAreKeys'
    BY <1>12, PendingFlush DEF Flush, FlushInside, Flushing
  <2> QED
    BY <1>12, <2>1 DEF Flush, Where, StaysNonempty, SlotKept, FlushInside, Reading, Flushing
<1> QED
  BY <1>2, <1>3, <1>4, <1>5, <1>6, <1>7, <1>8, <1>9, <1>10, <1>11, <1>12 DEF Foreground

LEMMA InvStep == TypeOK /\ RingInv /\ [RingNext]_ringVars => RingInv'
<1> SUFFICES ASSUME TypeOK, RingInv, [RingNext]_ringVars PROVE RingInv'
  OBVIOUS
<1>1. ASSUME UNCHANGED <<buf, head, tail, pc, op, h, t, c>> PROVE RingInv'
  BY <1>1 DEF RingInv, Where, PendingAreKeys, StaysNonempty, SlotKept, FlushInside,
     Reading, Flushing, Dist, Nth, Succ
<1>2. ASSUME NEW k \in Key, KeyIrq(k) PROVE RingInv'
  BY <1>2, InvKeyIrq
<1>3. CASE QuietIrq \/ TimerIrq \/ UNCHANGED ringVars
  BY <1>1, <1>3 DEF QuietIrq, TimerIrq, ringVars, shared, locals
<1>4. CASE Enter
  <2>1. PendingAreKeys'
    BY <1>4 DEF Enter, Call, StartDelay, shared, RingInv, PendingAreKeys, Dist, Nth
  <2> QED
    BY <1>4, <2>1 DEF Enter, Call, StartDelay, shared, At, RingInv, Where,
       StaysNonempty, SlotKept, FlushInside, Reading, Flushing
<1>5. CASE Foreground
  BY <1>5, InvForeground
<1> QED
  BY <1>2, <1>3, <1>4, <1>5 DEF RingNext

(* The ring is safe without a lock, for every size of the ring: what the   *)
(* foreground has read of head and tail stays true enough until it uses    *)
(* it, and the interrupt never overwrites a key that was not yet taken.    *)
THEOREM RingInvariant == RingSafe => []RingInv
<1>1. RingInit => TypeOK /\ RingInv
  BY TypeInit, InvInit
<1>2. TypeOK /\ RingInv /\ [RingNext]_ringVars => (TypeOK /\ RingInv)'
  BY TypeStep, InvStep
<1> QED BY <1>1, <1>2, PTL DEF RingSafe

----------------------------------------------------------------------------
(* The ring implements the queue.                                          *)

(* The pending slots as a sequence.                                        *)
LEMMA WindowSeq ==
  ASSUME NEW b \in [Slot -> Key \cup {NoKey}], NEW a \in Slot, NEW z \in Slot,
         \A i \in 1 .. Dist(a, z) : b[Nth(a, i - 1)] \in Key
  PROVE  /\ Window(b, a, z) \in Seq(Key)
         /\ Len(Window(b, a, z)) = Dist(a, z)
         /\ \A i \in 1 .. Dist(a, z) : Window(b, a, z)[i] = b[Nth(a, i - 1)]
         /\ Window(b, a, z) = <<>> <=> a = z
<1>1. Dist(a, z) \in Nat /\ (Dist(a, z) = 0 <=> a = z)
  BY DistType, RingAssumption
<1>2. Window(b, a, z) \in Seq(Key)
  BY <1>1 DEF Window
<1>3. Len(Window(b, a, z)) = Dist(a, z)
  BY <1>1, <1>2 DEF Window
<1> QED
  BY <1>1, <1>2, <1>3, EmptySeq DEF Window

LEMMA WindowPut ==
  ASSUME NEW b \in [Slot -> Key \cup {NoKey}], NEW a \in Slot, NEW z \in Slot, NEW k \in Key,
         \A i \in 1 .. Dist(a, z) : b[Nth(a, i - 1)] \in Key,
         Succ(z) # a
  PROVE  Window([b EXCEPT ![z] = k], a, Succ(z)) = Append(Window(b, a, z), k)
<1> DEFINE d == Dist(a, z)
           c2 == [b EXCEPT ![z] = k]
<1>1. d \in 0 .. KEYBUF_SIZE - 1 /\ Dist(a, Succ(z)) = d + 1 /\ Succ(z) \in Slot
  BY DistType, DistPut, SuccInSlot
<1>2. c2 \in [Slot -> Key \cup {NoKey}]
  OBVIOUS
<1>3. ASSUME NEW i \in 1 .. d + 1
      PROVE  c2[Nth(a, i - 1)] = IF i <= d THEN b[Nth(a, i - 1)] ELSE k
  <2>1. i - 1 \in 0 .. KEYBUF_SIZE - 1 /\ d + 1 <= KEYBUF_SIZE
    BY <1>1, RingAssumption
  <2>2. Nth(a, i - 1) \in Slot /\ (Nth(a, i - 1) = z <=> i - 1 = d)
    BY <2>1, NthType, NthDist
  <2> QED
    BY <1>1, <2>1, <2>2
<1>4. \A i \in 1 .. Dist(a, Succ(z)) : c2[Nth(a, i - 1)] \in Key
  <2> SUFFICES ASSUME NEW i \in 1 .. d + 1 PROVE c2[Nth(a, i - 1)] \in Key
    BY <1>1
  <2>1. CASE i <= d BY <1>1, <1>3, <2>1
  <2>2. CASE ~(i <= d) BY <1>1, <1>3, <2>2
  <2> QED BY <2>1, <2>2
<1>5. /\ Window(b, a, z) \in Seq(Key)
      /\ Len(Window(b, a, z)) = d
      /\ \A i \in 1 .. d : Window(b, a, z)[i] = b[Nth(a, i - 1)]
  BY WindowSeq
<1>6. /\ Window(c2, a, Succ(z)) \in Seq(Key)
      /\ Len(Window(c2, a, Succ(z))) = d + 1
      /\ \A i \in 1 .. d + 1 : Window(c2, a, Succ(z))[i] = c2[Nth(a, i - 1)]
  <2> HIDE DEF c2
  <2>1. /\ Window(c2, a, Succ(z)) \in Seq(Key)
        /\ Len(Window(c2, a, Succ(z))) = Dist(a, Succ(z))
        /\ \A i \in 1 .. Dist(a, Succ(z)) : Window(c2, a, Succ(z))[i] = c2[Nth(a, i - 1)]
    BY <1>1, <1>2, <1>4, WindowSeq
  <2> QED
    BY <1>1, <2>1
<1> HIDE DEF d, c2
<1>7. /\ Append(Window(b, a, z), k) \in Seq(Key)
      /\ Len(Append(Window(b, a, z), k)) = d + 1
      /\ \A i \in 1 .. d + 1 :
           Append(Window(b, a, z), k)[i] = IF i <= d THEN Window(b, a, z)[i] ELSE k
  BY <1>1, <1>5, AppendProperties
<1>8. \A i \in 1 .. d + 1 : Window(c2, a, Succ(z))[i] = Append(Window(b, a, z), k)[i]
  BY <1>1, <1>3, <1>5, <1>6, <1>7
<1>9. Window(c2, a, Succ(z)) = Append(Window(b, a, z), k)
  BY <1>6, <1>7, <1>8, SeqEqual
<1> QED
  BY <1>9 DEF c2

LEMMA WindowTake ==
  ASSUME NEW b \in [Slot -> Key \cup {NoKey}], NEW a \in Slot, NEW z \in Slot,
         \A i \in 1 .. Dist(a, z) : b[Nth(a, i - 1)] \in Key,
         a # z
  PROVE  /\ Window(b, a, z) # <<>>
         /\ Head(Window(b, a, z)) = b[a]
         /\ Tail(Window(b, a, z)) = Window(b, Succ(a), z)
<1> DEFINE d == Dist(a, z)
           w == Window(b, a, z)
           v == Window(b, Succ(a), z)
<1>1. d \in 1 .. KEYBUF_SIZE - 1 /\ Dist(Succ(a), z) = d - 1 /\ Succ(a) \in Slot
  BY DistType, DistTake, SuccInSlot
<1>2. \A i \in 1 .. d - 1 : Nth(Succ(a), i - 1) = Nth(a, (i + 1) - 1)
  <2> TAKE i \in 1 .. d - 1
  <2>1. i - 1 \in 0 .. KEYBUF_SIZE - 2 /\ (i - 1) + 1 = (i + 1) - 1
    BY <1>1, RingAssumption
  <2> QED
    BY <2>1, NthSucc
<1>3. /\ w \in Seq(Key)
      /\ Len(w) = d
      /\ \A i \in 1 .. d : w[i] = b[Nth(a, i - 1)]
      /\ w # <<>>
  BY WindowSeq
<1>4. \A i \in 1 .. Dist(Succ(a), z) : b[Nth(Succ(a), i - 1)] \in Key
  <2> SUFFICES ASSUME NEW i \in 1 .. d - 1 PROVE b[Nth(a, (i + 1) - 1)] \in Key
    BY <1>1, <1>2
  <2>1. i + 1 \in 1 .. Dist(a, z)
    BY <1>1
  <2> QED
    BY <2>1
<1>5. /\ v \in Seq(Key)
      /\ Len(v) = d - 1
      /\ \A i \in 1 .. d - 1 : v[i] = b[Nth(Succ(a), i - 1)]
  <2>0. Succ(a) \in Slot /\ z \in Slot /\ b \in [Slot -> Key \cup {NoKey}]
    BY <1>1
  <2>1. /\ Window(b, Succ(a), z) \in Seq(Key)
        /\ Len(Window(b, Succ(a), z)) = Dist(Succ(a), z)
        /\ \A i \in 1 .. Dist(Succ(a), z) :
             Window(b, Succ(a), z)[i] = b[Nth(Succ(a), i - 1)]
    BY ONLY <2>0, <1>4, WindowSeq
  <2> HIDE DEF d
  <2> QED
    BY <1>1, <2>1
<1>6. Nth(a, 1 - 1) = a
  BY RingAssumption DEF Nth, Slot
<1> HIDE DEF d, w, v
<1>7. Tail(w) \in Seq(Key) /\ Len(Tail(w)) = d - 1
      /\ \A i \in 1 .. d - 1 : Tail(w)[i] = w[i + 1]
  BY <1>1, <1>3, HeadTailProperties
<1>8. \A i \in 1 .. d - 1 : Tail(w)[i] = v[i]
  <2> TAKE i \in 1 .. d - 1
  <2>1. i + 1 \in 1 .. d
    BY <1>1
  <2>2. w[i + 1] = b[Nth(a, (i + 1) - 1)]
    BY <1>3, <2>1
  <2> QED
    BY <1>2, <1>5, <1>7, <2>2
<1>9. Tail(w) = v
  BY <1>5, <1>7, <1>8, SeqEqual
<1>10. Head(w) = w[1]
  BY <1>3
<1>11. w[1] = b[a]
  BY <1>1, <1>3, <1>6
<1> QED
  BY <1>3, <1>9, <1>10, <1>11 DEF w, v

LEMMA WindowFlush ==
  ASSUME NEW b \in [Slot -> Key \cup {NoKey}], NEW a \in Slot, NEW m \in Slot, NEW z \in Slot,
         \A i \in 1 .. Dist(a, z) : b[Nth(a, i - 1)] \in Key,
         Dist(a, m) <= Dist(a, z)
  PROVE  SubSeq(Window(b, a, z), Dist(a, m) + 1, Len(Window(b, a, z))) = Window(b, m, z)
<1> DEFINE d == Dist(a, z)
           e == Dist(a, m)
           w == Window(b, a, z)
           v == Window(b, m, z)
           s == SubSeq(w, e + 1, d)
<1>1. d \in 0 .. KEYBUF_SIZE - 1 /\ e \in 0 .. KEYBUF_SIZE - 1 /\ e <= d
  BY DistType
<1>2. /\ Dist(m, z) = d - e
      /\ \A i \in 0 .. d - e : Nth(m, i) = Nth(a, i + e)
  BY NthFrom
<1>3. /\ w \in Seq(Key)
      /\ Len(w) = d
      /\ \A i \in 1 .. d : w[i] = b[Nth(a, i - 1)]
  BY WindowSeq
<1>4. \A i \in 1 .. d - e : b[Nth(m, i - 1)] = b[Nth(a, (e + i) - 1)] /\ e + i \in 1 .. d
  <2> TAKE i \in 1 .. d - e
  <2>1. i - 1 \in 0 .. d - e /\ (i - 1) + e = (e + i) - 1 /\ e + i \in 1 .. d
    BY <1>1
  <2> QED
    BY <1>2, <2>1
<1>5. \A i \in 1 .. Dist(m, z) : b[Nth(m, i - 1)] \in Key
  BY <1>2, <1>4
<1>6. /\ v \in Seq(Key)
      /\ Len(v) = d - e
      /\ \A i \in 1 .. d - e : v[i] = b[Nth(m, i - 1)]
  BY <1>2, <1>5, WindowSeq
<1> HIDE DEF d, e, w, v
<1>7. \A i \in e + 1 .. d : w[i] \in Key
  BY <1>1, <1>3, ElementOfSeq
<1>8. /\ s \in Seq(Key)
      /\ Len(s) = d - e
      /\ \A i \in 1 .. d - e : s[i] = w[e + i]
  <2>1. e + 1 \in Int /\ d \in Int
    BY <1>1
  <2> HIDE DEF s
  <2>2. /\ s \in Seq(Key)
        /\ Len(s) = IF e + 1 <= d THEN d - (e + 1) + 1 ELSE 0
        /\ \A i \in 1 .. d - (e + 1) + 1 : s[i] = w[(e + 1) + i - 1]
    BY <1>7, <2>1, SubSeqProperties DEF s
  <2> QED
    BY <1>1, <2>2
<1> HIDE DEF s
<1>9. \A i \in 1 .. d - e : s[i] = v[i]
  BY <1>3, <1>4, <1>6, <1>8
<1>10. s = v
  BY <1>6, <1>8, <1>9, SeqEqual
<1> QED
  BY <1>3, <1>10 DEF s, v, w, e, d

(* The values the queue's variables take in a state of the ring.           *)
Hand == IF pc = "load" THEN buf[t] ELSE NoKey
Mark == IF pc = "advance" /\ op = "flush" THEN Dist(tail, h) ELSE 0
None == pc = "readTail" /\ op = "try" /\ h = tail

LEMMA QueueVars ==
  ASSUME UNCHANGED <<Pending, Hand, given, Mark, None, lost>>
  PROVE  UNCHANGED Queue!vars
BY DEF Queue!vars, Hand, Mark, None

LEMMA PendingNext == Pending' = Window(buf', tail', head')
BY DEF Pending, Window, Dist, Nth

LEMMA PendingSame ==
  ASSUME UNCHANGED <<buf, head, tail>>
  PROVE  Pending' = Pending
BY DEF Pending, Window, Dist, Nth

LEMMA PendingSeq ==
  ASSUME TypeOK, PendingAreKeys
  PROVE  /\ Pending \in Seq(Key)
         /\ Len(Pending) = Dist(tail, head)
         /\ Pending = <<>> <=> tail = head
BY WindowSeq DEF TypeOK, PendingAreKeys, Pending

LEMMA QueueInit == RingInit => Queue!Init
<1> SUFFICES ASSUME RingInit PROVE Queue!Init
  OBVIOUS
<1>1. TypeOK /\ RingInv
  BY TypeInit, InvInit
<1>2. Pending = <<>>
  BY <1>1, PendingSeq DEF RingInit, RingInv
<1> QED
  BY <1>2 DEF RingInit, Queue!Init

LEMMA QueueKeyIrq ==
  ASSUME TypeOK, RingInv, NEW k \in Key, KeyIrq(k)
  PROVE  Queue!Next \/ UNCHANGED Queue!vars
<1> USE DEF TypeOK
<1>0. UNCHANGED <<tail, pc, op, h, t, c, given>>
  BY DEF KeyIrq, locals
<1>1. CASE Succ(head) = tail
  <2>1. lost' = TRUE /\ UNCHANGED <<buf, head>>
    BY <1>1 DEF KeyIrq, keybuf_put
  <2>2. Len(Pending) = KEYBUF_SIZE - 1
    BY <1>1, PendingSeq, DistPut DEF RingInv
  <2>3. Pending' = Pending
    BY <1>0, <2>1, PendingSame
  <2>4. Hand' = Hand /\ Mark' = Mark /\ None' = None
    BY <1>0, <2>1 DEF Hand, Mark, None, Dist
  <2>5. Queue!Lose
    BY <1>0, <2>1, <2>2, <2>3, <2>4 DEF Queue!Lose, Hand, Mark, None
  <2> QED
    BY <2>5 DEF Queue!Next
<1>2. CASE Succ(head) # tail
  <2>1. lost' = FALSE /\ buf' = [buf EXCEPT ![head] = k] /\ head' = Succ(head)
    BY <1>2 DEF KeyIrq, keybuf_put
  <2>2. Len(Pending) < KEYBUF_SIZE - 1
    <3>1. Dist(tail, head) \in 0 .. KEYBUF_SIZE - 1 /\ Dist(tail, head) # KEYBUF_SIZE - 1
      BY <1>2, DistType, DistPut
    <3>2. Len(Pending) = Dist(tail, head)
      BY PendingSeq DEF RingInv
    <3> QED
      BY <3>1, <3>2, RingAssumption
  <2>3. Pending' = Append(Pending, k)
    <3>1. Pending' = Window([buf EXCEPT ![head] = k], tail, Succ(head))
      BY <1>0, <2>1, PendingNext
    <3> QED
      BY <1>2, <3>1, WindowPut DEF Pending, RingInv, PendingAreKeys
  <2>4. Hand' = Hand
    BY <1>0, <1>2, <2>1 DEF Hand, RingInv, SlotKept
  <2>5. Mark' = Mark /\ None' = None
    BY <1>0 DEF Mark, None, Dist
  <2>6. Queue!Accept(k)
    BY <1>0, <2>1, <2>2, <2>3, <2>4, <2>5 DEF Queue!Accept, Hand, Mark, None
  <2> QED
    BY <2>6 DEF Queue!Next
<1> QED
  BY <1>1, <1>2

LEMMA QueueForeground ==
  ASSUME TypeOK, RingInv, Foreground
  PROVE  Queue!Next \/ UNCHANGED Queue!vars
<1> USE DEF TypeOK, At, Leave, shared, locals
<1>0. /\ Where /\ PendingAreKeys /\ StaysNonempty /\ SlotKept /\ FlushInside
      /\ Pending \in Seq(Key)
      /\ Pending = <<>> <=> tail = head
  BY PendingSeq DEF RingInv
<1>1. CASE CheckTicks \/ FindKey \/ RereadTail \/ Hlt \/ LoadFirst
  <2>1. UNCHANGED <<buf, head, tail, lost, given>>
    BY <1>1 DEF CheckTicks, FindKey, RereadTail, Hlt, LoadFirst
  <2>2. Pending' = Pending
    BY <2>1, PendingSame
  <2>3. Hand' = Hand /\ Mark' = Mark /\ None' = None
    BY <1>0, <1>1 DEF CheckTicks, FindKey, RereadTail, Hlt, LoadFirst, Hand, Mark, None, Where
  <2> QED
    BY <2>1, <2>2, <2>3, QueueVars
<1>2. CASE ReadHead
  <2>1. UNCHANGED <<buf, head, tail, lost, given, op>> /\ h' = head /\ pc = "readHead"
    BY <1>2 DEF ReadHead
  <2>2. Pending' = Pending
    BY <2>1, PendingSame
  <2>3. Hand = NoKey /\ Hand' = NoKey /\ Mark = 0 /\ None = FALSE
    BY <1>2 DEF ReadHead, Hand, Mark, None
  <2>4. CASE op = "blocking"
    <3>1. Mark' = 0 /\ None' = FALSE
      BY <1>2, <2>4 DEF ReadHead, Mark, None
    <3> QED
      BY <2>1, <2>2, <2>3, <3>1, QueueVars
  <2>5. CASE op = "try"
    <3>1. Mark' = 0 /\ None' = (Pending = <<>>)
      BY <1>0, <1>2, <2>5 DEF ReadHead, Mark, None
    <3>2. Queue!Look
      BY <2>1, <2>2, <2>3, <3>1 DEF Queue!Look, Hand, Mark, None
    <3> QED
      BY <3>2 DEF Queue!Next
  <2>6. CASE op = "flush"
    <3>1. Mark' = Dist(tail, head) /\ None' = FALSE
      BY <1>2, <2>6 DEF ReadHead, Mark, None, Dist
    <3>2. Mark' = Len(Pending)
      BY <1>0, <3>1, PendingSeq
    <3>3. Queue!BeginFlush
      BY <2>1, <2>2, <2>3, <3>1, <3>2 DEF Queue!BeginFlush, Hand, Mark, None
    <3> QED
      BY <3>3 DEF Queue!Next
  <2> QED
    BY <1>0, <1>2, <2>4, <2>5, <2>6 DEF ReadHead, Where
<1>3. CASE FindNothing
  <2>1. UNCHANGED <<buf, head, tail, lost>>
    BY <1>3 DEF FindNothing
  <2>2. Pending' = Pending
    BY <2>1, PendingSame
  <2>3. /\ Hand = NoKey /\ Hand' = NoKey
        /\ Mark = 0 /\ Mark' = 0
        /\ None' = FALSE
    BY <1>3 DEF FindNothing, Hand, Mark, None
  <2>4. CASE op = "blocking"
    <3>1. None = FALSE /\ given' = given
      BY <1>3, <2>4 DEF FindNothing, None
    <3> QED
      BY <2>1, <2>2, <2>3, <3>1, QueueVars
  <2>5. CASE op = "try"
    <3>1. None /\ given' = NoKey
      BY <1>3, <2>5 DEF FindNothing, None
    <3>2. Queue!ReturnNothing
      BY <2>1, <2>2, <2>3, <3>1 DEF Queue!ReturnNothing, Hand, Mark, None
    <3> QED
      BY <3>2 DEF Queue!Next
  <2> QED
    BY <1>3, <2>4, <2>5 DEF FindNothing
<1>4. CASE Advance
  <2>1. /\ tail' = Succ(tail) /\ head # tail /\ given' = buf[tail]
        /\ UNCHANGED <<buf, head, lost>>
    BY <1>0, <1>4 DEF Advance, StaysNonempty, SlotKept, Reading
  <2>2. Pending # <<>> /\ Head(Pending) = buf[tail] /\ Tail(Pending) = Pending'
    BY <1>0, <2>1, PendingNext, WindowTake DEF Pending, PendingAreKeys
  <2>3. /\ Hand = NoKey /\ Hand' = NoKey
        /\ Mark = 0 /\ Mark' = 0
        /\ None = FALSE /\ None' = FALSE
    BY <1>4 DEF Advance, Hand, Mark, None
  <2>4. Queue!TakeAndReturn
    BY <2>1, <2>2, <2>3 DEF Queue!TakeAndReturn, Hand, Mark, None
  <2> QED
    BY <2>4 DEF Queue!Next
<1>5. CASE AdvanceFirst
  <2>1. /\ tail' = Succ(tail) /\ head # tail /\ t = tail
        /\ UNCHANGED <<buf, head, lost, given, t>>
    BY <1>0, <1>5 DEF AdvanceFirst, StaysNonempty, Reading
  <2>2. Pending # <<>> /\ Head(Pending) = buf[tail] /\ Tail(Pending) = Pending'
    BY <1>0, <2>1, PendingNext, WindowTake DEF Pending, PendingAreKeys
  <2>3. /\ Hand = NoKey /\ Hand' = buf[tail]
        /\ Mark = 0 /\ Mark' = 0
        /\ None = FALSE /\ None' = FALSE
    BY <1>5, <2>1 DEF AdvanceFirst, Hand, Mark, None
  <2>4. Queue!Take
    BY <2>1, <2>2, <2>3 DEF Queue!Take, Hand, Mark, None
  <2> QED
    BY <2>4 DEF Queue!Next
<1>6. CASE LoadLast
  <2>1. given' = buf[t] /\ buf[t] \in Key /\ UNCHANGED <<buf, head, tail, lost>>
    BY <1>0, <1>6 DEF LoadLast, SlotKept
  <2>2. Pending' = Pending
    BY <2>1, PendingSame
  <2>3. /\ Hand = buf[t] /\ Hand # NoKey /\ Hand' = NoKey
        /\ Mark = 0 /\ Mark' = 0
        /\ None = FALSE /\ None' = FALSE
    BY <1>6, <2>1, RingAssumption DEF LoadLast, Hand, Mark, None
  <2>4. Queue!Return
    BY <2>1, <2>2, <2>3 DEF Queue!Return, Hand, Mark, None
  <2> QED
    BY <2>4 DEF Queue!Next
<1>7. CASE Flush
  <2>1. /\ tail' = h /\ Dist(tail, h) <= Dist(tail, head)
        /\ UNCHANGED <<buf, head, lost, given>>
    BY <1>0, <1>7 DEF Flush, FlushInside, Flushing
  <2>2. SubSeq(Pending, Dist(tail, h) + 1, Len(Pending)) = Pending'
    BY <1>0, <2>1, PendingNext, WindowFlush DEF Pending, PendingAreKeys
  <2>3. /\ Hand = NoKey /\ Hand' = NoKey
        /\ Mark = Dist(tail, h) /\ Mark' = 0
        /\ None = FALSE /\ None' = FALSE
    BY <1>7 DEF Flush, Hand, Mark, None
  <2>4. Queue!EndFlush
    BY <2>1, <2>2, <2>3 DEF Queue!EndFlush, Hand, Mark, None
  <2> QED
    BY <2>4 DEF Queue!Next
<1> QED
  BY <1>1, <1>2, <1>3, <1>4, <1>5, <1>6, <1>7 DEF Foreground

LEMMA QueueStep ==
  TypeOK /\ RingInv /\ [RingNext]_ringVars => [Queue!Next]_(Queue!vars)
<1> SUFFICES ASSUME TypeOK, RingInv, [RingNext]_ringVars
             PROVE  Queue!Next \/ UNCHANGED Queue!vars
  OBVIOUS
<1>1. ASSUME NEW k \in Key, KeyIrq(k) PROVE Queue!Next \/ UNCHANGED Queue!vars
  BY <1>1, QueueKeyIrq
<1>2. CASE QuietIrq \/ TimerIrq \/ Enter \/ UNCHANGED ringVars
  <2>1. UNCHANGED <<buf, head, tail, lost, given, h, t>>
    BY <1>2 DEF QuietIrq, TimerIrq, Enter, Call, StartDelay, ringVars, shared, locals
  <2>2. Pending' = Pending
    BY <2>1, PendingSame
  <2>3. Hand' = Hand /\ Mark' = Mark /\ None' = None
    BY <1>2, <2>1 DEF QuietIrq, TimerIrq, Enter, Call, StartDelay, ringVars, shared,
       locals, At, Hand, Mark, None, Dist
  <2> QED
    BY <2>1, <2>2, <2>3, QueueVars
<1>3. CASE Foreground
  BY <1>3, QueueForeground
<1> QED
  BY <1>1, <1>2, <1>3 DEF RingNext

(* The lock-free ring is a queue, for every size and in every interleaving *)
(* of the interrupt with the foreground's accesses: keys come out in the   *)
(* order they were put, each once; a key is dropped only when the ring     *)
(* holds KEYBUF_SIZE - 1; keybuf_try_read finds nothing only if nothing    *)
(* was there; and a flush discards what was pending and nothing newer.     *)
THEOREM RingImplementsQueue == RingSafe => QueueSpec
<1>1. RingInit => TypeOK /\ RingInv /\ Queue!Init
  BY TypeInit, InvInit, QueueInit
<1>2. TypeOK /\ RingInv /\ [RingNext]_ringVars => (TypeOK /\ RingInv)'
  BY TypeStep, InvStep
<1>3. TypeOK /\ RingInv /\ [RingNext]_ringVars => [Queue!Next]_(Queue!vars)
  BY QueueStep
<1> QED BY <1>1, <1>2, <1>3, PTL DEF RingSafe, QueueSpec, Queue!Spec
=============================================================================
