------------------------------ MODULE KeyRing ------------------------------
(***************************************************************************)
(* The key ring of os/interrupts.rs, shared without a lock between the     *)
(* keyboard interrupt (keybuf_put) and the foreground program              *)
(* (keybuf_read_blocking, keybuf_try_read, keybuf_flush), together with    *)
(* the halt instruction the foreground waits with, the timer interrupt     *)
(* that ends such a wait, and the DELAY statement, which waits the same    *)
(* way for timer ticks.                                                    *)
(*                                                                         *)
(* There is one processor.  A handler runs with interrupts disabled, so it *)
(* is one step; the foreground can be interrupted between any two of its   *)
(* accesses to the shared words, so each access is a step.                 *)
(*                                                                         *)
(* KEYBUF_HEAD and KEYBUF_TAIL are read and written as volatile; the slots *)
(* of KEYBUF are not.  The compiler may therefore load a slot before or    *)
(* after the write of KEYBUF_TAIL that frees it: both orders are modelled. *)
(***************************************************************************)
EXTENDS Naturals, Sequences

CONSTANTS
  KEYBUF_SIZE,   \* slots of the ring
  Key,           \* the key codes keybuf_put is called with
  NoKey,         \* the contents of a slot never written, and None
  MaxMs          \* the longest DELAY considered, in milliseconds

ASSUME RingAssumption ==
  /\ KEYBUF_SIZE \in Nat
  /\ KEYBUF_SIZE >= 2
  /\ NoKey \notin Key
  /\ MaxMs \in Nat

VARIABLES
  buf,      \* KEYBUF
  head,     \* KEYBUF_HEAD, written by the interrupt only
  tail,     \* KEYBUF_TAIL, written by the foreground only
  lost,     \* whether the last key offered to keybuf_put was dropped
  halted,   \* whether the processor is in the halt instruction
  pc,       \* the next access of the foreground
  op,       \* the function the foreground is in
  h, t, c,  \* its locals head, tail and c
  given,    \* the result of its last read that returned
  left      \* in DELAY: the ticks still to come before the wait may end

shared == <<buf, head, tail, lost>>
locals == <<op, h, t, c>>
ringVars == <<buf, head, tail, lost, halted, pc, op, h, t, c, given, left>>

Slot == 0 .. KEYBUF_SIZE - 1
Op == {"none", "blocking", "try", "flush", "delay"}
Pc == {"idle", "readHead", "readTail", "hlt", "rereadTail", "take", "advance",
       "load", "ticks"}

(* Mutant: the index is not wrapped.                                       *)
SuccUnwrapped(i) == i + 1

Succ(i) == (i + 1) % KEYBUF_SIZE

(* DELAY's ticks_needed: the timer ticks every 5 ms, rounded up.           *)
ticks_needed(ms) == (ms + 4) \div 5

RingInit ==
  /\ buf = [i \in Slot |-> NoKey]
  /\ head = 0
  /\ tail = 0
  /\ lost = FALSE
  /\ halted = FALSE
  /\ pc = "idle"
  /\ op = "none"
  /\ h = 0
  /\ t = 0
  /\ c = NoKey
  /\ given = NoKey
  /\ left = 0

----------------------------------------------------------------------------
(* The interrupts.  Each ends the halt instruction, if one is in progress. *)

(* Mutant: a full ring is not noticed.                                     *)
PutUnchecked(k) ==
  /\ buf' = [buf EXCEPT ![head] = k]
  /\ head' = Succ(head)
  /\ lost' = FALSE

keybuf_put(k) ==
  IF Succ(head) # tail
  THEN /\ buf' = [buf EXCEPT ![head] = k]
       /\ head' = Succ(head)
       /\ lost' = FALSE
  ELSE /\ lost' = TRUE
       /\ UNCHANGED <<buf, head>>

KeyIrq(k) ==
  /\ keybuf_put(k)
  /\ halted' = FALSE
  /\ UNCHANGED <<tail, pc, locals, given, left>>

(* A keyboard interrupt that puts no key: a release, a modifier, a prefix. *)
QuietIrq ==
  /\ halted' = FALSE
  /\ UNCHANGED <<shared, pc, locals, given, left>>

(* Mutants: the timer does not wake the processor; it does not count.      *)
TimerUnwaking ==
  /\ left' = IF left > 0 THEN left - 1 ELSE 0
  /\ UNCHANGED <<shared, halted, pc, locals, given>>

TimerUncounting ==
  /\ halted' = FALSE
  /\ UNCHANGED <<shared, pc, locals, given, left>>

TimerIrq ==
  /\ halted' = FALSE
  /\ left' = IF left > 0 THEN left - 1 ELSE 0
  /\ UNCHANGED <<shared, pc, locals, given>>

----------------------------------------------------------------------------
(* The foreground.                                                         *)

At(label) == pc = label /\ ~halted

(* The locals of a function are dead once it has returned.                 *)
Leave ==
  /\ pc' = "idle"
  /\ op' = "none"
  /\ h' = 0
  /\ t' = 0
  /\ c' = NoKey

Call(o) ==
  /\ At("idle")
  /\ op' = o
  /\ pc' = "readHead"
  /\ UNCHANGED <<shared, halted, h, t, c, given, left>>

(* The read of TICKS that starts a DELAY.                                  *)
StartDelay(ms) ==
  /\ At("idle")
  /\ op' = "delay"
  /\ pc' = "ticks"
  /\ left' = ticks_needed(ms)
  /\ UNCHANGED <<shared, halted, h, t, c, given>>

CheckTicks ==
  /\ At("ticks")
  /\ IF left = 0
     THEN Leave
     ELSE pc' = "hlt" /\ UNCHANGED locals
  /\ UNCHANGED <<shared, halted, given, left>>

ReadHead ==
  /\ At("readHead")
  /\ h' = head
  /\ pc' = IF op = "flush" THEN "advance" ELSE "readTail"
  /\ UNCHANGED <<shared, halted, op, t, c, given, left>>

FindNothing ==
  /\ At("readTail")
  /\ h = tail
  /\ \/ /\ op = "blocking"
        /\ pc' = "hlt"
        /\ UNCHANGED <<locals, given>>
     \/ /\ op = "try"
        /\ Leave
        /\ given' = NoKey
  /\ UNCHANGED <<shared, halted, left>>

FindKey ==
  /\ At("readTail")
  /\ h # tail
  /\ t' = tail
  /\ pc' = IF op = "blocking" THEN "rereadTail" ELSE "take"
  /\ UNCHANGED <<shared, halted, op, h, c, given, left>>

RereadTail ==
  /\ At("rereadTail")
  /\ t' = tail
  /\ pc' = "take"
  /\ UNCHANGED <<shared, halted, op, h, c, given, left>>

(* An interrupt between the test and the halt does not end the halt that   *)
(* follows it.                                                             *)
Hlt ==
  /\ At("hlt")
  /\ halted' = TRUE
  /\ pc' = IF op = "delay" THEN "ticks" ELSE "readHead"
  /\ UNCHANGED <<shared, locals, given, left>>

LoadFirst ==
  /\ At("take")
  /\ c' = buf[t]
  /\ pc' = "advance"
  /\ UNCHANGED <<shared, halted, op, h, t, given, left>>

Advance ==
  /\ At("advance")
  /\ op # "flush"
  /\ tail' = Succ(t)
  /\ given' = c
  /\ Leave
  /\ UNCHANGED <<buf, head, lost, halted, left>>

AdvanceFirst ==
  /\ At("take")
  /\ tail' = Succ(t)
  /\ pc' = "load"
  /\ UNCHANGED <<buf, head, lost, halted, locals, given, left>>

LoadLast ==
  /\ At("load")
  /\ given' = buf[t]
  /\ Leave
  /\ UNCHANGED <<shared, halted, left>>

(* Mutant: a flush moves the head back, which the interrupt may have moved. *)
FlushByHead ==
  /\ At("advance")
  /\ op = "flush"
  /\ head' = tail
  /\ Leave
  /\ UNCHANGED <<buf, tail, lost, halted, given, left>>

Flush ==
  /\ At("advance")
  /\ op = "flush"
  /\ tail' = h
  /\ Leave
  /\ UNCHANGED <<buf, head, lost, halted, given, left>>

Foreground ==
  \/ CheckTicks
  \/ ReadHead
  \/ FindNothing
  \/ FindKey
  \/ RereadTail
  \/ Hlt
  \/ LoadFirst
  \/ Advance
  \/ AdvanceFirst
  \/ LoadLast
  \/ Flush

Enter ==
  \/ \E o \in {"blocking", "try", "flush"} : Call(o)
  \/ \E ms \in 0 .. MaxMs : StartDelay(ms)

RingNext ==
  \/ \E k \in Key : KeyIrq(k)
  \/ QuietIrq
  \/ TimerIrq
  \/ Enter
  \/ Foreground

RingSafe == RingInit /\ [][RingNext]_ringVars

(* The processor keeps executing a function it is in, and the timer, which *)
(* runs free once init has set it up, keeps interrupting.  Nothing is      *)
(* assumed of the keyboard or of the program's next call.                  *)
RingSpec ==
  /\ RingSafe
  /\ WF_ringVars(Foreground)
  /\ WF_ringVars(TimerIrq)

----------------------------------------------------------------------------
(* The ring as a queue.                                                    *)

Dist(a, b) == IF b >= a THEN b - a ELSE b + KEYBUF_SIZE - a
Nth(a, i) == IF a + i < KEYBUF_SIZE THEN a + i ELSE a + i - KEYBUF_SIZE

(* The slots of b from a up to z, z excluded.                              *)
Window(b, a, z) == [i \in 1 .. Dist(a, z) |-> b[Nth(a, i - 1)]]

Pending == Window(buf, tail, head)

Queue == INSTANCE KeyQueue WITH
  Capacity <- KEYBUF_SIZE - 1,
  queue    <- Pending,
  hand     <- IF pc = "load" THEN buf[t] ELSE NoKey,
  mark     <- IF pc = "advance" /\ op = "flush" THEN Dist(tail, h) ELSE 0,
  none     <- pc = "readTail" /\ op = "try" /\ h = tail

(* The interrupt and the foreground together are a bounded queue: no key   *)
(* is duplicated, reordered, or lost but for a full ring or a flush.       *)
QueueSpec == Queue!Spec

(* Types, and which locals are live where.                                 *)
TypeOK ==
  /\ buf \in [Slot -> Key \cup {NoKey}]
  /\ head \in Slot
  /\ tail \in Slot
  /\ lost \in BOOLEAN
  /\ halted \in BOOLEAN
  /\ pc \in Pc
  /\ op \in Op
  /\ h \in Slot
  /\ t \in Slot
  /\ c \in Key \cup {NoKey}
  /\ given \in Key \cup {NoKey}
  /\ left \in Nat

(* Where the foreground can be in each function.                           *)
Where ==
  /\ (pc = "idle") = (op = "none")
  /\ pc = "readHead" => op \in {"blocking", "try", "flush"}
  /\ pc \in {"readTail", "take", "load"} => op \in {"blocking", "try"}
  /\ pc = "rereadTail" => op = "blocking"
  /\ pc = "advance" => op \in {"blocking", "try", "flush"}
  /\ pc = "hlt" => op \in {"blocking", "delay"}
  /\ pc = "ticks" => op = "delay"

Reading == pc \in {"rereadTail", "take"} \/ (pc = "advance" /\ op # "flush")
Flushing == pc = "advance" /\ op = "flush"

(* What lies between tail and head is keys.                                *)
PendingAreKeys == \A i \in 1 .. Dist(tail, head) : buf[Nth(tail, i - 1)] \in Key

(* Once the foreground has seen the ring nonempty it stays so until the    *)
(* foreground itself takes the key.                                        *)
StaysNonempty ==
  /\ pc = "readTail" /\ h # tail => head # tail
  /\ Reading => head # tail /\ t = tail

(* A slot keeps its key until the foreground has loaded it, even if the    *)
(* slot was freed before it was loaded.                                    *)
SlotKept ==
  /\ pc = "advance" /\ op # "flush" => c = buf[t]
  /\ pc = "load" => tail = Succ(t) /\ buf[t] \in Key

(* The head a flush has read is one the tail may be moved to.              *)
FlushInside == Flushing => Dist(tail, h) <= Dist(tail, head)

(* Why the ring is safe without a lock: what lies between tail and head is *)
(* keys, a reader that has seen a key takes a key, from the slot tail      *)
(* names, a freed slot is not overwritten before it is loaded, and a flush *)
(* moves tail over pending keys only, wherever the interrupt falls.        *)
RingInv == Where /\ PendingAreKeys /\ StaysNonempty /\ SlotKept /\ FlushInside

(* A key press that arrives just before the halt does not wake it, but the *)
(* reader still returns: no key waits in the ring for ever while           *)
(* keybuf_read_blocking waits for one.                                     *)
ReaderWakes ==
  (op = "blocking" /\ head # tail) ~> (op # "blocking")

(* DELAY ends, whatever keys are typed and whenever the ticks come.        *)
DelayEnds == (op = "delay") ~> (op # "delay")
=============================================================================
