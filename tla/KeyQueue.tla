------------------------------ MODULE KeyQueue ------------------------------
(***************************************************************************)
(* What the key buffer of os/interrupts.rs promises its two sides: a       *)
(* first-in first-out queue of at most Capacity keys between the keyboard  *)
(* interrupt, which offers keys and loses an offered key only when the     *)
(* queue is full, and the foreground code, which takes one key at a time   *)
(* or discards the keys that were pending when it asked to.                *)
(***************************************************************************)
EXTENDS Naturals, Sequences

CONSTANTS
  Capacity,   \* how many keys the queue can hold
  Key,        \* the key codes
  NoKey       \* what the foreground holds when it holds no key

VARIABLES
  queue,      \* the accepted keys the foreground has not taken, oldest first
  hand,       \* the key the foreground is taking, until it is returned
  given,      \* the result of the last read that returned
  mark,       \* how many of the pending keys a flush in progress will discard
  none,       \* whether a read that does not wait has found nothing pending
  lost        \* whether the last offered key was lost

vars == <<queue, hand, given, mark, none, lost>>

Init ==
  /\ queue = <<>>
  /\ hand = NoKey
  /\ given = NoKey
  /\ mark = 0
  /\ none = FALSE
  /\ lost = FALSE

Accept(k) ==
  /\ Len(queue) < Capacity
  /\ queue' = Append(queue, k)
  /\ lost' = FALSE
  /\ UNCHANGED <<hand, given, mark, none>>

Lose ==
  /\ Len(queue) = Capacity
  /\ lost' = TRUE
  /\ UNCHANGED <<queue, hand, given, mark, none>>

Take ==
  /\ queue # <<>>
  /\ hand = NoKey
  /\ hand' = Head(queue)
  /\ queue' = Tail(queue)
  /\ UNCHANGED <<given, mark, none, lost>>

TakeAndReturn ==
  /\ queue # <<>>
  /\ hand = NoKey
  /\ given' = Head(queue)
  /\ queue' = Tail(queue)
  /\ UNCHANGED <<hand, mark, none, lost>>

Return ==
  /\ hand # NoKey
  /\ given' = hand
  /\ hand' = NoKey
  /\ UNCHANGED <<queue, mark, none, lost>>

(* A read that does not wait looks, once, whether anything is pending, and *)
(* returns nothing only if nothing was pending when it looked.             *)
Look ==
  /\ none' = (queue = <<>>)
  /\ UNCHANGED <<queue, hand, given, mark, lost>>

ReturnNothing ==
  /\ none
  /\ given' = NoKey
  /\ none' = FALSE
  /\ UNCHANGED <<queue, hand, mark, lost>>

(* A flush discards the keys that were pending when it began, and none     *)
(* that arrived since.                                                     *)
BeginFlush ==
  /\ mark' = Len(queue)
  /\ UNCHANGED <<queue, hand, given, none, lost>>

EndFlush ==
  /\ queue' = SubSeq(queue, mark + 1, Len(queue))
  /\ mark' = 0
  /\ UNCHANGED <<hand, given, none, lost>>

Next ==
  \/ \E k \in Key : Accept(k)
  \/ Lose
  \/ Take
  \/ TakeAndReturn
  \/ Return
  \/ Look
  \/ ReturnNothing
  \/ BeginFlush
  \/ EndFlush

Spec == Init /\ [][Next]_vars
=============================================================================
