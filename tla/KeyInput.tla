------------------------------ MODULE KeyInput ------------------------------
(***************************************************************************)
(* Keyboard input end to end: the keyboard and its interrupt handler       *)
(* (module Keyboard) feeding the ring the foreground reads (module         *)
(* KeyRing).  The handler runs as one step of the processor: the decoding  *)
(* of a byte, the keybuf_put it ends in, and the end of a halt.            *)
(***************************************************************************)
EXTENDS KeyRing

CONSTANTS KeyCap, Shift, Control, FakeShift, MaxWire

VARIABLES SHIFT_HELD, CTRL_HELD, E0_PREFIX, KEYSTATE, LAST_SCANCODE, LAST_ASCII,
          put, inService, wire, held

Kbd == INSTANCE Keyboard

kbdVars == <<SHIFT_HELD, CTRL_HELD, E0_PREFIX, KEYSTATE, LAST_SCANCODE, LAST_ASCII,
             put, inService, wire, held>>
inputVars == <<ringVars, kbdVars>>

Init == RingInit /\ Kbd!KbdInit

KeyboardIrq ==
  /\ Kbd!keyboard_handler_inner
  /\ \/ put' = NoKey /\ QuietIrq
     \/ put' # NoKey /\ KeyIrq(put')

Next ==
  \/ KeyboardIrq
  \/ (TimerIrq \/ Enter \/ Foreground) /\ UNCHANGED kbdVars
  \/ (\E k \in KeyCap : Kbd!Press(k) \/ Kbd!Release(k)) /\ UNCHANGED ringVars

(* Besides the fairness of KeyRing, the interrupt controller delivers a    *)
(* byte that waits.  Nothing is assumed of the user.                       *)
Spec ==
  /\ Init
  /\ [][Next]_inputVars
  /\ WF_inputVars(Foreground /\ UNCHANGED kbdVars)
  /\ WF_inputVars(TimerIrq /\ UNCHANGED kbdVars)
  /\ WF_inputVars(KeyboardIrq)

(* A key pressed while, or before, the program waits in                    *)
(* keybuf_read_blocking ends the wait: it is decoded, put in the ring, and *)
(* the processor leaves its halt, whatever was pressed before it.          *)
KeyEndsWait ==
  (op = "blocking" /\ \E i \in 1 .. Len(wire) : wire[i].means # NoKey)
    ~> op # "blocking"
=============================================================================
