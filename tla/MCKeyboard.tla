----------------------------- MODULE MCKeyboard -----------------------------
(***************************************************************************)
(* Keyboards for the checks of Keyboard: real keys of a PC keyboard, each  *)
(* with the code it sends and what is printed on it.                       *)
(***************************************************************************)
EXTENDS Keyboard

Cap(code, ext, plain, shifted, control) ==
  [code |-> code, ext |-> ext, plain |-> plain, shifted |-> shifted, control |-> control]

LeftShift   == Cap(42, FALSE, NoKey, NoKey, NoKey)
RightShift  == Cap(54, FALSE, NoKey, NoKey, NoKey)
LeftControl == Cap(29, FALSE, NoKey, NoKey, NoKey)
LetterA     == Cap(30, FALSE, 97, 65, 1)
LeftArrow   == Cap(75, TRUE, 130, 130, NoKey)

ShiftCaps == {LeftShift, RightShift}
ControlCaps == {LeftControl}
Caps == ShiftCaps \cup ControlCaps \cup {LetterA, LeftArrow}
=============================================================================
