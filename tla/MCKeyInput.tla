----------------------------- MODULE MCKeyInput -----------------------------
(* A keyboard of two keys, one that sends a byte and one that sends two.   *)
EXTENDS KeyInput

Cap(code, ext, key) ==
  [code |-> code, ext |-> ext, plain |-> key, shifted |-> key, control |-> NoKey]

EscapeAndLeft == {Cap(1, FALSE, 27), Cap(75, TRUE, 130)}
=============================================================================
