------------------------------ MODULE Keyboard ------------------------------
(***************************************************************************)
(* The keyboard interrupt handler of os/interrupts.rs                      *)
(* (keyboard_handler_inner): one scancode byte per interrupt, decoded      *)
(* against state kept between interrupts (the E0 prefix, the modifiers),   *)
(* into the KEYSTATE array a program PEEKs and the keys put in the ring.   *)
(* The ring itself is module KeyRing; here `put' is the argument of        *)
(* keybuf_put.  Module KeyInput composes the two.                          *)
(*                                                                         *)
(* The keyboard is external: a person holds and releases keys, and the     *)
(* controller queues the bytes of scancode set 1 on a wire.  Each byte     *)
(* carries, for the properties only, the key its sender meant by it.       *)
(***************************************************************************)
EXTENDS Naturals, Sequences, FiniteSets

CONSTANTS
  KeyCap,      \* the keys of the keyboard: [code, ext, plain, shifted, control]
  NoKey,       \* no key code
  Shift,       \* the key caps that are Shift keys
  Control,     \* the key caps that are Control keys
  FakeShift,   \* whether navigation keys send fake Shift bytes, as PS/2 ones do
  MaxWire      \* how many bytes the controller holds

ASSUME KeyboardAssumption ==
  /\ \A k \in KeyCap : k.code \in 1 .. 127 \ {96} /\ k.ext \in BOOLEAN
  /\ Shift \subseteq KeyCap /\ Control \subseteq KeyCap
  /\ FakeShift \in BOOLEAN
  /\ MaxWire \in Nat

VARIABLES
  SHIFT_HELD, CTRL_HELD, E0_PREFIX,
  KEYSTATE,                    \* of the codes the key caps send
  LAST_SCANCODE, LAST_ASCII,
  put,                         \* the key the last interrupt passed to keybuf_put
  inService,                   \* the interrupt controller still waits for an EOI
  wire,                        \* the bytes sent and not yet read from port 0x60
  held                         \* the key caps held down

decoder == <<SHIFT_HELD, CTRL_HELD, E0_PREFIX, KEYSTATE, LAST_SCANCODE, LAST_ASCII>>
keyboard == <<wire, held>>
kbdVars == <<decoder, put, inService, keyboard>>

E0 == 224
Break(code) == code + 128
Codes == {k.code : k \in KeyCap}

SCANCODE_LOWER ==
  << 0,  27,  49,  50,  51,  52,  53,  54,  55,  56,  57,  48,  45,  61,   8,
     9, 113, 119, 101, 114, 116, 121, 117, 105, 111, 112,  91,  93,  10,
     0,  97, 115, 100, 102, 103, 104, 106, 107, 108,  59,  39,  96,
     0,  92, 122, 120,  99, 118,  98, 110, 109,  44,  46,  47,   0,
    42,   0,  32 >>

SCANCODE_UPPER ==
  << 0,  27,  33,  64,  35,  36,  37,  94,  38,  42,  40,  41,  95,  43,   8,
     9,  81,  87,  69,  82,  84,  89,  85,  73,  79,  80, 123, 125,  10,
     0,  65,  83,  68,  70,  71,  72,  74,  75,  76,  58,  34, 126,
     0, 124,  90,  88,  67,  86,  66,  78,  77,  60,  62,  63,   0,
    42,   0,  32 >>

(* KEY_ARROW_UP .. KEY_INSERT, by the code that follows the prefix.        *)
ExtendedKey(sc) ==
  CASE sc = 72 -> 128 [] sc = 80 -> 129 [] sc = 75 -> 130 [] sc = 77 -> 131
    [] sc = 71 -> 132 [] sc = 79 -> 133 [] sc = 73 -> 134 [] sc = 81 -> 135
    [] sc = 83 -> 136 [] sc = 82 -> 137
    [] OTHER   -> NoKey

IsAlphabetic(a) == a \in (65 .. 90) \cup (97 .. 122)

(* The keyboard has the layout of the tables, and a key cap shows what its *)
(* key types.  The Control key is the left one: a right one sends its code *)
(* after a prefix, which this handler takes for no modifier.               *)
ASSUME KeyCapAssumption ==
  /\ NoKey \notin Nat /\ IsFiniteSet(KeyCap)
  /\ FakeShift => 42 \in Codes
  /\ \A k \in KeyCap :
       LET char(map)  == IF k.code < Len(map) THEN map[k.code + 1] ELSE 0
           shown(map) == IF char(map) = 0 THEN NoKey ELSE char(map)
           lower      == char(SCANCODE_LOWER)
       IN /\ k = [code |-> k.code, ext |-> k.ext, plain |-> k.plain,
                  shifted |-> k.shifted, control |-> k.control]
          /\ k \in Shift <=> ~k.ext /\ k.code \in {42, 54}
          /\ k \in Control <=> ~k.ext /\ k.code = 29
          /\ k.plain = IF k.ext THEN ExtendedKey(k.code) ELSE shown(SCANCODE_LOWER)
          /\ k.shifted = IF k.ext THEN ExtendedKey(k.code) ELSE shown(SCANCODE_UPPER)
          /\ k.control = IF ~k.ext /\ IsAlphabetic(lower) THEN lower % 32 ELSE NoKey

KbdInit ==
  /\ SHIFT_HELD = FALSE
  /\ CTRL_HELD = FALSE
  /\ E0_PREFIX = FALSE
  /\ KEYSTATE = [sc \in Codes |-> 0]
  /\ LAST_SCANCODE = 0
  /\ LAST_ASCII = 0
  /\ put = NoKey
  /\ inService = FALSE
  /\ wire = <<>>
  /\ held = {}

----------------------------------------------------------------------------
(* The handler: one disjunct per path through keyboard_handler_inner, each *)
(* for the byte b read from the data port.                                 *)

(* Mutants: LAST_SCANCODE takes releases too; releases are not recorded.   *)
RecordsReleases(b) ==
  /\ KEYSTATE' = [KEYSTATE EXCEPT ![b % 128] = IF b >= 128 THEN 0 ELSE 1]
  /\ LAST_SCANCODE' = b

RecordsPresses(b) ==
  IF b >= 128 THEN UNCHANGED <<KEYSTATE, LAST_SCANCODE>>
  ELSE KEYSTATE' = [KEYSTATE EXCEPT ![b] = 1] /\ LAST_SCANCODE' = b

UpdateKeystate(b) ==
  IF b >= 128
  THEN /\ KEYSTATE' = [KEYSTATE EXCEPT ![b - 128] = 0]
       /\ UNCHANGED LAST_SCANCODE
  ELSE /\ KEYSTATE' = [KEYSTATE EXCEPT ![b] = 1]
       /\ LAST_SCANCODE' = b

EndOfInterrupt == inService' = FALSE

PrefixByte(b) ==
  /\ b = E0
  /\ E0_PREFIX' = TRUE
  /\ put' = NoKey
  /\ EndOfInterrupt
  /\ UNCHANGED <<SHIFT_HELD, CTRL_HELD, KEYSTATE, LAST_SCANCODE, LAST_ASCII>>

(* Mutants of the path after a prefix: it takes the fake Shift bytes for   *)
(* real ones; it keeps the prefix; it does not end the interrupt.          *)
ExtendedShifting(b) ==
  /\ b # E0
  /\ E0_PREFIX
  /\ E0_PREFIX' = FALSE
  /\ UpdateKeystate(b)
  /\ SHIFT_HELD' = IF b % 128 = 42 THEN b < 128 ELSE SHIFT_HELD
  /\ put' = IF b < 128 THEN ExtendedKey(b) ELSE NoKey
  /\ EndOfInterrupt
  /\ UNCHANGED <<CTRL_HELD, LAST_ASCII>>

ExtendedSticky(b) ==
  /\ b # E0
  /\ E0_PREFIX
  /\ UpdateKeystate(b)
  /\ put' = IF b < 128 THEN ExtendedKey(b) ELSE NoKey
  /\ EndOfInterrupt
  /\ UNCHANGED <<SHIFT_HELD, CTRL_HELD, E0_PREFIX, LAST_ASCII>>

ExtendedUnended(b) ==
  /\ b # E0
  /\ E0_PREFIX
  /\ E0_PREFIX' = FALSE
  /\ UpdateKeystate(b)
  /\ put' = IF b < 128 THEN ExtendedKey(b) ELSE NoKey
  /\ inService' = TRUE
  /\ UNCHANGED <<SHIFT_HELD, CTRL_HELD, LAST_ASCII>>

ExtendedByte(b) ==
  /\ b # E0
  /\ E0_PREFIX
  /\ E0_PREFIX' = FALSE
  /\ UpdateKeystate(b)
  /\ put' = IF b < 128 THEN ExtendedKey(b) ELSE NoKey
  /\ EndOfInterrupt
  /\ UNCHANGED <<SHIFT_HELD, CTRL_HELD, LAST_ASCII>>

ShiftByte(b) ==
  /\ b \in {42, 54, Break(42), Break(54)}
  /\ SHIFT_HELD' = (b < 128)
  /\ put' = NoKey
  /\ UNCHANGED <<CTRL_HELD, LAST_ASCII>>

ControlByte(b) ==
  /\ b \in {29, Break(29)}
  /\ CTRL_HELD' = (b < 128)
  /\ put' = NoKey
  /\ UNCHANGED <<SHIFT_HELD, LAST_ASCII>>

CharacterByte(b) ==
  /\ b < 128
  /\ b \notin {42, 54, 29}
  /\ LET map   == IF SHIFT_HELD THEN SCANCODE_UPPER ELSE SCANCODE_LOWER
         mapped == IF b < Len(map) THEN map[b + 1] ELSE 0
         ascii  == IF CTRL_HELD /\ IsAlphabetic(mapped) THEN mapped % 32 ELSE mapped
     IN /\ LAST_ASCII' = ascii
        /\ put' = IF ascii = 0 THEN NoKey ELSE ascii
  /\ UNCHANGED <<SHIFT_HELD, CTRL_HELD>>

ReleaseByte(b) ==
  /\ b >= 128
  /\ b \notin {Break(42), Break(54), Break(29)}
  /\ put' = NoKey
  /\ UNCHANGED <<SHIFT_HELD, CTRL_HELD, LAST_ASCII>>

PlainByte(b) ==
  /\ b # E0
  /\ ~E0_PREFIX
  /\ UNCHANGED E0_PREFIX
  /\ UpdateKeystate(b)
  /\ ShiftByte(b) \/ ControlByte(b) \/ CharacterByte(b) \/ ReleaseByte(b)
  /\ EndOfInterrupt

keyboard_handler_inner ==
  /\ wire # <<>>
  /\ ~inService
  /\ wire' = Tail(wire)
  /\ LET b == Head(wire).byte IN PrefixByte(b) \/ ExtendedByte(b) \/ PlainByte(b)
  /\ UNCHANGED held

----------------------------------------------------------------------------
(* The keyboard and its user.                                              *)

ShiftIsHeld == held \cap Shift # {}
ControlIsHeld == held \cap Control # {}

(* What is printed on the key, under the modifiers held as it is pressed.  *)
Means(k) ==
  CASE ControlIsHeld /\ k.control # NoKey -> k.control
    [] ShiftIsHeld /\ (~ControlIsHeld \/ k.control = NoKey) -> k.shifted
    [] OTHER -> k.plain

Bytes(k, b, key) ==
  IF k.ext THEN << [byte |-> E0, means |-> NoKey], [byte |-> b, means |-> key] >>
           ELSE << [byte |-> b, means |-> key] >>

(* The Shift release a keyboard pretends before a navigation key pressed   *)
(* with Shift held, and takes back after the key's release.                *)
Fake(b) == << [byte |-> E0, means |-> NoKey], [byte |-> b, means |-> NoKey] >>
FakesShift(k) == FakeShift /\ ExtendedKey(k.code) # NoKey /\ k.ext /\ ShiftIsHeld

Send(bytes) ==
  /\ Len(wire) + Len(bytes) <= MaxWire
  /\ wire' = wire \o bytes
  /\ UNCHANGED <<decoder, put, inService>>

(* A press, or a repeat of a key already held.  A person holds one Shift   *)
(* key at a time: the handler keeps one flag for both, so that with both   *)
(* held the release of either ends Shift.                                  *)
Press(k) ==
  /\ k \in Shift => held \cap Shift \subseteq {k}
  /\ held' = held \cup {k}
  /\ Send((IF FakesShift(k) /\ k \notin held THEN Fake(Break(42)) ELSE <<>>)
            \o Bytes(k, k.code, Means(k)))

Release(k) ==
  /\ k \in held
  /\ held' = held \ {k}
  /\ Send(Bytes(k, Break(k.code), NoKey)
            \o (IF FakesShift(k) THEN Fake(42) ELSE <<>>))

KbdNext ==
  \/ keyboard_handler_inner
  \/ \E k \in KeyCap : Press(k) \/ Release(k)

KbdSpec == KbdInit /\ [][KbdNext]_kbdVars

----------------------------------------------------------------------------
(* Properties.                                                             *)

Keys == {k[f] : k \in KeyCap, f \in {"plain", "shifted", "control"}}

(* Types: LAST_SCANCODE is a press, put is a key on some key cap.          *)
TypeOK ==
  /\ {SHIFT_HELD, CTRL_HELD, E0_PREFIX, inService} \subseteq BOOLEAN
  /\ KEYSTATE \in [Codes -> {0, 1}]
  /\ LAST_SCANCODE \in Codes \cup {0}
  /\ LAST_ASCII \in 0 .. 127
  /\ put \in Keys \cup {NoKey}
  /\ wire \in Seq([byte : 0 .. 255, means : Keys \cup {NoKey}])
  /\ held \subseteq KeyCap

(* Every byte's interrupt puts the key its sender meant when pressing it,  *)
(* under the modifiers held at that moment, and nothing otherwise: however *)
(* long the byte waited and whatever was pressed and released since.       *)
TypedAsHeld ==
  [][Len(wire') < Len(wire) => put' = Head(wire).means]_kbdVars

(* No modifier sticks or is lost: once the handler has caught up, it takes *)
(* Shift (Control) as held exactly while a Shift (Control) key is held.    *)
ModifiersInStep ==
  wire = <<>> => SHIFT_HELD = ShiftIsHeld /\ CTRL_HELD = ControlIsHeld

(* Two keys, with and without the prefix, may send the same code.  Fake    *)
(* Shift bytes send the left Shift's.                                      *)
Senders(sc) == {k \in KeyCap : k.code = sc}
SharedCode(sc) == Cardinality(Senders(sc)) > 1 \/ (FakeShift /\ sc = 42)

(* KEYSTATE tells which keys are held, for the codes one key sends.        *)
KeystateTracksKeys ==
  wire = <<>> =>
    \A k \in KeyCap : ~SharedCode(k.code) => KEYSTATE[k.code] = (IF k \in held THEN 1 ELSE 0)
=============================================================================
