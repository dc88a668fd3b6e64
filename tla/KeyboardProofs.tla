--------------------------- MODULE KeyboardProofs ---------------------------
(***************************************************************************)
(* Proofs about the keyboard's interrupt handler, for every keyboard with  *)
(* the layout of its tables and a wire of any length: its types, that no   *)
(* modifier sticks or is lost, that KEYSTATE tells which keys are held,    *)
(* and that each interrupt puts the key its sender meant.                  *)
(***************************************************************************)
EXTENDS Keyboard, Integers, FiniteSetTheorems, SequenceTheorems, TLAPS

----------------------------------------------------------------------------
(* What the handler does with a byte, as functions of its state.           *)

Decoder == [shift : BOOLEAN, ctrl : BOOLEAN, e0 : BOOLEAN, keys : [Codes -> {0, 1}]]

Now == [shift |-> SHIFT_HELD, ctrl |-> CTRL_HELD, e0 |-> E0_PREFIX, keys |-> KEYSTATE]

Step(s, b) ==
  [shift |-> IF ~s.e0 /\ b \in {42, 54, 170, 182} THEN b < 128 ELSE s.shift,
   ctrl  |-> IF ~s.e0 /\ b \in {29, 157} THEN b < 128 ELSE s.ctrl,
   e0    |-> b = E0,
   keys  |-> IF b = E0 THEN s.keys
             ELSE [s.keys EXCEPT ![IF b >= 128 THEN b - 128 ELSE b] = IF b >= 128 THEN 0 ELSE 1]]

Ascii(s, b) ==
  LET map    == IF s.shift THEN SCANCODE_UPPER ELSE SCANCODE_LOWER
      mapped == IF b < Len(map) THEN map[b + 1] ELSE 0
  IN IF s.ctrl /\ IsAlphabetic(mapped) THEN mapped % 32 ELSE mapped

Puts(s, b) ==
  IF b >= 128 THEN NoKey
  ELSE IF s.e0 THEN ExtendedKey(b)
  ELSE IF b \in {42, 54, 29} \/ Ascii(s, b) = 0 THEN NoKey
  ELSE Ascii(s, b)

(* The bytes w take the decoder from state s to state t, and each puts the *)
(* key it means.                                                           *)
Replay(w, s, t) ==
  \E st \in [0 .. Len(w) -> Decoder] :
    /\ st[0] = s /\ st[Len(w)] = t
    /\ \A p \in 1 .. Len(w) :
         w[p].means = Puts(st[p - 1], w[p].byte) /\ st[p] = Step(st[p - 1], w[p].byte)

Sent == {E0} \cup Codes \cup {Break(c) : c \in Codes}
Item == [byte : Sent, means : Keys \cup {NoKey}]

Types ==
  /\ SHIFT_HELD \in BOOLEAN /\ CTRL_HELD \in BOOLEAN /\ E0_PREFIX \in BOOLEAN
  /\ inService = FALSE
  /\ KEYSTATE \in [Codes -> {0, 1}]
  /\ LAST_SCANCODE \in Codes \cup {0}
  /\ LAST_ASCII \in 0 .. 127
  /\ put \in Keys \cup {NoKey}
  /\ wire \in Seq(Item)
  /\ held \subseteq KeyCap

(* The decoder state t is what the keys held down call for.                *)
InStep(t) ==
  /\ t.e0 = FALSE
  /\ t.shift = ShiftIsHeld
  /\ t.ctrl = ControlIsHeld
  /\ \A k \in KeyCap : ~SharedCode(k.code) => t.keys[k.code] = (IF k \in held THEN 1 ELSE 0)

OneShift == \A k, l \in held \cap Shift : k = l

(* The bytes on the wire will bring the decoder in step with the keys held *)
(* down, and put on the way the keys they mean.                            *)
KbdInv ==
  /\ Types
  /\ OneShift
  /\ \E t \in Decoder : Replay(wire, Now, t) /\ InStep(t)

----------------------------------------------------------------------------
(* The tables.                                                             *)

LEMMA TableLength == Len(SCANCODE_LOWER) = 58 /\ Len(SCANCODE_UPPER) = 58
BY DEF SCANCODE_LOWER, SCANCODE_UPPER

LEMMA TableIndex ==
  ASSUME NEW n \in 1 .. 58
  PROVE  n \in {1, 2, 3, 4, 5, 6, 7, 8, 9, 10, 11, 12, 13, 14, 15, 16, 17, 18, 19, 20,
                21, 22, 23, 24, 25, 26, 27, 28, 29, 30, 31, 32, 33, 34, 35, 36, 37, 38,
                39, 40, 41, 42, 43, 44, 45, 46, 47, 48, 49, 50, 51, 52, 53, 54, 55, 56, 57, 58}
OBVIOUS

LEMMA TableAscii ==
  ASSUME NEW n \in 1 .. 58
  PROVE  SCANCODE_LOWER[n] \in 0 .. 127 /\ SCANCODE_UPPER[n] \in 0 .. 127
BY TableIndex DEF SCANCODE_LOWER, SCANCODE_UPPER

(* Shift makes no letter of another character, and the other case of one.  *)
LEMMA TableLetters ==
  ASSUME NEW n \in 1 .. 58
  PROVE  /\ IsAlphabetic(SCANCODE_LOWER[n]) <=> IsAlphabetic(SCANCODE_UPPER[n])
         /\ IsAlphabetic(SCANCODE_LOWER[n]) =>
              SCANCODE_LOWER[n] % 32 = SCANCODE_UPPER[n] % 32 /\ SCANCODE_LOWER[n] % 32 # 0
BY TableIndex, SMTT(60) DEF SCANCODE_LOWER, SCANCODE_UPPER, IsAlphabetic

(* The modifiers type nothing.                                             *)
LEMMA TableModifiers ==
  /\ SCANCODE_LOWER[30] = 0 /\ SCANCODE_LOWER[43] = 0 /\ SCANCODE_LOWER[55] = 0
  /\ SCANCODE_UPPER[30] = 0 /\ SCANCODE_UPPER[43] = 0 /\ SCANCODE_UPPER[55] = 0
BY DEF SCANCODE_LOWER, SCANCODE_UPPER

LEMMA AsciiRange ==
  ASSUME NEW s, NEW b \in Nat
  PROVE  Ascii(s, b) \in 0 .. 127
<1> DEFINE map == IF s.shift THEN SCANCODE_UPPER ELSE SCANCODE_LOWER
           mapped == IF b < Len(map) THEN map[b + 1] ELSE 0
<1>1. Len(map) = 58
  BY TableLength
<1>2. b < 58 => b + 1 \in 1 .. 58
  OBVIOUS
<1>3. mapped \in 0 .. 127
  <2>1. CASE b < 58
    <3>1. mapped = map[b + 1]
      BY <1>1, <2>1
    <3>2. SCANCODE_LOWER[b + 1] \in 0 .. 127 /\ SCANCODE_UPPER[b + 1] \in 0 .. 127
      <4> HIDE DEF mapped, map
      <4> QED
        BY <2>1, <1>2, TableAscii
    <3>3. map[b + 1] = SCANCODE_LOWER[b + 1] \/ map[b + 1] = SCANCODE_UPPER[b + 1]
      OBVIOUS
    <3> HIDE DEF mapped, map
    <3> QED
      BY <3>1, <3>2, <3>3
  <2>2. CASE ~(b < 58)
    <3>1. mapped = 0
      BY <1>1, <2>2
    <3> QED
      BY <3>1
  <2> QED
    BY <2>1, <2>2
<1>4. mapped % 32 \in 0 .. 127
  <2> HIDE DEF mapped
  <2> QED
    BY <1>3
<1> QED
  <2> HIDE DEF mapped
  <2>1. Ascii(s, b) = IF s.ctrl /\ IsAlphabetic(mapped) THEN mapped % 32 ELSE mapped
    BY DEF Ascii, mapped
  <2> QED
    BY <1>3, <1>4, <2>1

----------------------------------------------------------------------------
(* The keys of a keyboard.                                                 *)

LEMMA CapFields ==
  ASSUME NEW k \in KeyCap
  PROVE  /\ k.code \in Nat /\ 1 <= k.code /\ k.code <= 127 /\ k.code # 96 /\ k.ext \in BOOLEAN
         /\ k.code \in Codes
         /\ k \in Shift <=> ~k.ext /\ k.code \in {42, 54}
         /\ k \in Control <=> ~k.ext /\ k.code = 29
<1>1. k.code \in 1 .. 127 \ {96} /\ k.ext \in BOOLEAN
  BY KeyboardAssumption
<1>2. k.code \in Codes
  BY DEF Codes
<1>3. (k \in Shift <=> ~k.ext /\ k.code \in {42, 54}) /\ (k \in Control <=> ~k.ext /\ k.code = 29)
  BY KeyCapAssumption
<1> QED
  BY <1>1, <1>2, <1>3

LEMMA CodesRange == Codes \subseteq 1 .. 127 /\ 96 \notin Codes
BY CapFields DEF Codes

(* The character of a plain key, before the Control key has its say.       *)
Char(map, code) == IF code < Len(map) THEN map[code + 1] ELSE 0

(* What is printed on a key cap is what the tables say.                    *)
LEMMA CapShows ==
  ASSUME NEW k \in KeyCap
  PROVE  /\ k.ext => k.plain = ExtendedKey(k.code) /\ k.shifted = ExtendedKey(k.code) /\ k.control = NoKey
         /\ ~k.ext =>
              /\ k.plain = IF Char(SCANCODE_LOWER, k.code) = 0 THEN NoKey ELSE Char(SCANCODE_LOWER, k.code)
              /\ k.shifted = IF Char(SCANCODE_UPPER, k.code) = 0 THEN NoKey ELSE Char(SCANCODE_UPPER, k.code)
              /\ k.control = IF IsAlphabetic(Char(SCANCODE_LOWER, k.code))
                             THEN Char(SCANCODE_LOWER, k.code) % 32 ELSE NoKey
         /\ k = [code |-> k.code, ext |-> k.ext, plain |-> k.plain,
                 shifted |-> k.shifted, control |-> k.control]
BY KeyCapAssumption DEF Char

LEMMA CapLetters ==
  ASSUME NEW code \in Nat,
         NEW lower, lower = Char(SCANCODE_LOWER, code),
         NEW upper, upper = Char(SCANCODE_UPPER, code)
  PROVE  /\ lower \in 0 .. 127 /\ upper \in 0 .. 127
         /\ IsAlphabetic(lower) <=> IsAlphabetic(upper)
         /\ IsAlphabetic(lower) => lower % 32 = upper % 32 /\ lower % 32 # 0 /\ lower % 32 \in Nat
<1>1. CASE code < 58
  <2>1. code + 1 \in 1 .. 58
    BY <1>1
  <2>2. lower = SCANCODE_LOWER[code + 1] /\ upper = SCANCODE_UPPER[code + 1]
    BY <1>1, TableLength DEF Char
  <2>3. lower \in 0 .. 127 /\ upper \in 0 .. 127
    <3>1. SCANCODE_LOWER[code + 1] \in 0 .. 127 /\ SCANCODE_UPPER[code + 1] \in 0 .. 127
      BY ONLY <2>1, TableAscii
    <3> QED
      BY <2>2, <3>1
  <2>4. lower % 32 \in Nat
    BY <2>3
  <2> QED
    BY <2>1, <2>2, <2>3, <2>4, TableLetters
<1>2. CASE ~(code < 58)
  BY <1>2, TableLength DEF Char, IsAlphabetic
<1> QED
  BY <1>1, <1>2

(* Only the left Control key is a Control key to the handler.              *)
LEMMA OneControl ==
  ASSUME NEW k \in Control, NEW l \in Control
  PROVE  k = l
<1>1. k \in KeyCap /\ l \in KeyCap
  BY KeyboardAssumption
<1>2. k.ext = FALSE /\ l.ext = FALSE /\ k.code = 29 /\ l.code = 29
  BY <1>1, CapFields
<1>3. k.plain = l.plain /\ k.shifted = l.shifted /\ k.control = l.control
  BY <1>1, <1>2, CapShows
<1> QED
  BY <1>1, <1>2, <1>3, CapShows

LEMMA ModifiersTypeNothing ==
  ASSUME NEW k \in Shift \cup Control
  PROVE  k.plain = NoKey /\ k.shifted = NoKey /\ k.control = NoKey
<1>1. k \in KeyCap /\ ~k.ext /\ k.code \in {42, 54, 29}
  BY KeyboardAssumption, CapFields
<1>2. Char(SCANCODE_LOWER, k.code) = 0 /\ Char(SCANCODE_UPPER, k.code) = 0
  BY <1>1, TableModifiers, TableLength DEF Char
<1>3. ~IsAlphabetic(0)
  BY DEF IsAlphabetic
<1> QED
  BY <1>1, <1>2, <1>3, CapShows

LEMMA MeansKey ==
  ASSUME NEW k \in KeyCap
  PROVE  Means(k) \in Keys \cup {NoKey}
<1>1. k.plain \in Keys /\ k.shifted \in Keys /\ k.control \in Keys
  <2>1. k["plain"] \in Keys /\ k["shifted"] \in Keys /\ k["control"] \in Keys
    BY DEF Keys
  <2> QED
    BY <2>1
<1> QED
  BY <1>1 DEF Means

(* One key sends a code that is not shared.                                *)
LEMMA OneSender ==
  ASSUME NEW k \in KeyCap, NEW l \in KeyCap, ~SharedCode(k.code), l.code = k.code
  PROVE  l = k
<1> SUFFICES ASSUME l # k PROVE FALSE
  OBVIOUS
<1> DEFINE S == Senders(k.code)
<1>1. S \subseteq KeyCap /\ k \in S /\ l \in S
  BY DEF Senders
<1>2. IsFiniteSet(S) /\ IsFiniteSet({k}) /\ Cardinality({k}) = 1
  BY <1>1, KeyCapAssumption, FS_Subset, FS_Singleton
<1>3. IsFiniteSet({k} \cup {l}) /\ Cardinality({k} \cup {l}) = 2
  <2>1. l \notin {k}
    OBVIOUS
  <2> QED
    BY ONLY <1>2, <2>1, FS_AddElement
<1>4. Cardinality({k} \cup {l}) <= Cardinality(S)
  <2>1. {k} \cup {l} \subseteq S
    BY <1>1
  <2> HIDE DEF S
  <2> QED
    BY <1>2, <2>1, FS_Subset
<1>5. Cardinality(S) \in Nat
  BY <1>2, FS_CardinalityType
<1> QED
  BY <1>3, <1>4, <1>5 DEF SharedCode

----------------------------------------------------------------------------
(* Bytes in a row.                                                         *)

LEMMA StepTyped ==
  ASSUME NEW s \in Decoder, NEW b \in Nat
  PROVE  Step(s, b) \in Decoder
<1>1. s.keys \in [Codes -> {0, 1}]
  BY DEF Decoder
<1> DEFINE c == IF b >= 128 THEN b - 128 ELSE b
           x == IF b >= 128 THEN 0 ELSE 1
<1>2. [s.keys EXCEPT ![c] = x] \in [Codes -> {0, 1}]
  <2>1. x \in {0, 1}
    OBVIOUS
  <2> HIDE DEF c, x
  <2> QED
    BY <1>1, <2>1
<1>3. (b < 128) \in BOOLEAN /\ (b = E0) \in BOOLEAN /\ s.shift \in BOOLEAN /\ s.ctrl \in BOOLEAN
  BY DEF Decoder
<1> QED
  BY <1>1, <1>2, <1>3 DEF Step, Decoder

LEMMA SentNat == Sent \subseteq Nat
<1>1. \A c \in Codes : c \in Nat /\ Break(c) \in Nat
  BY CodesRange DEF Break
<1> QED
  BY <1>1 DEF Sent, E0

LEMMA ReplayNothing ==
  ASSUME NEW s \in Decoder
  PROVE  Replay(<<>>, s, s)
<1> DEFINE st == [p \in 0 .. 0 |-> s]
<1>1. st \in [0 .. Len(<<>>) -> Decoder] /\ st[0] = s /\ st[Len(<<>>)] = s
  OBVIOUS
<1>2. \A p \in 1 .. Len(<<>>) : FALSE
  OBVIOUS
<1> QED
  BY <1>1, <1>2 DEF Replay

LEMMA ReplayOne ==
  ASSUME NEW s \in Decoder, NEW x \in Item, x.means = Puts(s, x.byte)
  PROVE  Replay(<<x>>, s, Step(s, x.byte))
<1> DEFINE t == Step(s, x.byte)
           st == [p \in 0 .. 1 |-> IF p = 0 THEN s ELSE t]
<1>1. x.byte \in Nat
  BY SentNat DEF Item
<1>2. t \in Decoder
  BY <1>1, StepTyped
<1> HIDE DEF t
<1>3. st \in [0 .. 1 -> Decoder] /\ st[0] = s /\ st[1] = t
  BY <1>2
<1>4. Len(<<x>>) = 1 /\ <<x>>[1] = x
  OBVIOUS
<1> HIDE DEF st
<1>5. \A p \in 1 .. 1 : <<x>>[p].means = Puts(st[p - 1], <<x>>[p].byte) /\ st[p] = Step(st[p - 1], <<x>>[p].byte)
  <2> TAKE p \in 1 .. 1
  <2>1. p = 1 /\ p - 1 = 0
    OBVIOUS
  <2> QED
    BY <2>1, <1>3, <1>4 DEF t
<1>6. Replay(<<x>>, s, t)
  BY <1>3, <1>4, <1>5 DEF Replay
<1> QED
  BY <1>6 DEF t

LEMMA ReplayConcat ==
  ASSUME NEW v \in Seq(Item), NEW w \in Seq(Item), NEW s, NEW t, NEW u,
         Replay(v, s, t), Replay(w, t, u)
  PROVE  Replay(v \o w, s, u)
<1> DEFINE m == Len(v)
           n == Len(w)
<1>1. m \in Nat /\ n \in Nat /\ Len(v \o w) = m + n
  BY LenProperties, ConcatProperties
<1>2. \A p \in 1 .. m + n : (v \o w)[p] = IF p <= m THEN v[p] ELSE w[p - m]
  BY ConcatProperties
<1>3. PICK f \in [0 .. m -> Decoder] :
        /\ f[0] = s /\ f[m] = t
        /\ \A p \in 1 .. m : v[p].means = Puts(f[p - 1], v[p].byte) /\ f[p] = Step(f[p - 1], v[p].byte)
  BY DEF Replay
<1>4. PICK g \in [0 .. n -> Decoder] :
        /\ g[0] = t /\ g[n] = u
        /\ \A p \in 1 .. n : w[p].means = Puts(g[p - 1], w[p].byte) /\ g[p] = Step(g[p - 1], w[p].byte)
  BY DEF Replay
<1> HIDE DEF m, n
<1> DEFINE st == [p \in 0 .. m + n |-> IF p <= m THEN f[p] ELSE g[p - m]]
<1>5. st \in [0 .. m + n -> Decoder]
  <2> SUFFICES ASSUME NEW p \in 0 .. m + n PROVE (IF p <= m THEN f[p] ELSE g[p - m]) \in Decoder
    OBVIOUS
  <2>1. p <= m => p \in 0 .. m
    BY <1>1
  <2>2. ~(p <= m) => p - m \in 0 .. n
    BY <1>1
  <2> QED
    BY <1>3, <1>4, <2>1, <2>2
<1>6. \A p \in 0 .. m : st[p] = f[p]
  <2> TAKE p \in 0 .. m
  <2>1. p \in 0 .. m + n /\ p <= m
    BY <1>1
  <2> QED
    BY <2>1
<1>7. \A p \in 0 .. n : st[m + p] = g[p]
  <2> TAKE p \in 0 .. n
  <2>1. m + p \in 0 .. m + n /\ (m + p) - m = p /\ (m + p <= m <=> p = 0)
    BY <1>1
  <2>2. CASE p = 0
    <3>1. m + p = m /\ m \in 0 .. m /\ m \in 0 .. m + n
      BY <1>1, <2>2
    <3> QED
      BY <3>1, <2>2, <1>3, <1>4
  <2>3. CASE p # 0
    BY <2>1, <2>3
  <2> QED
    BY <2>2, <2>3
<1> HIDE DEF st
<1>8. st[0] = s
  <2>1. 0 \in 0 .. m
    BY <1>1
  <2> QED
    BY <1>3, <1>6, <2>1
<1>9. st[m + n] = u
  <2>1. n \in 0 .. n
    BY <1>1
  <2> QED
    BY <1>4, <1>7, <2>1
<1>10. ASSUME NEW p \in 1 .. m + n
       PROVE  /\ (v \o w)[p].means = Puts(st[p - 1], (v \o w)[p].byte)
              /\ st[p] = Step(st[p - 1], (v \o w)[p].byte)
  <2>1. CASE p <= m
    <3>1. p \in 1 .. m /\ p - 1 \in 0 .. m /\ p \in 0 .. m
      BY <1>1, <2>1
    <3> QED
      BY <1>2, <1>3, <1>6, <2>1, <3>1
  <2>2. CASE ~(p <= m)
    <3>1. PICK q : q = p - m
      OBVIOUS
    <3>2. q \in 1 .. n /\ q - 1 \in 0 .. n /\ q \in 0 .. n /\ m + q = p /\ m + (q - 1) = p - 1
      BY <1>1, <2>2, <3>1
    <3>3. st[p] = g[q] /\ st[p - 1] = g[q - 1]
      BY <1>7, <3>2
    <3>4. (v \o w)[p] = w[q]
      BY <1>2, <2>2, <3>1
    <3> QED
      BY <1>4, <3>2, <3>3, <3>4
  <2> QED
    BY <2>1, <2>2
<1> QED
  BY <1>1, <1>5, <1>8, <1>9, <1>10 DEF Replay

(* The first byte takes the decoder to where the others start from.        *)
LEMMA ReplayHead ==
  ASSUME NEW w \in Seq(Item), w # <<>>, NEW s, NEW t, Replay(w, s, t)
  PROVE  /\ Head(w).means = Puts(s, Head(w).byte)
         /\ Replay(Tail(w), Step(s, Head(w).byte), t)
<1> DEFINE n == Len(w) - 1
<1>1. /\ Len(w) \in Nat /\ Len(w) >= 1 /\ n \in Nat /\ Len(w) = n + 1
      /\ Head(w) = w[1] /\ Len(Tail(w)) = n
      /\ \A p \in 1 .. n : Tail(w)[p] = w[p + 1]
  BY LenProperties, EmptySeq, HeadTailProperties
<1>2. PICK f \in [0 .. Len(w) -> Decoder] :
        /\ f[0] = s /\ f[Len(w)] = t
        /\ \A p \in 1 .. Len(w) : w[p].means = Puts(f[p - 1], w[p].byte) /\ f[p] = Step(f[p - 1], w[p].byte)
  BY DEF Replay
<1> HIDE DEF n
<1>3. f[1] = Step(s, Head(w).byte) /\ Head(w).means = Puts(s, Head(w).byte)
  <2>1. 1 \in 1 .. Len(w) /\ 1 - 1 = 0
    BY <1>1
  <2> QED
    BY <1>1, <1>2, <2>1
<1> DEFINE st == [p \in 0 .. n |-> f[p + 1]]
<1>4. st \in [0 .. n -> Decoder]
  <2>1. \A p \in 0 .. n : p + 1 \in 0 .. Len(w)
    BY <1>1
  <2> QED
    BY <1>2, <2>1
<1>5. st[0] = f[1] /\ st[n] = f[Len(w)]
  <2>1. 0 \in 0 .. n /\ n \in 0 .. n /\ 0 + 1 = 1
    BY <1>1
  <2> QED
    BY <1>1, <2>1
<1>6. ASSUME NEW p \in 1 .. n
      PROVE  /\ Tail(w)[p].means = Puts(st[p - 1], Tail(w)[p].byte)
             /\ st[p] = Step(st[p - 1], Tail(w)[p].byte)
  <2>1. p - 1 \in 0 .. n /\ p \in 0 .. n /\ p + 1 \in 1 .. Len(w) /\ (p - 1) + 1 = p /\ (p + 1) - 1 = p
    BY <1>1
  <2>2. st[p] = f[p + 1] /\ st[p - 1] = f[p]
    BY <2>1
  <2> HIDE DEF st
  <2> QED
    BY <1>1, <1>2, <2>1, <2>2
<1> HIDE DEF st
<1> QED
  BY <1>1, <1>2, <1>3, <1>4, <1>5, <1>6 DEF Replay

----------------------------------------------------------------------------
(* The handler's paths, taken together, are Step and Puts.                 *)

LEMMA HandlerSteps ==
  ASSUME Types, keyboard_handler_inner
  PROVE  /\ Now' = Step(Now, Head(wire).byte)
         /\ put' = Puts(Now, Head(wire).byte)
         /\ inService' = FALSE
         /\ LAST_ASCII' \in 0 .. 127
         /\ LAST_SCANCODE' \in Codes \cup {0}
<1> DEFINE b == Head(wire).byte
<1>1. wire # <<>> /\ Head(wire) \in Item
  BY HeadTailProperties DEF Types, keyboard_handler_inner
<1>2. b \in Sent /\ b \in Nat
  BY <1>1, SentNat DEF Item
<1>3. b < 128 => b \in Codes
  <2>1. \A c \in Codes : ~(Break(c) < 128) /\ c \in Nat
    BY CodesRange DEF Break
  <2> QED
    BY <1>2, <2>1 DEF Sent, E0
<1>4. LAST_ASCII \in 0 .. 127 /\ LAST_SCANCODE \in Codes \cup {0}
  BY DEF Types
<1>5. PrefixByte(b) \/ ExtendedByte(b) \/ PlainByte(b)
  BY DEF keyboard_handler_inner
<1> HIDE DEF b
<1>6. UpdateKeystate(b) => /\ KEYSTATE' = [KEYSTATE EXCEPT ![IF b >= 128 THEN b - 128 ELSE b] =
                                             IF b >= 128 THEN 0 ELSE 1]
                           /\ LAST_SCANCODE' \in Codes \cup {0}
  <2>1. CASE b >= 128
    BY <1>4, <2>1 DEF UpdateKeystate
  <2>2. CASE ~(b >= 128)
    BY <1>2, <1>3, <2>2 DEF UpdateKeystate
  <2> QED
    BY <2>1, <2>2
<1>7. CASE PrefixByte(b)
  <2>1. Now' = Step(Now, b)
    <3>1. b = E0 /\ (b = E0) = TRUE /\ b \notin {42, 54, 170, 182, 29, 157}
      BY <1>7 DEF PrefixByte, E0
    <3>2. Step(Now, b) = [shift |-> SHIFT_HELD, ctrl |-> CTRL_HELD, e0 |-> TRUE, keys |-> KEYSTATE]
      BY <3>1 DEF Step, Now
    <3>3. Now' = [shift |-> SHIFT_HELD, ctrl |-> CTRL_HELD, e0 |-> TRUE, keys |-> KEYSTATE]
      BY <1>7 DEF PrefixByte, Now
    <3> QED
      BY <3>2, <3>3
  <2>2. put' = Puts(Now, b)
    BY <1>7 DEF PrefixByte, Puts, E0
  <2> QED
    BY <1>4, <1>7, <2>1, <2>2 DEF PrefixByte, EndOfInterrupt, b
<1>8. CASE ExtendedByte(b)
  <2>1. Now' = Step(Now, b)
    BY <1>6, <1>8 DEF ExtendedByte, Now, Step
  <2>2. put' = Puts(Now, b)
    BY <1>2, <1>8 DEF ExtendedByte, Puts, Now
  <2> QED
    BY <1>4, <1>6, <1>8, <2>1, <2>2 DEF ExtendedByte, EndOfInterrupt, b
<1>9. CASE PlainByte(b)
  <2>1. b # E0 /\ E0_PREFIX = FALSE /\ E0_PREFIX' = E0_PREFIX /\ UpdateKeystate(b) /\ inService' = FALSE
    BY <1>9 DEF PlainByte, EndOfInterrupt, Types
  <2>2. Break(42) = 170 /\ Break(54) = 182 /\ Break(29) = 157
    BY DEF Break
  <2>3. Ascii(Now, b) \in 0 .. 127
    BY <1>2, AsciiRange
  <2>4. /\ SHIFT_HELD' = IF b \in {42, 54, 170, 182} THEN b < 128 ELSE SHIFT_HELD
        /\ CTRL_HELD' = IF b \in {29, 157} THEN b < 128 ELSE CTRL_HELD
        /\ put' = Puts(Now, b)
        /\ LAST_ASCII' \in 0 .. 127
    <3>1. CASE ShiftByte(b)
      <4>1. b \in {42, 54, 170, 182}
        BY <3>1, <2>2 DEF ShiftByte
      <4>2. put' = Puts(Now, b)
        BY <2>1, <3>1, <4>1 DEF ShiftByte, Puts, Now
      <4> QED
        BY <1>4, <3>1, <4>1, <4>2 DEF ShiftByte
    <3>2. CASE ControlByte(b)
      <4>1. b \in {29, 157}
        BY <3>2, <2>2 DEF ControlByte
      <4>2. put' = Puts(Now, b)
        BY <2>1, <3>2, <4>1 DEF ControlByte, Puts, Now
      <4> QED
        BY <1>4, <3>2, <4>1, <4>2 DEF ControlByte
    <3>3. CASE CharacterByte(b)
      <4>1. LAST_ASCII' = Ascii(Now, b) /\ put' = IF Ascii(Now, b) = 0 THEN NoKey ELSE Ascii(Now, b)
        BY <3>3 DEF CharacterByte, Ascii, Now
      <4>2. put' = Puts(Now, b)
        BY <1>2, <2>1, <3>3, <4>1 DEF CharacterByte, Puts, Now
      <4>3. b \notin {42, 54, 170, 182, 29, 157}
        BY <1>2, <3>3 DEF CharacterByte
      <4> QED
        BY <2>3, <3>3, <4>1, <4>2, <4>3 DEF CharacterByte
    <3>4. CASE ReleaseByte(b)
      <4>1. b \notin {42, 54, 170, 182, 29, 157}
        BY <1>2, <2>2, <3>4 DEF ReleaseByte
      <4>2. put' = Puts(Now, b)
        BY <3>4 DEF ReleaseByte, Puts
      <4> QED
        BY <1>4, <3>4, <4>1, <4>2 DEF ReleaseByte
    <3> QED
      BY <1>9, <3>1, <3>2, <3>3, <3>4 DEF PlainByte
  <2>5. Now' = Step(Now, b)
    <3>1. Step(Now, b) = [shift |-> IF b \in {42, 54, 170, 182} THEN b < 128 ELSE SHIFT_HELD,
                          ctrl |-> IF b \in {29, 157} THEN b < 128 ELSE CTRL_HELD,
                          e0 |-> FALSE,
                          keys |-> [KEYSTATE EXCEPT ![IF b >= 128 THEN b - 128 ELSE b] =
                                                      IF b >= 128 THEN 0 ELSE 1]]
      BY <2>1 DEF Now, Step
    <3>2. KEYSTATE' = [KEYSTATE EXCEPT ![IF b >= 128 THEN b - 128 ELSE b] = IF b >= 128 THEN 0 ELSE 1]
      BY <1>6, <2>1
    <3>3. Now' = [shift |-> SHIFT_HELD', ctrl |-> CTRL_HELD', e0 |-> E0_PREFIX', keys |-> KEYSTATE']
      BY DEF Now
    <3> QED
      BY ONLY <2>1, <2>4, <3>1, <3>2, <3>3
  <2> QED
    BY <1>6, <2>1, <2>4, <2>5 DEF b
<1> QED
  BY <1>5, <1>7, <1>8, <1>9 DEF b

LEMMA NowTyped == Types => Now \in Decoder
BY DEF Types, Now, Decoder

----------------------------------------------------------------------------
(* What a key sends.                                                       *)

(* The byte b of key k, which means key, and leaves k held down or not.    *)
Sends(k, b, key, down) ==
  \/ b = k.code /\ key = Means(k) /\ down = TRUE
  \/ b = Break(k.code) /\ key = NoKey /\ down = FALSE

(* From s to u the decoder takes key k as held down, or not.               *)
Moves(k, down, s, u) ==
  /\ u.e0 = FALSE
  /\ u.shift = (IF k \in Shift THEN down ELSE s.shift)
  /\ u.ctrl = (IF k \in Control THEN down ELSE s.ctrl)
  /\ u.keys[k.code] = (IF down THEN 1 ELSE 0)
  /\ \A c \in Codes : c # k.code => u.keys[c] = s.keys[c]

(* From s to u the decoder takes nothing else as held down.                *)
Keeps(s, u) ==
  /\ u.e0 = FALSE /\ u.shift = s.shift /\ u.ctrl = s.ctrl
  /\ \A c \in Codes : ~SharedCode(c) => u.keys[c] = s.keys[c]

(* The code of a key, or of its release, by itself or after a prefix.      *)
LEMMA StepOfKey ==
  ASSUME NEW k \in KeyCap, NEW b, NEW key, NEW down \in BOOLEAN, Sends(k, b, key, down),
         NEW s \in Decoder, s.e0 = k.ext
  PROVE  Step(s, b) \in Decoder /\ Moves(k, down, s, Step(s, b))
<1> DEFINE n == k.code
           u == Step(s, b)
<1>1. /\ n \in Nat /\ 1 <= n /\ n <= 127 /\ n # 96 /\ k.ext \in BOOLEAN /\ n \in Codes
      /\ k \in Shift <=> ~k.ext /\ n \in {42, 54}
      /\ k \in Control <=> ~k.ext /\ n = 29
  BY CapFields
<1>2. (b = n /\ down = TRUE) \/ (b = n + 128 /\ down = FALSE)
  BY DEF Sends, Break
<1> HIDE DEF n
<1>3. b \in Nat /\ b # E0 /\ (IF b >= 128 THEN b - 128 ELSE b) = n /\ (b < 128 <=> ~(b >= 128))
  BY <1>1, <1>2 DEF E0
<1>0. (b < 128) = down
  BY <1>1, <1>2
<1>4. u \in Decoder
  BY <1>3, StepTyped
<1>5. s.keys \in [Codes -> {0, 1}]
  BY DEF Decoder
<1>6. u.keys = [s.keys EXCEPT ![n] = IF b >= 128 THEN 0 ELSE 1]
  BY <1>3 DEF Step
<1>7. u.e0 = FALSE
  BY <1>3 DEF Step
<1>8. u.shift = IF ~k.ext /\ b \in {42, 54, 170, 182} THEN b < 128 ELSE s.shift
  BY DEF Step
<1>9. u.ctrl = IF ~k.ext /\ b \in {29, 157} THEN b < 128 ELSE s.ctrl
  BY DEF Step
<1>10. (b \in {42, 54, 170, 182} <=> n \in {42, 54}) /\ (b \in {29, 157} <=> n = 29)
  BY <1>1, <1>2
<1> HIDE DEF u
<1>11. u.shift = (IF k \in Shift THEN down ELSE s.shift)
  BY <1>0, <1>1, <1>8, <1>10
<1>12. u.ctrl = (IF k \in Control THEN down ELSE s.ctrl)
  BY <1>0, <1>1, <1>9, <1>10
<1>13. u.keys[n] = (IF down THEN 1 ELSE 0) /\ \A c \in Codes : c # n => u.keys[c] = s.keys[c]
  BY <1>0, <1>1, <1>3, <1>5, <1>6
<1>14. u \in Decoder /\ Moves(k, down, s, u)
  BY <1>4, <1>7, <1>11, <1>12, <1>13 DEF n, Moves
<1> QED
  BY <1>14 DEF u

(* Pressed, a key puts what is printed on it under the modifiers held.     *)
LEMMA PutsMeaning ==
  ASSUME NEW k \in KeyCap, NEW s \in Decoder, s.e0 = k.ext,
         s.shift = ShiftIsHeld, s.ctrl = ControlIsHeld
  PROVE  Puts(s, k.code) = Means(k)
<1>1. k.code \in Nat /\ k.code <= 127 /\ ~(k.code >= 128) /\ k.ext \in BOOLEAN
  BY CapFields
<1>2. CASE k.ext
  <2>1. Puts(s, k.code) = ExtendedKey(k.code)
    BY <1>1, <1>2 DEF Puts
  <2>2. k.plain = ExtendedKey(k.code) /\ k.shifted = ExtendedKey(k.code) /\ k.control = NoKey
    BY <1>2, CapShows
  <2> QED
    BY <2>1, <2>2 DEF Means
<1>3. CASE ~k.ext /\ k.code \in {42, 54, 29}
  <2>1. k \in Shift \cup Control
    BY <1>3, CapFields
  <2>2. k.plain = NoKey /\ k.shifted = NoKey /\ k.control = NoKey
    BY <2>1, ModifiersTypeNothing
  <2>3. Puts(s, k.code) = NoKey
    BY <1>1, <1>3 DEF Puts
  <2> QED
    BY <2>2, <2>3 DEF Means
<1>4. CASE ~k.ext /\ k.code \notin {42, 54, 29}
  <2> DEFINE lower == Char(SCANCODE_LOWER, k.code)
             upper == Char(SCANCODE_UPPER, k.code)
             mapped == IF s.shift THEN upper ELSE lower
  <2>1. /\ lower \in 0 .. 127 /\ upper \in 0 .. 127
        /\ IsAlphabetic(lower) <=> IsAlphabetic(upper)
        /\ IsAlphabetic(lower) => lower % 32 = upper % 32 /\ lower % 32 # 0 /\ lower % 32 \in Nat
    BY <1>1, CapLetters
  <2>2. /\ k.plain = IF lower = 0 THEN NoKey ELSE lower
        /\ k.shifted = IF upper = 0 THEN NoKey ELSE upper
        /\ k.control = IF IsAlphabetic(lower) THEN lower % 32 ELSE NoKey
    BY <1>4, CapShows
  <2>3. Ascii(s, k.code) = IF s.ctrl /\ IsAlphabetic(mapped) THEN mapped % 32 ELSE mapped
    BY DEF Ascii, Char
  <2>4. Puts(s, k.code) = IF Ascii(s, k.code) = 0 THEN NoKey ELSE Ascii(s, k.code)
    BY <1>1, <1>4 DEF Puts
  <2> HIDE DEF lower, upper
  <2>5. NoKey \notin Nat
    BY KeyCapAssumption
  <2>6. k.control # NoKey <=> IsAlphabetic(lower)
    BY <2>1, <2>2, <2>5
  <2>7. CASE s.ctrl /\ IsAlphabetic(lower)
    <3>1. Means(k) = lower % 32
      BY <2>2, <2>6, <2>7 DEF Means
    <3>2. Ascii(s, k.code) = lower % 32
      BY <2>1, <2>3, <2>7
    <3> QED
      BY <2>1, <2>4, <2>7, <3>1, <3>2
  <2>8. CASE ~(s.ctrl /\ IsAlphabetic(lower))
    <3>1. Means(k) = IF s.shift THEN k.shifted ELSE k.plain
      BY <2>6, <2>8 DEF Means
    <3>2. Ascii(s, k.code) = mapped
      BY <2>1, <2>3, <2>8
    <3> QED
      BY <2>2, <2>4, <3>1, <3>2
  <2> QED
    BY <2>7, <2>8
<1> QED
  BY <1>1, <1>2, <1>3, <1>4

LEMMA PrefixStep ==
  ASSUME NEW s \in Decoder, NEW r, r = Step(s, E0)
  PROVE  /\ r \in Decoder /\ r.e0 = TRUE
         /\ r.shift = s.shift /\ r.ctrl = s.ctrl /\ r.keys = s.keys
         /\ Puts(s, E0) = NoKey
         /\ [byte |-> E0, means |-> NoKey] \in Item
<1>1. E0 \in Nat /\ E0 >= 128 /\ E0 \notin {42, 54, 170, 182, 29, 157}
  BY DEF E0
<1>2. r \in Decoder
  BY <1>1, StepTyped
<1>3. r.shift = s.shift /\ r.ctrl = s.ctrl /\ r.keys = s.keys
  BY <1>1 DEF Step
<1>4. r.e0 = TRUE
  BY DEF Step
<1> QED
  BY <1>1, <1>2, <1>3, <1>4 DEF Puts, Item, Sent

LEMMA PairIsConcat ==
  ASSUME NEW x \in Item, NEW y \in Item
  PROVE  <<x>> \in Seq(Item) /\ <<y>> \in Seq(Item) /\ <<x, y>> = <<x>> \o <<y>> /\ <<x, y>> \in Seq(Item)
<1>1. <<x>> \in Seq(Item) /\ <<y>> \in Seq(Item) /\ <<x, y>> \in Seq(Item)
  OBVIOUS
<1>2. Len(<<x>>) = 1 /\ Len(<<y>>) = 1 /\ Len(<<x, y>>) = 2
  OBVIOUS
<1>3. /\ <<x>> \o <<y>> \in Seq(Item) /\ Len(<<x>> \o <<y>>) = 2
      /\ \A p \in 1 .. 2 : (<<x>> \o <<y>>)[p] = IF p <= 1 THEN <<x>>[p] ELSE <<y>>[p - 1]
  BY <1>1, <1>2, ConcatProperties
<1>4. (<<x>> \o <<y>>)[1] = x /\ (<<x>> \o <<y>>)[2] = y
  BY <1>3
<1>5. \A p \in 1 .. 2 : (<<x>> \o <<y>>)[p] = <<x, y>>[p]
  BY <1>4
<1>6. <<x>> \o <<y>> = <<x, y>>
  BY <1>1, <1>2, <1>3, <1>5, SeqEqual
<1> QED
  BY <1>1, <1>6

(* A key's bytes take the decoder from where it is to where the key is     *)
(* held, or is not.                                                        *)
LEMMA BytesReplay ==
  ASSUME NEW k \in KeyCap, NEW s \in Decoder, s.e0 = FALSE,
         s.shift = ShiftIsHeld, s.ctrl = ControlIsHeld,
         NEW b, NEW key, NEW down \in BOOLEAN, Sends(k, b, key, down)
  PROVE  /\ Bytes(k, b, key) \in Seq(Item)
         /\ \E u \in Decoder : Replay(Bytes(k, b, key), s, u) /\ Moves(k, down, s, u)
<1> DEFINE x == [byte |-> E0, means |-> NoKey]
           y == [byte |-> b, means |-> key]
           r == IF k.ext THEN Step(s, E0) ELSE s
           u == Step(r, b)
<1>1. k.code \in Nat /\ 1 <= k.code /\ k.code <= 127 /\ k.code \in Codes /\ k.ext \in BOOLEAN
  BY CapFields
<1>2. y \in Item
  <2>1. key \in Keys \cup {NoKey}
    BY MeansKey DEF Sends
  <2>2. b \in Sent
    BY <1>1 DEF Sent, Sends
  <2> QED
    BY <2>1, <2>2 DEF Item
<1>3. /\ r \in Decoder /\ r.e0 = k.ext /\ r.shift = s.shift /\ r.ctrl = s.ctrl /\ r.keys = s.keys
  BY <1>1, PrefixStep
<1> HIDE DEF r
<1>4. key = Puts(r, b)
  <2>1. CASE b = k.code /\ key = Means(k)
    BY <1>3, <2>1, PutsMeaning
  <2>2. CASE b = Break(k.code) /\ key = NoKey
    <3>1. b >= 128
      BY <1>1, <2>2 DEF Break
    <3> QED
      BY <2>2, <3>1 DEF Puts
  <2> QED
    BY <2>1, <2>2 DEF Sends
<1>5. u \in Decoder /\ Moves(k, down, r, u)
  BY <1>3, StepOfKey
<1>6. Replay(<<y>>, r, u)
  BY <1>2, <1>3, <1>4, ReplayOne
<1> HIDE DEF u
<1>7. Replay(Bytes(k, b, key), s, u) /\ Bytes(k, b, key) \in Seq(Item)
  <2>1. CASE ~k.ext
    <3>1. Bytes(k, b, key) = <<y>> /\ r = s
      BY <2>1 DEF Bytes, r
    <3> QED
      BY <1>2, <1>6, <3>1, PairIsConcat
  <2>2. CASE k.ext
    <3>1. Replay(<<x>>, s, r)
      BY <2>2, PrefixStep, ReplayOne DEF r
    <3>2. x \in Item
      BY PrefixStep
    <3>3. Bytes(k, b, key) = <<x, y>>
      BY <2>2 DEF Bytes
    <3> HIDE DEF x, y
    <3>4. <<x>> \in Seq(Item) /\ <<y>> \in Seq(Item) /\ <<x, y>> = <<x>> \o <<y>> /\ <<x, y>> \in Seq(Item)
      BY <1>2, <3>2, PairIsConcat
    <3>5. Replay(<<x>> \o <<y>>, s, u)
      BY <1>6, <3>1, <3>4, ReplayConcat
    <3> QED
      BY <3>3, <3>4, <3>5
  <2> QED
    BY <2>1, <2>2
<1>8. Moves(k, down, s, u)
  BY <1>3, <1>5 DEF Moves
<1> QED
  BY <1>5, <1>7, <1>8

(* The Shift bytes a keyboard pretends change no modifier.                 *)
LEMMA FakeReplay ==
  ASSUME NEW s \in Decoder, s.e0 = FALSE, FakeShift,
         NEW b, b = 42 \/ b = Break(42)
  PROVE  Fake(b) \in Seq(Item) /\ \E u \in Decoder : Replay(Fake(b), s, u) /\ Keeps(s, u)
<1> DEFINE x == [byte |-> E0, means |-> NoKey]
           y == [byte |-> b, means |-> NoKey]
           r == Step(s, E0)
           u == Step(r, b)
<1>0. 42 \in Codes /\ SharedCode(42)
  BY KeyCapAssumption DEF SharedCode
<1>1. b \in Nat /\ b # E0 /\ (b = 42 \/ b = 170) /\ (IF b >= 128 THEN b - 128 ELSE b) = 42
  BY DEF Break, E0
<1>2. y \in Item /\ x \in Item
  BY <1>0, PrefixStep DEF Item, Sent
<1>3. /\ r \in Decoder /\ r.e0 = TRUE /\ Puts(s, E0) = NoKey
      /\ r.shift = s.shift /\ r.ctrl = s.ctrl /\ r.keys = s.keys
  BY PrefixStep
<1>4. Replay(<<x>>, s, r)
  BY <1>2, <1>3, ReplayOne
<1> HIDE DEF r
<1>5. Puts(r, b) = NoKey
  BY <1>1, <1>3 DEF Puts, ExtendedKey
<1>6. Replay(<<y>>, r, u)
  BY <1>2, <1>3, <1>5, ReplayOne
<1>7. u \in Decoder
  BY <1>1, <1>3, StepTyped
<1>8. u.e0 = FALSE /\ u.shift = r.shift /\ u.ctrl = r.ctrl
  BY <1>1, <1>3 DEF Step
<1>10. u.keys = [r.keys EXCEPT ![42] = IF b >= 128 THEN 0 ELSE 1]
  BY <1>1 DEF Step
<1>11. \A c \in Codes : c # 42 => u.keys[c] = r.keys[c]
  BY <1>3, <1>10 DEF Decoder
<1>9. Keeps(s, u)
  BY <1>0, <1>3, <1>8, <1>11 DEF Keeps
<1> HIDE DEF u, x, y
<1>12. <<x>> \in Seq(Item) /\ <<y>> \in Seq(Item) /\ <<x, y>> = <<x>> \o <<y>> /\ <<x, y>> \in Seq(Item)
  BY <1>2, PairIsConcat
<1>13. Replay(<<x>> \o <<y>>, s, u)
  BY <1>4, <1>6, <1>12, ReplayConcat
<1>14. Fake(b) = <<x, y>>
  BY DEF Fake, x, y
<1> QED
  BY <1>7, <1>9, <1>12, <1>13, <1>14

----------------------------------------------------------------------------
(* Every step keeps the invariant.                                         *)

LEMMA InitInv == KbdInit => KbdInv
<1> SUFFICES ASSUME KbdInit PROVE KbdInv
  OBVIOUS
<1>1. Types
  <2>1. wire \in Seq(Item)
    <3> HIDE DEF Item
    <3> QED
      BY EmptySeq DEF KbdInit
  <2>2. KEYSTATE \in [Codes -> {0, 1}]
    BY DEF KbdInit
  <2>3. SHIFT_HELD \in BOOLEAN /\ CTRL_HELD \in BOOLEAN /\ E0_PREFIX \in BOOLEAN /\ inService = FALSE
    BY DEF KbdInit
  <2>4. LAST_SCANCODE \in Codes \cup {0} /\ put \in Keys \cup {NoKey} /\ held \subseteq KeyCap
    BY DEF KbdInit
  <2>5. LAST_ASCII \in 0 .. 127
    BY DEF KbdInit
  <2> QED
    BY <2>1, <2>2, <2>3, <2>4, <2>5 DEF Types
<1>2. OneShift
  BY DEF KbdInit, OneShift
<1>3. InStep(Now)
  <2>1. \A k \in KeyCap : k.code \in Codes
    BY DEF Codes
  <2> QED
    BY <2>1 DEF KbdInit, InStep, Now, ShiftIsHeld, ControlIsHeld
<1>4. Replay(wire, Now, Now)
  BY <1>1, NowTyped, ReplayNothing DEF KbdInit
<1> QED
  BY <1>1, <1>2, <1>3, <1>4, NowTyped DEF KbdInv

LEMMA HandlerInv ==
  ASSUME KbdInv, keyboard_handler_inner
  PROVE  KbdInv' /\ put' = Head(wire).means
<1>1. Types /\ wire \in Seq(Item) /\ wire # <<>> /\ wire' = Tail(wire) /\ held' = held
  BY DEF KbdInv, Types, keyboard_handler_inner
<1>2. PICK t \in Decoder : Replay(wire, Now, t) /\ InStep(t)
  BY DEF KbdInv
<1>3. /\ Now' = Step(Now, Head(wire).byte)
      /\ put' = Puts(Now, Head(wire).byte)
      /\ inService' = FALSE
      /\ LAST_ASCII' \in 0 .. 127
      /\ LAST_SCANCODE' \in Codes \cup {0}
  BY <1>1, HandlerSteps
<1>4. Head(wire) \in Item /\ Tail(wire) \in Seq(Item)
  BY <1>1, HeadTailProperties
<1>5. Head(wire).means = Puts(Now, Head(wire).byte) /\ Replay(Tail(wire), Step(Now, Head(wire).byte), t)
  BY <1>1, <1>2, ReplayHead
<1>6. Now' \in Decoder
  <2>1. Head(wire).byte \in Nat
    BY <1>4, SentNat DEF Item
  <2> QED
    BY <1>1, <1>3, <2>1, NowTyped, StepTyped
<1>7. Types'
  <2>1. SHIFT_HELD' \in BOOLEAN /\ CTRL_HELD' \in BOOLEAN /\ E0_PREFIX' \in BOOLEAN
        /\ KEYSTATE' \in [Codes -> {0, 1}]
    BY <1>6 DEF Now, Decoder
  <2>2. put' \in Keys \cup {NoKey}
    BY <1>3, <1>4, <1>5 DEF Item
  <2> QED
    BY <1>1, <1>3, <1>4, <2>1, <2>2 DEF Types
<1>8. OneShift' /\ InStep(t)'
  BY <1>1, <1>2 DEF KbdInv, OneShift, InStep, ShiftIsHeld, ControlIsHeld
<1>9. Replay(wire', Now', t)
  BY <1>1, <1>3, <1>5
<1> QED
  BY <1>2, <1>3, <1>5, <1>7, <1>8, <1>9 DEF KbdInv

(* What is sent only adds to the wire.                                     *)
Adds == ~(Len(wire') < Len(wire))

(* Bytes sent that end where the keys held down call for.                  *)
LEMMA SendInv ==
  ASSUME KbdInv, NEW bytes, Send(bytes), bytes \in Seq(Item), held' \subseteq KeyCap, OneShift',
         NEW t \in Decoder, Replay(wire, Now, t),
         NEW u \in Decoder, Replay(bytes, t, u), InStep(u)'
  PROVE  KbdInv' /\ Adds
<1>1. Types /\ wire \in Seq(Item) /\ wire' = wire \o bytes /\ UNCHANGED <<decoder, put, inService>>
  BY DEF KbdInv, Types, Send
<1>2. wire' \in Seq(Item)
  BY <1>1, ConcatProperties
<1>3. Types'
  BY <1>1, <1>2 DEF Types, decoder
<1>4. Now' = Now
  BY <1>1 DEF Now, decoder
<1>5. Replay(wire', Now', u)
  BY <1>1, <1>4, ReplayConcat
<1>6. Adds
  <2>1. Len(wire') = Len(wire) + Len(bytes) /\ Len(wire) \in Nat /\ Len(bytes) \in Nat
    BY <1>1, ConcatProperties, LenProperties
  <2> QED
    BY <2>1 DEF Adds
<1> QED
  BY <1>3, <1>5, <1>6 DEF KbdInv

LEMMA NothingSent == <<>> \in Seq(Item) /\ \A s \in Decoder : Replay(<<>>, s, s)
BY EmptySeq, ReplayNothing

(* What a code that no two keys share tells, after the bytes of key k.     *)
LEMMA KeysTrack ==
  ASSUME NEW k \in KeyCap, NEW t, NEW u, InStep(t),
         \A l \in KeyCap : l # k => (l \in held' <=> l \in held),
         ~SharedCode(k.code) => u.keys[k.code] = (IF k \in held' THEN 1 ELSE 0),
         \A c \in Codes : c # k.code /\ ~SharedCode(c) => u.keys[c] = t.keys[c]
  PROVE  \A l \in KeyCap : ~SharedCode(l.code) => u.keys[l.code] = (IF l \in held' THEN 1 ELSE 0)
<1> SUFFICES ASSUME NEW l \in KeyCap, ~SharedCode(l.code)
             PROVE  u.keys[l.code] = (IF l \in held' THEN 1 ELSE 0)
  OBVIOUS
<1>1. l.code \in Codes
  BY DEF Codes
<1>2. CASE l.code = k.code
  <2>1. l = k
    BY <1>2, OneSender
  <2> QED
    BY <1>2, <2>1
<1>3. CASE l.code # k.code
  <2>1. l # k
    BY <1>3
  <2>2. t.keys[l.code] = (IF l \in held THEN 1 ELSE 0)
    BY DEF InStep
  <2> QED
    BY <1>1, <1>3, <2>1, <2>2
<1> QED
  BY <1>2, <1>3

LEMMA PressInv ==
  ASSUME KbdInv, NEW k \in KeyCap, Press(k)
  PROVE  KbdInv' /\ Adds
<1> DEFINE fake == IF FakesShift(k) /\ k \notin held THEN Fake(Break(42)) ELSE <<>>
           bytes == Bytes(k, k.code, Means(k))
<1>1. Send(fake \o bytes) /\ held' = held \cup {k} /\ (k \in Shift => held \cap Shift \subseteq {k})
  BY DEF Press
<1>2. PICK t \in Decoder : Replay(wire, Now, t) /\ InStep(t)
  BY DEF KbdInv
<1>3. t.e0 = FALSE /\ t.shift = ShiftIsHeld /\ t.ctrl = ControlIsHeld
  BY <1>2 DEF InStep
<1>4. fake \in Seq(Item) /\ \E s \in Decoder : Replay(fake, t, s) /\ Keeps(t, s)
  <2>1. CASE FakesShift(k) /\ k \notin held
    <3>1. fake = Fake(Break(42)) /\ FakeShift
      BY <2>1 DEF FakesShift
    <3> HIDE DEF fake
    <3> QED
      BY <1>3, <3>1, FakeReplay
  <2>2. CASE ~(FakesShift(k) /\ k \notin held)
    <3>1. fake = <<>>
      BY <2>2
    <3>2. Keeps(t, t)
      BY <1>3 DEF Keeps
    <3> HIDE DEF fake
    <3> QED
      BY <3>1, <3>2, NothingSent
  <2> QED
    BY <2>1, <2>2
<1> HIDE DEF fake
<1>5. PICK s \in Decoder : Replay(fake, t, s) /\ Keeps(t, s)
  BY <1>4
<1>6. s.e0 = FALSE /\ s.shift = ShiftIsHeld /\ s.ctrl = ControlIsHeld
  BY <1>3, <1>5 DEF Keeps
<1>7. bytes \in Seq(Item) /\ \E u \in Decoder : Replay(bytes, s, u) /\ Moves(k, TRUE, s, u)
  <2>1. Sends(k, k.code, Means(k), TRUE)
    BY DEF Sends
  <2> QED
    BY <1>6, <2>1, BytesReplay
<1> HIDE DEF bytes
<1>8. PICK u \in Decoder : Replay(bytes, s, u) /\ Moves(k, TRUE, s, u)
  BY <1>7
<1>10. Replay(fake \o bytes, t, u) /\ fake \o bytes \in Seq(Item)
  BY <1>4, <1>5, <1>7, <1>8, ReplayConcat, ConcatProperties
<1>11. held' \subseteq KeyCap /\ Types /\ OneShift
  BY <1>1 DEF KbdInv, Types
<1>12. OneShift'
  BY <1>1, <1>11 DEF OneShift
<1>13. u.shift = ShiftIsHeld' /\ u.ctrl = ControlIsHeld'
  <2>2. ShiftIsHeld' = (IF k \in Shift THEN TRUE ELSE ShiftIsHeld)
    BY <1>1 DEF ShiftIsHeld
  <2>3. ControlIsHeld' = (IF k \in Control THEN TRUE ELSE ControlIsHeld)
    BY <1>1 DEF ControlIsHeld
  <2> QED
    BY <1>6, <1>8, <2>2, <2>3 DEF Moves
<1>14. \A l \in KeyCap : ~SharedCode(l.code) => u.keys[l.code] = (IF l \in held' THEN 1 ELSE 0)
  <2>1. \A l \in KeyCap : l # k => (l \in held' <=> l \in held)
    BY <1>1
  <2>2. ~SharedCode(k.code) => u.keys[k.code] = (IF k \in held' THEN 1 ELSE 0)
    BY <1>1, <1>8 DEF Moves
  <2>3. \A c \in Codes : c # k.code /\ ~SharedCode(c) => u.keys[c] = t.keys[c]
    BY <1>5, <1>8 DEF Moves, Keeps
  <2> QED
    BY <1>2, <2>1, <2>2, <2>3, KeysTrack
<1>15. InStep(u)'
  <2>1. u.e0 = FALSE
    BY <1>8 DEF Moves
  <2> QED
    BY <2>1, <1>13, <1>14 DEF InStep
<1> QED
  BY <1>1, <1>2, <1>10, <1>11, <1>12, <1>15, SendInv

LEMMA ReleaseInv ==
  ASSUME KbdInv, NEW k \in KeyCap, Release(k)
  PROVE  KbdInv' /\ Adds
<1> DEFINE bytes == Bytes(k, Break(k.code), NoKey)
           fake == IF FakesShift(k) THEN Fake(42) ELSE <<>>
<1>1. Send(bytes \o fake) /\ held' = held \ {k} /\ k \in held
  BY DEF Release
<1>2. PICK t \in Decoder : Replay(wire, Now, t) /\ InStep(t)
  BY DEF KbdInv
<1>3. t.e0 = FALSE /\ t.shift = ShiftIsHeld /\ t.ctrl = ControlIsHeld
  BY <1>2 DEF InStep
<1>4. bytes \in Seq(Item) /\ \E s \in Decoder : Replay(bytes, t, s) /\ Moves(k, FALSE, t, s)
  <2>1. Sends(k, Break(k.code), NoKey, FALSE)
    BY DEF Sends
  <2> QED
    BY <1>3, <2>1, BytesReplay
<1>5. PICK s \in Decoder : Replay(bytes, t, s) /\ Moves(k, FALSE, t, s)
  BY <1>4
<1>6. s.e0 = FALSE
  BY <1>5 DEF Moves
<1>7. fake \in Seq(Item) /\ \E u \in Decoder : Replay(fake, s, u) /\ Keeps(s, u)
  <2>1. CASE FakesShift(k)
    <3>1. fake = Fake(42) /\ FakeShift
      BY <2>1 DEF FakesShift
    <3> HIDE DEF fake
    <3> QED
      BY <1>6, <3>1, FakeReplay
  <2>2. CASE ~FakesShift(k)
    <3>1. fake = <<>>
      BY <2>2
    <3>2. Keeps(s, s)
      BY <1>6 DEF Keeps
    <3> HIDE DEF fake
    <3> QED
      BY <3>1, <3>2, NothingSent
  <2> QED
    BY <2>1, <2>2
<1> HIDE DEF fake, bytes
<1>8. PICK u \in Decoder : Replay(fake, s, u) /\ Keeps(s, u)
  BY <1>7
<1>9. Replay(bytes \o fake, t, u) /\ bytes \o fake \in Seq(Item)
  BY <1>4, <1>5, <1>7, <1>8, ReplayConcat, ConcatProperties
<1>10. held' \subseteq KeyCap /\ Types /\ OneShift
  BY <1>1 DEF KbdInv, Types
<1>11. OneShift'
  BY <1>1, <1>10 DEF OneShift
<1>12. u.shift = ShiftIsHeld' /\ u.ctrl = ControlIsHeld'
  <2>1. ShiftIsHeld' = (IF k \in Shift THEN FALSE ELSE ShiftIsHeld)
    <3>1. CASE k \in Shift
      <4>1. \A l \in held \cap Shift : l = k
        BY <1>1, <1>10, <3>1 DEF OneShift
      <4>2. held' \cap Shift = {}
        BY <1>1, <4>1
      <4> QED
        BY <3>1, <4>2 DEF ShiftIsHeld
    <3>2. CASE k \notin Shift
      <4>1. held' \cap Shift = held \cap Shift
        BY <1>1, <3>2
      <4> QED
        BY <3>2, <4>1 DEF ShiftIsHeld
    <3> QED
      BY <3>1, <3>2
  <2>2. ControlIsHeld' = (IF k \in Control THEN FALSE ELSE ControlIsHeld)
    BY <1>1, OneControl DEF ControlIsHeld
  <2> QED
    BY <1>3, <1>5, <1>8, <2>1, <2>2 DEF Moves, Keeps
<1>14. \A l \in KeyCap : ~SharedCode(l.code) => u.keys[l.code] = (IF l \in held' THEN 1 ELSE 0)
  <2>1. \A l \in KeyCap : l # k => (l \in held' <=> l \in held)
    BY <1>1
  <2>2. ~SharedCode(k.code) => u.keys[k.code] = (IF k \in held' THEN 1 ELSE 0)
    <3>1. k.code \in Codes /\ k \notin held'
      BY <1>1, CapFields
    <3> QED
      BY <1>5, <1>8, <3>1 DEF Moves, Keeps
  <2>3. \A c \in Codes : c # k.code /\ ~SharedCode(c) => u.keys[c] = t.keys[c]
    BY <1>5, <1>8 DEF Moves, Keeps
  <2> QED
    BY <1>2, <2>1, <2>2, <2>3, KeysTrack
<1>15. InStep(u)'
  <2>1. u.e0 = FALSE
    BY <1>8 DEF Keeps
  <2> QED
    BY <2>1, <1>12, <1>14 DEF InStep
<1> QED
  BY <1>1, <1>2, <1>9, <1>10, <1>11, <1>15, SendInv

LEMMA StutterInv ==
  ASSUME KbdInv, UNCHANGED kbdVars
  PROVE  KbdInv'
<1>1. PICK t \in Decoder : Replay(wire, Now, t) /\ InStep(t)
  BY DEF KbdInv
<1>2. UNCHANGED <<decoder, put, inService, wire, held>>
  BY DEF kbdVars, keyboard
<1>3. Types' /\ OneShift' /\ wire' = wire /\ Now' = Now /\ InStep(t)'
  BY <1>1, <1>2 DEF KbdInv, Types, OneShift, decoder, Now, InStep, ShiftIsHeld, ControlIsHeld
<1>4. Replay(wire', Now', t)
  BY <1>1, <1>3
<1> QED
  BY <1>3, <1>4 DEF KbdInv

(* The invariant holds.                                                    *)
THEOREM Invariance == KbdSpec => []KbdInv
<1>1. KbdInv /\ [KbdNext]_kbdVars => KbdInv'
  BY HandlerInv, PressInv, ReleaseInv, StutterInv DEF KbdNext
<1> QED
  BY InitInv, <1>1, PTL DEF KbdSpec

----------------------------------------------------------------------------
(* What follows from it.                                                   *)

(* The last scancode is that of a press, the key put is on a key cap, and  *)
(* the wire holds bytes of keys.                                           *)
THEOREM TypeCorrect == KbdSpec => []TypeOK
<1>1. KbdInv => TypeOK
  <2> SUFFICES ASSUME KbdInv PROVE TypeOK
    OBVIOUS
  <2>1. Sent \subseteq 0 .. 255
    <3>1. \A c \in Codes : c \in 0 .. 255 /\ Break(c) \in 0 .. 255
      BY CodesRange DEF Break
    <3> QED
      BY <3>1 DEF Sent, E0
  <2>2. Item \subseteq [byte : 0 .. 255, means : Keys \cup {NoKey}]
    BY <2>1 DEF Item
  <2>3. wire \in Seq([byte : 0 .. 255, means : Keys \cup {NoKey}])
    <3>1. wire \in Seq(Item)
      BY DEF KbdInv, Types
    <3>2. Len(wire) \in Nat /\ wire \in [1 .. Len(wire) -> Item]
      BY <3>1, LenProperties
    <3> DEFINE B == [byte : 0 .. 255, means : Keys \cup {NoKey}]
    <3>3. Item \subseteq B
      BY <2>2
    <3> HIDE DEF B
    <3>4. wire \in [1 .. Len(wire) -> B]
      BY <3>2, <3>3
    <3>5. wire \in Seq(B)
      BY <3>2, <3>4, IsASeq
    <3> QED
      BY <3>5 DEF B
  <2> QED
    BY <2>3 DEF KbdInv, Types, TypeOK
<1> QED
  BY <1>1, Invariance, PTL

(* Once every byte is read, the decoder is where the keys held call for.   *)
LEMMA CaughtUp ==
  ASSUME KbdInv, wire = <<>>
  PROVE  InStep(Now)
<1>1. PICK t \in Decoder : Replay(wire, Now, t) /\ InStep(t)
  BY DEF KbdInv
<1>2. Len(wire) = 0
  BY EmptySeq
<1>3. t = Now
  BY <1>1, <1>2 DEF Replay
<1> QED
  BY <1>1, <1>3

(* Once the handler has caught up, Shift (Control) is on exactly while a   *)
(* Shift (Control) key is held down.                                       *)
THEOREM NoModifierSticks == KbdSpec => []ModifiersInStep
<1>1. KbdInv => ModifiersInStep
  BY CaughtUp DEF ModifiersInStep, InStep, Now
<1> QED
  BY <1>1, Invariance, PTL

(* And KEYSTATE tells which keys are held down.                            *)
THEOREM KeystateIsTrue == KbdSpec => []KeystateTracksKeys
<1>1. KbdInv => KeystateTracksKeys
  BY CaughtUp DEF KeystateTracksKeys, InStep, Now
<1> QED
  BY <1>1, Invariance, PTL

(* The interrupt for a byte puts the key its sender meant when it was      *)
(* pressed, whatever was pressed or released before it was read.           *)
THEOREM TypesWhatIsMeant == KbdSpec => TypedAsHeld
<1> DEFINE A == Len(wire') < Len(wire) => put' = Head(wire).means
<1>1. KbdInv /\ [KbdNext]_kbdVars => [A]_kbdVars
  <2> SUFFICES ASSUME KbdInv, KbdNext PROVE A
    OBVIOUS
  <2>1. CASE keyboard_handler_inner
    BY <2>1, HandlerInv
  <2>2. ASSUME NEW k \in KeyCap, Press(k) \/ Release(k)
        PROVE  A
    BY <2>2, PressInv, ReleaseInv DEF Adds
  <2> QED
    BY <2>1, <2>2 DEF KbdNext
<1>2. KbdSpec => [][A]_kbdVars
  <2> HIDE DEF A
  <2> QED
    BY Invariance, <1>1, PTL DEF KbdSpec
<1> QED
  BY <1>2 DEF TypedAsHeld

=============================================================================
