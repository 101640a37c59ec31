--------------------------- MODULE ConsoleProofs ----------------------------
(***************************************************************************)
(* The two ends of the console.  Safety of the keyboard driver for every   *)
(* ring size, every keyboard and every interleaving of the interrupt with  *)
(* pop and clear; and of the screen and its scrollback for every size of   *)
(* the screen and of the ring and for every text.                          *)
(***************************************************************************)
EXTENDS Keyboard, Vga, WellFoundedInduction, TLAPS

-----------------------------------------------------------------------------
(***************************************************************************)
(* Lemmas about the encoding of events.                                    *)
(***************************************************************************)

Kinds == {"Char", "Up", "Down", "Left", "Right", "Backspace", "Enter",
          "Escape", "Ctrl", "PageUp", "PageDown"}

\* The kinds are numbered from 1 to 11, no two alike.
LEMMA KindCodes ==
    /\ DOMAIN KindCode = Kinds
    /\ \A k \in Kinds : KindCode[k] \in 1 .. 11
    /\ \A k, l \in Kinds : KindCode[k] = KindCode[l] => k = l
  BY DEF KindCode, Kinds

\* The two halves of a ring word.
LEMMA Halves ==
    ASSUME NEW c \in 1 .. 11, NEW d \in 0 .. 255
    PROVE  /\ c * 256 + d \in 0 .. 12 * 256 - 1 /\ c * 256 + d # 0
           /\ (c * 256 + d) \div 256 = c /\ (c * 256 + d) % 256 = d
  OBVIOUS

\* An event is stored as a non-zero word, and decode inverts encode.
LEMMA DecodeEncode ==
    ASSUME NEW e \in Events
    PROVE  /\ decode(encode(e)) = e
           /\ encode(e) \in 0 .. 12 * 256 - 1
<1>1. e.kind \in Kinds /\ e.data \in 0 .. 255 /\ e = [kind |-> e.kind, data |-> e.data]
      /\ (e.kind \notin {"Char", "Ctrl"} => e.data = 0)
  BY KindCodes DEF Events, Plain, Kinds
<1>. DEFINE v == encode(e)
<1>2. KindCode[e.kind] \in 1 .. 11
  BY <1>1, KindCodes
<1>3. v = KindCode[e.kind] * 256 + e.data
  BY DEF encode
<1>. HIDE DEF v
<1>4. v \in 0 .. 12 * 256 - 1 /\ v # 0
      /\ v \div 256 = KindCode[e.kind] /\ v % 256 = e.data
  <2>1. PICK c \in 1 .. 11 : c = KindCode[e.kind]
    BY <1>2
  <2>2. PICK d \in 0 .. 255 : d = e.data
    BY <1>1
  <2>3. /\ c * 256 + d \in 0 .. 12 * 256 - 1 /\ c * 256 + d # 0
        /\ (c * 256 + d) \div 256 = c /\ (c * 256 + d) % 256 = d
    BY Halves, ZenonT(90)
  <2>4. v = c * 256 + d
    BY <1>3, <2>1, <2>2, Zenon
  <2>. QED BY <2>1, <2>2, <2>3, <2>4, Zenon
<1>5. (CHOOSE k \in DOMAIN KindCode : KindCode[k] = v \div 256) = e.kind
  BY <1>1, <1>4, KindCodes
<1>6. decode(v) = [kind |-> e.kind,
                   data |-> IF e.kind \in {"Char", "Ctrl"} THEN v % 256 ELSE 0]
  BY <1>1, <1>4, <1>5, KindCodes DEF decode
<1>7. decode(v) = e
  BY <1>1, <1>4, <1>6
<1>. QED BY <1>4, <1>7 DEF v

\* Whatever word is in the ring, decode makes an event of it or none.
LEMMA DecodeType ==
    ASSUME NEW v \in Nat
    PROVE  decode(v) \in Events \cup {NoEvent}
<1>1. CASE v = 0 \/ ~\E k \in DOMAIN KindCode : KindCode[k] = v \div 256
  BY <1>1 DEF decode
<1>2. CASE ~(v = 0 \/ ~\E k \in DOMAIN KindCode : KindCode[k] = v \div 256)
  <2>1. PICK k : k = CHOOSE l \in DOMAIN KindCode : KindCode[l] = v \div 256
    OBVIOUS
  <2>2. k \in Kinds
    BY <1>2, <2>1, KindCodes
  <2>3. decode(v) = [kind |-> k, data |-> IF k \in {"Char", "Ctrl"} THEN v % 256 ELSE 0]
    BY <1>2, <2>1 DEF decode
  <2>4. v % 256 \in 0 .. 255
    OBVIOUS
  <2>. QED BY <2>2, <2>3, <2>4, KindCodes DEF Events, Plain
<1>. QED BY <1>1, <1>2

\* The elements of a sequence.
LEMMA Element ==
    ASSUME NEW S, NEW s \in Seq(S), NEW x \in 1 .. Len(s)
    PROVE  s[x] \in S
  OBVIOUS

\* The two tables of scancode_to_ascii have 58 bytes each.
LEMMA Tables ==
    /\ Len(LOWER) = 58 /\ Len(UPPER) = 58
    /\ \A x \in 1 .. 58 : LOWER[x] \in 0 .. 255 /\ UPPER[x] \in 0 .. 255
<1>1. Len(LOWER) = 58
  BY DEF LOWER
<1>2. Len(UPPER) = 58
  BY DEF UPPER
<1>3. LOWER \in Seq(0 .. 255)
  BY DEF LOWER
<1>4. UPPER \in Seq(0 .. 255)
  BY DEF UPPER
<1>5. ASSUME NEW x \in 1 .. 58  PROVE  LOWER[x] \in 0 .. 255 /\ UPPER[x] \in 0 .. 255
  <2>1. LOWER[x] \in 0 .. 255
    BY <1>1, <1>3, Element, ZenonT(60)
  <2>2. UPPER[x] \in 0 .. 255
    BY <1>2, <1>4, Element, ZenonT(60)
  <2>. QED BY <2>1, <2>2
<1>. QED BY <1>1, <1>2, <1>5

\* Events without data.
LEMMA PlainEvent == \A k \in Kinds \ {"Char", "Ctrl"} : Plain(k) \in Events
  BY KindCodes DEF Events

\* Translation makes an event or none.
LEMMA TranslateType ==
    ASSUME NEW sc \in 0 .. 255
    PROVE  translate(sc) \in Events \cup {NoEvent}
           /\ translate_extended(sc) \in Events \cup {NoEvent}
<1>1. translate_extended(sc) \in Events \cup {NoEvent}
  BY PlainEvent DEF translate_extended, Kinds
<1>2. scancode_to_ascii(sc, shift) \in 0 .. 255
  <2>1. 0 \in 0 .. 255 /\ (sc >= 58 \/ sc + 1 \in 1 .. 58)
    OBVIOUS
  <2>2. CASE sc >= 58
    <3>1. sc >= Len(LOWER)
      BY <2>2, Tables, Zenon
    <3>. QED BY <2>1, <3>1, Zenon DEF scancode_to_ascii
  <2>3. CASE ~(sc >= 58)
    <3>1. LOWER[sc + 1] \in 0 .. 255 /\ UPPER[sc + 1] \in 0 .. 255
      BY <2>1, <2>3, Tables, Zenon
    <3>. QED BY <2>1, <2>3, <3>1, Tables, Zenon DEF scancode_to_ascii
  <2>. QED BY <2>2, <2>3
<1>3. translate(sc) \in Events \cup {NoEvent}
  <2>1. \A c \in 0 .. 255 :
          [kind |-> IF ctrl THEN "Ctrl" ELSE "Char", data |-> c] \in Events
    BY DEF Events
  <2>. QED BY <1>2, <2>1, PlainEvent DEF translate, Kinds
<1>. QED BY <1>1, <1>3

-----------------------------------------------------------------------------
(***************************************************************************)
(* Lemmas about the ring's indices.                                        *)
(***************************************************************************)

Index == 0 .. BufSize - 1

\* How far index a is ahead of index b, going round.
Ahead(a, b) == (a - b) % BufSize

\* The distance between two places of the ring, without the modulus.
LEMMA AheadCases ==
    ASSUME NEW a \in Index, NEW b \in Index
    PROVE  /\ a >= b => Ahead(a, b) = a - b
           /\ a < b => Ahead(a, b) = a - b + BufSize
<1>1. ASSUME a >= b  PROVE  Ahead(a, b) = a - b
  BY <1>1, KeyboardAssumption DEF Index, Ahead
<1>2. ASSUME a < b  PROVE  Ahead(a, b) = a - b + BufSize
  <2>1. a - b + BufSize \in Index
    BY <1>2, KeyboardAssumption DEF Index
  <2>2. (a - b) % BufSize = (a - b + BufSize) % BufSize
    BY <1>2, KeyboardAssumption DEF Index
  <2>3. (a - b + BufSize) % BufSize = a - b + BufSize
    BY <2>1, KeyboardAssumption DEF Index
  <2>. QED BY <2>2, <2>3 DEF Ahead
<1>. QED BY <1>1, <1>2

\* The index x places after a, for x below BufSize.
LEMMA PlaceCases ==
    ASSUME NEW a \in Index, NEW x \in Index
    PROVE  /\ a + x < BufSize => (a + x) % BufSize = a + x
           /\ a + x >= BufSize => (a + x) % BufSize = a + x - BufSize
<1>1. ASSUME a + x < BufSize  PROVE  (a + x) % BufSize = a + x
  BY <1>1, KeyboardAssumption DEF Index
<1>2. ASSUME a + x >= BufSize  PROVE  (a + x) % BufSize = a + x - BufSize
  <2>1. a + x - BufSize \in Index
    BY <1>2, KeyboardAssumption DEF Index
  <2>2. (a + x) % BufSize = (a + x - BufSize) % BufSize
    BY <1>2, KeyboardAssumption DEF Index
  <2>3. (a + x - BufSize) % BufSize = a + x - BufSize
    BY <2>1, KeyboardAssumption DEF Index
  <2>. QED BY <2>2, <2>3
<1>. QED BY <1>1, <1>2

\* The next place of the ring, without the modulus.
LEMMA NextIndexCases ==
    ASSUME NEW a \in Index
    PROVE  NextIndex(a) = IF a = BufSize - 1 THEN 0 ELSE a + 1
<1>1. 1 \in Index
  BY KeyboardAssumption DEF Index
<1>2. /\ a + 1 < BufSize => (a + 1) % BufSize = a + 1
      /\ a + 1 >= BufSize => (a + 1) % BufSize = a + 1 - BufSize
  BY <1>1, PlaceCases
<1>. QED BY <1>2, KeyboardAssumption DEF NextIndex, Index

-----------------------------------------------------------------------------
(***************************************************************************)
(* The inductive invariant.                                                *)
(***************************************************************************)

\* Byte x of the wire follows a prefix, as the driver sees it.
Second(x) == (x = 1 /\ extended) \/ (x > 1 /\ wire[x - 1] = Prefix)

\* The keyboard sends a prefix together with the byte it belongs to.
WireWhole == wire # <<>> => wire[Len(wire)] # Prefix

\* The bytes on the wire that press or release one of the plain keys codes,
\* and the last of them.
BytesOf(codes) == {x \in 1 .. Len(wire) : ~Second(x) /\ wire[x] % 128 \in codes}
IsLast(codes, x) == x \in BytesOf(codes) /\ \A y \in BytesOf(codes) : y <= x

\* The control flag will agree with the key once the wire is empty: the last
\* byte of the key decides, or the flag itself if there is none.
CtrlInStep ==
    /\ BytesOf({LCtrl}) = {} => (ctrl <=> IsHeld({LCtrl}))
    /\ \A x \in 1 .. Len(wire) :
          IsLast({LCtrl}, x) => (wire[x] < 128 <=> IsHeld({LCtrl}))

\* The shift flag may be lost while the other shift key is held, never stuck.
Shifts == {LShift, RShift}
ShiftInStep ==
    /\ BytesOf(Shifts) = {} => (shift => IsHeld(Shifts))
    /\ \A x \in 1 .. Len(wire) :
          IsLast(Shifts, x) => (wire[x] < 128 => IsHeld(Shifts))

\* What the shell knows between the steps of pop and clear.
RingInStep ==
    /\ pc \in {"pop_head", "pop_val", "pop_tail"} => t = tail
    /\ pc \in {"pop_val", "pop_tail"} => head # tail
    /\ pc = "pop_tail" => val = buf[tail]
    /\ pc = "clear_tail" => Ahead(h, tail) <= Ahead(head, tail)

WireInv == WireWhole /\ PrefixInStep /\ CtrlInStep /\ ShiftInStep
KeyboardInv == TypeOK /\ WireInv /\ RingInStep

-----------------------------------------------------------------------------
(***************************************************************************)
(* The wire: the keyboard's and the interrupt's steps.                     *)
(***************************************************************************)
Byte == 0 .. 255

\* The sequence operators the wire is handled with.
LEMMA Shortened ==
    ASSUME NEW w \in Seq(Byte), w # <<>>
    PROVE  /\ Tail(w) \in Seq(Byte) /\ Len(Tail(w)) = Len(w) - 1
           /\ Len(w) \in Nat \ {0} /\ Head(w) = w[1] /\ w[1] \in Byte
           /\ \A x \in 1 .. Len(w) - 1 : Tail(w)[x] = w[x + 1]
  OBVIOUS

\* What bytes put behind others on the wire leave in place.
LEMMA Appended ==
    ASSUME NEW w \in Seq(Byte), NEW b \in Seq(Byte)
    PROVE  /\ w \o b \in Seq(Byte) /\ Len(w \o b) = Len(w) + Len(b)
           /\ Len(w) \in Nat /\ Len(b) \in Nat
           /\ \A x \in 1 .. Len(w) : (w \o b)[x] = w[x]
           /\ \A x \in 1 .. Len(b) : (w \o b)[Len(w) + x] = b[x]
  OBVIOUS

\* PrefixInStep in terms of Second.
SecondsInStep ==
    /\ Len(wire) = 0 => ~extended
    /\ \A x \in 1 .. Len(wire) : Second(x) =>
          \E k \in Keys : k.ext /\ wire[x] \in {k.code, k.code + 128}
    /\ \A x \in 1 .. Len(wire) : ~Second(x) /\ wire[x] # Prefix =>
          \E k \in Keys : ~k.ext /\ wire[x] \in {k.code, k.code + 128}

\* PrefixInStep says that the bytes behind a prefix are where they belong.
LEMMA PrefixMeaning ==
    wire \in Seq(Byte) => (PrefixInStep <=> SecondsInStep)
  BY DEF PrefixInStep, SecondsInStep, Second

\* An interrupt consumes a byte: every other byte moves up and keeps its
\* role, and a flag changes only on a byte of its own keys.
LEMMA IrqFacts ==
    ASSUME TypeOK, KeyboardIrq
    PROVE  /\ wire # <<>> /\ wire' \in Seq(Byte) /\ Len(wire') = Len(wire) - 1
           /\ Len(wire) \in Nat \ {0} /\ wire[1] \in Byte
           /\ \A x \in 1 .. Len(wire') : wire'[x] = wire[x + 1]
           /\ extended' <=> wire[1] = Prefix
           /\ ctrl' = IF ~extended /\ wire[1] % 128 = LCtrl THEN wire[1] < 128 ELSE ctrl
           /\ shift' = IF ~extended /\ wire[1] % 128 \in Shifts THEN wire[1] < 128 ELSE shift
<1>1. wire \in Seq(Byte) /\ wire # <<>> /\ wire' = Tail(wire)
  BY DEF TypeOK, KeyboardIrq, Byte
<1>2. /\ wire' \in Seq(Byte) /\ Len(wire') = Len(wire) - 1
      /\ Len(wire) \in Nat \ {0} /\ Head(wire) = wire[1] /\ wire[1] \in Byte
      /\ \A x \in 1 .. Len(wire') : wire'[x] = wire[x + 1]
  BY <1>1, Shortened
<1>. DEFINE sc == wire[1]
<1>3. PrefixByte(sc) \/ ExtendedByte(sc) \/ ReleaseByte(sc) \/ MakeByte(sc)
  BY <1>2 DEF KeyboardIrq
<1>4. shift \in BOOLEAN /\ ctrl \in BOOLEAN /\ extended \in BOOLEAN /\ sc \in Byte
  BY <1>2 DEF TypeOK
<1>. HIDE DEF sc
<1>5. /\ extended' <=> sc = Prefix
      /\ ctrl' = IF ~extended /\ sc % 128 = LCtrl THEN sc < 128 ELSE ctrl
      /\ shift' = IF ~extended /\ sc % 128 \in Shifts THEN sc < 128 ELSE shift
  <2>1. CASE PrefixByte(sc)
    BY <2>1, <1>4 DEF PrefixByte, Prefix, LCtrl, Shifts, LShift, RShift, Byte
  <2>2. CASE ExtendedByte(sc)
    BY <2>2, <1>4 DEF ExtendedByte
  <2>3. CASE ReleaseByte(sc)
    BY <2>3, <1>4 DEF ReleaseByte, SetModifiers, Shifts
  <2>4. CASE MakeByte(sc)
    BY <2>4, <1>4 DEF MakeByte, SetModifiers, Shifts
  <2>. QED BY <1>3, <2>1, <2>2, <2>3, <2>4
<1>. QED BY <1>1, <1>2, <1>5 DEF sc

\* handle_irq takes a byte off the wire and keeps the flags in step with it.
LEMMA IrqWire == ASSUME TypeOK, WireInv, KeyboardIrq  PROVE  WireInv'
<1>1. wire \in Seq(Byte) /\ wire' \in Seq(Byte) /\ UNCHANGED held
      /\ shift \in BOOLEAN /\ ctrl \in BOOLEAN /\ extended \in BOOLEAN
  BY IrqFacts DEF TypeOK, Byte, KeyboardIrq
<1>2. /\ Len(wire') = Len(wire) - 1 /\ Len(wire) \in Nat \ {0}
      /\ \A x \in 1 .. Len(wire') : wire'[x] = wire[x + 1]
  BY IrqFacts
<1>3. ASSUME NEW x \in 1 .. Len(wire')  PROVE  Second(x)' <=> Second(x + 1)
  BY <1>2, IrqFacts DEF Second
<1>4. ASSUME NEW codes, NEW x \in 1 .. Len(wire')
      PROVE  x \in BytesOf(codes)' <=> x + 1 \in BytesOf(codes)
  BY <1>2, <1>3 DEF BytesOf
<1>5. ASSUME NEW codes
      PROVE  1 \in BytesOf(codes) <=> (~extended /\ wire[1] % 128 \in codes)
  BY <1>2 DEF BytesOf, Second
<1>6. ASSUME NEW codes, BytesOf(codes)' = {}
      PROVE  BytesOf(codes) = {} \/ IsLast(codes, 1)
  <2>1. ASSUME NEW y \in BytesOf(codes)  PROVE  y = 1
    <3>1. y \in 1 .. Len(wire)
      BY DEF BytesOf
    <3>2. ASSUME y # 1  PROVE  FALSE
      <4>1. y - 1 \in 1 .. Len(wire') /\ (y - 1) + 1 = y
        BY <1>2, <3>1, <3>2
      <4>. QED BY <1>4, <1>6, <4>1
    <3>. QED BY <3>2
  <2>. QED BY <2>1 DEF IsLast
<1>7. ASSUME NEW codes, NEW x \in 1 .. Len(wire'), IsLast(codes, x)'
      PROVE  IsLast(codes, x + 1)
  <2>1. x + 1 \in BytesOf(codes)
    BY <1>4, <1>7 DEF IsLast
  <2>2. ASSUME NEW y \in BytesOf(codes)  PROVE  y <= x + 1
    <3>1. y \in 1 .. Len(wire)
      BY DEF BytesOf
    <3>2. ASSUME y # 1  PROVE  y <= x + 1
      <4>0. y - 1 \in 1 .. Len(wire') /\ y = (y - 1) + 1
        BY <1>2, <3>1, <3>2
      <4>1. PICK z \in 1 .. Len(wire') : y = z + 1
        BY <4>0
      <4>2. z \in BytesOf(codes)'
        BY <1>4, <4>1
      <4>3. z <= x
        BY <1>7, <4>2 DEF IsLast
      <4>. QED BY <4>1, <4>3
    <3>. QED BY <3>1, <3>2
  <2>. QED BY <2>1, <2>2 DEF IsLast
<1>8. WireWhole'
  <2>1. CASE Len(wire) = 1
    BY <2>1, <1>1, <1>2 DEF WireWhole
  <2>2. CASE Len(wire) > 1
    <3>1. Len(wire') \in 1 .. Len(wire') /\ wire'[Len(wire')] = wire[Len(wire)]
      BY <2>2, <1>2
    <3>. QED BY <3>1, <1>1, <2>2 DEF WireWhole, WireInv
  <2>. QED BY <1>2, <2>1, <2>2
<1>9. PrefixInStep'
  <2>1. SecondsInStep
    BY <1>1, PrefixMeaning DEF WireInv
  <2>2. Len(wire') = 0 => ~extended'
    <3>1. wire # <<>> /\ (extended' <=> wire[1] = Prefix)
      BY IrqFacts
    <3>2. ASSUME Len(wire') = 0  PROVE  wire[1] # Prefix
      <4>1. Len(wire) = 1
        BY <1>2, <3>2
      <4>. QED BY <3>1, <4>1 DEF WireWhole, WireInv
    <3>. QED BY <3>1, <3>2
  <2>3. ASSUME NEW x \in 1 .. Len(wire')
        PROVE  /\ Second(x)' => \E k \in Keys :
                      k.ext /\ wire'[x] \in {k.code, k.code + 128}
               /\ ~Second(x)' /\ wire'[x] # Prefix =>
                      \E k \in Keys : ~k.ext /\ wire'[x] \in {k.code, k.code + 128}
    <3>1. x + 1 \in 1 .. Len(wire)
      BY <1>2
    <3>. QED BY <1>2, <1>3, <2>1, <3>1 DEF SecondsInStep
  <2>4. SecondsInStep'
    BY <2>2, <2>3 DEF SecondsInStep
  <2>5. (wire \in Seq(Byte) => (PrefixInStep <=> SecondsInStep))'
    BY PrefixMeaning, PTL
  <2>. QED BY <1>1, <2>4, <2>5
<1>10. CtrlInStep'
  <2>1. ASSUME BytesOf({LCtrl})' = {}  PROVE  ctrl' <=> IsHeld({LCtrl})
    <3>1. CASE BytesOf({LCtrl}) = {}
      BY <3>1, <1>5, IrqFacts DEF WireInv, CtrlInStep
    <3>2. CASE IsLast({LCtrl}, 1)
      <4>1. ~extended /\ wire[1] % 128 = LCtrl /\ 1 \in 1 .. Len(wire)
        BY <3>2, <1>2, <1>5 DEF IsLast
      <4>2. wire[1] < 128 <=> IsHeld({LCtrl})
        BY <3>2, <4>1 DEF WireInv, CtrlInStep
      <4>. QED BY <4>1, <4>2, IrqFacts
    <3>. QED BY <1>6, <2>1, <3>1, <3>2
  <2>2. ASSUME NEW x \in 1 .. Len(wire'), IsLast({LCtrl}, x)'
        PROVE  wire'[x] < 128 <=> IsHeld({LCtrl})
    <3>1. IsLast({LCtrl}, x + 1) /\ x + 1 \in 1 .. Len(wire) /\ wire'[x] = wire[x + 1]
      BY <1>2, <1>7, <2>2
    <3>. QED BY <3>1 DEF WireInv, CtrlInStep
  <2>3. IsHeld({LCtrl})' <=> IsHeld({LCtrl})
    BY <1>1 DEF IsHeld
  <2>. QED BY <2>1, <2>2, <2>3 DEF CtrlInStep
<1>11. ShiftInStep'
  <2>1. ASSUME BytesOf(Shifts)' = {}, shift'  PROVE  IsHeld(Shifts)
    <3>1. CASE BytesOf(Shifts) = {}
      BY <2>1, <3>1, <1>5, IrqFacts DEF WireInv, ShiftInStep
    <3>2. CASE IsLast(Shifts, 1)
      <4>1. ~extended /\ wire[1] % 128 \in Shifts /\ 1 \in 1 .. Len(wire)
        BY <3>2, <1>2, <1>5 DEF IsLast
      <4>2. wire[1] < 128 => IsHeld(Shifts)
        BY <3>2, <4>1 DEF WireInv, ShiftInStep
      <4>. QED BY <2>1, <4>1, <4>2, IrqFacts
    <3>. QED BY <1>6, <2>1, <3>1, <3>2
  <2>2. ASSUME NEW x \in 1 .. Len(wire'), IsLast(Shifts, x)', wire'[x] < 128
        PROVE  IsHeld(Shifts)
    <3>1. IsLast(Shifts, x + 1) /\ x + 1 \in 1 .. Len(wire) /\ wire'[x] = wire[x + 1]
      BY <1>2, <1>7, <2>2
    <3>. QED BY <2>2, <3>1 DEF WireInv, ShiftInStep
  <2>3. IsHeld(Shifts)' <=> IsHeld(Shifts)
    BY <1>1 DEF IsHeld
  <2>. QED BY <2>1, <2>2, <2>3 DEF ShiftInStep
<1>. QED BY <1>8, <1>9, <1>10, <1>11 DEF WireInv

\* The keyboard appends the one or two bytes of a key: the bytes before keep
\* their role, and only a plain key's byte can count for a modifier.
LEMMA SendFacts ==
    ASSUME TypeOK, WireInv, NEW k \in Keys, NEW c \in {k.code, k.code + 128},
           Send(Bytes(k, c)), UNCHANGED <<shift, ctrl, extended>>
    PROVE  /\ wire' \in Seq(Byte) /\ WireWhole' /\ PrefixInStep'
           /\ \A x \in 1 .. Len(wire) : wire'[x] = wire[x]
           /\ ~k.ext => wire'[Len(wire) + 1] = c
           /\ \A codes : 96 \notin codes =>
                 BytesOf(codes)' = BytesOf(codes) \cup
                    (IF ~k.ext /\ k.code \in codes THEN {Len(wire) + 1} ELSE {})
<1>. DEFINE b == Bytes(k, c)
<1>n. PICK n : n = Len(wire)
  OBVIOUS
<1>0. k.ext \in BOOLEAN /\ k.code \in 1 .. 127 /\ k.code + 128 # 224
  BY KeyboardAssumption
<1>1. wire \in Seq(Byte) /\ c \in Byte /\ c # Prefix /\ c % 128 = k.code /\ wire' = wire \o b
  <2>1. wire \in Seq(Byte) /\ wire' = wire \o b
    BY DEF TypeOK, Byte, Send
  <2>2. \A d \in 1 .. 127 : d % 128 = d /\ (d + 128) % 128 = d
    OBVIOUS
  <2>3. c \in Byte /\ c # Prefix /\ c % 128 = k.code
    BY <1>0, <2>2 DEF Byte, Prefix
  <2>. QED BY <2>1, <2>3
<1>2. /\ k.ext => b \in Seq(Byte) /\ Len(b) = 2 /\ b[1] = Prefix /\ b[2] = c
      /\ ~k.ext => b \in Seq(Byte) /\ Len(b) = 1 /\ b[1] = c
  <2>1. <<Prefix, c>> \in Seq(Byte) /\ <<c>> \in Seq(Byte)
    BY <1>1 DEF Byte, Prefix
  <2>2. CASE k.ext
    BY <2>1, <2>2 DEF Bytes
  <2>3. CASE ~k.ext
    BY <2>1, <2>3 DEF Bytes
  <2>. QED BY <2>2, <2>3
<1>3. b \in Seq(Byte) /\ Len(b) \in {1, 2}
  BY <1>1, <1>2
<1>. HIDE DEF b
<1>4. /\ wire' \in Seq(Byte) /\ Len(wire') = n + Len(b) /\ n \in Nat
      /\ \A x \in 1 .. n : wire'[x] = wire[x]
      /\ \A x \in 1 .. Len(b) : wire'[n + x] = b[x]
  BY <1>n, <1>1, <1>3, Appended
<1>5. /\ k.ext => Len(wire') = n + 2 /\ wire'[n + 1] = Prefix /\ wire'[n + 2] = c
      /\ ~k.ext => Len(wire') = n + 1 /\ wire'[n + 1] = c
  BY <1>2, <1>3, <1>4
<1>6. SecondsInStep
  BY <1>n, <1>1, PrefixMeaning DEF WireInv
<1>7. ASSUME NEW x \in 1 .. n  PROVE  Second(x)' <=> Second(x)
  BY <1>n, <1>4 DEF Second
<1>8. ~Second(n + 1)'
  <2>1. CASE n = 0
    <3>1. ~extended'
      BY <1>n, <1>6, <2>1 DEF SecondsInStep
    <3>. QED BY <2>1, <3>1 DEF Second
  <2>2. CASE n > 0
    <3>1. wire[n] # Prefix
      BY <1>n, <1>1, <2>2 DEF WireInv, WireWhole
    <3>2. wire'[(n + 1) - 1] # Prefix
      BY <1>n, <1>4, <2>2, <3>1
    <3>. QED BY <1>n, <1>4, <2>2, <3>2 DEF Second
  <2>. QED BY <1>n, <1>4, <2>1, <2>2
<1>9. k.ext => Second(n + 2)'
  <2>1. n + 2 > 1 /\ (n + 2) - 1 = n + 1
    BY <1>n, <1>4
  <2>. QED BY <1>5, <2>1 DEF Second
<1>10. WireWhole'
  BY <1>n, <1>1, <1>4, <1>5 DEF WireWhole
<1>11. PrefixInStep'
  <2>1. ASSUME NEW x \in 1 .. Len(wire')
        PROVE  /\ Second(x)' => \E l \in Keys :
                      l.ext /\ wire'[x] \in {l.code, l.code + 128}
               /\ ~Second(x)' /\ wire'[x] # Prefix =>
                      \E l \in Keys : ~l.ext /\ wire'[x] \in {l.code, l.code + 128}
    <3>1. CASE x \in 1 .. n
      BY <1>n, <1>4, <1>6, <1>7, <3>1 DEF SecondsInStep
    <3>2. CASE x = n + 1
      BY <1>n, <1>1, <1>5, <1>8, <3>2
    <3>3. CASE x = n + 2 /\ k.ext
      BY <1>n, <1>1, <1>5, <1>9, <3>3
    <3>. QED BY <1>n, <1>1, <1>4, <1>5, <3>1, <3>2, <3>3
  <2>2. SecondsInStep'
    BY <1>n, <1>1, <1>4, <1>5, <2>1 DEF SecondsInStep
  <2>3. (wire \in Seq(Byte) => (PrefixInStep <=> SecondsInStep))'
    BY PrefixMeaning, PTL
  <2>. QED BY <1>n, <1>4, <2>2, <2>3
<1>12. ASSUME NEW codes, 96 \notin codes
       PROVE  BytesOf(codes)' = BytesOf(codes) \cup
                 (IF ~k.ext /\ k.code \in codes THEN {n + 1} ELSE {})
  <2>1. ASSUME NEW x \in 1 .. n  PROVE  x \in BytesOf(codes)' <=> x \in BytesOf(codes)
    BY <1>n, <1>4, <1>5, <1>7 DEF BytesOf
  <2>2. n + 1 \in BytesOf(codes)' <=> (~k.ext /\ k.code \in codes)
    BY <1>n, <1>1, <1>4, <1>5, <1>8, <1>12 DEF BytesOf, Prefix
  <2>3. k.ext => n + 2 \notin BytesOf(codes)'
    BY <1>9 DEF BytesOf
  <2>4. \A x \in BytesOf(codes)' : x \in 1 .. n \/ x = n + 1 \/ (k.ext /\ x = n + 2)
    BY <1>n, <1>1, <1>4, <1>5 DEF BytesOf
  <2>5. BytesOf(codes) \subseteq 1 .. n
    BY <1>n DEF BytesOf
  <2>. QED BY <2>1, <2>2, <2>3, <2>4, <2>5
<1>. QED BY <1>n, <1>4, <1>5, <1>10, <1>11, <1>12

\* Which keys of codes are held changes with a key of codes only.  The plain
\* key of a code is unique, so its release leaves none held.
LEMMA HeldFacts ==
    ASSUME TypeOK, NEW k \in Keys, PressKey(k) \/ ReleaseKey(k), NEW codes
    PROVE  /\ k.ext \/ k.code \notin codes => (IsHeld(codes)' <=> IsHeld(codes))
           /\ ~k.ext /\ k.code \in codes /\ PressKey(k) => IsHeld(codes)'
           /\ ~k.ext /\ codes = {k.code} /\ ReleaseKey(k) => ~IsHeld(codes)'
<1>1. held \subseteq Keys /\ Keys \subseteq [code : 1 .. 127, ext : BOOLEAN]
  BY KeyboardAssumption DEF TypeOK
<1>2. held' = held \cup {k} \/ held' = held \ {k}
  BY DEF PressKey, ReleaseKey
<1>3. k.ext \/ k.code \notin codes => (IsHeld(codes)' <=> IsHeld(codes))
  BY <1>2 DEF IsHeld
<1>4. ~k.ext /\ k.code \in codes /\ PressKey(k) => IsHeld(codes)'
  BY DEF IsHeld, PressKey
<1>5. ASSUME ~k.ext, codes = {k.code}, ReleaseKey(k), IsHeld(codes)'  PROVE  FALSE
  <2>1. PICK l \in held' : ~l.ext /\ l.code = k.code
    BY <1>5 DEF IsHeld
  <2>2. l \in Keys /\ l # k
    BY <1>1, <1>5, <2>1 DEF ReleaseKey
  <2>3. l.ext = FALSE /\ k.ext = FALSE
    BY <1>1, <1>5, <2>1, <2>2
  <2>4. l = k
    BY <1>1, <2>1, <2>2, <2>3
  <2>. QED BY <2>2, <2>4
<1>. QED BY <1>3, <1>4, <1>5

\* Pressing and releasing keys keeps the flags' future in step.
LEMMA KeyWire ==
    ASSUME TypeOK, WireInv, NEW k \in Keys, PressKey(k) \/ ReleaseKey(k)
    PROVE  WireInv'
<1>n. PICK n : n = Len(wire)
  OBVIOUS
<1>0. k.ext \in BOOLEAN /\ k.code \in 1 .. 127 /\ n \in Nat
  BY <1>n, KeyboardAssumption DEF TypeOK
<1>1. PICK c \in {k.code, k.code + 128} :
        /\ Send(Bytes(k, c)) /\ UNCHANGED <<shift, ctrl, extended>>
        /\ PressKey(k) => c = k.code
        /\ ReleaseKey(k) => c = k.code + 128
  <2>1. CASE PressKey(k) /\ ~ReleaseKey(k)
    BY <2>1 DEF PressKey, driver
  <2>2. CASE ReleaseKey(k) /\ ~PressKey(k)
    BY <2>2 DEF ReleaseKey, driver
  <2>3. ~(PressKey(k) /\ ReleaseKey(k))
    BY DEF PressKey, ReleaseKey
  <2>. QED BY <2>1, <2>2, <2>3
<1>2. /\ wire' \in Seq(Byte) /\ WireWhole' /\ PrefixInStep'
      /\ \A x \in 1 .. n : wire'[x] = wire[x]
      /\ ~k.ext => wire'[n + 1] = c
  BY <1>n, <1>1, SendFacts
<1>b. ASSUME NEW codes, 96 \notin codes
      PROVE  BytesOf(codes)' = BytesOf(codes) \cup
               (IF ~k.ext /\ k.code \in codes THEN {n + 1} ELSE {})
  BY <1>n, <1>1, <1>b, SendFacts
<1>3. ASSUME NEW codes, 96 \notin codes, k.ext \/ k.code \notin codes
      PROVE  /\ BytesOf(codes)' = BytesOf(codes)
             /\ \A x : IsLast(codes, x)' => IsLast(codes, x) /\ x \in 1 .. n
                                          /\ wire'[x] = wire[x]
  <2>1. BytesOf(codes)' = BytesOf(codes)
    BY <1>b, <1>3
  <2>2. \A x : IsLast(codes, x)' => IsLast(codes, x) /\ x \in 1 .. n
    BY <1>n, <2>1 DEF IsLast, BytesOf
  <2>. QED BY <1>2, <2>1, <2>2
<1>4. ASSUME NEW codes, 96 \notin codes, ~k.ext, k.code \in codes
      PROVE  /\ BytesOf(codes)' # {}
             /\ \A x : IsLast(codes, x)' => x = n + 1 /\ wire'[x] = c
  <2>1. BytesOf(codes)' = BytesOf(codes) \cup {n + 1}
    BY <1>b, <1>4
  <2>2. BytesOf(codes) \subseteq 1 .. n
    BY <1>n DEF BytesOf
  <2>3. ASSUME NEW x, IsLast(codes, x)'  PROVE  x = n + 1
    <3>1. x \in BytesOf(codes)' /\ n + 1 <= x
      BY <2>1, <2>3 DEF IsLast
    <3>. QED BY <1>0, <2>1, <2>2, <3>1
  <2>. QED BY <1>2, <1>4, <2>1, <2>3
<1>5. 96 \notin {LCtrl} /\ 96 \notin Shifts
  BY DEF LCtrl, Shifts, LShift, RShift
<1>6. CtrlInStep'
  <2>1. CASE k.ext \/ k.code \notin {LCtrl}
    <3>1. IsHeld({LCtrl})' <=> IsHeld({LCtrl})
      BY <2>1, HeldFacts
    <3>2. /\ BytesOf({LCtrl})' = BytesOf({LCtrl})
          /\ \A x : IsLast({LCtrl}, x)' => IsLast({LCtrl}, x) /\ x \in 1 .. n
                                          /\ wire'[x] = wire[x]
      BY <1>3, <1>5, <2>1
    <3>. QED BY <1>n, <1>1, <3>1, <3>2 DEF CtrlInStep, WireInv
  <2>2. CASE ~k.ext /\ k.code = LCtrl
    <3>1. /\ BytesOf({LCtrl})' # {}
          /\ \A x : IsLast({LCtrl}, x)' => wire'[x] = c
      BY <1>4, <1>5, <2>2
    <3>2. c < 128 <=> IsHeld({LCtrl})'
      <4>1. CASE PressKey(k)
        BY <1>0, <1>1, <2>2, <4>1, HeldFacts
      <4>2. CASE ReleaseKey(k)
        BY <1>0, <1>1, <2>2, <4>2, HeldFacts
      <4>. QED BY <4>1, <4>2
    <3>. QED BY <3>1, <3>2 DEF CtrlInStep
  <2>. QED BY <2>1, <2>2
<1>7. ShiftInStep'
  <2>1. CASE k.ext \/ k.code \notin Shifts
    <3>1. IsHeld(Shifts)' <=> IsHeld(Shifts)
      BY <2>1, HeldFacts
    <3>2. /\ BytesOf(Shifts)' = BytesOf(Shifts)
          /\ \A x : IsLast(Shifts, x)' => IsLast(Shifts, x) /\ x \in 1 .. n
                                        /\ wire'[x] = wire[x]
      BY <1>3, <1>5, <2>1
    <3>. QED BY <1>n, <1>1, <3>1, <3>2 DEF ShiftInStep, WireInv
  <2>2. CASE ~k.ext /\ k.code \in Shifts
    <3>1. /\ BytesOf(Shifts)' # {}
          /\ \A x : IsLast(Shifts, x)' => wire'[x] = c
      BY <1>4, <1>5, <2>2
    <3>2. c < 128 => IsHeld(Shifts)'
      <4>1. CASE PressKey(k)
        BY <2>2, <4>1, HeldFacts
      <4>2. CASE ReleaseKey(k)
        BY <1>0, <1>1, <4>2
      <4>. QED BY <4>1, <4>2
    <3>. QED BY <3>1, <3>2 DEF ShiftInStep
  <2>. QED BY <2>1, <2>2
<1>. QED BY <1>2, <1>6, <1>7 DEF WireInv

-----------------------------------------------------------------------------
(***************************************************************************)
(* The ring: the interrupt's and the shell's steps.                        *)
(***************************************************************************)

\* Distances round the ring.
LEMMA AheadFacts ==
    ASSUME NEW a \in Index, NEW b \in Index
    PROVE  /\ Ahead(a, b) \in Index
           /\ Ahead(a, b) = 0 <=> a = b
           /\ NextIndex(a) \in Index
           /\ NextIndex(a) = b <=> Ahead(a, b) = BufSize - 1
           /\ NextIndex(a) # b => Ahead(NextIndex(a), b) = Ahead(a, b) + 1
           /\ a # b => Ahead(a, NextIndex(b)) = Ahead(a, b) - 1
<1>1. /\ a >= b => Ahead(a, b) = a - b
      /\ a < b => Ahead(a, b) = a - b + BufSize
  BY AheadCases
<1>2. /\ NextIndex(a) = IF a = BufSize - 1 THEN 0 ELSE a + 1
      /\ NextIndex(b) = IF b = BufSize - 1 THEN 0 ELSE b + 1
  BY NextIndexCases
<1>3. NextIndex(a) \in Index /\ NextIndex(b) \in Index
  BY <1>2, KeyboardAssumption DEF Index
<1>4. /\ NextIndex(a) >= b => Ahead(NextIndex(a), b) = NextIndex(a) - b
      /\ NextIndex(a) < b => Ahead(NextIndex(a), b) = NextIndex(a) - b + BufSize
  BY <1>3, AheadCases
<1>5. /\ a >= NextIndex(b) => Ahead(a, NextIndex(b)) = a - NextIndex(b)
      /\ a < NextIndex(b) => Ahead(a, NextIndex(b)) = a - NextIndex(b) + BufSize
  BY <1>3, AheadCases
<1>. QED BY <1>1, <1>2, <1>3, <1>4, <1>5, KeyboardAssumption DEF Index

\* What an interrupt does to the ring: nothing, or one event at the head.
Pushed(e) ==
    /\ NextIndex(head) # tail
    /\ buf' = [buf EXCEPT ![head] = encode(e)]
    /\ head' = NextIndex(head)

\* What handle_irq does to the ring: the event of the byte is queued, or the ring
\* is full.
LEMMA IrqRing ==
    ASSUME TypeOK, KeyboardIrq
    PROVE  /\ Meaning(wire[1]) \in Events \cup {NoEvent}
           /\ Meaning(wire[1]) = NoEvent => UNCHANGED <<buf, head>>
           /\ Meaning(wire[1]) # NoEvent =>
                 \/ UNCHANGED <<buf, head>> /\ NextIndex(head) = tail
                 \/ Pushed(Meaning(wire[1]))
<1>. DEFINE sc == wire[1]
<1>1. sc \in Byte /\ Head(wire) = sc
  BY Shortened DEF TypeOK, KeyboardIrq, Byte
<1>2. PrefixByte(sc) \/ ExtendedByte(sc) \/ ReleaseByte(sc) \/ MakeByte(sc)
  BY <1>1 DEF KeyboardIrq
<1>. HIDE DEF sc
<1>3. Meaning(sc) \in Events \cup {NoEvent}
  BY <1>1, TranslateType DEF Meaning, Byte
<1>4. ASSUME NEW e, PushSome(e)
      PROVE  /\ e = NoEvent => UNCHANGED <<buf, head>>
             /\ e # NoEvent => \/ UNCHANGED <<buf, head>> /\ NextIndex(head) = tail
                               \/ Pushed(e)
  BY <1>4 DEF PushSome, push, Pushed
<1>5. CASE PrefixByte(sc)
  <2>1. Meaning(sc) = NoEvent /\ UNCHANGED <<buf, head>>
    BY <1>5 DEF PrefixByte, Meaning
  <2>. QED BY <2>1, <1>3 DEF sc
<1>6. CASE ExtendedByte(sc)
  <2>1. Meaning(sc) = translate_extended(sc) /\ PushSome(translate_extended(sc))
    BY <1>6 DEF ExtendedByte, Meaning
  <2>. QED BY <2>1, <1>3, <1>4 DEF sc
<1>7. CASE ReleaseByte(sc)
  <2>1. Meaning(sc) = NoEvent /\ UNCHANGED <<buf, head>>
    BY <1>7 DEF ReleaseByte, Meaning
  <2>. QED BY <2>1, <1>3 DEF sc
<1>8. CASE MakeByte(sc)
  <2>1. Meaning(sc) = translate(sc) /\ PushSome(translate(sc))
    BY <1>1, <1>8 DEF MakeByte, Meaning, Byte
  <2>. QED BY <2>1, <1>3, <1>4 DEF sc
<1>. QED BY <1>2, <1>3, <1>5, <1>6, <1>7, <1>8 DEF sc

\* Every step of the driver preserves its types.
LEMMA TypeStep == TypeOK /\ [Next]_vars => TypeOK'
<1>. SUFFICES ASSUME TypeOK, [Next]_vars  PROVE  TypeOK'
  OBVIOUS
<1>0. /\ head \in Index /\ tail \in Index /\ t \in Index /\ h \in Index /\ 0 \in Index
      /\ val \in 0 .. 12 * 256 - 1 /\ got \in Events \cup {NoEvent}
  BY KeyboardAssumption DEF TypeOK, Index
<1>1. ASSUME NEW k \in Keys, PressKey(k) \/ ReleaseKey(k)  PROVE  TypeOK'
  <2>1. PICK c \in Byte : Send(Bytes(k, c))
    <3>1. k.code \in 1 .. 127
      BY KeyboardAssumption
    <3>. QED BY <1>1, <3>1 DEF PressKey, ReleaseKey, Byte
  <2>2. Bytes(k, c) \in Seq(Byte)
    <3>1. <<Prefix, c>> \in Seq(Byte) /\ <<c>> \in Seq(Byte)
      BY DEF Byte, Prefix
    <3>. QED BY <3>1 DEF Bytes
  <2>3. wire' \in Seq(Byte) /\ Len(wire') <= WireMax
    BY <2>1, <2>2, Appended DEF Send, TypeOK, Byte
  <2>4. held' \subseteq Keys /\ UNCHANGED <<driver, tail, shell>>
    BY <1>1 DEF PressKey, ReleaseKey, TypeOK
  <2>. QED BY <2>3, <2>4 DEF TypeOK, driver, shell, Byte
<1>2. CASE KeyboardIrq
  <2>1. wire' \in Seq(Byte) /\ Len(wire') <= WireMax
    <3>1. wire' \in Seq(Byte) /\ Len(wire') = Len(wire) - 1 /\ Len(wire) \in Nat
      BY <1>2, IrqFacts
    <3>. QED BY <3>1, KeyboardAssumption DEF TypeOK
  <2>2. shift' \in BOOLEAN /\ ctrl' \in BOOLEAN /\ extended' \in BOOLEAN
    <3>1. shift' \in BOOLEAN /\ ctrl' \in BOOLEAN
      <4>1. shift \in BOOLEAN /\ ctrl \in BOOLEAN /\ (wire[1] < 128) \in BOOLEAN
        BY DEF TypeOK
      <4>2. shift' \in {shift, wire[1] < 128} /\ ctrl' \in {ctrl, wire[1] < 128}
        BY <1>2, IrqFacts
      <4>. QED BY <4>1, <4>2, Zenon
    <3>2. extended' \in BOOLEAN
      <4>1. extended \in BOOLEAN
        BY DEF TypeOK
      <4>2. extended' = TRUE \/ extended' = FALSE \/ extended' = extended
        BY <1>2 DEF KeyboardIrq, PrefixByte, ExtendedByte, ReleaseByte, MakeByte
      <4>. QED BY <4>1, <4>2
    <3>. QED BY <3>1, <3>2
  <2>3. UNCHANGED <<held, tail, shell>>
    BY <1>2 DEF KeyboardIrq
  <2>4. buf' \in [Index -> 0 .. 12 * 256 - 1] /\ head' \in Index
    <3>1. CASE UNCHANGED <<buf, head>>
      BY <3>1 DEF TypeOK, Index
    <3>2. ASSUME NEW e \in Events, Pushed(e)  PROVE  buf' \in [Index -> 0 .. 12 * 256 - 1] /\ head' \in Index
      <4>1. encode(e) \in 0 .. 12 * 256 - 1
        BY DecodeEncode
      <4>2. NextIndex(head) \in Index
        BY <1>0, AheadFacts
      <4>. QED BY <3>2, <4>1, <4>2 DEF Pushed, TypeOK, Index
    <3>3. PICK e : e = Meaning(wire[1])
      OBVIOUS
    <3>4. UNCHANGED <<buf, head>> \/ (e \in Events /\ Pushed(e))
      BY <1>2, <3>3, IrqRing DEF Pushed
    <3>. QED BY <3>1, <3>2, <3>4
  <2>. QED BY <2>1, <2>2, <2>3, <2>4 DEF TypeOK, shell, Byte, Index
<1>3. CASE Pop
  <2>1. NextIndex(t) \in Index /\ decode(val) \in Events \cup {NoEvent}
    <3>1. val \in Nat
      BY <1>0
    <3>. QED BY <1>0, <3>1, AheadFacts, DecodeType
  <2>2. buf[t] \in 0 .. 12 * 256 - 1
    BY <1>0 DEF TypeOK, Index
  <2>3. UNCHANGED <<held, wire, driver>>
    BY <1>3 DEF Pop, PopLoadTail, PopEmpty, PopLoadHead, PopLoadVal, PopStoreTail, ShellAt
  <2>4. /\ pc' \in {"idle", "pop_head", "pop_val", "pop_tail", "clear_tail"}
        /\ tail' \in Index /\ t' \in Index /\ h' \in Index
        /\ val' \in 0 .. 12 * 256 - 1 /\ got' \in Events \cup {NoEvent}
    <3>1. CASE PopLoadTail
      BY <1>0, <3>1 DEF PopLoadTail, ShellAt
    <3>2. CASE PopEmpty
      BY <1>0, <3>2 DEF PopEmpty, ShellAt, Return
    <3>3. CASE PopLoadHead
      BY <1>0, <3>3 DEF PopLoadHead, ShellAt
    <3>4. CASE PopLoadVal
      BY <1>0, <2>2, <3>4 DEF PopLoadVal, ShellAt
    <3>5. CASE PopStoreTail
      BY <1>0, <2>1, <3>5 DEF PopStoreTail, ShellAt, Return
    <3>. QED BY <1>3, <3>1, <3>2, <3>3, <3>4, <3>5 DEF Pop
  <2>. QED BY <2>3, <2>4 DEF TypeOK, driver, Index
<1>4. CASE Clear
  <2>1. UNCHANGED <<held, wire, driver>>
    BY <1>4 DEF Clear, ClearLoadHead, ClearStoreTail, ShellAt
  <2>2. /\ pc' \in {"idle", "pop_head", "pop_val", "pop_tail", "clear_tail"}
        /\ tail' \in Index /\ t' \in Index /\ h' \in Index
        /\ val' \in 0 .. 12 * 256 - 1 /\ got' \in Events \cup {NoEvent}
    <3>1. CASE ClearLoadHead
      BY <1>0, <3>1 DEF ClearLoadHead, ShellAt
    <3>2. CASE ClearStoreTail
      BY <1>0, <3>2 DEF ClearStoreTail, ShellAt, Return
    <3>. QED BY <1>4, <3>1, <3>2 DEF Clear
  <2>. QED BY <2>1, <2>2 DEF TypeOK, driver, Index
<1>5. CASE UNCHANGED vars
  BY <1>5 DEF vars, driver, shell, TypeOK
<1>. QED BY <1>1, <1>2, <1>3, <1>4, <1>5 DEF Next

\* Neither the interrupt nor the shell's own steps upset what the shell has
\* loaded: only the shell moves the tail, and a push never writes its word.
LEMMA RingStep == ASSUME TypeOK, RingInStep, [Next]_vars  PROVE  RingInStep'
<1>0. head \in Index /\ tail \in Index /\ h \in Index /\ t \in Index
      /\ buf \in [Index -> 0 .. 12 * 256 - 1]
  BY DEF TypeOK, Index
<1>1. ASSUME UNCHANGED <<buf, head, tail, pc, t, h, val>>  PROVE  RingInStep'
  BY <1>1 DEF RingInStep
<1>2. CASE KeyboardIrq
  <2>1. UNCHANGED <<tail, pc, t, h, val>>
    BY <1>2 DEF KeyboardIrq, shell
  <2>2. PICK e : e = Meaning(wire[1])
    OBVIOUS
  <2>3. UNCHANGED <<buf, head>> \/ Pushed(e)
    BY <1>2, <2>2, IrqRing DEF Pushed
  <2>4. CASE Pushed(e)
    <3>1. /\ head' = NextIndex(head) /\ head' # tail
          /\ head # tail => buf'[tail] = buf[tail]
      BY <1>0, <2>4 DEF Pushed
    <3>2. Ahead(head', tail) = Ahead(head, tail) + 1 /\ Ahead(head, tail) \in Index
      BY <1>0, <3>1, AheadFacts
    <3>3. Ahead(h, tail) \in Index
      BY <1>0, AheadFacts
    <3>4. pc = "clear_tail" => Ahead(h, tail) <= Ahead(head', tail)
      BY <3>2, <3>3 DEF RingInStep, Index
    <3>. QED BY <2>1, <3>1, <3>4 DEF RingInStep, Ahead
  <2>. QED BY <1>1, <2>1, <2>3, <2>4
<1>3. CASE Pop
  <2>1. pc' # "clear_tail"
    BY <1>3 DEF Pop, PopLoadTail, PopEmpty, PopLoadHead, PopLoadVal, PopStoreTail, ShellAt
  <2>. QED BY <1>3, <2>1 DEF Pop, PopLoadTail, PopEmpty, PopLoadHead, PopLoadVal,
              PopStoreTail, ShellAt, driver, RingInStep
<1>4. CASE ClearLoadHead
  <2>1. /\ h' = head' /\ pc' = "clear_tail"
        /\ h' \in Index /\ tail' \in Index /\ head' \in Index
    BY <1>0, <1>4 DEF ClearLoadHead, ShellAt, driver
  <2>2. Ahead(h', tail') = Ahead(head', tail') /\ Ahead(h', tail') \in Index
    BY <2>1, AheadFacts
  <2>3. Ahead(h', tail') <= Ahead(head', tail')
    BY <2>2 DEF Index
  <2>. QED BY <2>1, <2>3 DEF RingInStep, Ahead
<1>5. CASE ClearStoreTail
  BY <1>5 DEF ClearStoreTail, ShellAt, RingInStep
<1>6. ASSUME NEW k \in Keys, PressKey(k) \/ ReleaseKey(k)  PROVE  RingInStep'
  BY <1>1, <1>6 DEF PressKey, ReleaseKey, driver, shell
<1>7. CASE UNCHANGED vars
  BY <1>1, <1>7 DEF vars, driver, shell
<1>. QED BY <1>2, <1>3, <1>4, <1>5, <1>6, <1>7 DEF Next, Clear

\* The invariant holds when the machine starts.
LEMMA KeyboardInit == Init => KeyboardInv
<1>. SUFFICES ASSUME Init  PROVE  KeyboardInv
  OBVIOUS
<1>1. TypeOK
  BY KeyboardAssumption DEF Init, TypeOK
<1>2. BytesOf({LCtrl}) = {} /\ BytesOf(Shifts) = {} /\ Len(wire) = 0
  BY DEF Init, BytesOf
<1>3. WireInv
  BY <1>2 DEF Init, WireInv, WireWhole, PrefixInStep, CtrlInStep, ShiftInStep, IsHeld, IsLast
<1>4. RingInStep
  BY DEF Init, RingInStep
<1>. QED BY <1>1, <1>3, <1>4 DEF KeyboardInv

\* Every step of the driver and of the keyboard preserves the invariant.
LEMMA KeyboardStep == KeyboardInv /\ [Next]_vars => KeyboardInv'
<1>. SUFFICES ASSUME KeyboardInv, [Next]_vars  PROVE  KeyboardInv'
  OBVIOUS
<1>1. TypeOK /\ WireInv /\ RingInStep
  BY DEF KeyboardInv
<1>2. ASSUME UNCHANGED <<held, wire, shift, ctrl, extended>>  PROVE  WireInv'
  BY <1>1, <1>2 DEF WireInv, WireWhole, PrefixInStep, CtrlInStep, ShiftInStep, IsHeld,
     IsLast, BytesOf, Second
<1>3. UNCHANGED <<held, wire, shift, ctrl, extended>>
      \/ KeyboardIrq \/ \E k \in Keys : PressKey(k) \/ ReleaseKey(k)
  BY DEF Next, Pop, PopLoadTail, PopEmpty, PopLoadHead, PopLoadVal, PopStoreTail,
     Clear, ClearLoadHead, ClearStoreTail, ShellAt, driver, vars
<1>4. WireInv'
  BY <1>1, <1>2, <1>3, IrqWire, KeyWire
<1>. QED BY <1>1, <1>4, TypeStep, RingStep DEF KeyboardInv

\* The invariant holds in every state.
THEOREM KeyboardInvariant == Spec => []KeyboardInv
  BY KeyboardInit, KeyboardStep, PTL DEF Spec

\* However interrupts, keys and the shell interleave, the prefix flag is in
\* step with the byte stream, for any set of keys and any wire length.
THEOREM PrefixStaysInStep == Spec => []PrefixInStep
<1>1. KeyboardInv => PrefixInStep
  BY DEF KeyboardInv, WireInv
<1>. QED BY KeyboardInvariant, <1>1, PTL

\* Once every byte is handled, translate and handle_release have left no
\* modifier flag set without its key.
THEOREM ModifiersRelease == Spec => []NoStuckModifier
<1>1. KeyboardInv => NoStuckModifier
  <2>. SUFFICES ASSUME KeyboardInv, wire = <<>>
                PROVE  /\ shift => IsHeld({LShift, RShift})
                       /\ ctrl <=> IsHeld({LCtrl})
                       /\ ~extended
    BY DEF NoStuckModifier
  <2>1. Len(wire) = 0 /\ BytesOf({LCtrl}) = {} /\ BytesOf(Shifts) = {}
    BY DEF BytesOf
  <2>2. ~extended
    BY <2>1 DEF KeyboardInv, WireInv, PrefixInStep
  <2>. QED BY <2>1, <2>2 DEF KeyboardInv, WireInv, CtrlInStep, ShiftInStep, Shifts
<1>. QED BY KeyboardInvariant, <1>1, PTL

\* handle_irq queues every event it decodes, unless the ring is full.
THEOREM EventsQueued == Spec => EventQueuedOrFull
<1>. DEFINE Queued == wire # <<>> /\ wire' = Tail(wire) =>
          LET e == Meaning(Head(wire))
          IN  IF e = NoEvent THEN UNCHANGED <<buf, head>>
              ELSE IF head' = head THEN Count = BufSize - 1
              ELSE decode(buf'[head]) = e
<1>1. KeyboardInv /\ [Next]_vars => [Queued]_vars
  <2>. SUFFICES ASSUME TypeOK, Next, wire # <<>>, wire' = Tail(wire)  PROVE  Queued
    BY DEF KeyboardInv
  <2>1. /\ wire \in Seq(Byte) /\ Len(wire') = Len(wire) - 1 /\ Len(wire) \in Nat
        /\ Head(wire) = wire[1]
    BY Shortened DEF TypeOK, Byte
  <2>2. ASSUME wire' = wire  PROVE  FALSE
    <3>1. Len(wire) = Len(wire) - 1
      BY <2>1, <2>2
    <3>. QED BY <2>1, <3>1
  <2>3. ASSUME NEW k \in Keys, PressKey(k) \/ ReleaseKey(k)  PROVE  FALSE
    <3>1. PICK b \in Seq(Byte) : wire' = wire \o b
      <4>0. k.code \in 1 .. 127
        BY KeyboardAssumption
      <4>1. k.code \in Byte /\ k.code + 128 \in Byte
        <5>1. \A c \in 1 .. 127 : c \in Byte /\ c + 128 \in Byte
          BY DEF Byte
        <5>. QED BY <4>0, <5>1, Zenon
      <4>2. ASSUME NEW c \in Byte  PROVE  Bytes(k, c) \in Seq(Byte)
        <5>1. <<Prefix, c>> \in Seq(Byte) /\ <<c>> \in Seq(Byte)
          BY DEF Byte, Prefix
        <5>. QED BY <5>1 DEF Bytes
      <4>. QED BY <2>3, <4>1, <4>2 DEF PressKey, ReleaseKey, Send
    <3>2. Len(wire') = Len(wire) + Len(b) /\ Len(b) \in Nat
      BY <2>1, <3>1, Appended
    <3>. QED BY <2>1, <3>2
  <2>4. KeyboardIrq
    BY <2>2, <2>3 DEF Next, Pop, PopLoadTail, PopEmpty, PopLoadHead, PopLoadVal,
       PopStoreTail, Clear, ClearLoadHead, ClearStoreTail, ShellAt
  <2>5. PICK e : e = Meaning(Head(wire))
    OBVIOUS
  <2>6. /\ e \in Events \cup {NoEvent}
        /\ e = NoEvent => UNCHANGED <<buf, head>>
        /\ e # NoEvent => \/ UNCHANGED <<buf, head>> /\ NextIndex(head) = tail
                          \/ Pushed(e)
    BY <2>1, <2>4, <2>5, IrqRing DEF Pushed
  <2>7. head \in Index /\ tail \in Index /\ buf \in [Index -> 0 .. 12 * 256 - 1]
    BY DEF TypeOK, Index
  <2>8. CASE e # NoEvent /\ UNCHANGED <<buf, head>> /\ NextIndex(head) = tail
    BY <2>5, <2>7, <2>8, AheadFacts DEF Count, Ahead
  <2>9. CASE e # NoEvent /\ Pushed(e)
    <3>1. head' # head
      BY <2>7, <2>9, NextIndexCases, KeyboardAssumption DEF Pushed, Index
    <3>2. decode(buf'[head]) = e
      BY <2>6, <2>7, <2>9, DecodeEncode DEF Pushed
    <3>. QED BY <2>5, <2>9, <3>1, <3>2
  <2>. QED BY <2>5, <2>6, <2>8, <2>9
<1>. QED BY KeyboardInvariant, <1>1, PTL DEF Spec, EventQueuedOrFull

-----------------------------------------------------------------------------
(***************************************************************************)
(* The ring implements KeyQueue.                                           *)
(***************************************************************************)

\* The abstract variables, as the instance Queue defines them.
Waiting == [x \in 1 .. Count |-> decode(buf[(tail + x - 1) % BufSize])]
Mark == IF pc = "clear_tail" THEN (h - tail) % BufSize ELSE 0
Flushing == pc = "clear_tail"
Words == Events \cup {NoEvent}

\* A function on 1 .. n is a sequence of length n.
LEMMA FunctionIsSeq ==
    ASSUME NEW S, NEW n \in Nat, NEW f \in [1 .. n -> S]
    PROVE  f \in Seq(S) /\ Len(f) = n
  OBVIOUS

\* Sequences that agree are equal.
LEMMA SameSeq ==
    ASSUME NEW S, NEW q \in Seq(S), NEW r \in Seq(S), Len(q) = Len(r),
           \A x \in 1 .. Len(q) : q[x] = r[x]
    PROVE  q = r
  OBVIOUS

\* The part of a sequence from one place to another.
LEMMA SubSeqFacts ==
    ASSUME NEW S, NEW q \in Seq(S), NEW m \in 0 .. Len(q), NEW n \in m .. Len(q)
    PROVE  /\ SubSeq(q, m + 1, n) \in Seq(S) /\ Len(SubSeq(q, m + 1, n)) = n - m
           /\ \A x \in 1 .. n - m : SubSeq(q, m + 1, n)[x] = q[m + x]
  OBVIOUS

\* A sequence without its first element.
LEMMA TailFacts ==
    ASSUME NEW S, NEW q \in Seq(S), q # <<>>
    PROVE  /\ Tail(q) \in Seq(S) /\ Len(Tail(q)) = Len(q) - 1 /\ Head(q) = q[1]
           /\ \A x \in 1 .. Len(q) - 1 : Tail(q)[x] = q[x + 1]
  OBVIOUS

\* The index x places on, seen from two places.
LEMMA PlaceFacts ==
    ASSUME NEW a \in Index, NEW b \in Index, NEW x \in Index
    PROVE  /\ (b + x) % BufSize \in Index
           /\ (b + x) % BufSize = a <=> x = Ahead(a, b)
           /\ Ahead(a, b) + x \in Index =>
                 (b + (Ahead(a, b) + x)) % BufSize = (a + x) % BufSize
<1>1. /\ a >= b => Ahead(a, b) = a - b
      /\ a < b => Ahead(a, b) = a - b + BufSize
  BY AheadCases
<1>2. ASSUME NEW c \in Index, NEW y \in Index
      PROVE  (c + y) % BufSize = IF c + y < BufSize THEN c + y ELSE c + y - BufSize
  <2>1. /\ c + y < BufSize => (c + y) % BufSize = c + y
        /\ c + y >= BufSize => (c + y) % BufSize = c + y - BufSize
    BY PlaceCases
  <2>. QED BY <2>1, KeyboardAssumption DEF Index
<1>3. (b + x) % BufSize = IF b + x < BufSize THEN b + x ELSE b + x - BufSize
  BY <1>2
<1>4. (a + x) % BufSize = IF a + x < BufSize THEN a + x ELSE a + x - BufSize
  BY <1>2
<1>5. ASSUME Ahead(a, b) + x \in Index
      PROVE  (b + (Ahead(a, b) + x)) % BufSize = (a + x) % BufSize
  <2>1. PICK y \in Index : y = Ahead(a, b) + x
    BY <1>5
  <2>2. (b + y) % BufSize = IF b + y < BufSize THEN b + y ELSE b + y - BufSize
    BY <1>2
  <2>. QED BY <1>1, <1>4, <2>1, <2>2, KeyboardAssumption, AheadFacts DEF Index
<1>. QED BY <1>1, <1>3, <1>5, KeyboardAssumption DEF Index

\* The words of the ring, and indices as remainders.
LEMMA WordFacts == ASSUME TypeOK, NEW z \in Index  PROVE  buf[z] \in Nat
<1>1. buf[z] \in 0 .. 12 * 256 - 1
  BY DEF TypeOK, Index
<1>2. \A v \in 0 .. 12 * 256 - 1 : v \in Nat
  OBVIOUS
<1>. QED BY <1>1, <1>2, Zenon

\* A place of the ring is its own remainder.
LEMMA IndexMod == ASSUME NEW z \in Index  PROVE  z % BufSize = z
  BY KeyboardAssumption DEF Index

\* The abstract queue is a sequence of words, from the tail to the head.
WaitingOK ==
    /\ Waiting \in Seq(Words) /\ Len(Waiting) = Ahead(head, tail)
    /\ Ahead(head, tail) \in Index
    /\ \A x \in 1 .. Ahead(head, tail) :
          Waiting[x] = decode(buf[(tail + x - 1) % BufSize])

\* The events that wait are the words between tail and head.
LEMMA WaitingFacts == TypeOK => WaitingOK
<1>. SUFFICES ASSUME TypeOK  PROVE  WaitingOK
  OBVIOUS
<1>1. head \in Index /\ tail \in Index /\ buf \in [Index -> 0 .. 12 * 256 - 1]
  BY DEF TypeOK, Index
<1>2. Ahead(head, tail) \in Index /\ Count = Ahead(head, tail)
  BY <1>1, AheadFacts DEF Count, Ahead
<1>3. ASSUME NEW x \in 1 .. Count  PROVE  decode(buf[(tail + x - 1) % BufSize]) \in Words
  <2>1. PICK y \in Index : y = x - 1
    BY <1>2, KeyboardAssumption DEF Index
  <2>2. (tail + y) % BufSize \in Index /\ tail + y = tail + x - 1
    BY <1>1, <2>1, PlaceFacts DEF Index
  <2>3. PICK z \in Index : z = (tail + x - 1) % BufSize
    BY <2>2
  <2>4. buf[z] \in Nat
    BY WordFacts
  <2>. QED BY <2>3, <2>4, DecodeType DEF Words
<1>4. Waiting \in [1 .. Count -> Words]
  BY <1>3 DEF Waiting
<1>5. Count \in Nat
  BY <1>2, KeyboardAssumption DEF Index
<1>6. Waiting \in Seq(Words) /\ Len(Waiting) = Count
  BY <1>4, <1>5, FunctionIsSeq
<1>. QED BY <1>2, <1>6 DEF WaitingOK, Waiting

\* A push appends the event to the queue.
LEMMA PushArrives ==
    ASSUME TypeOK, TypeOK', NEW e \in Events, Pushed(e),
           UNCHANGED <<tail, pc, h, got>>
    PROVE  Queue!Arrive
<1>. DEFINE n == Ahead(head, tail)
<1>0. head \in Index /\ tail \in Index /\ buf \in [Index -> 0 .. 12 * 256 - 1]
      /\ head' \in Index
  BY DEF TypeOK, Index
<1>1. Ahead(head', tail') = n + 1 /\ n \in Index /\ n # BufSize - 1
  BY <1>0, AheadFacts DEF Pushed
<1>2. /\ Waiting \in Seq(Words) /\ Len(Waiting) = n
      /\ \A x \in 1 .. n : Waiting[x] = decode(buf[(tail + x - 1) % BufSize])
  BY WaitingFacts DEF WaitingOK
<1>3. /\ Waiting' \in Seq(Words) /\ Len(Waiting') = n + 1
      /\ \A x \in 1 .. n + 1 : Waiting'[x] = decode(buf'[(tail' + x - 1) % BufSize])
  <2>1. WaitingOK'
    BY WaitingFacts, PTL
  <2>2. Ahead(head, tail)' = n + 1
    BY <1>1 DEF Ahead
  <2>. QED BY <2>1, <2>2 DEF WaitingOK
<1>. HIDE DEF n
<1>4. ASSUME NEW x \in 1 .. n + 1
      PROVE  /\ (tail + x - 1) % BufSize \in Index
             /\ (tail + x - 1) % BufSize = head <=> x = n + 1
  <2>1. PICK y \in Index : y = x - 1
    BY <1>1, KeyboardAssumption DEF Index
  <2>2. (tail + y) % BufSize \in Index /\ ((tail + y) % BufSize = head <=> y = n)
    BY <1>0, PlaceFacts DEF n
  <2>3. tail + y = tail + x - 1 /\ (y = n <=> x = n + 1)
    BY <1>0, <1>1, <2>1 DEF Index
  <2>. QED BY <2>2, <2>3
<1>5. ASSUME NEW x \in 1 .. n  PROVE  Waiting'[x] = Waiting[x]
  <2>1. x \in 1 .. n + 1 /\ x # n + 1
    BY <1>1 DEF Index
  <2>2. buf'[(tail + x - 1) % BufSize] = buf[(tail + x - 1) % BufSize]
    BY <1>0, <1>4, <2>1 DEF Pushed
  <2>. QED BY <1>2, <1>3, <2>1, <2>2
<1>6. Waiting'[n + 1] = e
  <2>1. n + 1 \in 1 .. n + 1
    BY <1>1 DEF Index
  <2>2. buf'[(tail + (n + 1) - 1) % BufSize] = encode(e)
    BY <1>0, <1>4, <2>1 DEF Pushed
  <2>. QED BY <1>3, <2>1, <2>2, DecodeEncode
<1>7. SubSeq(Waiting', 1, n) = Waiting
  <2>1. n \in 0 .. Len(Waiting') /\ 0 \in 0 .. Len(Waiting') /\ n \in Nat
    BY <1>1, <1>3 DEF Index
  <2>2. PICK q : q = SubSeq(Waiting', 1, n)
    OBVIOUS
  <2>3. /\ q \in Seq(Words) /\ Len(q) = n
        /\ \A x \in 1 .. n : q[x] = Waiting'[x]
    BY <1>3, <2>1, <2>2
  <2>. QED BY <1>2, <1>5, <2>2, <2>3, SameSeq
<1>8. n < BufSize - 1
  BY <1>1, KeyboardAssumption DEF Index
<1>. QED BY <1>2, <1>3, <1>6, <1>7, <1>8 DEF Queue!Arrive, Waiting

\* The store of the tail that ends pop takes the front of the queue.
LEMMA PopTakes ==
    ASSUME TypeOK, TypeOK', RingInStep, PopStoreTail
    PROVE  Queue!Take
<1>. DEFINE n == Ahead(head, tail)
<1>0. head \in Index /\ tail \in Index /\ buf \in [Index -> 0 .. 12 * 256 - 1]
      /\ UNCHANGED <<head, buf>> /\ tail' = NextIndex(tail) /\ tail' \in Index
      /\ head # tail /\ got' = decode(buf[tail]) /\ pc = "pop_tail" /\ pc' = "idle"
  BY DEF TypeOK, Index, PopStoreTail, ShellAt, driver, RingInStep
<1>1. Ahead(head, tail') = n - 1 /\ n \in Index /\ n # 0
  BY <1>0, AheadFacts
<1>2. /\ Waiting \in Seq(Words) /\ Len(Waiting) = n
      /\ \A x \in 1 .. n : Waiting[x] = decode(buf[(tail + x - 1) % BufSize])
  BY WaitingFacts DEF WaitingOK
<1>3. /\ Waiting' \in Seq(Words) /\ Len(Waiting') = n - 1
      /\ \A x \in 1 .. n - 1 : Waiting'[x] = decode(buf[(tail' + x - 1) % BufSize])
  <2>1. WaitingOK'
    BY WaitingFacts, PTL
  <2>2. Ahead(head, tail)' = n - 1
    BY <1>0, <1>1 DEF Ahead
  <2>. QED BY <1>0, <2>1, <2>2 DEF WaitingOK
<1>. HIDE DEF n
<1>4. ASSUME NEW x \in 1 .. n - 1
      PROVE  (tail' + x - 1) % BufSize = (tail + (x + 1) - 1) % BufSize
  <2>1. PICK y \in Index : y = x - 1 /\ y + 1 \in Index
    BY <1>1, KeyboardAssumption DEF Index
  <2>2. PICK m \in Index : m = Ahead(tail', tail)
    BY <1>0, AheadFacts
  <2>3. m = 1
    <3>1. /\ tail' >= tail => m = tail' - tail
          /\ tail' < tail => m = tail' - tail + BufSize
      BY <1>0, <2>2, AheadCases
    <3>2. tail' = IF tail = BufSize - 1 THEN 0 ELSE tail + 1
      BY <1>0, NextIndexCases
    <3>. QED BY <1>0, <3>1, <3>2, KeyboardAssumption DEF Index
  <2>4. (tail + (m + y)) % BufSize = (tail' + y) % BufSize
    <3>1. m + y \in Index
      BY <2>1, <2>3 DEF Index
    <3>. QED BY <1>0, <2>2, <3>1, PlaceFacts
  <2>5. tail + (m + y) = tail + (x + 1) - 1 /\ tail' + y = tail' + x - 1
    BY <1>0, <1>1, <2>1, <2>3 DEF Index
  <2>. QED BY <2>4, <2>5
<1>5. ASSUME NEW x \in 1 .. n - 1  PROVE  Waiting'[x] = Waiting[x + 1]
  <2>1. x + 1 \in 1 .. n
    BY <1>1 DEF Index
  <2>. QED BY <1>2, <1>3, <1>4, <2>1
<1>6. Waiting[1] = decode(buf[tail])
  <2>1. 1 \in 1 .. n /\ tail + 1 - 1 = tail
    BY <1>0, <1>1 DEF Index
  <2>2. tail % BufSize = tail
    BY <1>0, IndexMod
  <2>. QED BY <1>2, <2>1, <2>2
<1>7. Waiting # <<>>
  BY <1>1, <1>2
<1>8. /\ Tail(Waiting) \in Seq(Words) /\ Len(Tail(Waiting)) = n - 1
      /\ Head(Waiting) = Waiting[1]
      /\ \A x \in 1 .. n - 1 : Tail(Waiting)[x] = Waiting[x + 1]
  BY <1>2, <1>7, TailFacts
<1>9. Waiting' = Tail(Waiting)
  BY <1>3, <1>5, <1>8, SameSeq
<1>. QED BY <1>0, <1>6, <1>7, <1>8, <1>9 DEF Queue!Take, Waiting

\* The store of the tail that ends clear drops what clear's load had seen.
LEMMA ClearFlushes ==
    ASSUME TypeOK, TypeOK', RingInStep, ClearStoreTail
    PROVE  Queue!EndFlush
<1>. DEFINE n == Ahead(head, tail)
            m == Ahead(h, tail)
<1>0. head \in Index /\ tail \in Index /\ h \in Index
      /\ UNCHANGED <<head, buf, got>> /\ tail' = h
      /\ pc = "clear_tail" /\ pc' = "idle" /\ m <= n
  BY DEF TypeOK, Index, ClearStoreTail, ShellAt, driver, RingInStep
<1>1. Ahead(head, h) = n - m /\ n \in Index /\ m \in Index
  <2>1. /\ head >= tail => n = head - tail
        /\ head < tail => n = head - tail + BufSize
    BY <1>0, AheadCases
  <2>2. /\ h >= tail => m = h - tail
        /\ h < tail => m = h - tail + BufSize
    BY <1>0, AheadCases
  <2>3. /\ head >= h => Ahead(head, h) = head - h
        /\ head < h => Ahead(head, h) = head - h + BufSize
    BY <1>0, AheadCases
  <2>4. n \in Index /\ m \in Index
    BY <1>0, AheadFacts
  <2>. HIDE DEF n, m
  <2>. QED BY <1>0, <2>1, <2>2, <2>3, <2>4, KeyboardAssumption DEF Index
<1>2. /\ Waiting \in Seq(Words) /\ Len(Waiting) = n
      /\ \A x \in 1 .. n : Waiting[x] = decode(buf[(tail + x - 1) % BufSize])
  BY WaitingFacts DEF WaitingOK
<1>3. /\ Waiting' \in Seq(Words) /\ Len(Waiting') = n - m
      /\ \A x \in 1 .. n - m : Waiting'[x] = decode(buf[(h + x - 1) % BufSize])
  <2>1. WaitingOK'
    BY WaitingFacts, PTL
  <2>2. Ahead(head, tail)' = n - m
    BY <1>0, <1>1 DEF Ahead
  <2>. QED BY <1>0, <2>1, <2>2 DEF WaitingOK
<1>. HIDE DEF n
<1>4. ASSUME NEW x \in 1 .. n - m
      PROVE  (h + x - 1) % BufSize = (tail + (m + x) - 1) % BufSize
  <2>1. PICK y \in Index : y = x - 1
    BY <1>1, KeyboardAssumption DEF Index
  <2>2. m + y \in Index
    <3>. HIDE DEF m
    <3>. QED BY <1>1, <2>1, KeyboardAssumption DEF Index
  <2>3. (tail + (m + y)) % BufSize = (h + y) % BufSize
    BY <1>0, <2>2, PlaceFacts
  <2>4. tail + (m + y) = tail + (m + x) - 1 /\ h + y = h + x - 1
    <3>. HIDE DEF m
    <3>. QED BY <1>0, <1>1, <2>1 DEF Index
  <2>. QED BY <2>3, <2>4
<1>. HIDE DEF m
<1>5. ASSUME NEW x \in 1 .. n - m  PROVE  Waiting'[x] = Waiting[m + x]
  <2>1. m + x \in 1 .. n
    BY <1>1 DEF Index
  <2>. QED BY <1>2, <1>3, <1>4, <2>1
<1>6. PICK q : q = SubSeq(Waiting, m + 1, Len(Waiting))
  OBVIOUS
<1>7. /\ q \in Seq(Words) /\ Len(q) = n - m
      /\ \A x \in 1 .. n - m : q[x] = Waiting[m + x]
  <2>1. m \in 0 .. Len(Waiting) /\ n \in m .. Len(Waiting)
    BY <1>0, <1>1, <1>2 DEF Index
  <2>2. q = SubSeq(Waiting, m + 1, n) /\ Waiting \in Seq(Words)
    BY <1>2, <1>6
  <2>. QED BY <2>1, <2>2, SubSeqFacts
<1>8. Waiting' = q
  BY <1>3, <1>5, <1>7, SameSeq
<1>. QED BY <1>0, <1>6, <1>8 DEF Queue!EndFlush, Waiting, m, Ahead

\* What the driver does to the ring is what KeyQueue allows: the initial
\* states map to its initial state, and every step to one of its steps or to
\* none, for every ring size.
THEOREM RingIsQueue == Spec => ImplementsQueue
<1>1. Init => Queue!QInit
  <2>. SUFFICES ASSUME Init  PROVE  Queue!QInit
    OBVIOUS
  <2>1. TypeOK /\ head = tail /\ head \in Index
    BY KeyboardInit, KeyboardAssumption DEF KeyboardInv, Init, Index
  <2>2. Waiting \in Seq(Words) /\ Len(Waiting) = 0
    BY <2>1, WaitingFacts, AheadFacts DEF WaitingOK
  <2>3. Waiting = <<>>
    BY <2>2
  <2>. QED BY <2>3 DEF Queue!QInit, Init, Waiting
<1>2. KeyboardInv /\ KeyboardInv' /\ [Next]_vars => [Queue!QNext]_(Queue!qvars)
  <2>. SUFFICES ASSUME TypeOK, TypeOK', RingInStep, [Next]_vars
                PROVE  [Queue!QNext]_(Queue!qvars)
    BY DEF KeyboardInv
  <2>1. ASSUME UNCHANGED <<buf, head, tail, pc, h, got>>
        PROVE  UNCHANGED Queue!qvars
    BY <2>1 DEF Queue!qvars, Count
  <2>2. CASE KeyboardIrq
    <3>1. UNCHANGED <<tail, pc, h, got>>
      BY <2>2 DEF KeyboardIrq, shell
    <3>2. PICK e : e = Meaning(wire[1])
      OBVIOUS
    <3>3. UNCHANGED <<buf, head>> \/ (e \in Events /\ Pushed(e))
      BY <2>2, <3>2, IrqRing DEF Pushed
    <3>. QED BY <2>1, <3>1, <3>3, PushArrives DEF Queue!QNext
  <2>3. CASE PopLoadTail \/ PopLoadHead \/ PopLoadVal
    <3>1. UNCHANGED <<buf, head, tail, got>> /\ pc # "clear_tail" /\ pc' # "clear_tail"
      BY <2>3 DEF PopLoadTail, PopLoadHead, PopLoadVal, ShellAt, driver
    <3>. QED BY <3>1 DEF Queue!qvars, Count
  <2>4. CASE PopEmpty
    <3>1. /\ UNCHANGED <<buf, head, tail>> /\ pc = "pop_head" /\ pc' = "idle"
          /\ got' = NoEvent /\ head = tail /\ head \in Index
      BY <2>4 DEF PopEmpty, ShellAt, driver, RingInStep, TypeOK, Index
    <3>2. Waiting \in Seq(Words) /\ Len(Waiting) = 0
      BY <3>1, WaitingFacts, AheadFacts DEF WaitingOK
    <3>3. Waiting = <<>>
      BY <3>2
    <3>. QED BY <3>1, <3>3 DEF Queue!QNext, Queue!TakeNothing, Waiting, Count
  <2>5. CASE PopStoreTail
    BY <2>5, PopTakes DEF Queue!QNext
  <2>6. CASE ClearLoadHead
    <3>1. /\ UNCHANGED <<buf, head, tail, got>> /\ pc = "idle" /\ pc' = "clear_tail"
          /\ h' = head
      BY <2>6 DEF ClearLoadHead, ShellAt, driver
    <3>2. Len(Waiting) = Ahead(head, tail)
      BY WaitingFacts DEF WaitingOK
    <3>. QED BY <3>1, <3>2 DEF Queue!QNext, Queue!BeginFlush, Waiting, Ahead, Count
  <2>7. CASE ClearStoreTail
    BY <2>7, ClearFlushes DEF Queue!QNext
  <2>8. ASSUME NEW k \in Keys, PressKey(k) \/ ReleaseKey(k)
        PROVE  UNCHANGED Queue!qvars
    BY <2>1, <2>8 DEF PressKey, ReleaseKey, driver, shell
  <2>9. CASE UNCHANGED vars
    BY <2>1, <2>9 DEF vars, driver, shell
  <2>. QED BY <2>2, <2>3, <2>4, <2>5, <2>6, <2>7, <2>8, <2>9 DEF Next, Pop, Clear
<1>. QED BY KeyboardInvariant, <1>1, <1>2, PTL DEF Spec, ImplementsQueue, Queue!QSpec

-----------------------------------------------------------------------------
(***************************************************************************)
(* The screen.  The writer is a record that a call transforms byte by byte *)
(* before it becomes the new state; the lemmas say what every byte, hence  *)
(* every text, does to it.                                                 *)
(***************************************************************************)
Screens == [Rows \cup {StatusRow} -> Line]
Pending == {<<>>} \cup {<<l>> : l \in Line}
Writers == [screen : Screens, row : Rows, col : Nat, deferred : Pending, gone : Seq(Line)]

\* From w to v the writer kept off the status bar and only added to the rows
\* that have scrolled off, and the line that waits is the last of those.
Follows(w, v) ==
    /\ v.screen[StatusRow] = w.screen[StatusRow]
    /\ \/ v.gone = w.gone /\ v.deferred = w.deferred
       \/ /\ Len(v.gone) > Len(w.gone) /\ v.deferred = <<v.gone[Len(v.gone)]>>
          /\ \A k \in 1 .. Len(w.gone) : v.gone[k] = w.gone[k]

\* What a byte leaves behind.
Written(w, v) == v \in Writers /\ v.col <= Width /\ Follows(w, v)

\* The sizes are positive, so there is a first row and a first column, and the
\* status row is no row of text.
LEMMA Sizes ==
    /\ Width \in Nat /\ Width > 0 /\ ContentRows \in Nat /\ ContentRows > 0
    /\ ScrollbackLines \in Nat /\ ScrollbackLines > 0 /\ TabStop \in Nat /\ TabStop > 0
    /\ Rows = 0 .. ContentRows - 1 /\ Rows \subseteq Nat /\ 0 \in Rows
    /\ StatusRow = ContentRows /\ StatusRow \notin Rows /\ 0 \in Columns
  BY VgaAssumption DEF Rows, StatusRow, Columns

\* A blank line is a line.
LEMMA BlankIsLine == Blank \in Line
  BY DEF Blank, Filled, Line, Cells

\* The parts of a writer.
LEMMA WriterParts ==
    ASSUME NEW w \in Writers
    PROVE  /\ w.screen \in Screens /\ w.row \in Rows /\ w.col \in Nat
           /\ w.deferred \in Pending /\ w.gone \in Seq(Line)
           /\ DOMAIN w = {"screen", "row", "col", "deferred", "gone"}
           /\ w = [screen |-> w.screen, row |-> w.row, col |-> w.col,
                   deferred |-> w.deferred, gone |-> w.gone]
  BY DEF Writers

\* Following is transitive.
LEMMA FollowsTransitive ==
    ASSUME NEW u \in Writers, NEW v \in Writers, NEW w \in Writers,
           Follows(u, v), Follows(v, w)
    PROVE  Follows(u, w)
<1>1. Len(u.gone) \in Nat /\ Len(v.gone) \in Nat /\ Len(w.gone) \in Nat
  BY WriterParts
<1>2. w.screen[StatusRow] = u.screen[StatusRow]
  BY DEF Follows
<1>3. CASE w.gone = v.gone /\ w.deferred = v.deferred
  BY <1>2, <1>3 DEF Follows
<1>4. CASE /\ Len(w.gone) > Len(v.gone) /\ w.deferred = <<w.gone[Len(w.gone)]>>
           /\ \A k \in 1 .. Len(v.gone) : w.gone[k] = v.gone[k]
  <2>1. /\ Len(v.gone) >= Len(u.gone)
        /\ \A k \in 1 .. Len(u.gone) : v.gone[k] = u.gone[k]
    BY <1>1 DEF Follows
  <2>2. \A k \in 1 .. Len(u.gone) : w.gone[k] = u.gone[k]
    BY <1>1, <1>4, <2>1
  <2>3. Len(w.gone) > Len(u.gone)
    BY <1>1, <1>4, <2>1
  <2>. QED BY <1>2, <1>4, <2>2, <2>3 DEF Follows
<1>. QED BY <1>3, <1>4 DEF Follows

\* scroll: the rows move up, the last becomes blank, and the top one waits for the
\* scrollback.
LEMMA ScrollWritten ==
    ASSUME NEW w \in Writers, w.col <= Width
    PROVE  /\ Written(w, scroll(w)) /\ scroll(w).col = w.col /\ scroll(w).row = w.row
           /\ scroll(w).gone = Append(w.gone, w.screen[0])
<1>. DEFINE moved == [r \in DOMAIN w.screen |->
                        IF r = ContentRows - 1 THEN Blank
                        ELSE IF r < ContentRows - 1 THEN w.screen[r + 1] ELSE w.screen[r]]
            v == scroll(w)
<1>1. DOMAIN w.screen = Rows \cup {StatusRow} /\ w.screen[0] \in Line
  BY WriterParts, Sizes DEF Screens
<1>2. moved \in Screens
  <2>1. ASSUME NEW r \in Rows \cup {StatusRow}  PROVE moved[r] \in Line
    <3>1. r < ContentRows - 1 => r + 1 \in Rows
      BY Sizes
    <3>. QED BY <1>1, <3>1, WriterParts, BlankIsLine DEF Screens
  <2>. QED BY <1>1, <2>1 DEF Screens
<1>3. moved[StatusRow] = w.screen[StatusRow]
  BY <1>1, Sizes
<1>5. Append(w.gone, w.screen[0]) \in Seq(Line) /\ <<w.screen[0]>> \in Pending
  BY <1>1, WriterParts DEF Pending
<1>6. /\ Len(Append(w.gone, w.screen[0])) = Len(w.gone) + 1 /\ Len(w.gone) \in Nat
      /\ Append(w.gone, w.screen[0])[Len(w.gone) + 1] = w.screen[0]
      /\ \A k \in 1 .. Len(w.gone) : Append(w.gone, w.screen[0])[k] = w.gone[k]
  BY <1>1, WriterParts
<1>7. /\ v \in Writers /\ v.screen = moved /\ v.row = w.row /\ v.col = w.col
      /\ v.deferred = <<w.screen[0]>> /\ v.gone = Append(w.gone, w.screen[0])
  <2>1. v = [w EXCEPT !.screen = moved, !.deferred = <<w.screen[0]>>,
                      !.gone = Append(w.gone, w.screen[0])]
    BY Zenon DEF scroll
  <2>. HIDE DEF moved, v
  <2>2. PICK m \in Screens, d \in Pending, g \in Seq(Line) :
          m = moved /\ d = <<w.screen[0]>> /\ g = Append(w.gone, w.screen[0])
    BY <1>2, <1>5
  <2>3. v = [w EXCEPT !.screen = m, !.deferred = d, !.gone = g]
    BY <2>1, <2>2, Zenon
  <2>4. /\ v \in Writers /\ v.screen = m /\ v.row = w.row /\ v.col = w.col
        /\ v.deferred = d /\ v.gone = g
    BY <2>3 DEF Writers
  <2>. QED BY <2>2, <2>4, Zenon
<1>. HIDE DEF moved, v
<1>8. Follows(w, v)
  BY <1>3, <1>6, <1>7 DEF Follows
<1>9. Written(w, v)
  BY <1>7, <1>8 DEF Written
<1>. QED BY <1>7, <1>9 DEF v

\* newline: the next row, or the screen scrolls.
LEMMA NewlineWritten ==
    ASSUME NEW w \in Writers
    PROVE  /\ Written(w, newline(w)) /\ newline(w).col = 0
           /\ newline(w).gone = w.gone \/ Len(newline(w).gone) = Len(w.gone) + 1
<1>. DEFINE v == [w EXCEPT !.col = 0]
<1>1. /\ v \in Writers /\ v.col = 0 /\ v.col <= Width /\ v.row = w.row
      /\ v.screen = w.screen /\ v.gone = w.gone /\ v.deferred = w.deferred
  BY WriterParts, Sizes DEF Writers
<1>2. Follows(w, v)
  BY <1>1 DEF Follows
<1>. HIDE DEF v
<1>3. CASE w.row + 1 >= ContentRows
  <2>1. newline(w) = scroll(v)
    BY <1>3 DEF newline, v
  <2>2. /\ Written(v, scroll(v)) /\ scroll(v).col = 0
        /\ scroll(v).gone = Append(w.gone, w.screen[0])
    BY <1>1, ScrollWritten
  <2>3. Len(Append(w.gone, w.screen[0])) = Len(w.gone) + 1
    BY WriterParts
  <2>. QED BY <1>1, <1>2, <2>1, <2>2, <2>3, FollowsTransitive DEF Written
<1>4. CASE ~(w.row + 1 >= ContentRows)
  <2>. DEFINE u == [v EXCEPT !.row = @ + 1]
  <2>1. newline(w) = u
    BY <1>4 DEF newline, v
  <2>2. w.row + 1 \in Rows
    BY <1>4, WriterParts, Sizes
  <2>3. /\ u \in Writers /\ u.col = 0 /\ u.screen = v.screen
        /\ u.gone = v.gone /\ u.deferred = v.deferred
    BY <1>1, <2>2, WriterParts DEF Writers
  <2>. HIDE DEF u
  <2>4. Written(w, u)
    BY <1>1, <2>3, Sizes DEF Written, Follows
  <2>. QED BY <1>1, <2>1, <2>3, <2>4
<1>. QED BY <1>3, <1>4

\* A printed byte goes to the cursor, on a new line if the row is full.
LEMMA PrintableWritten ==
    ASSUME NEW w \in Writers, w.col <= Width
    PROVE  /\ Written(w, Printable(w))
           /\ w.col < Width => Printable(w).gone = w.gone /\ Printable(w).col = w.col + 1
           /\ w.col >= Width => /\ Printable(w).col = 1
                                /\ \/ Printable(w).gone = w.gone
                                   \/ Len(Printable(w).gone) = Len(w.gone) + 1
<1>. DEFINE v == IF w.col >= Width THEN newline(w) ELSE w
            u == [v EXCEPT !.screen[v.row][v.col] = "x", !.col = @ + 1]
<1>1. Printable(w) = u
  BY DEF Printable
<1>2. /\ v \in Writers /\ v.col < Width /\ Follows(w, v)
      /\ w.col < Width => v.gone = w.gone /\ v.col = w.col
      /\ w.col >= Width => v.col = 0 /\ (v.gone = w.gone \/ Len(v.gone) = Len(w.gone) + 1)
  <2>1. CASE w.col >= Width
    BY <2>1, NewlineWritten, WriterParts, Sizes DEF Written
  <2>2. CASE ~(w.col >= Width)
    BY <2>2, WriterParts, Sizes DEF Follows
  <2>. QED BY <2>1, <2>2
<1>. HIDE DEF v
<1>. DEFINE drawn == [v.screen EXCEPT ![v.row][v.col] = "x"]
<1>3. drawn \in Screens /\ drawn[StatusRow] = v.screen[StatusRow]
  <2>1. v.screen \in Screens /\ v.row \in Rows /\ v.col \in Columns
    <3>1. v.col \in Nat /\ v.screen \in Screens /\ v.row \in Rows
      BY <1>2, WriterParts
    <3>. QED BY <1>2, <3>1, Sizes DEF Columns
  <2>2. "x" \in Cells /\ v.row # StatusRow /\ StatusRow \notin Rows
    BY <2>1, Sizes DEF Cells
  <2>3. PICK q \in Line : q = [v.screen[v.row] EXCEPT ![v.col] = "x"]
    BY <2>1, <2>2 DEF Screens, Line
  <2>4. drawn = [v.screen EXCEPT ![v.row] = q]
    BY <2>1, <2>3 DEF Screens
  <2>. QED BY <2>1, <2>2, <2>4 DEF Screens
<1>4. u = [v EXCEPT !.screen = drawn, !.col = v.col + 1]
  BY <1>2, WriterParts
<1>. HIDE DEF u, drawn
<1>5. /\ u \in Writers /\ u.screen = drawn /\ u.col = v.col + 1
      /\ u.gone = v.gone /\ u.deferred = v.deferred
  <2>1. v.col + 1 \in Nat
    BY <1>2, WriterParts
  <2>. QED BY <1>2, <1>3, <1>4, <2>1 DEF Writers
<1>6. Follows(v, u)
  BY <1>3, <1>5 DEF Follows
<1>7. Follows(w, u)
  BY <1>2, <1>5, <1>6, FollowsTransitive
<1>8. u.col <= Width
  BY <1>2, <1>5, WriterParts, Sizes
<1>9. /\ w.col < Width => u.gone = w.gone /\ u.col = w.col + 1
      /\ w.col >= Width => u.col = 1 /\ (u.gone = w.gone \/ Len(u.gone) = Len(w.gone) + 1)
  BY <1>2, <1>5
<1>. QED BY <1>1, <1>5, <1>7, <1>8, <1>9 DEF Written

\* A tab moves to the next stop, on a new line if that is beyond the row.
LEMMA TabWritten ==
    ASSUME NEW w \in Writers
    PROVE  /\ Written(w, Tab(w))
           /\ Tab(w).gone = w.gone \/ Len(Tab(w).gone) = Len(w.gone) + 1
<1>1. PICK c \in Nat : c = ((w.col + TabStop) \div TabStop) * TabStop
  <2>1. PICK d \in Nat : d = (w.col + TabStop) \div TabStop
    BY WriterParts, Sizes
  <2>2. d * TabStop \in Nat
    BY Sizes
  <2>. QED BY <2>1, <2>2
<1>. DEFINE v == [w EXCEPT !.col = c]
<1>2. /\ v \in Writers /\ v.col = c /\ v.screen = w.screen
      /\ v.gone = w.gone /\ v.deferred = w.deferred
  BY WriterParts DEF Writers
<1>3. Tab(w) = IF v.col >= Width THEN newline(v) ELSE v
  <2>1. v = [w EXCEPT !.col = ((@ + TabStop) \div TabStop) * TabStop]
    BY <1>1
  <2>. QED BY <2>1, Zenon DEF Tab
<1>. HIDE DEF v
<1>4. Follows(w, v)
  BY <1>2 DEF Follows
<1>5. CASE v.col >= Width
  <2>1. Tab(w) = newline(v) /\ Written(v, newline(v))
    BY <1>2, <1>3, <1>5, NewlineWritten
  <2>2. newline(v).gone = w.gone \/ Len(newline(v).gone) = Len(w.gone) + 1
    BY <1>2, NewlineWritten
  <2>3. Written(w, newline(v))
    BY <1>2, <1>4, <2>1, FollowsTransitive DEF Written
  <2>. QED BY <2>1, <2>2, <2>3
<1>6. CASE ~(v.col >= Width)
  <2>1. Tab(w) = v /\ v.col <= Width
    BY <1>2, <1>3, <1>6, Sizes
  <2>. QED BY <1>2, <1>4, <2>1 DEF Written
<1>. QED BY <1>5, <1>6

Chars == {"x", "nl", "cr", "tab"}

\* Every byte: the screen scrolls at most once.
LEMMA ByteWritten ==
    ASSUME NEW w \in Writers, w.col <= Width, NEW b \in Chars
    PROVE  /\ Written(w, write_byte(w, b))
           /\ \/ write_byte(w, b).gone = w.gone
              \/ Len(write_byte(w, b).gone) = Len(w.gone) + 1
           /\ b \in {"x", "cr"} =>
                /\ w.col < Width => /\ write_byte(w, b).gone = w.gone
                                    /\ write_byte(w, b).col <= w.col + 1
                /\ w.col >= Width => write_byte(w, b).col <= 1 \/ write_byte(w, b).gone = w.gone
<1>0. w.col \in Nat
  BY WriterParts
<1>1. CASE b = "nl"
  <2>1. write_byte(w, b) = newline(w)
    BY <1>1 DEF write_byte
  <2>. QED BY <1>1, <2>1, NewlineWritten
<1>2. CASE b = "cr"
  <2>. DEFINE v == [w EXCEPT !.col = 0]
  <2>1. write_byte(w, b) = v
    BY <1>2 DEF write_byte
  <2>2. /\ v \in Writers /\ v.col = 0 /\ v.screen = w.screen
        /\ v.gone = w.gone /\ v.deferred = w.deferred
    BY WriterParts DEF Writers
  <2>. HIDE DEF v
  <2>3. Written(w, v)
    BY <2>2, Sizes DEF Written, Follows
  <2>. QED BY <1>0, <2>1, <2>2, <2>3
<1>3. CASE b = "tab"
  <2>1. write_byte(w, b) = Tab(w)
    BY <1>3 DEF write_byte
  <2>. QED BY <1>3, <2>1, TabWritten
<1>4. CASE b = "x"
  <2>1. write_byte(w, b) = Printable(w)
    BY <1>4 DEF write_byte
  <2>2. /\ Written(w, Printable(w))
        /\ w.col < Width => Printable(w).gone = w.gone /\ Printable(w).col = w.col + 1
        /\ w.col >= Width => /\ Printable(w).col = 1
                             /\ \/ Printable(w).gone = w.gone
                                \/ Len(Printable(w).gone) = Len(w.gone) + 1
    BY PrintableWritten
  <2>. QED BY <1>0, <1>4, <2>1, <2>2, Sizes
<1>. QED BY <1>1, <1>2, <1>3, <1>4 DEF Chars

\* What the function inside write_str must satisfy on its first n + 1 arguments.
RunIs(f, w, s, n) ==
    f = [k \in 0 .. n |-> IF k = 0 THEN w ELSE write_byte(f[k - 1], s[k])]

\* A non-empty set of natural numbers has a least element.
LEMMA LeastElement ==
    ASSUME NEW T \in SUBSET Nat, T # {}
    PROVE  \E m \in T : \A y \in T : m <= y
<1>. DEFINE LT == {ss \in Nat \X Nat : ss[1] < ss[2]}
<1>1. IsWellFoundedOn(LT, Nat)
  BY NatLessThanWellFounded DEF OpToRel
<1>2. PICK m \in T : \A y \in T : ~(<<y, m>> \in LT)
  <2>. HIDE DEF LT
  <2>. QED BY <1>1, WFMin
<1>3. ASSUME NEW y \in T  PROVE  m <= y
  <2>1. y \in Nat /\ m \in Nat
    OBVIOUS
  <2>2. y < m => <<y, m>> \in LT
    BY <2>1
  <2>. QED BY <1>2, <2>1, <2>2
<1>. QED BY <1>3

\* Such a function exists for every n, by induction on n.
LEMMA RunExists ==
    ASSUME NEW w, NEW s, NEW n \in Nat
    PROVE  \E f : RunIs(f, w, s, n)
<1>. DEFINE T == {m \in Nat : ~\E f : RunIs(f, w, s, m)}
<1>1. SUFFICES ASSUME n \in T  PROVE FALSE
  OBVIOUS
<1>2. T \in SUBSET Nat /\ T # {}
  BY <1>1
<1>3. PICK m \in T : \A y \in T : m <= y
  <2>. HIDE DEF T
  <2>. QED BY <1>2, LeastElement
<1>4. m \in Nat /\ ~\E f : RunIs(f, w, s, m)
  OBVIOUS
<1>5. CASE m = 0
  <2>. DEFINE g == [k \in 0 .. 0 |-> w]
  <2>1. g = [k \in 0 .. 0 |-> IF k = 0 THEN w ELSE write_byte(g[k - 1], s[k])]
    <3>1. ASSUME NEW k \in 0 .. 0  PROVE k = 0
      OBVIOUS
    <3>. QED BY <3>1
  <2>. HIDE DEF g
  <2>. QED BY <1>4, <1>5, <2>1 DEF RunIs
<1>6. CASE m # 0
  <2>1. m - 1 \in Nat /\ m - 1 \notin T
    BY <1>3, <1>4, <1>6
  <2>2. PICK f : RunIs(f, w, s, m - 1)
    BY <2>1
  <2>. DEFINE next(g, k) == IF k = 0 THEN w ELSE write_byte(g[k - 1], s[k])
              longer == [k \in 0 .. m |-> IF k = m THEN next(f, m) ELSE f[k]]
  <2>3. ASSUME NEW k \in 0 .. m  PROVE next(longer, k) = next(f, k)
    <3>1. CASE k = 0
      BY <3>1
    <3>2. CASE k # 0
      <4>1. k - 1 \in 0 .. m /\ k - 1 # m
        BY <1>4, <3>2
      <4>2. longer[k - 1] = f[k - 1]
        BY <4>1
      <4>. HIDE DEF longer
      <4>. QED BY <3>2, <4>2
    <3>. QED BY <3>1, <3>2
  <2>4. ASSUME NEW k \in 0 .. m  PROVE longer[k] = next(longer, k)
    <3>1. CASE k = m
      BY <2>3, <3>1
    <3>2. CASE k # m
      <4>1. k \in 0 .. m - 1 /\ longer[k] = f[k]
        BY <1>4, <3>2
      <4>2. f[k] = next(f, k)
        BY <2>2, <4>1 DEF RunIs
      <4>. HIDE DEF longer, next
      <4>. QED BY <2>3, <4>1, <4>2
    <3>. QED BY <3>1, <3>2
  <2>5. longer = [k \in 0 .. m |-> longer[k]]
    OBVIOUS
  <2>. HIDE DEF longer
  <2>6. longer = [k \in 0 .. m |-> next(longer, k)]
    BY <2>4, <2>5
  <2>7. RunIs(longer, w, s, m)
    BY <2>6 DEF RunIs
  <2>. QED BY <1>4, <2>7
<1>. QED BY <1>5, <1>6

\* write_str writes the bytes one after the other.
LEMMA WriteStrRuns ==
    ASSUME NEW w, NEW s, Len(s) \in Nat
    PROVE  \E f : /\ f[0] = w /\ f[Len(s)] = write_str(w, s)
                  /\ \A k \in 1 .. Len(s) : f[k] = write_byte(f[k - 1], s[k])
<1>. DEFINE f == CHOOSE g : RunIs(g, w, s, Len(s))
<1>1. write_str(w, s) = f[Len(s)]
  BY DEF write_str, RunIs
<1>2. RunIs(f, w, s, Len(s))
  <2>1. \E g : RunIs(g, w, s, Len(s))
    BY RunExists
  <2>. QED BY <2>1
<1>. HIDE DEF f
<1>3. ASSUME NEW k \in 0 .. Len(s)
      PROVE  f[k] = IF k = 0 THEN w ELSE write_byte(f[k - 1], s[k])
  BY <1>2 DEF RunIs
<1>4. f[0] = w
  BY <1>3
<1>5. ASSUME NEW k \in 1 .. Len(s)  PROVE f[k] = write_byte(f[k - 1], s[k])
  BY <1>3
<1>. QED BY <1>1, <1>4, <1>5

\* A text that fits a line: a single byte, or no more than a row of bytes that
\* neither break the line nor jump ahead.  println prints its text and then
\* its newline in calls of their own.
FitsALine(s) ==
    Len(s) <= 1 \/ (Len(s) <= Width /\ \A k \in 1 .. Len(s) : s[k] \in {"x", "cr"})

\* Every text: by induction on its bytes, the writer keeps off the status bar,
\* and a text that fits a line scrolls the screen at most once.
LEMMA TextWritten ==
    ASSUME NEW w \in Writers, w.col <= Width, NEW s \in Seq(Chars)
    PROVE  /\ Written(w, write_str(w, s))
           /\ FitsALine(s) => \/ write_str(w, s).gone = w.gone
                              \/ Len(write_str(w, s).gone) = Len(w.gone) + 1
<1>1. Len(s) \in Nat /\ \A k \in 1 .. Len(s) : s[k] \in Chars
  BY DEF Chars
<1>2. PICK f : /\ f[0] = w /\ f[Len(s)] = write_str(w, s)
               /\ \A k \in 1 .. Len(s) : f[k] = write_byte(f[k - 1], s[k])
  BY <1>1, WriteStrRuns
<1>3. w.col \in Nat /\ Len(w.gone) \in Nat /\ Width \in Nat
  BY WriterParts, Sizes
<1>4. Written(w, w)
  BY DEF Written, Follows
<1>5. ASSUME NEW m \in 0 .. Len(s)  PROVE Written(w, f[m])
  <2>. DEFINE T == {k \in 0 .. Len(s) : ~Written(w, f[k])}
  <2>1. SUFFICES ASSUME m \in T  PROVE FALSE
    OBVIOUS
  <2>2. T \in SUBSET Nat /\ T # {}
    BY <1>1, <2>1
  <2>3. PICK k \in T : \A y \in T : k <= y
    <3>. HIDE DEF T
    <3>. QED BY <2>2, LeastElement
  <2>4. k \in 0 .. Len(s) /\ ~Written(w, f[k]) /\ k # 0
    BY <1>2, <1>4
  <2>5. k \in 1 .. Len(s) /\ k - 1 \in 0 .. Len(s) /\ k - 1 \notin T
    BY <1>1, <2>3, <2>4
  <2>6. Written(w, f[k - 1])
    BY <2>5
  <2>7. Written(f[k - 1], write_byte(f[k - 1], s[k]))
    BY <1>1, <2>5, <2>6, ByteWritten DEF Written
  <2>8. Written(w, write_byte(f[k - 1], s[k]))
    BY <2>6, <2>7, FollowsTransitive DEF Written
  <2>. QED BY <1>2, <2>4, <2>5, <2>8
<1>6. Written(w, write_str(w, s))
  BY <1>1, <1>2, <1>5
<1>7. ASSUME Len(s) <= 1
      PROVE  write_str(w, s).gone = w.gone \/ Len(write_str(w, s).gone) = Len(w.gone) + 1
  <2>1. CASE Len(s) = 0
    BY <1>2, <2>1
  <2>2. CASE Len(s) = 1
    <3>1. 1 \in 1 .. Len(s) /\ s[1] \in Chars
      BY <1>1, <2>2
    <3>2. write_str(w, s) = write_byte(w, s[1])
      BY <1>2, <2>2, <3>1
    <3>. QED BY <3>1, <3>2, ByteWritten
  <2>3. Len(s) = 0 \/ Len(s) = 1
    BY <1>1, <1>7
  <2>. QED BY <2>1, <2>2, <2>3
<1>8. ASSUME Len(s) <= Width, \A k \in 1 .. Len(s) : s[k] \in {"x", "cr"}
      PROVE  write_str(w, s).gone = w.gone \/ Len(write_str(w, s).gone) = Len(w.gone) + 1
  <2>. DEFINE Once(k) == \/ f[k].gone = w.gone
                         \/ Len(f[k].gone) = Len(w.gone) + 1 /\ f[k].col <= k
  <2>1. ASSUME NEW m \in 0 .. Len(s)  PROVE Once(m)
    <3>. DEFINE T == {k \in 0 .. Len(s) : ~Once(k)}
    <3>1. SUFFICES ASSUME m \in T  PROVE FALSE
      OBVIOUS
    <3>2. T \in SUBSET Nat /\ T # {}
      BY <1>1, <3>1
    <3>3. PICK k \in T : \A y \in T : k <= y
      <4>. HIDE DEF T
      <4>. QED BY <3>2, LeastElement
    <3>4. k \in 0 .. Len(s) /\ ~Once(k) /\ k # 0
      BY <1>2
    <3>5. k \in 1 .. Len(s) /\ k - 1 \in 0 .. Len(s) /\ k - 1 \notin T
      BY <1>1, <3>3, <3>4
    <3>6. Once(k - 1)
      BY <3>5
    <3>7. PICK u : u = f[k - 1]
      OBVIOUS
    <3>8. PICK v : v = f[k]
      OBVIOUS
    <3>9. u \in Writers /\ u.col <= Width /\ v = write_byte(u, s[k]) /\ s[k] \in {"x", "cr"}
      BY <1>2, <1>5, <1>8, <3>5, <3>7, <3>8 DEF Written
    <3>10. /\ v.gone = u.gone \/ Len(v.gone) = Len(u.gone) + 1
           /\ u.col < Width => v.gone = u.gone /\ v.col <= u.col + 1
           /\ u.col >= Width => v.col <= 1 \/ v.gone = u.gone
      BY <3>9, ByteWritten DEF Chars
    <3>11. v \in Writers
      BY <1>5, <3>4, <3>8 DEF Written
    <3>12. u.col \in Nat /\ v.col \in Nat /\ Len(u.gone) \in Nat /\ Len(v.gone) \in Nat
      BY <3>9, <3>11, WriterParts
    <3>13. u.gone = w.gone \/ (Len(u.gone) = Len(w.gone) + 1 /\ u.col <= k - 1)
      BY <3>6, <3>7
    <3>14. v.gone = w.gone \/ (Len(v.gone) = Len(w.gone) + 1 /\ v.col <= k)
      <4>1. k \in Nat /\ k >= 1 /\ k <= Width
        BY <1>1, <1>3, <1>8, <3>5
      <4>2. CASE u.gone = w.gone /\ u.col >= Width
        BY <3>10, <3>12, <4>1, <4>2
      <4>3. CASE u.gone = w.gone /\ u.col < Width
        BY <3>10, <4>3
      <4>4. CASE Len(u.gone) = Len(w.gone) + 1 /\ u.col <= k - 1
        <5>1. u.col < Width
          BY <1>3, <3>12, <4>1, <4>4
        <5>2. v.gone = u.gone /\ v.col <= u.col + 1
          BY <3>10, <5>1
        <5>3. v.col <= k
          BY <3>12, <4>1, <4>4, <5>2
        <5>. QED BY <4>4, <5>2, <5>3
      <4>5. u.col >= Width \/ u.col < Width
        BY <1>3, <3>12
      <4>. QED BY <3>13, <4>2, <4>3, <4>4, <4>5
    <3>. QED BY <3>4, <3>8, <3>14
  <2>2. Once(Len(s))
    BY <1>1, <2>1
  <2>. QED BY <1>2, <2>2
<1>. QED BY <1>6, <1>7, <1>8 DEF FitsALine

-----------------------------------------------------------------------------
(***************************************************************************)
(* The calls.  Every call but the two that scroll the view ends with a     *)
(* writer that follows the one it began with, and commits it.              *)
(***************************************************************************)

\* The calls that end with commit_scrollback.
Calls ==
    \/ \E text \in Texts : write_fmt(text)
    \/ clear_screen
    \/ \E r \in 0 .. ContentRows, c \in 0 .. Width : set_cursor(r, c)
    \/ \E r \in 0 .. ContentRows, c \in 0 .. Width, n \in 1 .. Width : write_at(r, c, n)
    \/ \E r \in 0 .. ContentRows : clear_line(r)
    \/ backspace

\* The state's writer.
LEMMA WriterNow ==
    ASSUME VgaTypeOK
    PROVE  /\ W \in Writers /\ W.col <= Width
           /\ W.screen = screen /\ W.row = row /\ W.col = col
           /\ W.deferred = deferred /\ W.gone = gone
  BY Sizes DEF VgaTypeOK, W, Writers, Screens, Pending

\* A row limited to the text is a row of the text.
LEMMA RowLimited ==
    ASSUME NEW r \in Nat
    PROVE  AtMost(r, ContentRows - 1) \in Rows
  BY Sizes DEF AtMost

\* The writer with other cells and another cursor.
Redrawn(w, s, r, c) == [w EXCEPT !.screen = s, !.row = r, !.col = c]

\* A call that changes cells of the text, and the cursor within it, writes no more
\* than that.
LEMMA CellsWritten ==
    ASSUME NEW w \in Writers, NEW s \in Screens, NEW r \in Rows, NEW c \in 0 .. Width,
           s[StatusRow] = w.screen[StatusRow]
    PROVE  Written(w, Redrawn(w, s, r, c)) /\ Redrawn(w, s, r, c).gone = w.gone
<1>. DEFINE v == Redrawn(w, s, r, c)
<1>0. c \in Nat /\ c <= Width
  BY Sizes
<1>1. /\ v \in Writers /\ v.screen = s /\ v.row = r /\ v.col = c
      /\ v.deferred = w.deferred /\ v.gone = w.gone
  BY <1>0 DEF Writers, Redrawn
<1>. HIDE DEF v
<1>2. Written(w, v)
  BY <1>0, <1>1 DEF Written, Follows
<1>. QED BY <1>1, <1>2 DEF v

\* Every call ends with a writer that follows the one it began with; if the texts
\* fit a line, at most one more row has scrolled off.
LEMMA CallWrites ==
    ASSUME VgaTypeOK, Calls
    PROVE  \E v : /\ Written(W, v) /\ commit_scrollback(v) /\ UNCHANGED status
                  /\ (\A s \in Texts : FitsALine(s)) =>
                        v.gone = gone \/ Len(v.gone) = Len(gone) + 1
<1>1. /\ W \in Writers /\ W.col <= Width /\ W.screen = screen /\ W.row = row
      /\ W.col = col /\ W.deferred = deferred /\ W.gone = gone
  BY WriterNow
<1>2. /\ screen \in Screens /\ row \in Rows /\ col \in 0 .. Width
      /\ DOMAIN screen = Rows \cup {StatusRow}
  BY DEF VgaTypeOK, Screens
<1>3. ASSUME NEW s \in Screens, NEW r \in Rows, NEW c \in 0 .. Width,
             s[StatusRow] = screen[StatusRow],
             commit_scrollback(Redrawn(W, s, r, c)), UNCHANGED status
      PROVE  \E v : Written(W, v) /\ commit_scrollback(v) /\ UNCHANGED status /\ v.gone = gone
  <2>1. Written(W, Redrawn(W, s, r, c)) /\ Redrawn(W, s, r, c).gone = gone
    BY <1>1, <1>3, CellsWritten
  <2>. QED BY <1>3, <2>1
<1>4. ASSUME NEW r \in Rows, NEW l \in Line
      PROVE  /\ [screen EXCEPT ![r] = l] \in Screens
             /\ [screen EXCEPT ![r] = l][StatusRow] = screen[StatusRow]
  BY <1>2, Sizes DEF Screens
<1>5. ASSUME NEW text \in Texts, write_fmt(text)
      PROVE  \E v : /\ Written(W, v) /\ commit_scrollback(v) /\ UNCHANGED status
                    /\ FitsALine(text) => v.gone = gone \/ Len(v.gone) = Len(gone) + 1
  <2>1. text \in Seq(Chars)
    BY VgaAssumption DEF Chars
  <2>2. commit_scrollback(write_str(W, text)) /\ UNCHANGED status
    BY <1>5 DEF write_fmt
  <2>3. Written(W, write_str(W, text))
    BY <1>1, <2>1, TextWritten
  <2>4. FitsALine(text) => \/ write_str(W, text).gone = gone
                           \/ Len(write_str(W, text).gone) = Len(gone) + 1
    BY <1>1, <2>1, TextWritten
  <2>. QED BY <2>2, <2>3, <2>4
<1>6. CASE clear_screen
  <2>. DEFINE s == [r \in DOMAIN screen |-> IF r \in Rows THEN Blank ELSE screen[r]]
  <2>1. s \in Screens /\ s[StatusRow] = screen[StatusRow]
    BY <1>2, BlankIsLine, Sizes DEF Screens
  <2>2. commit_scrollback(Redrawn(W, s, 0, 0)) /\ UNCHANGED status
    BY <1>6 DEF clear_screen, Redrawn
  <2>. HIDE DEF s
  <2>3. 0 \in 0 .. Width
    BY Sizes
  <2>4. \E v : Written(W, v) /\ commit_scrollback(v) /\ UNCHANGED status /\ v.gone = gone
    BY <1>3, <2>1, <2>2, <2>3, Sizes
  <2>. QED BY <2>4
<1>7. ASSUME NEW r \in 0 .. ContentRows, NEW c \in 0 .. Width, set_cursor(r, c)
      PROVE  \E v : Written(W, v) /\ commit_scrollback(v) /\ UNCHANGED status /\ v.gone = gone
  <2>1. PICK q : q = AtMost(r, ContentRows - 1)
    OBVIOUS
  <2>2. PICK d : d = AtMost(c, Width - 1)
    OBVIOUS
  <2>3. q \in Rows /\ d \in 0 .. Width
    <3>1. r \in Nat /\ c \in Nat
      BY Sizes
    <3>. QED BY <2>1, <2>2, <3>1, RowLimited, Sizes DEF AtMost
  <2>4. commit_scrollback([W EXCEPT !.row = q, !.col = d]) /\ UNCHANGED status
    BY <1>7, <2>1, <2>2 DEF set_cursor
  <2>5. [W EXCEPT !.row = q, !.col = d] = Redrawn(W, screen, q, d)
    BY <1>1 DEF Writers, Redrawn
  <2>. QED BY <1>2, <1>3, <2>3, <2>4, <2>5
<1>8. ASSUME NEW r \in 0 .. ContentRows, NEW c \in 0 .. Width, NEW n \in 1 .. Width,
             write_at(r, c, n)
      PROVE  \E v : Written(W, v) /\ commit_scrollback(v) /\ UNCHANGED status /\ v.gone = gone
  <2>1. PICK q \in Rows : q = AtMost(r, ContentRows - 1)
    BY RowLimited, Sizes
  <2>2. PICK l : l = [k \in Columns |-> IF k \in c .. c + n - 1 THEN "x" ELSE screen[q][k]]
    OBVIOUS
  <2>3. l \in Line
    BY <1>2, <2>2 DEF Screens, Line, Cells
  <2>4. commit_scrollback([W EXCEPT !.screen[q] = l]) /\ UNCHANGED status
    BY <1>1, <1>8, <2>1, <2>2 DEF write_at
  <2>5. [W EXCEPT !.screen[q] = l] = Redrawn(W, [screen EXCEPT ![q] = l], row, col)
    BY <1>1 DEF Writers, Redrawn
  <2>6. PICK s \in Screens : s = [screen EXCEPT ![q] = l] /\ s[StatusRow] = screen[StatusRow]
    BY <1>4, <2>3
  <2>7. commit_scrollback(Redrawn(W, s, row, col))
    BY <2>4, <2>5, <2>6
  <2>. QED BY <1>2, <1>3, <2>4, <2>6, <2>7
<1>9. ASSUME NEW r \in 0 .. ContentRows, clear_line(r)
      PROVE  \E v : Written(W, v) /\ commit_scrollback(v) /\ UNCHANGED status /\ v.gone = gone
  <2>1. PICK q \in Rows : q = AtMost(r, ContentRows - 1)
    BY RowLimited, Sizes
  <2>2. PICK l \in Line : l = Blank
    BY BlankIsLine
  <2>4. commit_scrollback([W EXCEPT !.screen[q] = l]) /\ UNCHANGED status
    BY <1>9, <2>1, <2>2 DEF clear_line
  <2>5. [W EXCEPT !.screen[q] = l] = Redrawn(W, [screen EXCEPT ![q] = l], row, col)
    BY <1>1 DEF Writers, Redrawn
  <2>6. PICK s \in Screens : s = [screen EXCEPT ![q] = l] /\ s[StatusRow] = screen[StatusRow]
    BY <1>4
  <2>7. commit_scrollback(Redrawn(W, s, row, col))
    BY <2>4, <2>5, <2>6
  <2>. QED BY <1>2, <1>3, <2>4, <2>6, <2>7
<1>10. CASE backspace
  <2>. DEFINE Erase(w) == [w EXCEPT !.screen[w.row][w.col] = " "]
  <2>1. ASSUME NEW q \in Rows, NEW d \in Columns, NEW v,
               v = Erase([W EXCEPT !.row = q, !.col = d]), commit_scrollback(v)
        PROVE  \E u : Written(W, u) /\ commit_scrollback(u) /\ UNCHANGED status /\ u.gone = gone
    <3>1. PICK l \in Line : l = [screen[q] EXCEPT ![d] = " "]
      BY <1>2 DEF Screens, Line, Cells
    <3>2. PICK s \in Screens : s = [screen EXCEPT ![q] = l] /\ s[StatusRow] = screen[StatusRow]
      BY <1>4
    <3>3. v = Redrawn(W, s, q, d)
      <4>1. PICK w : w = [W EXCEPT !.row = q, !.col = d]
        OBVIOUS
      <4>0. d \in Nat
        BY Sizes DEF Columns
      <4>2. w \in Writers /\ w.row = q /\ w.col = d /\ w.screen = screen
        BY <1>1, <4>0, <4>1 DEF Writers
      <4>3. v = [w EXCEPT !.screen[q][d] = " "]
        BY <2>1, <4>1, <4>2
      <4>4. v = [w EXCEPT !.screen = s]
        BY <1>2, <3>1, <3>2, <4>2, <4>3
      <4>. QED BY <1>1, <4>1, <4>4 DEF Writers, Redrawn
    <3>4. d \in 0 .. Width /\ UNCHANGED status
      BY <1>10, Sizes DEF Columns, backspace
    <3>5. commit_scrollback(Redrawn(W, s, q, d))
      BY <2>1, <3>3
    <3>. QED BY <1>3, <3>2, <3>4, <3>5
  <2>2. CASE col > 0
    <3>1. col - 1 \in Columns
      BY <1>2, <2>2, Sizes DEF Columns
    <3>2. commit_scrollback(Erase([W EXCEPT !.row = row, !.col = col - 1]))
      <4>1. [W EXCEPT !.row = row, !.col = col - 1] = [W EXCEPT !.col = @ - 1]
        BY <1>1 DEF Writers
      <4>. QED BY <1>10, <2>2, <4>1 DEF backspace
    <3>. HIDE DEF Erase
    <3>. QED BY <1>2, <2>1, <3>1, <3>2
  <2>3. CASE ~(col > 0) /\ row > 0
    <3>1. row - 1 \in Rows /\ Width - 1 \in Columns
      BY <1>2, <2>3, Sizes DEF Columns
    <3>2. commit_scrollback(Erase([W EXCEPT !.row = row - 1, !.col = Width - 1]))
      <4>1. [W EXCEPT !.row = row - 1, !.col = Width - 1]
              = [W EXCEPT !.row = @ - 1, !.col = Width - 1]
        BY <1>1 DEF Writers
      <4>. QED BY <1>10, <2>3, <4>1 DEF backspace
    <3>. HIDE DEF Erase
    <3>. QED BY <2>1, <3>1, <3>2
  <2>4. CASE ~(col > 0) /\ ~(row > 0)
    <3>1. commit_scrollback(W) /\ UNCHANGED status
      BY <1>10, <2>4 DEF backspace
    <3>2. Written(W, W)
      BY <1>1 DEF Written, Follows
    <3>. QED BY <1>1, <3>1, <3>2
  <2>. QED BY <2>2, <2>3, <2>4
<1>. QED BY <1>5, <1>6, <1>7, <1>8, <1>9, <1>10 DEF Calls

-----------------------------------------------------------------------------
(***************************************************************************)
(* The scrollback ring.                                                    *)
(***************************************************************************)

\* Two lines less than the ring's size apart have different places in it.
LEMMA RingApart ==
    ASSUME NEW n \in Nat, NEW k \in Nat, k < n, k > n - ScrollbackLines
    PROVE  k % ScrollbackLines # n % ScrollbackLines
<1>. PICK S \in Nat : S = ScrollbackLines /\ S > 0
  BY Sizes
<1>1. PICK a \in Int : a = k \div S
  OBVIOUS
<1>2. PICK b \in Int : b = n \div S
  OBVIOUS
<1>3. PICK p \in Int : p = k % S
  OBVIOUS
<1>4. PICK q \in Int : q = n % S
  OBVIOUS
<1>5. k = S * a + p /\ n = S * b + q
  BY <1>1, <1>2, <1>3, <1>4
<1>6. SUFFICES ASSUME p = q  PROVE FALSE
  BY <1>3, <1>4
<1>7. PICK d \in Int : d = b - a
  OBVIOUS
<1>8. S * d = n - k
  BY <1>5, <1>6, <1>7
<1>9. CASE d <= 0
  <2>1. S * d <= 0
    BY <1>9
  <2>. QED BY <1>8, <2>1
<1>10. CASE d >= 1
  <2>1. S * d >= S
    BY <1>10
  <2>. QED BY <1>8, <2>1
<1>. QED BY <1>9, <1>10

\* Every place of the ring is one of its slots.
LEMMA RingPlace ==
    ASSUME NEW k \in Nat
    PROVE  k % ScrollbackLines \in 0 .. ScrollbackLines - 1
  BY Sizes

\* The end of a call: either no row waits and the scrollback is as before, or
\* the last row that scrolled off becomes its newest line.
LEMMA Committed ==
    ASSUME VgaTypeOK, deferred = <<>>, NEW v, Written(W, v), commit_scrollback(v),
           UNCHANGED status
    PROVE  /\ VgaTypeOK' /\ deferred' = <<>>
           /\ StatusBarKept => StatusBarKept'
           /\ gone' = v.gone
           /\ \/ UNCHANGED <<lines, current_line, gone>>
              \/ /\ Len(gone') > Len(gone) /\ current_line' = current_line + 1
                 /\ \A k \in 1 .. Len(gone) : gone'[k] = gone[k]
                 /\ lines' = [lines EXCEPT ![current_line % ScrollbackLines] = gone'[Len(gone')]]
<1>1. /\ v \in Writers /\ v.col <= Width /\ Follows(W, v)
      /\ v.screen \in Screens /\ v.row \in Rows /\ v.col \in Nat
      /\ v.deferred \in Pending /\ v.gone \in Seq(Line)
  BY WriterParts DEF Written
<1>2. W.screen = screen /\ W.deferred = deferred /\ W.gone = gone
  BY WriterNow
<1>3. screen' = v.screen /\ row' = v.row /\ col' = v.col /\ gone' = v.gone /\ deferred' = <<>>
  BY DEF commit_scrollback
<1>4. /\ screen' \in Screens /\ row' \in Rows /\ col' \in 0 .. Width /\ gone' \in Seq(Line)
      /\ deferred' \in Pending /\ status' \in Line
  BY <1>1, <1>3, Sizes DEF VgaTypeOK, Pending
<1>5. screen'[StatusRow] = screen[StatusRow]
  BY <1>1, <1>2, <1>3 DEF Follows
<1>6. StatusBarKept => StatusBarKept'
  BY <1>5 DEF StatusBarKept
<1>7. /\ lines \in [0 .. ScrollbackLines - 1 -> Line] /\ current_line \in Nat
      /\ scroll_offset \in 0 .. SaturatingSub(current_line, ContentRows)
  BY DEF VgaTypeOK
<1>8. CASE v.deferred = <<>>
  <2>1. UNCHANGED <<lines, current_line, scroll_offset>>
    BY <1>8 DEF commit_scrollback, scrollback
  <2>2. v.gone = gone
    BY <1>1, <1>2, <1>8 DEF Follows
  <2>3. VgaTypeOK'
    BY <1>4, <1>7, <2>1 DEF VgaTypeOK, Screens, Pending, Rows, StatusRow, SaturatingSub
  <2>. QED BY <1>3, <1>6, <2>1, <2>2, <2>3
<1>9. CASE v.deferred # <<>>
  <2>1. /\ Len(v.gone) > Len(gone) /\ v.deferred = <<v.gone[Len(v.gone)]>>
        /\ \A k \in 1 .. Len(gone) : v.gone[k] = gone[k]
    BY <1>1, <1>2, <1>9 DEF Follows
  <2>2. PICK l : l = v.gone[Len(v.gone)]
    OBVIOUS
  <2>3. l \in Line
    BY <1>1, <2>1, <2>2 DEF Pending
  <2>4. /\ lines' = [lines EXCEPT ![current_line % ScrollbackLines] = l]
        /\ current_line' = current_line + 1 /\ scroll_offset' = 0
    BY <1>9, <2>1, <2>2 DEF commit_scrollback, add_line
  <2>5. lines' \in [0 .. ScrollbackLines - 1 -> Line] /\ current_line' \in Nat
    <3>1. PICK z \in 0 .. ScrollbackLines - 1 : z = current_line % ScrollbackLines
      BY <1>7, RingPlace
    <3>. QED BY <1>7, <2>3, <2>4, <3>1
  <2>6. scroll_offset' \in 0 .. SaturatingSub(current_line', ContentRows)
    BY <2>4, <2>5, Sizes DEF SaturatingSub
  <2>7. VgaTypeOK'
    BY <1>4, <2>5, <2>6 DEF VgaTypeOK, Screens, Pending, Rows, StatusRow, SaturatingSub
  <2>. QED BY <1>3, <1>6, <2>1, <2>2, <2>4, <2>7
<1>. QED BY <1>8, <1>9

-----------------------------------------------------------------------------
(***************************************************************************)
(* Scrolling the view.                                                     *)
(***************************************************************************)

\* The line a row shows when the view is scrolled back.
LEMMA LineShown ==
    ASSUME VgaTypeOK, NEW offset \in 1 .. SaturatingSub(current_line, ContentRows), NEW r \in Rows
    PROVE  /\ current_line - ContentRows - offset + r \in 0 .. current_line - 1
           /\ get_line(offset, r)
                = <<lines[(current_line - ContentRows - offset + r) % ScrollbackLines]>>
           /\ lines[(current_line - ContentRows - offset + r) % ScrollbackLines] \in Line
<1>1. current_line \in Nat /\ lines \in [0 .. ScrollbackLines - 1 -> Line]
  BY DEF VgaTypeOK
<1>2. /\ offset \in Nat /\ offset >= 1 /\ r \in Nat /\ r < ContentRows
      /\ current_line >= ContentRows + offset
  BY <1>1, Sizes DEF SaturatingSub
<1>3. PICK k \in Nat : k = current_line - ContentRows - offset + r /\ k < current_line
  BY <1>1, <1>2, Sizes
<1>4. SaturatingSub(SaturatingSub(current_line, ContentRows), offset) + r = k
  BY <1>1, <1>2, <1>3, Sizes DEF SaturatingSub
<1>5. ~(current_line < ContentRows \/ k >= current_line)
  BY <1>1, <1>2, <1>3, Sizes
<1>6. get_line(offset, r) = <<lines[k % ScrollbackLines]>>
  BY <1>4, <1>5, Zenon DEF get_line
<1>7. lines[k % ScrollbackLines] \in Line
  BY <1>1, RingPlace
<1>. QED BY <1>1, <1>3, <1>6, <1>7

\* The writer after the view is redrawn, and the rows it shows.
LEMMA Redraws ==
    ASSUME VgaTypeOK, NEW offset \in 0 .. SaturatingSub(current_line, ContentRows)
    PROVE  LET w == redraw_from_scrollback(offset)
           IN  /\ w.screen \in Screens /\ w.row \in Rows /\ w.col \in 0 .. Width
               /\ w.screen[StatusRow] = screen[StatusRow]
               /\ offset > 0 => \A r \in Rows : w.screen[r]
                    = lines[(current_line - ContentRows - offset + r) % ScrollbackLines]
<1>1. /\ W \in Writers /\ W.col <= Width /\ W.screen = screen /\ W.row = row
      /\ W.col = col /\ W.deferred = deferred /\ W.gone = gone
  BY WriterNow
<1>2. /\ screen \in Screens /\ row \in Rows /\ col \in 0 .. Width
      /\ DOMAIN screen = Rows \cup {StatusRow}
  BY DEF VgaTypeOK, Screens
<1>3. CASE offset = 0
  BY <1>1, <1>2, <1>3 DEF redraw_from_scrollback
<1>4. CASE offset # 0
  <2>1. offset \in 1 .. SaturatingSub(current_line, ContentRows)
    <3>1. SaturatingSub(current_line, ContentRows) \in Nat
      BY Sizes DEF SaturatingSub, VgaTypeOK
    <3>. QED BY <1>4, <3>1
  <2>. DEFINE s == [r \in DOMAIN screen |->
                      IF r \in Rows /\ get_line(offset, r) # <<>>
                      THEN get_line(offset, r)[1] ELSE screen[r]]
  <2>2. ASSUME NEW r \in Rows
        PROVE  /\ s[r] = lines[(current_line - ContentRows - offset + r) % ScrollbackLines]
               /\ s[r] \in Line
    <3>1. PICK l \in Line :
            /\ l = lines[(current_line - ContentRows - offset + r) % ScrollbackLines]
            /\ get_line(offset, r) = <<l>>
      BY <2>1, LineShown
    <3>2. r \in DOMAIN screen /\ <<l>> # <<>> /\ <<l>>[1] = l
      BY <1>2
    <3>3. s[r] = IF r \in Rows /\ get_line(offset, r) # <<>>
                 THEN get_line(offset, r)[1] ELSE screen[r]
      BY <3>2, Zenon
    <3>. HIDE DEF s
    <3>4. s[r] = l
      BY <3>1, <3>2, <3>3
    <3>. QED BY <3>1, <3>4
  <2>3. s[StatusRow] = screen[StatusRow] /\ screen[StatusRow] \in Line
    BY <1>2, Sizes DEF Screens
  <2>4. s = [r \in Rows \cup {StatusRow} |-> s[r]]
    BY <1>2
  <2>5. redraw_from_scrollback(offset) = Redrawn(W, s, 0, 0)
    BY <1>4 DEF redraw_from_scrollback, Redrawn
  <2>. HIDE DEF s
  <2>6. s \in Screens
    BY <2>2, <2>3, <2>4 DEF Screens
  <2>7. Redrawn(W, s, 0, 0).screen = s /\ Redrawn(W, s, 0, 0).row = 0 /\ Redrawn(W, s, 0, 0).col = 0
    BY <1>1 DEF Redrawn, Writers
  <2>. QED BY <2>2, <2>3, <2>5, <2>6, <2>7, Sizes
<1>. QED BY <1>3, <1>4

\* A status text is a line.
LEMMA BarIsLine ==
    ASSUME NEW text \in {"", "s", "t"}
    PROVE  (IF text = "" THEN Blank ELSE [Blank EXCEPT ![0] = text]) \in Line
<1>1. Blank \in [Columns -> Cells] /\ {"s", "t"} \subseteq Cells
  BY BlankIsLine DEF Line, Cells
<1>. QED BY <1>1 DEF Line

\* The two calls that scroll the view move it within the lines there are, and
\* show the lines at its new place.
LEMMA ViewScrolls ==
    ASSUME VgaTypeOK, NEW n \in 1 .. ContentRows,
           scroll_display_up(n) \/ scroll_display_down(n)
    PROVE  /\ VgaTypeOK' /\ UNCHANGED <<deferred, gone, lines, current_line>>
           /\ StatusBarKept => StatusBarKept'
           /\ scroll_offset' \in 0 .. SaturatingSub(current_line, ContentRows)
           /\ scroll_offset' > 0 => \A r \in Rows : screen'[r]
                = lines[(current_line - ContentRows - scroll_offset' + r) % ScrollbackLines]
<1>0. current_line \in Nat
  BY DEF VgaTypeOK
<1>1. PICK most \in Nat : most = SaturatingSub(current_line, ContentRows)
  BY <1>0, Sizes DEF SaturatingSub
<1>2. scroll_offset \in 0 .. most /\ n \in Nat
  BY <1>1, Sizes DEF VgaTypeOK
<1>. DEFINE Shown(offset, w) ==
        /\ w.screen \in Screens /\ w.row \in Rows /\ w.col \in 0 .. Width
        /\ w.screen[StatusRow] = screen[StatusRow]
        /\ offset > 0 => \A r \in Rows : w.screen[r]
             = lines[(current_line - ContentRows - offset + r) % ScrollbackLines]
<1>3. ASSUME NEW offset \in 0 .. most
      PROVE  Shown(offset, redraw_from_scrollback(offset))
  BY <1>1, Redraws
<1>4. ASSUME NEW offset \in 0 .. most, NEW w, Shown(offset, w), ScrollTo(offset, w),
             \/ \E text \in {"", "s"} : StatusLine(w, text)
             \/ screen' = w.screen /\ UNCHANGED status
      PROVE  /\ VgaTypeOK' /\ UNCHANGED <<deferred, gone, lines, current_line>>
             /\ StatusBarKept => StatusBarKept'
             /\ scroll_offset' = offset
             /\ offset > 0 => \A r \in Rows : screen'[r]
                  = lines[(current_line - ContentRows - offset + r) % ScrollbackLines]
  <2>1. /\ scroll_offset' = offset /\ row' = w.row /\ col' = w.col
        /\ UNCHANGED <<deferred, gone, lines, current_line>>
    BY <1>4 DEF ScrollTo
  <2>2. /\ screen' \in Screens /\ status' \in Line
        /\ StatusBarKept => screen'[StatusRow] = status'
        /\ \A r \in Rows : screen'[r] = w.screen[r]
    <3>1. CASE screen' = w.screen /\ UNCHANGED status
      BY <1>4, <3>1 DEF VgaTypeOK, StatusBarKept
    <3>2. ASSUME NEW text \in {"", "s"}, StatusLine(w, text)
          PROVE  /\ screen' \in Screens /\ status' \in Line
                 /\ screen'[StatusRow] = status'
                 /\ \A r \in Rows : screen'[r] = w.screen[r]
      <4>1. PICK bar \in Line :
              bar = (IF text = "" THEN Blank ELSE [Blank EXCEPT ![0] = text])
        BY BarIsLine
      <4>2. screen' = [w.screen EXCEPT ![StatusRow] = bar] /\ status' = bar
        BY <3>2, <4>1 DEF StatusLine
      <4>. QED BY <1>4, <4>2, Sizes DEF Screens
    <3>. QED BY <1>4, <3>1, <3>2
  <2>3. VgaTypeOK'
    <3>1. row' \in Rows /\ col' \in 0 .. Width /\ scroll_offset' \in 0 .. most
      BY <1>4, <2>1
    <3>. QED BY <1>1, <2>1, <2>2, <3>1
         DEF VgaTypeOK, Screens, Rows, StatusRow, SaturatingSub
  <2>4. StatusBarKept => StatusBarKept'
    BY <2>2 DEF StatusBarKept, StatusRow
  <2>. QED BY <1>4, <2>1, <2>2, <2>3, <2>4
<1>. HIDE DEF Shown
<1>5. CASE scroll_display_up(n)
  <2>1. PICK offset : offset = AtMost(scroll_offset + n, most)
    OBVIOUS
  <2>2. offset \in 0 .. most
    BY <1>2, <2>1 DEF AtMost
  <2>3. PICK w : w = redraw_from_scrollback(offset)
    OBVIOUS
  <2>4. ScrollTo(offset, w)
        /\ IF offset > 0 THEN StatusLine(w, "s") ELSE screen' = w.screen /\ UNCHANGED status
    BY <1>1, <1>5, <2>1, <2>3 DEF scroll_display_up
  <2>5. \/ \E text \in {"", "s"} : StatusLine(w, text)
        \/ screen' = w.screen /\ UNCHANGED status
    BY <2>4
  <2>6. Shown(offset, w)
    BY <1>3, <2>2, <2>3
  <2>. QED BY <1>1, <1>4, <2>2, <2>4, <2>5, <2>6
<1>6. CASE scroll_display_down(n)
  <2>1. PICK offset : offset = SaturatingSub(scroll_offset, n)
    OBVIOUS
  <2>2. offset \in 0 .. most
    BY <1>2, <2>1 DEF SaturatingSub
  <2>3. PICK w : w = redraw_from_scrollback(offset)
    OBVIOUS
  <2>4. ScrollTo(offset, w) /\ StatusLine(w, IF offset = 0 THEN "" ELSE "s")
    BY <1>6, <2>1, <2>3 DEF scroll_display_down
  <2>5. \E text \in {"", "s"} : StatusLine(w, text)
    BY <2>4
  <2>6. Shown(offset, w)
    BY <1>3, <2>2, <2>3
  <2>. QED BY <1>1, <1>4, <2>2, <2>4, <2>5, <2>6
<1>. QED BY <1>5, <1>6

-----------------------------------------------------------------------------
(***************************************************************************)
(* The theorems.                                                           *)
(***************************************************************************)

\* The part of the invariant that holds whatever is printed: between calls no
\* row waits for the scrollback.
VgaInv == VgaTypeOK /\ deferred = <<>> /\ StatusBarKept

\* It holds at the start.
LEMMA VgaInvInit == VgaInit => VgaInv
<1>. SUFFICES ASSUME VgaInit  PROVE VgaInv
  OBVIOUS
<1>1. Filled("nul") \in Line
  BY DEF Filled, Line, Cells
<1>2. SaturatingSub(0, ContentRows) = 0
  BY Sizes DEF SaturatingSub
<1>3. screen \in [Rows \cup {StatusRow} -> Line] /\ screen[StatusRow] = Blank
  BY BlankIsLine DEF VgaInit
<1>4. lines \in [0 .. ScrollbackLines - 1 -> Line]
  BY <1>1 DEF VgaInit
<1>5. row \in Rows /\ col \in 0 .. Width /\ gone \in Seq(Line) /\ status \in Line
  BY BlankIsLine, Sizes DEF VgaInit
<1>. QED BY <1>2, <1>3, <1>4, <1>5 DEF VgaInit, VgaInv, VgaTypeOK, StatusBarKept

\* A step of the console: a call, status_line, or a move of the view.
LEMMA VgaSteps ==
    ASSUME [VgaNext]_vgaVars
    PROVE  \/ Calls
           \/ \E text \in {"", "t"} : status_line(text)
           \/ \E n \in 1 .. ContentRows : scroll_display_up(n) \/ scroll_display_down(n)
           \/ UNCHANGED vgaVars
  BY DEF VgaNext, Calls

\* status_line writes the bar and nothing else.
LEMMA BarWritten ==
    ASSUME VgaInv, NEW text \in {"", "t"}, status_line(text)
    PROVE  VgaInv' /\ UNCHANGED <<lines, current_line, gone, deferred>>
<1>1. PICK bar \in Line : bar = (IF text = "" THEN Blank ELSE [Blank EXCEPT ![0] = text])
  BY BarIsLine
<1>2. /\ screen' = [screen EXCEPT ![StatusRow] = bar] /\ status' = bar
      /\ UNCHANGED <<row, col, deferred, gone, lines, current_line, scroll_offset>>
  BY <1>1, WriterNow DEF status_line, StatusLine, scrollback, VgaInv
<1>. QED BY <1>1, <1>2 DEF VgaInv, VgaTypeOK, StatusBarKept, StatusRow, Rows, SaturatingSub

\* Every step preserves it.
LEMMA VgaInvStep ==
    ASSUME VgaInv, [VgaNext]_vgaVars
    PROVE  VgaInv'
<1>1. CASE Calls
  <2>1. PICK v : Written(W, v) /\ commit_scrollback(v) /\ UNCHANGED status
    BY <1>1, CallWrites DEF VgaInv
  <2>. QED BY <2>1, Committed DEF VgaInv
<1>2. ASSUME NEW text \in {"", "t"}, status_line(text)  PROVE VgaInv'
  BY <1>2, BarWritten
<1>3. ASSUME NEW n \in 1 .. ContentRows, scroll_display_up(n) \/ scroll_display_down(n)
      PROVE  VgaInv'
  <2>1. VgaTypeOK' /\ UNCHANGED deferred /\ StatusBarKept'
    BY <1>3, ViewScrolls DEF VgaInv
  <2>. QED BY <2>1 DEF VgaInv
<1>4. CASE UNCHANGED vgaVars
  BY <1>4 DEF vgaVars, writer, scrollback, VgaInv, VgaTypeOK, StatusBarKept, SaturatingSub
<1>. QED BY <1>1, <1>2, <1>3, <1>4, VgaSteps

\* The types of vga.rs's state: the cursor never leaves the text area, so no write
\* through the raw video pointer does, and the view stays within the lines there are.
THEOREM VgaTypes == VgaSpec => []VgaTypeOK
<1>1. VgaInv => VgaTypeOK
  BY DEF VgaInv
<1>. QED BY <1>1, VgaInvInit, VgaInvStep, PTL DEF VgaSpec

\* Whatever is printed, erased or scrolled, on a screen of any size, the last row shows
\* what status_line wrote last: Writer::write_byte, newline and the scrolling
\* functions never reach it.
THEOREM StatusBarStays == VgaSpec => []StatusBarKept
<1>1. VgaInv => StatusBarKept
  BY DEF VgaInv
<1>. QED BY <1>1, VgaInvInit, VgaInvStep, PTL DEF VgaSpec

\* What one step does to the scrollback: nothing, or the last row that scrolled off
\* becomes its newest line.
Grows ==
    /\ Len(gone') > Len(gone) /\ current_line' = current_line + 1
    /\ \A k \in 1 .. Len(gone) : gone'[k] = gone[k]
    /\ lines' = [lines EXCEPT ![current_line % ScrollbackLines] = gone'[Len(gone')]]

\* Every step does one of the two, and more than one row leaves the screen only in
\* a call with a text that does not fit a line.
LEMMA ScrollbackStep ==
    ASSUME VgaInv, [VgaNext]_vgaVars
    PROVE  /\ UNCHANGED <<lines, current_line, gone>> \/ Grows
           /\ (\A s \in Texts : FitsALine(s)) => Len(gone') <= Len(gone) + 1
<1>0. Len(gone) \in Nat
  BY DEF VgaInv, VgaTypeOK
<1>1. CASE Calls
  <2>1. PICK v : /\ Written(W, v) /\ commit_scrollback(v) /\ UNCHANGED status
                 /\ (\A s \in Texts : FitsALine(s)) =>
                       v.gone = gone \/ Len(v.gone) = Len(gone) + 1
    BY <1>1, CallWrites DEF VgaInv
  <2>2. gone' = v.gone /\ (UNCHANGED <<lines, current_line, gone>> \/ Grows)
    BY <2>1, Committed DEF VgaInv, Grows
  <2>. QED BY <1>0, <2>1, <2>2
<1>2. ASSUME UNCHANGED <<lines, current_line, gone>>
      PROVE  Len(gone') <= Len(gone) + 1
  BY <1>0, <1>2
<1>3. ASSUME \E text \in {"", "t"} : status_line(text)
      PROVE  UNCHANGED <<lines, current_line, gone>>
  BY <1>3, BarWritten
<1>4. ASSUME \E n \in 1 .. ContentRows : scroll_display_up(n) \/ scroll_display_down(n)
      PROVE  UNCHANGED <<lines, current_line, gone>>
  BY <1>4, ViewScrolls DEF VgaInv
<1>5. ASSUME UNCHANGED vgaVars  PROVE UNCHANGED <<lines, current_line, gone>>
  BY <1>5 DEF vgaVars, writer, scrollback
<1>6. CASE ~Calls
  <2>1. UNCHANGED <<lines, current_line, gone>>
    BY <1>3, <1>4, <1>5, <1>6, VgaSteps, Zenon
  <2>. QED BY <1>2, <2>1
<1>. QED BY <1>1, <1>6

\* The ring keeps its other lines when it grows.
LEMMA OtherLines ==
    ASSUME VgaInv, Grows
    PROVE  /\ \A k \in 0 .. current_line - 1 : k > current_line - ScrollbackLines =>
                lines'[k % ScrollbackLines] = lines[k % ScrollbackLines]
           /\ lines'[current_line % ScrollbackLines] = gone'[Len(gone')]
<1>1. lines \in [0 .. ScrollbackLines - 1 -> Line] /\ current_line \in Nat
  BY DEF VgaInv, VgaTypeOK
<1>2. PICK z \in 0 .. ScrollbackLines - 1 : z = current_line % ScrollbackLines
  BY <1>1, RingPlace
<1>3. lines' = [lines EXCEPT ![z] = gone'[Len(gone')]]
  BY <1>2 DEF Grows
<1>4. ASSUME NEW k \in 0 .. current_line - 1, k > current_line - ScrollbackLines
      PROVE  lines'[k % ScrollbackLines] = lines[k % ScrollbackLines]
  <2>1. k \in Nat /\ k < current_line
    BY <1>1
  <2>2. PICK y \in 0 .. ScrollbackLines - 1 : y = k % ScrollbackLines
    BY <2>1, RingPlace
  <2>3. y # z
    BY <1>1, <1>2, <1>4, <2>1, <2>2, RingApart
  <2>. QED BY <1>1, <1>3, <2>2, <2>3
<1>. QED BY <1>1, <1>2, <1>3, <1>4

\* The lines the scrollback holds are rows that left the screen, in the order in which
\* they left it, and the newest is the last that did.  A call that scrolls the
\* screen more than once leaves rows out but disturbs nothing else.
RowsInOrder ==
    /\ gone # <<>> => current_line > 0
    /\ \E m \in [0 .. current_line - 1 -> 1 .. Len(gone)] :
          /\ \A j, k \in 0 .. current_line - 1 : j < k => m[j] < m[k]
          /\ current_line > 0 => m[current_line - 1] = Len(gone)
          /\ \A k \in 0 .. current_line - 1 :
                k >= current_line - ScrollbackLines => lines[k % ScrollbackLines] = gone[m[k]]

\* A step that grows the scrollback preserves it: the new line is the last row.
LEMMA RowsInOrderGrows ==
    ASSUME VgaInv, RowsInOrder, Grows, gone' \in Seq(Line)
    PROVE  RowsInOrder'
<1>1. current_line \in Nat /\ Len(gone) \in Nat /\ Len(gone') \in Nat /\ gone \in Seq(Line)
  BY DEF VgaInv, VgaTypeOK
<1>2. PICK m \in [0 .. current_line - 1 -> 1 .. Len(gone)] :
          /\ \A j, k \in 0 .. current_line - 1 : j < k => m[j] < m[k]
          /\ \A k \in 0 .. current_line - 1 :
                k >= current_line - ScrollbackLines => lines[k % ScrollbackLines] = gone[m[k]]
  BY DEF RowsInOrder
<1>3. PICK N \in Nat : N = Len(gone') /\ N > Len(gone)
  BY <1>1 DEF Grows
<1>4. PICK n \in Nat : n = current_line /\ current_line' = n + 1
  BY <1>1 DEF Grows
<1>. DEFINE p == [k \in 0 .. n |-> IF k = n THEN N ELSE m[k]]
<1>5. /\ p[n] = N
      /\ \A k \in 0 .. n - 1 : p[k] = m[k] /\ m[k] \in 1 .. Len(gone) /\ k \in 0 .. n
  BY <1>2, <1>4
<1>6. p \in [0 .. n -> 1 .. N]
  <2>1. ASSUME NEW k \in 0 .. n  PROVE p[k] \in 1 .. N
    <3>1. k = n \/ k \in 0 .. n - 1
      BY <1>4
    <3>2. N \in 1 .. N
      BY <1>1, <1>3
    <3>. HIDE DEF p
    <3>. QED BY <1>1, <1>3, <1>5, <3>1, <3>2
  <2>. QED BY <2>1
<1>. HIDE DEF p
<1>7. ASSUME NEW j \in 0 .. n, NEW k \in 0 .. n, j < k  PROVE p[j] < p[k]
  <2>1. j \in 0 .. n - 1 /\ p[j] = m[j] /\ m[j] \in 1 .. Len(gone)
    BY <1>4, <1>5, <1>7
  <2>2. CASE k = n
    BY <1>1, <1>3, <1>5, <2>1, <2>2
  <2>3. CASE k # n
    <3>1. k \in 0 .. n - 1
      BY <1>4, <2>3
    <3>. QED BY <1>2, <1>4, <1>5, <1>7, <2>1, <3>1
  <2>. QED BY <2>2, <2>3
<1>8. ASSUME NEW k \in 0 .. n, k >= n + 1 - ScrollbackLines
      PROVE  lines'[k % ScrollbackLines] = gone'[p[k]]
  <2>1. CASE k = n
    BY <1>3, <1>4, <1>5, <2>1, OtherLines
  <2>2. CASE k # n
    <3>1. k \in 0 .. current_line - 1 /\ k > current_line - ScrollbackLines
          /\ k >= current_line - ScrollbackLines
      BY <1>4, <1>8, <2>2, Sizes
    <3>2. lines'[k % ScrollbackLines] = lines[k % ScrollbackLines]
      BY <3>1, OtherLines
    <3>3. lines[k % ScrollbackLines] = gone[m[k]]
      BY <1>2, <3>1
    <3>4. p[k] = m[k] /\ m[k] \in 1 .. Len(gone)
      BY <1>4, <1>5, <3>1
    <3>5. gone'[m[k]] = gone[m[k]]
      BY <3>4 DEF Grows
    <3>. QED BY <3>2, <3>3, <3>4, <3>5
  <2>. QED BY <2>1, <2>2
<1>9. 0 .. current_line' - 1 = 0 .. n /\ current_line' > 0 /\ current_line' - 1 = n
  BY <1>4
<1>10. p \in [0 .. current_line' - 1 -> 1 .. Len(gone')] /\ p[current_line' - 1] = Len(gone')
  BY <1>3, <1>5, <1>6, <1>9
<1>11. \A j, k \in 0 .. current_line' - 1 : j < k => p[j] < p[k]
  BY <1>7, <1>9
<1>12. ASSUME NEW k \in 0 .. current_line' - 1, k >= current_line' - ScrollbackLines
       PROVE  lines'[k % ScrollbackLines] = gone'[p[k]]
  <2>1. k \in 0 .. n /\ k >= n + 1 - ScrollbackLines
    BY <1>4, <1>9, <1>12, Sizes
  <2>. QED BY <1>8, <2>1
<1>. QED BY <1>9, <1>10, <1>11, <1>12, Zenon DEF RowsInOrder

\* For every text: what PageUp can bring back is what left the screen, in order.
THEOREM ScrollbackInOrder == VgaSpec => []RowsInOrder
<1>1. VgaInit => RowsInOrder
  <2>. SUFFICES ASSUME VgaInit  PROVE RowsInOrder
    OBVIOUS
  <2>1. gone = <<>> /\ current_line = 0
    BY DEF VgaInit
  <2>. DEFINE m == [k \in 0 .. current_line - 1 |-> 1]
  <2>2. /\ m \in [0 .. current_line - 1 -> 1 .. Len(gone)] /\ ~(current_line > 0)
        /\ \A k : k \notin 0 .. current_line - 1
    BY <2>1
  <2>. HIDE DEF m
  <2>. QED BY <2>1, <2>2, Zenon DEF RowsInOrder
<1>2. VgaInv /\ VgaInv' /\ RowsInOrder /\ [VgaNext]_vgaVars => RowsInOrder'
  <2>. SUFFICES ASSUME VgaInv, VgaInv', RowsInOrder, [VgaNext]_vgaVars  PROVE RowsInOrder'
    OBVIOUS
  <2>1. CASE UNCHANGED <<lines, current_line, gone>>
    BY <2>1 DEF RowsInOrder
  <2>2. CASE Grows
    <3>1. gone' \in Seq(Line)
      BY DEF VgaInv, VgaTypeOK, Line, Cells, Columns
    <3>. QED BY <2>2, <3>1, RowsInOrderGrows
  <2>. QED BY <2>1, <2>2, ScrollbackStep
<1>. QED BY <1>1, <1>2, VgaInvInit, VgaInvStep, PTL DEF VgaSpec

\* No call scrolls the screen more than once.
OneScroll == [][Len(gone') <= Len(gone) + 1]_vgaVars

\* Texts that fit a line guarantee it, wherever the cursor is when they are printed.
THEOREM LinesScrollOnce ==
    ASSUME \A s \in Texts : FitsALine(s)
    PROVE  VgaSpec => OneScroll
<1>1. VgaInv /\ [VgaNext]_vgaVars => [Len(gone') <= Len(gone) + 1]_vgaVars
  BY ScrollbackStep
<1>. QED BY <1>1, VgaInvInit, VgaInvStep, PTL DEF VgaSpec, OneScroll

\* While no call scrolls the screen more than once, every row that left it is in
\* the scrollback until SCROLLBACK_LINES newer ones have followed.
THEOREM RowsKept == VgaSpec /\ OneScroll => []LinesKept
<1>1. VgaInit => LinesKept
  BY DEF VgaInit, LinesKept
<1>2. VgaInv /\ LinesKept /\ [VgaNext]_vgaVars /\ [Len(gone') <= Len(gone) + 1]_vgaVars
        /\ VgaInv' => LinesKept'
  <2>. SUFFICES ASSUME VgaInv, LinesKept, [VgaNext]_vgaVars, VgaInv',
                       [Len(gone') <= Len(gone) + 1]_vgaVars
                PROVE  LinesKept'
    OBVIOUS
  <2>0. /\ deferred' = <<>> /\ current_line = Len(gone) /\ current_line \in Nat
        /\ gone' \in Seq(Line)
        /\ \A k \in 0 .. current_line - 1 : k >= current_line - ScrollbackLines =>
              lines[k % ScrollbackLines] = gone[k + 1]
    BY DEF VgaInv, VgaTypeOK, LinesKept, Line, Cells, Columns
  <2>1. CASE UNCHANGED <<lines, current_line, gone>>
    BY <2>0, <2>1 DEF LinesKept
  <2>2. CASE Grows
    <3>1. /\ Len(gone') = current_line + 1 /\ current_line' = current_line + 1
          /\ \A k \in 1 .. current_line : gone'[k] = gone[k]
      <4>1. Len(gone') \in Nat /\ Len(gone') > Len(gone)
        BY <2>0, <2>2 DEF Grows
      <4>2. Len(gone') <= Len(gone) + 1
        BY <2>0, <4>1 DEF vgaVars, writer
      <4>. QED BY <2>0, <2>2, <4>1, <4>2 DEF Grows
    <3>2. ASSUME NEW k \in 0 .. current_line, k >= current_line + 1 - ScrollbackLines
          PROVE  lines'[k % ScrollbackLines] = gone'[k + 1]
      <4>1. CASE k = current_line
        BY <2>2, <3>1, <4>1, OtherLines
      <4>2. CASE k # current_line
        <5>1. /\ k \in 0 .. current_line - 1 /\ k > current_line - ScrollbackLines
              /\ k >= current_line - ScrollbackLines /\ k + 1 \in 1 .. current_line
          BY <2>0, <3>2, <4>2, Sizes
        <5>2. lines'[k % ScrollbackLines] = lines[k % ScrollbackLines]
          BY <2>2, <5>1, OtherLines
        <5>3. lines[k % ScrollbackLines] = gone[k + 1]
          BY <2>0, <5>1
        <5>. QED BY <3>1, <5>1, <5>2, <5>3
      <4>. QED BY <4>1, <4>2
    <3>3. 0 .. current_line' - 1 = 0 .. current_line
      BY <2>0, <3>1
    <3>4. current_line' = Len(gone')
      BY <3>1
    <3>5. ASSUME NEW k \in 0 .. current_line' - 1, k >= current_line' - ScrollbackLines
          PROVE  lines'[k % ScrollbackLines] = gone'[k + 1]
      <4>1. k \in 0 .. current_line /\ k >= current_line + 1 - ScrollbackLines
        BY <2>0, <3>1, <3>3, <3>5, Sizes
      <4>. QED BY <3>2, <4>1
    <3>. QED BY <2>0, <3>4, <3>5 DEF LinesKept
  <2>. QED BY <2>1, <2>2, ScrollbackStep
<1>. QED BY <1>1, <1>2, VgaInvInit, VgaInvStep, PTL DEF VgaSpec, OneScroll

\* While no call scrolls the screen more than once, scrolling the view shows the rows
\* that left the screen, in order and without gaps, as far as the ring holds them.
THEOREM ViewIsHistory == VgaSpec /\ OneScroll => ViewShowsHistory
<1>. DEFINE A == \A n \in 1 .. ContentRows :
          (scroll_display_up(n) \/ scroll_display_down(n)) /\ scroll_offset' > 0 =>
            \A r \in Rows :
              LET k == current_line - ContentRows - scroll_offset' + r
              IN  k >= current_line - ScrollbackLines => screen'[r] = gone[k + 1]
<1>1. VgaInv /\ LinesKept => A
  <2>. SUFFICES ASSUME VgaInv, LinesKept, NEW n \in 1 .. ContentRows,
                       scroll_display_up(n) \/ scroll_display_down(n), scroll_offset' > 0,
                       NEW r \in Rows, NEW k,
                       k = current_line - ContentRows - scroll_offset' + r,
                       k >= current_line - ScrollbackLines
                PROVE  screen'[r] = gone[k + 1]
    OBVIOUS
  <2>1. /\ scroll_offset' \in 0 .. SaturatingSub(current_line, ContentRows)
        /\ screen'[r] = lines[k % ScrollbackLines]
    BY ViewScrolls DEF VgaInv
  <2>2. PICK offset \in 1 .. SaturatingSub(current_line, ContentRows) : offset = scroll_offset'
    <3>1. SaturatingSub(current_line, ContentRows) \in Nat
      BY Sizes DEF SaturatingSub, VgaInv, VgaTypeOK
    <3>. QED BY <2>1, <3>1
  <2>3. k \in 0 .. current_line - 1
    BY <2>2, LineShown DEF VgaInv
  <2>. QED BY <2>1, <2>3 DEF LinesKept
<1>2. VgaSpec => []VgaInv
  BY VgaInvInit, VgaInvStep, PTL DEF VgaSpec
<1>. QED BY <1>1, <1>2, RowsKept, PTL DEF ViewShowsHistory

\* The two together for a console on which every text fits a line.
COROLLARY ConsoleKeepsLines ==
    ASSUME \A s \in Texts : FitsALine(s)
    PROVE  VgaSpec => []LinesKept /\ ViewShowsHistory
  BY LinesScrollOnce, RowsKept, ViewIsHistory, PTL
=============================================================================
