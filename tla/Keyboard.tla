------------------------------ MODULE Keyboard ------------------------------
(***************************************************************************)
(* The PS/2 keyboard driver of keyboard.rs: the IRQ1 handler, which turns  *)
(* scancode bytes into key events, and the lock-free ring it shares with   *)
(* the shell.  The handler runs with interrupts off and is one action.     *)
(* pop and clear run in the shell task and are split into their loads and  *)
(* stores of the shared words, so an interrupt may fall between any two.   *)
(*                                                                         *)
(* The environment is a keyboard: pressing, repeating and releasing its    *)
(* keys puts bytes on a wire, and an interrupt delivers the next byte.     *)
(* (An interrupt that finds mouse data, status bit 5, returns at once: a   *)
(* stuttering step.)                                                       *)
(***************************************************************************)
EXTENDS Integers, Sequences

CONSTANTS
    BufSize,    \* BUF_SIZE
    Keys,       \* the keys of the keyboard: [code : 1..127, ext : BOOLEAN]
    WireMax     \* bytes the keyboard may have in flight

ASSUME KeyboardAssumption ==
    /\ BufSize \in Nat \ {0, 1}
    /\ Keys \subseteq [code : 1 .. 127, ext : BOOLEAN]
    \* No key is released with the byte that is the prefix, 0xE0.
    /\ \A k \in Keys : k.code + 128 # 224
    /\ WireMax \in Nat

VARIABLES
    held,       \* keys held down
    wire,       \* bytes sent and not yet handled
    shift, ctrl, extended,      \* SHIFT, CTRL, EXTENDED
    buf, head, tail,            \* KEYBUF
    pc,         \* where the shell is in pop or clear
    t, h, val,  \* their locals
    got         \* what the last pop returned

driver == <<shift, ctrl, extended, buf, head>>
shell == <<pc, t, h, val, got>>
vars == <<held, wire, driver, tail, shell>>

-----------------------------------------------------------------------------
(***************************************************************************)
(* Events and their encoding in a ring word: the kind above bit 8, a byte  *)
(* of data below.                                                          *)
(***************************************************************************)
NoEvent == [kind |-> "None", data |-> 0]

KindCode ==
    [Char |-> 1, Up |-> 2, Down |-> 3, Left |-> 4, Right |-> 5,
     Backspace |-> 6, Enter |-> 7, Escape |-> 8, Ctrl |-> 9,
     PageUp |-> 10, PageDown |-> 11]

Plain(kind) == [kind |-> kind, data |-> 0]

Events ==
    [kind : {"Char", "Ctrl"}, data : 0 .. 255]
        \cup {Plain(k) : k \in DOMAIN KindCode \ {"Char", "Ctrl"}}

encode(e) == KindCode[e.kind] * 256 + e.data

\* Mutant of decode: the data byte of Ctrl is lost.
decodeNoCtrlData(v) ==
    IF v = 0 \/ ~\E k \in DOMAIN KindCode : KindCode[k] = v \div 256
    THEN NoEvent
    ELSE LET k == CHOOSE k \in DOMAIN KindCode : KindCode[k] = v \div 256
         IN  [kind |-> k, data |-> IF k = "Char" THEN v % 256 ELSE 0]

decode(v) ==
    IF v = 0 \/ ~\E k \in DOMAIN KindCode : KindCode[k] = v \div 256
    THEN NoEvent
    ELSE LET k == CHOOSE k \in DOMAIN KindCode : KindCode[k] = v \div 256
         IN  [kind |-> k,
              data |-> IF k \in {"Char", "Ctrl"} THEN v % 256 ELSE 0]

-----------------------------------------------------------------------------
(***************************************************************************)
(* Scancode translation.  An operator returns NoEvent where the code       *)
(* returns None.                                                           *)
(***************************************************************************)
LShift == 42
RShift == 54
LCtrl == 29
Prefix == 224

LOWER == <<0, 27, 49, 50, 51, 52, 53, 54, 55, 56, 57, 48, 45, 61, 8,
           9, 113, 119, 101, 114, 116, 121, 117, 105, 111, 112, 91, 93, 10,
           0, 97, 115, 100, 102, 103, 104, 106, 107, 108, 59, 39, 96, 0,
           92, 122, 120, 99, 118, 98, 110, 109, 44, 46, 47, 0, 42, 0, 32>>

UPPER == <<0, 27, 33, 64, 35, 36, 37, 94, 38, 42, 40, 41, 95, 43, 8,
           9, 81, 87, 69, 82, 84, 89, 85, 73, 79, 80, 123, 125, 10,
           0, 65, 83, 68, 70, 71, 72, 74, 75, 76, 58, 34, 126, 0,
           124, 90, 88, 67, 86, 66, 78, 77, 60, 62, 63, 0, 42, 0, 32>>

\* The character of a scancode, 0 for none.
scancode_to_ascii(sc, sh) ==
    IF sc >= Len(LOWER) THEN 0
    ELSE LET c == IF sh THEN UPPER[sc + 1] ELSE LOWER[sc + 1]
         IN  IF c = 27 THEN 0 ELSE c

translate_extended(sc) ==
    CASE sc = 72 -> Plain("Up")
      [] sc = 80 -> Plain("Down")
      [] sc = 75 -> Plain("Left")
      [] sc = 77 -> Plain("Right")
      [] sc = 73 -> Plain("PageUp")
      [] sc = 81 -> Plain("PageDown")
      [] OTHER -> NoEvent

\* The event of a make code; the modifier keys have none.
translate(sc) ==
    LET c == scancode_to_ascii(sc, shift)
    IN  CASE sc \in {LShift, RShift, LCtrl} -> NoEvent
          [] sc = 14 -> Plain("Backspace")
          [] sc = 28 -> Plain("Enter")
          [] sc = 1 -> Plain("Escape")
          [] OTHER -> IF c = 0 THEN NoEvent
                      ELSE [kind |-> IF ctrl THEN "Ctrl" ELSE "Char", data |-> c]

-----------------------------------------------------------------------------
(***************************************************************************)
(* IRQ1: handle_irq on the next byte.                                      *)
(***************************************************************************)
NextIndex(x) == (x + 1) % BufSize

\* Mutant of push: no check for a full ring.
pushUnchecked(e) ==
    /\ buf' = [buf EXCEPT ![head] = encode(e)]
    /\ head' = NextIndex(head)

push(e) ==
    IF NextIndex(head) = tail
    THEN UNCHANGED <<buf, head>>
    ELSE /\ buf' = [buf EXCEPT ![head] = encode(e)]
         /\ head' = NextIndex(head)

PushSome(e) == IF e = NoEvent THEN UNCHANGED <<buf, head>> ELSE push(e)

\* Mutant of SetModifiers: the release of the control key is not seen.
SetModifiersSticky(sc) ==
    /\ shift' = IF sc % 128 \in {LShift, RShift} THEN sc < 128 ELSE shift
    /\ ctrl' = IF sc = LCtrl THEN TRUE ELSE ctrl

\* The modifier stores of translate and handle_release.
SetModifiers(sc) ==
    /\ shift' = IF sc % 128 \in {LShift, RShift} THEN sc < 128 ELSE shift
    /\ ctrl' = IF sc % 128 = LCtrl THEN sc < 128 ELSE ctrl

PrefixByte(sc) ==
    /\ sc = Prefix
    /\ extended' = TRUE
    /\ UNCHANGED <<shift, ctrl, buf, head>>

\* Mutant of ExtendedByte: EXTENDED is not reset.
ExtendedByteSticky(sc) ==
    /\ sc # Prefix
    /\ extended
    /\ PushSome(translate_extended(sc))
    /\ UNCHANGED <<shift, ctrl, extended>>

ExtendedByte(sc) ==
    /\ sc # Prefix
    /\ extended
    /\ extended' = FALSE
    /\ PushSome(translate_extended(sc))
    /\ UNCHANGED <<shift, ctrl>>

ReleaseByte(sc) ==
    /\ sc # Prefix
    /\ ~extended
    /\ sc >= 128
    /\ SetModifiers(sc)
    /\ UNCHANGED <<extended, buf, head>>

MakeByte(sc) ==
    /\ sc # Prefix
    /\ ~extended
    /\ sc < 128
    /\ SetModifiers(sc)
    /\ PushSome(translate(sc))
    /\ UNCHANGED extended

KeyboardIrq ==
    /\ wire # <<>>
    /\ wire' = Tail(wire)
    /\ LET sc == Head(wire)
       IN  PrefixByte(sc) \/ ExtendedByte(sc) \/ ReleaseByte(sc) \/ MakeByte(sc)
    /\ UNCHANGED <<held, tail, shell>>

-----------------------------------------------------------------------------
(***************************************************************************)
(* The keyboard (external).                                                *)
(***************************************************************************)
Bytes(k, code) == IF k.ext THEN <<Prefix, code>> ELSE <<code>>

Send(bytes) ==
    /\ Len(wire \o bytes) <= WireMax
    /\ wire' = wire \o bytes

PressKey(k) ==      \* also the typematic repeat of a held key
    /\ Send(Bytes(k, k.code))
    /\ held' = held \cup {k}
    /\ UNCHANGED <<driver, tail, shell>>

ReleaseKey(k) ==
    /\ k \in held
    /\ Send(Bytes(k, k.code + 128))
    /\ held' = held \ {k}
    /\ UNCHANGED <<driver, tail, shell>>

-----------------------------------------------------------------------------
(***************************************************************************)
(* The shell: pop and clear, one shared access at a time.                  *)
(***************************************************************************)
ShellAt(from, to) ==
    /\ pc = from
    /\ pc' = to
    /\ UNCHANGED <<held, wire, driver>>

Return == t' = 0 /\ h' = 0 /\ val' = 0      \* the locals go out of scope

PopLoadTail ==
    /\ ShellAt("idle", "pop_head")
    /\ t' = tail
    /\ UNCHANGED <<tail, h, val, got>>

PopEmpty ==
    /\ ShellAt("pop_head", "idle")
    /\ t = head
    /\ got' = NoEvent
    /\ Return
    /\ UNCHANGED tail

PopLoadHead ==
    /\ ShellAt("pop_head", "pop_val")
    /\ t # head
    /\ UNCHANGED <<tail, t, h, val, got>>

PopLoadVal ==
    /\ ShellAt("pop_val", "pop_tail")
    /\ val' = buf[t]
    /\ UNCHANGED <<tail, t, h, got>>

\* Mutant of PopStoreTail: the tail is not moved.
PopStoreTailStuck ==
    /\ ShellAt("pop_tail", "idle")
    /\ got' = decode(val)
    /\ Return
    /\ UNCHANGED tail

PopStoreTail ==
    /\ ShellAt("pop_tail", "idle")
    /\ tail' = NextIndex(t)
    /\ got' = decode(val)
    /\ Return

ClearLoadHead ==
    /\ ShellAt("idle", "clear_tail")
    /\ h' = head
    /\ UNCHANGED <<tail, t, val, got>>

ClearStoreTail ==
    /\ ShellAt("clear_tail", "idle")
    /\ tail' = h
    /\ Return
    /\ UNCHANGED got

Init ==
    /\ held = {}
    /\ wire = <<>>
    /\ shift = FALSE /\ ctrl = FALSE /\ extended = FALSE
    /\ buf = [x \in 0 .. BufSize - 1 |-> 0]
    /\ head = 0 /\ tail = 0
    /\ pc = "idle"
    /\ t = 0 /\ h = 0 /\ val = 0
    /\ got = NoEvent

Pop == PopLoadTail \/ PopEmpty \/ PopLoadHead \/ PopLoadVal \/ PopStoreTail
Clear == ClearLoadHead \/ ClearStoreTail

Next ==
    \/ \E k \in Keys : PressKey(k) \/ ReleaseKey(k)
    \/ KeyboardIrq
    \/ Pop
    \/ Clear

Spec == Init /\ [][Next]_vars

\* The shell's loop calls pop_event again and again, and each call finishes;
\* flush is called only now and then, and finishes when it is.
Fairness == WF_vars(Pop) /\ WF_vars(ClearStoreTail) /\ SF_vars(PopLoadTail)

FairSpec == Spec /\ Fairness

-----------------------------------------------------------------------------
Count == (head - tail) % BufSize

\* Types of the ring, its indices and the words pop and clear work on.
TypeOK ==
    /\ held \subseteq Keys
    /\ wire \in Seq(0 .. 255) /\ Len(wire) <= WireMax
    /\ shift \in BOOLEAN /\ ctrl \in BOOLEAN /\ extended \in BOOLEAN
    /\ buf \in [0 .. BufSize - 1 -> 0 .. 12 * 256 - 1]
    /\ head \in 0 .. BufSize - 1 /\ tail \in 0 .. BufSize - 1
    /\ t \in 0 .. BufSize - 1 /\ h \in 0 .. BufSize - 1 /\ val \in 0 .. 12 * 256 - 1
    /\ pc \in {"idle", "pop_head", "pop_val", "pop_tail", "clear_tail"}
    /\ got \in Events \cup {NoEvent}

\* The ring implements the bounded FIFO of KeyQueue: events leave in the
\* order they came, each once; a push into a full ring loses only itself; and
\* a clear spares what is pushed between its load and its store.
Queue == INSTANCE KeyQueue WITH
    Capacity <- BufSize - 1,
    queue <- [x \in 1 .. Count |-> decode(buf[(tail + x - 1) % BufSize])],
    mark <- IF pc = "clear_tail" THEN (h - tail) % BufSize ELSE 0,
    flushing <- pc = "clear_tail"

ImplementsQueue == Queue!QSpec

\* What the byte sc means to the driver in its present state.
Meaning(sc) ==
    IF sc = Prefix THEN NoEvent
    ELSE IF extended THEN translate_extended(sc)
    ELSE IF sc >= 128 THEN NoEvent
    ELSE translate(sc)

\* A byte that means an event leaves a ring word that decodes to that event,
\* unless BUF_SIZE - 1 events are waiting already; any other byte leaves the
\* ring alone.
EventQueuedOrFull ==
    [][ wire # <<>> /\ wire' = Tail(wire) =>
          LET e == Meaning(Head(wire))
          IN  IF e = NoEvent THEN UNCHANGED <<buf, head>>
              ELSE IF head' = head THEN Count = BufSize - 1
              ELSE decode(buf'[head]) = e ]_vars

\* Once the driver has caught up with the keyboard, no modifier is stuck: the
\* shift flag is set only while a shift key is down, the control flag exactly
\* while the left control key is, and no prefix is pending.
IsHeld(codes) == \E k \in held : ~k.ext /\ k.code \in codes

NoStuckModifier ==
    wire = <<>> =>
        /\ shift => IsHeld({LShift, RShift})
        /\ ctrl <=> IsHeld({LCtrl})
        /\ ~extended

\* The prefix flag stays in step with the byte stream: it is set exactly when
\* the next byte is the second byte of an extended key, so that byte is never
\* taken for a key of its own, nor a key's byte for an extended one.
PrefixInStep ==
    LET n == Len(wire)
        second == {x \in 1 .. n : IF x = 1 THEN extended
                                  ELSE wire[x - 1] = Prefix}
    IN  /\ n = 0 => ~extended
        /\ \A x \in second : \E k \in Keys :
               k.ext /\ wire[x] \in {k.code, k.code + 128}
        /\ \A x \in (1 .. n) \ second : wire[x] # Prefix =>
               \E k \in Keys : ~k.ext /\ wire[x] \in {k.code, k.code + 128}

\* A queued event does not stay at the front for ever.
EventsDelivered ==
    \A x \in 0 .. BufSize - 1 : (tail = x /\ head # x) ~> (tail # x)
=============================================================================
