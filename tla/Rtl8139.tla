------------------------------ MODULE Rtl8139 ------------------------------
(***************************************************************************)
(* drivers/net/rtl8139.rs: the four transmit descriptors, the receive ring *)
(* and the loopback switch, with the card on the other side, and the shell *)
(* command looptest.  The shell is the only caller, and net::send holds    *)
(* NET for the whole transmission.                                         *)
(*                                                                         *)
(* The card puts a packet into memory at CBR, a word of header and the     *)
(* frame with its checksum, and the driver takes it from CAPR.  Positions  *)
(* are words of four bytes from RBSTART, sizes are bytes.  Only the first  *)
(* BufWords words are RX_BUF; where the card wraps depends on RCR, whose   *)
(* value here (0x0F0F) selects 16 KiB and not the 8 KiB of RX_BUF.         *)
(***************************************************************************)
EXTENDS Integers, Sequences, SequencesExt

CONSTANTS
    BufWords,     \* RX_BUF_SIZE / 4
    RingWords,    \* words the card uses before it wraps
    Sizes,        \* sizes of packets, checksum included
    Descs,        \* number of transmit descriptors (4)
    MaxFrames,    \* bound: packets received
    MaxSends      \* bound: calls of send

Words(bytes) == (bytes + 3) \div 4

ASSUME RtlAssumption ==
    /\ {BufWords, RingWords, Descs} \subseteq Nat \ {0} /\ {MaxFrames, MaxSends} \subseteq Nat
    /\ BufWords <= RingWords
    /\ \A s \in Sizes : s \in Nat /\ s >= 4 /\ Words(s) < BufWords

VARIABLES
    mem,          \* the words from RBSTART on
    capr, cbr,    \* CAPR and CBR
    received,     \* history: sizes of the packets the card stored
    delivered,    \* history: how many of them poll_rx returned, whole and in order
    broken,       \* history: poll_rx returned something else
    past,         \* history: the card has written up to the end of RX_BUF
    txDesc,       \* TX_DESC
    txBufs, tsd,  \* TX_BUFS and the status of each descriptor
    queue,        \* descriptors the card has yet to transmit
    out,          \* history: frames that left the card
    lates,        \* history: sends in a row that timed out, Descs once it was Descs
    loopback,     \* TCR bits 9-8
    pc, cur, test \* what the shell does, the number of its frame, whether looptest

rx == <<mem, capr, cbr, received, delivered, broken, past>>
tx == <<txDesc, txBufs, tsd, queue, out, lates>>
shell == <<pc, cur, test>>
vars == <<rx, tx, loopback, shell>>

\* A word: of no packet, or word w of packet n; word 0 is the header.
Blank == [n |-> 0, w |-> 0]
Word(n, w) == [n |-> n, w |-> w]

Init ==     \* what init leaves, with CAPR = CBR
    /\ mem = [x \in 0 .. RingWords - 1 |-> Blank] /\ capr = 0 /\ cbr = 0
    /\ received = <<>> /\ delivered = 0 /\ broken = FALSE /\ past = FALSE
    /\ txDesc = 0 /\ queue = <<>> /\ out = <<>> /\ lates = 0
    /\ txBufs = [d \in 0 .. Descs - 1 |-> 0] /\ tsd = [d \in 0 .. Descs - 1 |-> "idle"]
    /\ loopback = FALSE /\ pc = "idle" /\ cur = 0 /\ test = FALSE

-----------------------------------------------------------------------------
(***************************************************************************)
(* The receiver of the card.                                               *)
(***************************************************************************)
Room == IF capr = cbr THEN RingWords ELSE (capr - cbr) % RingWords

\* The card stores a packet, if there is room for it, and moves CBR.
Store(s) ==
    LET n == Len(received) + 1
        end == cbr + 1 + Words(s)
    IN  /\ Len(received) < MaxFrames /\ 1 + Words(s) < Room
        /\ mem' = [x \in DOMAIN mem |->
                     IF (x - cbr) % RingWords <= Words(s)
                     THEN Word(n, (x - cbr) % RingWords) ELSE mem[x]]
        /\ cbr' = end % RingWords
        /\ received' = Append(received, s)
        /\ past' = (past \/ end >= BufWords)

Receive == \E s \in Sizes : Store(s) /\ UNCHANGED <<capr, delivered, broken, tx, loopback, shell>>

-----------------------------------------------------------------------------
(***************************************************************************)
(* poll_rx.                                                                *)
(***************************************************************************)
\* Mutant: the pointer is not compared with the end of RX_BUF.
rx_volatile_unchecked(x) ==
    IF mem[x] = Blank THEN {0} ELSE IF mem[x].w = 0 THEN {received[mem[x].n]} ELSE Sizes \cup {0}

\* rx_volatile_u16 of the size: nothing outside RX_BUF, and any value where
\* the word is not a header.
rx_volatile_u16(x) ==
    IF x >= BufWords \/ mem[x] = Blank THEN {0}
    ELSE IF mem[x].w = 0 THEN {received[mem[x].n]} ELSE Sizes \cup {0}

data_start == capr + 1
first == BufWords - data_start

\* Where word i of the frame is read: up to the end of RX_BUF, then from 0.
ReadAt(i) == IF i < first THEN data_start + i ELSE i - first

\* The frame without its checksum.
Frame(s) == [i \in 1 .. Words(s - 4) |-> mem[ReadAt(i - 1)]]

\* Mutant: the size is not rounded up to words.
new_capr_unaligned(s) ==
    IF capr + 1 + s \div 4 >= BufWords THEN 0 ELSE capr + 1 + s \div 4

new_capr(s) == IF capr + 1 + Words(s) >= BufWords THEN 0 ELSE capr + 1 + Words(s)

Expected(s) ==
    /\ delivered < Len(received) /\ s = received[delivered + 1]
    /\ Frame(s) = [i \in 1 .. Words(s - 4) |-> Word(delivered + 1, i)]

Some(s) ==
    /\ s >= 4
    /\ IF Expected(s) THEN delivered' = delivered + 1 /\ UNCHANGED broken
       ELSE broken' = TRUE /\ UNCHANGED delivered
    /\ capr' = new_capr(s)
    /\ UNCHANGED <<mem, cbr, received, past>>

\* A size out of range drops everything that is waiting.
BadPacket(s) ==
    /\ s < 4
    /\ capr' = cbr
    /\ UNCHANGED <<mem, cbr, received, delivered, broken, past>>

poll_rx ==
    /\ pc \in {"idle", "looprx"} /\ capr # cbr
    /\ \E s \in rx_volatile_u16(capr) :
          \/ Some(s) /\ pc' = IF pc = "looprx" THEN "loopoff" ELSE pc
          \/ BadPacket(s) /\ UNCHANGED pc
    /\ UNCHANGED <<tx, loopback, cur, test>>

-----------------------------------------------------------------------------
(***************************************************************************)
(* send: the next descriptor, then a wait of at most 100 ms.               *)
(***************************************************************************)
desc == (txDesc - 1) % Descs      \* the descriptor of the running send

\* Mutant: always the same descriptor.
NextDescSame == 0

NextDesc == txDesc % Descs

\* Mutant: the status is not reset by the write of TSD.
TriggerStale(d, n) == queue' = Append(queue, d) /\ UNCHANGED tsd

\* Writing the length into TSD resets its status and starts the transmission.
Trigger(d, n) == queue' = Append(queue, d) /\ tsd' = [tsd EXCEPT ![d] = "busy"]

send(n) ==
    /\ txBufs' = [txBufs EXCEPT ![NextDesc] = n]
    /\ Trigger(NextDesc, n)
    /\ txDesc' = txDesc + 1
    /\ cur' = n /\ pc' = "tx"
    /\ UNCHANGED <<out, lates>>

Send ==
    /\ pc = "idle" /\ cur < MaxSends
    /\ send(cur + 1)
    /\ UNCHANGED <<rx, loopback, test>>

Returned == pc' = IF test THEN "looprx" ELSE "idle"
Lates(n) == lates' = IF lates = Descs THEN Descs ELSE n

\* TOK, or TX error: the frame of this descriptor is through.
SendDone ==
    /\ pc = "tx" /\ tsd[desc] \in {"ok", "error"}
    /\ Returned /\ Lates(0)
    /\ UNCHANGED <<rx, txDesc, txBufs, tsd, queue, out, loopback, cur, test>>

SendTimeout ==
    /\ pc = "tx" /\ tsd[desc] = "busy"
    /\ Returned /\ Lates(lates + 1)
    /\ UNCHANGED <<rx, txDesc, txBufs, tsd, queue, out, loopback, cur, test>>

\* The card takes the descriptors in turn and reads the buffer as it is then.
\* In loopback the frame comes back, if there is room, and not onto the wire.
Transmit ==
    /\ queue # <<>>
    /\ LET d == Head(queue)
           sent == [n |-> txBufs[d], loop |-> loopback]
       IN  \/ /\ tsd' = [tsd EXCEPT ![d] = "ok"] /\ out' = Append(out, sent)
              /\ \/ loopback /\ \E s \in Sizes : Store(s)
                 \/ UNCHANGED <<mem, cbr, received, past>>
           \/ /\ tsd' = [tsd EXCEPT ![d] = "error"]
              /\ UNCHANGED <<out, mem, cbr, received, past>>
    /\ queue' = Tail(queue)
    /\ UNCHANGED <<capr, delivered, broken, txDesc, txBufs, lates, loopback, shell>>

-----------------------------------------------------------------------------
(***************************************************************************)
(* cmd_looptest: loopback on, send, wait for any frame, loopback off.      *)
(***************************************************************************)
set_loopback(on) == loopback' = on

cmd_looptest ==
    /\ pc = "idle" /\ cur < MaxSends
    /\ set_loopback(TRUE)
    /\ send(cur + 1)
    /\ test' = TRUE
    /\ UNCHANGED rx

LoopDeadline ==
    /\ pc = "looprx" /\ pc' = "loopoff"
    /\ UNCHANGED <<rx, tx, loopback, cur, test>>

LoopOff ==
    /\ pc = "loopoff"
    /\ set_loopback(FALSE)
    /\ pc' = "idle" /\ test' = FALSE
    /\ UNCHANGED <<rx, tx, cur>>

Next ==
    \/ Receive \/ poll_rx
    \/ Send \/ SendDone \/ SendTimeout \/ Transmit
    \/ cmd_looptest \/ LoopDeadline \/ LoopOff

Spec == Init /\ [][Next]_vars

-----------------------------------------------------------------------------
\* Whatever the card and old contents made of CAPR, poll_rx reads inside
\* RX_BUF: the length of the first part is not negative, and no word is
\* behind the end.
ReadsInBuffer ==
    capr # cbr => \A s \in rx_volatile_u16(capr) : s >= 4 =>
        /\ first >= 0
        /\ \A i \in 0 .. Words(s - 4) - 1 : ReadAt(i) \in 0 .. BufWords - 1

\* Until the card has come to the end of RX_BUF, poll_rx returns the packets
\* whole, once and in order, and CAPR meets CBR when all are read.
FramesInOrder ==
    ~past => /\ ~broken
             /\ capr = cbr => delivered = Len(received)

\* Frames leave in the order in which they were sent and none twice, although
\* a send that timed out leaves its descriptor with the card: the descriptors
\* take turns, so that only Descs timeouts in a row reach one still in use.
SentOnceInOrder ==
    lates < Descs => \A i \in 1 .. Len(out), j \in 1 .. Len(out) :
                        i < j => out[i].n < out[j].n

\* When a send sees TOK its own frame has left, and looptest's frame in
\* loopback: the status is not that of an earlier use of the descriptor.
OkMeansSent ==
    pc = "tx" /\ tsd[desc] = "ok" => [n |-> cur, loop |-> test] \in Range(out)
=============================================================================
