--------------------------- MODULE Rtl8139Proofs ---------------------------
(***************************************************************************)
(* Safety of the RTL8139 driver for every buffer size, packet size and     *)
(* number of descriptors.                                                  *)
(***************************************************************************)
EXTENDS Rtl8139, TLAPS

Ring == 0 .. RingWords - 1
Desc == 0 .. Descs - 1
Frames == [n : Nat, loop : BOOLEAN]

-----------------------------------------------------------------------------
(***************************************************************************)
(* The inductive invariants.                                               *)
(***************************************************************************)

\* The words the card wrote name packets it received.
RxOK ==
    /\ mem \in [Ring -> [n : Nat, w : Nat]] /\ capr \in Ring /\ cbr \in Ring
    /\ received \in Seq(Sizes) /\ delivered \in 0 .. Len(received)
    /\ broken \in BOOLEAN /\ past \in BOOLEAN
    /\ \A x \in Ring : mem[x].n <= Len(received) /\ (mem[x].n = 0 => mem[x] = Blank)

\* pos[n] is where packet n begins, and the last entry where the next will.
Laid(pos) ==
    /\ pos \in [1 .. Len(received) + 1 -> Nat]
    /\ pos[delivered + 1] = capr /\ pos[Len(received) + 1] = cbr
    /\ \A i \in 1 .. Len(received), j \in 1 .. Len(received) + 1 : i < j => pos[i] < pos[j]
    /\ \A i \in 1 .. Len(received) :
          /\ pos[i + 1] = pos[i] + 1 + Words(received[i])
          /\ \A w \in 0 .. Words(received[i]) : mem[pos[i] + w] = Word(i, w)

\* Up to the end of RX_BUF the packets lie one behind the other.
RxLaid == ~past => ~broken /\ cbr < BufWords /\ \E pos \in [1 .. Len(received) + 1 -> Nat] : Laid(pos)

\* Sends are numbered as they are counted, and the last Descs of them are
\* what the transmit buffers hold.
TxOK ==
    /\ txDesc \in Nat /\ cur = txDesc /\ txBufs \in [Desc -> Nat]
    /\ tsd \in [Desc -> {"idle", "busy", "ok", "error"}]
    /\ queue \in Seq(Desc) /\ out \in Seq(Frames) /\ lates \in 0 .. Descs
    /\ loopback \in BOOLEAN /\ loopback = test
    /\ pc \in {"idle", "tx", "looprx", "loopoff"}
    /\ pc = "tx" => txDesc > 0
    /\ pc = "idle" => ~test

Buffered ==
    \A m \in 1 .. txDesc : m > txDesc - Descs => txBufs[(m - 1) % Descs] = m

\* Short of Descs timeouts in a row, the card's queue is the last sends: no
\* more than timed out, and the running one, whose status is still busy.
Queued ==
    lates < Descs =>
        /\ Len(queue) <= txDesc
        /\ Len(queue) <= lates + (IF pc = "tx" THEN 1 ELSE 0)
        /\ \A i \in 1 .. Len(queue) : queue[i] = (txDesc - Len(queue) + i - 1) % Descs
        /\ pc = "tx" /\ queue # <<>> => tsd[desc] = "busy"
        /\ \A i \in 1 .. Len(out) : out[i].n <= txDesc - Len(queue)

RtlInv == RxOK /\ RxLaid /\ TxOK /\ Buffered /\ Queued /\ SentOnceInOrder /\ OkMeansSent

-----------------------------------------------------------------------------
(***************************************************************************)
(* The receiver.                                                           *)
(***************************************************************************)

\* The assumptions on the constants, one by one.
LEMMA Constants ==
    /\ BufWords \in Nat \ {0} /\ RingWords \in Nat \ {0} /\ Descs \in Nat \ {0}
    /\ MaxFrames \in Nat /\ MaxSends \in Nat /\ BufWords <= RingWords
    /\ \A s \in Sizes : s \in Nat /\ s >= 4 /\ Words(s) < BufWords
  BY RtlAssumption

\* Sizes in words; the checksum is one of them.
LEMMA WordsFacts ==
    ASSUME NEW s \in Nat
    PROVE  Words(s) \in Nat /\ (s >= 4 => s - 4 \in Nat /\ Words(s - 4) = Words(s) - 1)
  BY DEF Words

\* Distances in the card's ring.
LEMMA RingMod ==
    ASSUME NEW a \in Ring, NEW b \in Ring
    PROVE  (a - b) % RingWords = IF a >= b THEN a - b ELSE a - b + RingWords
<1>1. ASSUME a >= b  PROVE  (a - b) % RingWords = a - b
  BY <1>1, Constants DEF Ring
<1>2. ASSUME a < b  PROVE  (a - b) % RingWords = a - b + RingWords
  <2>1. a - b + RingWords \in Ring
    BY <1>2, Constants DEF Ring
  <2>2. (a - b) % RingWords = (a - b + RingWords) % RingWords
    BY <1>2, Constants DEF Ring
  <2>3. (a - b + RingWords) % RingWords = a - b + RingWords
    BY <2>1, Constants DEF Ring
  <2>. QED BY <2>2, <2>3
<1>. QED BY <1>1, <1>2, Constants DEF Ring

\* Whatever memory holds, the size read is that of some packet, or 0.
LEMMA SizeRead ==
    ASSUME RxOK, NEW s \in rx_volatile_u16(capr)
    PROVE  /\ s \in Nat /\ (s >= 4 => s \in Sizes)
           /\ s >= 4 => capr < BufWords /\ mem[capr] # Blank
           /\ mem[capr].w = 0 /\ s >= 4 => s = received[mem[capr].n]
<1>1. capr \in Ring /\ mem[capr].n \in Nat /\ mem[capr].n <= Len(received)
      /\ (mem[capr].n = 0 => mem[capr] = Blank) /\ received \in Seq(Sizes)
  BY DEF RxOK
<1>2. CASE capr >= BufWords \/ mem[capr] = Blank
  BY <1>2 DEF rx_volatile_u16
<1>3. CASE ~(capr >= BufWords \/ mem[capr] = Blank)
  <2>1. mem[capr].n \in 1 .. Len(received)
    BY <1>1, <1>3
  <2>2. received[mem[capr].n] \in Sizes
    BY <1>1, <2>1
  <2>3. capr < BufWords
    BY <1>1, <1>3, Constants DEF Ring
  <2>. QED BY <1>3, <2>2, <2>3, Constants DEF rx_volatile_u16
<1>. QED BY <1>2, <1>3

\* What the card's store of a packet leaves.
LEMMA StoreFacts ==
    ASSUME RxOK, NEW s \in Sizes, Store(s)
    PROVE  /\ mem' \in [Ring -> [n : Nat, w : Nat]]
           /\ cbr' \in Ring /\ received' \in Seq(Sizes) /\ past' \in BOOLEAN
           /\ Len(received') = Len(received) + 1 /\ received'[Len(received) + 1] = s
           /\ \A i \in 1 .. Len(received) : received'[i] = received[i]
           /\ \A x \in Ring : mem'[x].n <= Len(received') /\ (mem'[x].n = 0 => mem'[x] = Blank)
<1>1. /\ received' = Append(received, s) /\ received \in Seq(Sizes)
      /\ Len(received) \in Nat
  BY DEF RxOK, Store
<1>2. /\ received' \in Seq(Sizes) /\ Len(received') = Len(received) + 1
      /\ received'[Len(received) + 1] = s
      /\ \A i \in 1 .. Len(received) : received'[i] = received[i]
  BY <1>1
<1>3. ASSUME NEW x \in Ring  PROVE  (x - cbr) % RingWords \in Nat
  BY RingMod, Constants DEF RxOK, Ring
<1>4. mem' = [x \in Ring |->
                IF (x - cbr) % RingWords <= Words(s)
                THEN Word(Len(received) + 1, (x - cbr) % RingWords) ELSE mem[x]]
  BY DEF Store, RxOK
<1>5. ASSUME NEW x \in Ring
      PROVE  /\ mem'[x] \in [n : Nat, w : Nat]
             /\ mem'[x].n <= Len(received') /\ (mem'[x].n = 0 => mem'[x] = Blank)
  <2>1. CASE (x - cbr) % RingWords <= Words(s)
    <3>1. mem'[x] = [n |-> Len(received) + 1, w |-> (x - cbr) % RingWords]
      BY <1>4, <2>1 DEF Word
    <3>. QED BY <1>1, <1>2, <1>3, <3>1
  <2>2. CASE ~((x - cbr) % RingWords <= Words(s))
    <3>1. mem'[x] = mem[x]
      BY <1>4, <2>2
    <3>2. mem[x] \in [n : Nat, w : Nat]
          /\ mem[x].n <= Len(received) /\ (mem[x].n = 0 => mem[x] = Blank)
      BY DEF RxOK
    <3>. QED BY <1>1, <1>2, <3>1, <3>2
  <2>. QED BY <2>1, <2>2
<1>6. cbr' \in Ring
  <2>1. Words(s) \in Nat /\ cbr' = (cbr + 1 + Words(s)) % RingWords
    BY WordsFacts, Constants DEF Store
  <2>2. cbr + 1 + Words(s) \in Nat
    BY <2>1 DEF RxOK, Ring
  <2>. QED BY <2>1, <2>2, Constants DEF Ring
<1>7. past' \in BOOLEAN
  BY DEF RxOK, Store
<1>. QED BY <1>2, <1>4, <1>5, <1>6, <1>7

\* While the end of RX_BUF is not reached, the packet goes behind the others.
LEMMA StoreLaid ==
    ASSUME RxOK, RxLaid, NEW s \in Sizes, Store(s), UNCHANGED <<capr, delivered, broken>>
    PROVE  RxLaid'
<1>. SUFFICES ASSUME ~past'
              PROVE  ~broken' /\ cbr' < BufWords
                     /\ \E pos \in [1 .. Len(received') + 1 -> Nat] : Laid(pos)'
  BY DEF RxLaid
<1>. DEFINE n == Len(received)
            W == Words(s)
<1>1. ~past /\ cbr + 1 + W < BufWords /\ W \in Nat
  <2>1. s \in Nat
    BY Constants
  <2>2. W \in Nat
    BY <2>1, WordsFacts
  <2>3. past' = (past \/ cbr + 1 + W >= BufWords) /\ cbr \in Nat
    BY Constants DEF Store, RxOK, Ring
  <2>. HIDE DEF W
  <2>4. ~past /\ ~(cbr + 1 + W >= BufWords)
    BY <2>3, Zenon
  <2>. QED BY <2>2, <2>3, <2>4, Constants
<1>2. ~broken /\ cbr < BufWords
  BY <1>1 DEF RxLaid
<1>3. PICK pos \in [1 .. n + 1 -> Nat] : Laid(pos)
  BY <1>1 DEF RxLaid
<1>4. /\ Len(received') = n + 1 /\ n \in Nat /\ received'[n + 1] = s
      /\ \A i \in 1 .. n : received'[i] = received[i]
  BY StoreFacts DEF RxOK
<1>5. cbr \in Ring /\ cbr' = cbr + 1 + W /\ cbr' \in Ring /\ delivered \in 0 .. n
  <2>1. cbr \in Ring /\ cbr' = (cbr + 1 + W) % RingWords /\ delivered \in 0 .. n
    BY DEF RxOK, Store
  <2>2. cbr + 1 + W \in Ring
    <3>. HIDE DEF W
    <3>. QED BY <1>1, <2>1, Constants DEF Ring
  <2>3. (cbr + 1 + W) % RingWords = cbr + 1 + W
    BY <2>2, Constants DEF Ring
  <2>. QED BY <2>1, <2>2, <2>3
<1>6. ASSUME NEW x \in Ring
      PROVE  /\ x < cbr => mem'[x] = mem[x]
             /\ cbr <= x /\ x <= cbr + W => mem'[x] = Word(n + 1, x - cbr)
  <2>1. mem'[x] = IF (x - cbr) % RingWords <= W
                  THEN Word(n + 1, (x - cbr) % RingWords) ELSE mem[x]
    BY DEF Store, RxOK
  <2>2. (x - cbr) % RingWords = IF x >= cbr THEN x - cbr ELSE x - cbr + RingWords
    BY <1>5, RingMod
  <2>3. x < cbr => ~(x - cbr + RingWords <= W)
    BY <1>1, <1>5, Constants DEF Ring
  <2>4. cbr <= x /\ x <= cbr + W => x - cbr <= W
    BY <1>1, <1>5, Constants DEF Ring
  <2>. HIDE DEF n, W
  <2>5. x < cbr => mem'[x] = mem[x]
    BY <1>5, <2>1, <2>2, <2>3, Constants DEF Ring
  <2>6. cbr <= x /\ x <= cbr + W => mem'[x] = Word(n + 1, x - cbr)
    BY <1>5, <2>1, <2>2, <2>4, Constants DEF Ring
  <2>. QED BY <2>5, <2>6
<1>. DEFINE new == [i \in 1 .. n + 2 |-> IF i = n + 2 THEN cbr + 1 + W ELSE pos[i]]
<1>7. /\ new \in [1 .. n + 2 -> Nat] /\ new[n + 2] = cbr + 1 + W
      /\ \A i \in 1 .. n + 1 : new[i] = pos[i]
  BY <1>1, <1>4, <1>5 DEF Ring
<1>8. /\ pos[delivered + 1] = capr /\ pos[n + 1] = cbr
      /\ \A i \in 1 .. n, j \in 1 .. n + 1 : i < j => pos[i] < pos[j]
      /\ \A i \in 1 .. n : /\ pos[i + 1] = pos[i] + 1 + Words(received[i])
                           /\ \A w \in 0 .. Words(received[i]) : mem[pos[i] + w] = Word(i, w)
  BY <1>3 DEF Laid
<1>. HIDE DEF n, W, new
<1>9. \A i \in 1 .. n + 1, j \in 1 .. n + 2 : i < j => new[i] < new[j]
  <2>. SUFFICES ASSUME NEW i \in 1 .. n + 1, NEW j \in 1 .. n + 2, i < j
                PROVE  new[i] < new[j]
    OBVIOUS
  <2>1. pos[i] <= cbr /\ pos[i] \in Nat
    <3>1. CASE i = n + 1
      BY <1>3, <1>5, <1>8, <3>1 DEF Ring
    <3>2. CASE i # n + 1
      <4>1. i \in 1 .. n /\ n + 1 \in 1 .. n + 1 /\ i < n + 1
        BY <1>4, <3>2
      <4>2. pos[i] < cbr /\ pos[i] \in Nat
        BY <1>3, <1>8, <4>1
      <4>. QED BY <1>5, <4>2 DEF Ring
    <3>. QED BY <3>1, <3>2
  <2>2. CASE j = n + 2
    BY <1>1, <1>5, <1>7, <2>1, <2>2 DEF Ring
  <2>3. CASE j # n + 2
    <3>1. i \in 1 .. n /\ j \in 1 .. n + 1
      BY <1>4, <2>3
    <3>. QED BY <1>7, <1>8, <3>1
  <2>. QED BY <2>2, <2>3
<1>10. ASSUME NEW i \in 1 .. n + 1
       PROVE  /\ new[i + 1] = new[i] + 1 + Words(received'[i])
              /\ \A w \in 0 .. Words(received'[i]) : mem'[new[i] + w] = Word(i, w)
  <2>1. CASE i = n + 1
    <3>1. new[i] = cbr /\ new[i + 1] = cbr + 1 + W /\ received'[i] = s
      BY <1>4, <1>7, <1>8, <2>1
    <3>2. ASSUME NEW w \in 0 .. W  PROVE  mem'[cbr + w] = Word(i, w)
      <4>1. cbr + w \in Ring /\ cbr <= cbr + w /\ cbr + w <= cbr + W /\ (cbr + w) - cbr = w
        BY <1>1, <1>5, Constants DEF Ring
      <4>. QED BY <1>6, <2>1, <4>1
    <3>. QED BY <3>1, <3>2 DEF W
  <2>2. CASE i # n + 1
    <3>1. i \in 1 .. n /\ i + 1 \in 1 .. n + 1 /\ received'[i] = received[i]
      BY <1>4, <2>2
    <3>2. new[i] = pos[i] /\ new[i + 1] = pos[i + 1]
      BY <1>7, <3>1
    <3>3. pos[i + 1] <= cbr /\ pos[i] \in Nat /\ pos[i + 1] \in Nat
      <4>1. CASE i = n
        BY <1>3, <1>4, <1>5, <1>8, <3>1, <4>1 DEF Ring
      <4>2. CASE i # n
        <5>1. i + 1 \in 1 .. n /\ n + 1 \in 1 .. n + 1 /\ i + 1 < n + 1
          BY <1>4, <3>1, <4>2
        <5>2. pos[i + 1] < cbr
          BY <1>8, <5>1
        <5>. QED BY <1>3, <1>5, <3>1, <5>2 DEF Ring
      <4>. QED BY <4>1, <4>2
    <3>4. Words(received[i]) \in Nat
      <4>1. received[i] \in Sizes
        BY <3>1 DEF RxOK, n
      <4>. QED BY <4>1, WordsFacts, Constants
    <3>5. ASSUME NEW w \in 0 .. Words(received[i])  PROVE  mem'[pos[i] + w] = Word(i, w)
      <4>0. pos[i + 1] = pos[i] + 1 + Words(received[i])
        BY <1>8, <3>1
      <4>1. pos[i] + w \in Ring /\ pos[i] + w < cbr
        <5>1. w \in Nat /\ w <= Words(received[i]) /\ cbr \in 0 .. RingWords - 1
          BY <1>5, <3>4 DEF Ring
        <5>2. pos[i] + w \in Nat /\ pos[i] + w < cbr
          BY <3>3, <3>4, <4>0, <5>1, Constants
        <5>. QED BY <5>1, <5>2, Constants DEF Ring
      <4>2. mem[pos[i] + w] = Word(i, w)
        BY <1>8, <3>1
      <4>. QED BY <1>6, <4>1, <4>2
    <3>. QED BY <1>8, <3>1, <3>2, <3>5
  <2>. QED BY <2>1, <2>2
<1>11. new[delivered + 1] = capr /\ new[n + 2] = cbr'
  <2>1. delivered + 1 \in 1 .. n + 1
    BY <1>4, <1>5
  <2>. QED BY <1>5, <1>7, <1>8, <2>1
<1>12. Len(received') + 1 = n + 2
  BY <1>4
<1>13. PICK q : q = new
  OBVIOUS
<1>14. q \in [1 .. Len(received') + 1 -> Nat] /\ Laid(q)'
  BY <1>4, <1>7, <1>9, <1>10, <1>11, <1>12, <1>13 DEF Laid
<1>. QED BY <1>1, <1>2, <1>5, <1>14

\* poll_rx keeps CAPR in the ring and takes the packets in their order.
LEMMA PollStep ==
    ASSUME RxOK, RxLaid, poll_rx  PROVE  RxOK' /\ RxLaid'
<1>0. PICK s \in rx_volatile_u16(capr) : Some(s) \/ BadPacket(s)
  BY DEF poll_rx
<1>1. capr # cbr /\ UNCHANGED <<mem, cbr, received, past>>
  BY <1>0 DEF poll_rx, Some, BadPacket
<1>2. /\ s \in Nat /\ (s >= 4 => s \in Sizes)
      /\ s >= 4 => capr < BufWords /\ mem[capr] # Blank
      /\ mem[capr].w = 0 /\ s >= 4 => s = received[mem[capr].n]
  BY SizeRead
<1>3. Words(s) \in Nat /\ (s >= 4 => Words(s) < BufWords)
  BY <1>2, WordsFacts, Constants
<1>4. capr \in Ring /\ cbr \in Ring /\ Len(received) \in Nat /\ delivered \in 0 .. Len(received)
  BY DEF RxOK
<1>5. capr' \in Ring
  <2>1. CASE Some(s)
    <3>1. capr' = IF capr + 1 + Words(s) >= BufWords THEN 0 ELSE capr + 1 + Words(s)
      BY <2>1 DEF Some, new_capr
    <3>. QED BY <1>3, <1>4, <3>1, Constants DEF Ring
  <2>2. CASE BadPacket(s)
    BY <1>4, <2>2 DEF BadPacket
  <2>. QED BY <1>0, <2>1, <2>2
<1>6. RxOK'
  <2>1. delivered' \in 0 .. Len(received) /\ broken' \in BOOLEAN
    <3>1. CASE Some(s)
      <4>1. CASE Expected(s)
        BY <1>4, <3>1, <4>1 DEF Some, Expected, RxOK
      <4>2. CASE ~Expected(s)
        BY <1>4, <3>1, <4>2 DEF Some
      <4>. QED BY <4>1, <4>2
    <3>2. CASE BadPacket(s)
      BY <3>2 DEF BadPacket, RxOK
    <3>. QED BY <1>0, <3>1, <3>2
  <2>. QED BY <1>1, <1>5, <2>1 DEF RxOK
<1>7. RxLaid'
  <2>. SUFFICES ASSUME ~past
                PROVE  ~broken' /\ cbr < BufWords
                       /\ \E pos \in [1 .. Len(received) + 1 -> Nat] : Laid(pos)'
    BY <1>1 DEF RxLaid
  <2>. DEFINE n == Len(received)
              d == delivered + 1
  <2>1. PICK pos \in [1 .. n + 1 -> Nat] : Laid(pos)
    BY DEF RxLaid
  <2>2. /\ pos[d] = capr /\ pos[n + 1] = cbr
        /\ \A i \in 1 .. n, j \in 1 .. n + 1 : i < j => pos[i] < pos[j]
        /\ \A i \in 1 .. n : /\ pos[i + 1] = pos[i] + 1 + Words(received[i])
                             /\ \A w \in 0 .. Words(received[i]) : mem[pos[i] + w] = Word(i, w)
    BY <2>1 DEF Laid
  <2>3. ~broken /\ cbr < BufWords
    BY DEF RxLaid
  <2>4. d \in 1 .. n /\ d + 1 \in 1 .. n + 1
    <3>1. delivered # n
      BY <1>1, <2>2
    <3>. QED BY <1>4, <3>1
  <2>5. received[d] \in Sizes /\ Words(received[d]) \in Nat /\ received[d] >= 4
    <3>1. received[d] \in Sizes
      BY <2>4 DEF RxOK
    <3>. QED BY <3>1, WordsFacts, Constants
  <2>. HIDE DEF n, d
  <2>6. pos[d + 1] = capr + 1 + Words(received[d]) /\ pos[d + 1] <= cbr
    <3>1. CASE d = n
      BY <1>4, <2>2, <2>4, <3>1 DEF Ring
    <3>2. CASE d # n
      <4>1. d + 1 \in 1 .. n /\ n + 1 \in 1 .. n + 1 /\ d + 1 < n + 1
        BY <1>4, <2>4, <3>2 DEF n
      <4>2. pos[d + 1] < cbr
        BY <2>2, <4>1
      <4>3. pos[d + 1] \in Nat
        BY <2>1, <2>4
      <4>. QED BY <1>4, <2>2, <2>4, <4>2, <4>3 DEF Ring
    <3>. QED BY <3>1, <3>2
  <2>7. \A w \in 0 .. Words(received[d]) : mem[capr + w] = Word(d, w)
    BY <2>2, <2>4
  <2>8. mem[capr] = Word(d, 0)
    <3>1. 0 \in 0 .. Words(received[d]) /\ capr + 0 = capr
      BY <1>4, <2>5 DEF Ring
    <3>. QED BY <2>7, <3>1
  <2>9. capr < BufWords /\ capr + 1 + Words(received[d]) < BufWords
    BY <1>4, <2>3, <2>5, <2>6, Constants DEF Ring
  <2>10. s = received[d]
    <3>1. mem[capr].n = d /\ mem[capr].w = 0 /\ mem[capr] # Blank
      BY <2>4, <2>8 DEF Word, Blank
    <3>2. ~(capr >= BufWords)
      BY <1>4, <2>9, Constants DEF Ring
    <3>. QED BY <3>1, <3>2 DEF rx_volatile_u16
  <2>11. Some(s)
    BY <1>0, <2>5, <2>10, Constants DEF BadPacket
  <2>12. Expected(s)
    <3>1. Words(s - 4) = Words(s) - 1 /\ Words(s) \in Nat
      BY <1>2, <2>5, <2>10, WordsFacts
    <3>2. ASSUME NEW i \in 1 .. Words(s - 4)
          PROVE  mem[ReadAt(i - 1)] = Word(d, i)
      <4>1. i \in 0 .. Words(received[d]) /\ i - 1 < BufWords - (capr + 1)
        BY <1>4, <2>9, <2>10, <3>1, Constants DEF Ring
      <4>2. ReadAt(i - 1) = capr + i
        BY <1>4, <4>1 DEF ReadAt, first, data_start, Ring
      <4>. QED BY <2>7, <4>1, <4>2
    <3>3. Frame(s) = [i \in 1 .. Words(s - 4) |-> Word(d, i)]
      BY <3>2 DEF Frame
    <3>4. delivered < Len(received)
      BY <1>4, <2>4 DEF n, d
    <3>. QED BY <2>10, <3>3, <3>4 DEF Expected, d
  <2>13. /\ delivered' = d /\ broken' = broken
         /\ capr' = capr + 1 + Words(s)
    <3>1. ~(capr + 1 + Words(s) >= BufWords)
      BY <1>4, <2>5, <2>9, <2>10, Constants DEF Ring
    <3>. QED BY <2>11, <2>12, <3>1 DEF Some, new_capr, d
  <2>14. Laid(pos)'
    <3>1. pos[delivered' + 1] = capr'
      BY <2>6, <2>10, <2>13
    <3>. QED BY <1>1, <2>1, <2>2, <3>1 DEF Laid, n
  <2>. QED BY <2>1, <2>3, <2>13, <2>14 DEF n
<1>. QED BY <1>6, <1>7

\* Every step keeps the receiver's invariants.
LEMMA RxStep == RxOK /\ RxLaid /\ [Next]_vars => RxOK' /\ RxLaid'
<1>. SUFFICES ASSUME RxOK, RxLaid, [Next]_vars  PROVE  RxOK' /\ RxLaid'
  OBVIOUS
<1>1. ASSUME UNCHANGED rx  PROVE  RxOK' /\ RxLaid'
  BY <1>1 DEF rx, RxOK, RxLaid, Laid
<1>2. ASSUME NEW s \in Sizes, Store(s), UNCHANGED <<capr, delivered, broken>>
      PROVE  RxOK' /\ RxLaid'
  <2>1. RxLaid'
    BY <1>2, StoreLaid
  <2>2. delivered \in 0 .. Len(received) + 1 /\ capr \in Ring /\ broken \in BOOLEAN
    BY DEF RxOK
  <2>. QED BY <1>2, <2>1, <2>2, StoreFacts DEF RxOK
<1>3. CASE Receive
  BY <1>2, <1>3 DEF Receive
<1>4. CASE poll_rx
  BY <1>4, PollStep
<1>5. CASE Transmit
  BY <1>1, <1>2, <1>5 DEF Transmit, rx
<1>6. CASE UNCHANGED vars
  BY <1>1, <1>6 DEF vars
<1>. QED BY <1>1, <1>3, <1>4, <1>5, <1>6 DEF Next, Send, SendDone, SendTimeout,
         cmd_looptest, LoopDeadline, LoopOff

-----------------------------------------------------------------------------
(***************************************************************************)
(* The transmitter.                                                        *)
(***************************************************************************)
TxInv == TxOK /\ Buffered /\ Queued /\ SentOnceInOrder /\ OkMeansSent

\* Descs sends in a row use different descriptors.
LEMMA ModDistinct ==
    ASSUME NEW a \in Nat, NEW b \in Nat, a < b, b - a < Descs
    PROVE  a % Descs # b % Descs
<1>. SUFFICES ASSUME a % Descs = b % Descs  PROVE  FALSE
  OBVIOUS
<1>1. PICK D \in Nat \ {0} : D = Descs
  BY Constants
<1>2. \A x \in Nat : x \div D \in Nat /\ x % D \in Nat /\ x % D = x - D * (x \div D)
  <2>. TAKE x \in Nat
  <2>1. x \div D \in Nat
    OBVIOUS
  <2>2. x % D \in Nat
    OBVIOUS
  <2>3. x % D = x - D * (x \div D)
    OBVIOUS
  <2>. QED BY <2>1, <2>2, <2>3
<1>. DEFINE q == a \div D
            p == b \div D
            r == a % D
<1>3. q \in Nat /\ p \in Nat /\ r \in Nat /\ r = a - D * q /\ r = b - D * p
  BY <1>1, <1>2
<1>. HIDE DEF q, p, r
<1>4. b - a = D * (p - q)
  BY <1>2, <1>3, SMT
<1>5. CASE p <= q
  BY <1>2, <1>3, <1>4, <1>5, SMT
<1>6. CASE p > q
  <2>1. D * (p - q) >= D
    BY <1>2, <1>3, <1>6, SMT
  <2>. QED BY <1>1, <1>4, <2>1
<1>. QED BY <1>2, <1>3, <1>5, <1>6

\* Descriptor numbers are in range; the running send's is the one before next.
LEMMA DescFacts ==
    ASSUME TxOK
    PROVE  /\ NextDesc \in Desc /\ desc \in Desc
           /\ txDesc' = txDesc + 1 => desc' = NextDesc
<1>1. \A x \in Int : x % Descs \in Desc
  BY Constants DEF Desc
<1>2. txDesc \in Nat /\ txDesc - 1 \in Int
  BY DEF TxOK
<1>3. txDesc' = txDesc + 1 => txDesc' - 1 = txDesc
  BY <1>2
<1>. QED BY <1>1, <1>2, <1>3 DEF NextDesc, desc

\* A send takes the descriptor of the oldest frame the buffers still held.
LEMMA SendStep ==
    ASSUME TxInv, pc = "idle", send(cur + 1), loopback' \in BOOLEAN, loopback' = test'
    PROVE  TxInv'
<1>1. /\ txDesc \in Nat /\ cur = txDesc /\ txBufs \in [Desc -> Nat]
      /\ tsd \in [Desc -> {"idle", "busy", "ok", "error"}]
      /\ queue \in Seq(Desc) /\ out \in Seq(Frames) /\ lates \in 0 .. Descs
  BY DEF TxInv, TxOK
<1>2. NextDesc \in Desc
  BY DescFacts DEF TxInv
<1>3. /\ txBufs' = [txBufs EXCEPT ![NextDesc] = txDesc + 1]
      /\ queue' = Append(queue, NextDesc) /\ tsd' = [tsd EXCEPT ![NextDesc] = "busy"]
      /\ txDesc' = txDesc + 1 /\ cur' = txDesc + 1 /\ pc' = "tx" /\ out' = out /\ lates' = lates
  BY <1>1 DEF send, Trigger
<1>4. desc' = NextDesc
  BY <1>3, DescFacts DEF TxInv
<1>5. tsd'[desc'] = "busy"
  BY <1>1, <1>2, <1>3, <1>4
<1>6. TxOK'
  BY <1>1, <1>2, <1>3 DEF TxOK
<1>7. Buffered'
  <2>. SUFFICES ASSUME NEW m \in 1 .. txDesc + 1, m > txDesc + 1 - Descs
                PROVE  txBufs'[(m - 1) % Descs] = m
    BY <1>1, <1>3, Constants DEF Buffered
  <2>1. CASE m = txDesc + 1
    <3>1. (m - 1) % Descs = NextDesc
      BY <1>1, <2>1 DEF NextDesc
    <3>. QED BY <1>1, <1>2, <1>3, <2>1, <3>1
  <2>2. CASE m # txDesc + 1
    <3>1. m \in 1 .. txDesc /\ m > txDesc - Descs
      BY <1>1, <2>2, Constants
    <3>2. txBufs[(m - 1) % Descs] = m
      BY <3>1 DEF TxInv, Buffered
    <3>3. m - 1 \in Nat /\ m - 1 < txDesc /\ txDesc - (m - 1) < Descs
      BY <1>1, <3>1, Constants
    <3>4. (m - 1) % Descs # NextDesc
      BY <1>1, <3>3, ModDistinct DEF NextDesc
    <3>5. (m - 1) % Descs \in Desc
      BY <3>3, Constants DEF Desc
    <3>. QED BY <1>1, <1>3, <3>2, <3>4, <3>5
  <2>. QED BY <2>1, <2>2
<1>8. Queued'
  <2>. SUFFICES ASSUME lates < Descs
                PROVE  /\ Len(queue') <= txDesc + 1 /\ Len(queue') <= lates + 1
                       /\ \A i \in 1 .. Len(queue') :
                             queue'[i] = (txDesc + 1 - Len(queue') + i - 1) % Descs
                       /\ \A i \in 1 .. Len(out) : out[i].n <= txDesc + 1 - Len(queue')
    BY <1>1, <1>3, <1>5, Constants DEF Queued
  <2>1. /\ Len(queue) <= txDesc /\ Len(queue) <= lates
        /\ \A i \in 1 .. Len(queue) : queue[i] = (txDesc - Len(queue) + i - 1) % Descs
        /\ \A i \in 1 .. Len(out) : out[i].n <= txDesc - Len(queue)
    <3>1. Len(queue) <= lates + 0
      BY DEF TxInv, Queued
    <3>. QED BY <1>1, <3>1 DEF TxInv, Queued
  <2>2. Len(queue) \in Nat /\ Len(queue') = Len(queue) + 1
    BY <1>1, <1>2, <1>3
  <2>3. txDesc + 1 - Len(queue') = txDesc - Len(queue)
    BY <1>1, <2>2
  <2>4. ASSUME NEW i \in 1 .. Len(queue')
        PROVE  queue'[i] = (txDesc - Len(queue) + i - 1) % Descs
    <3>1. CASE i = Len(queue) + 1
      <4>1. queue'[i] = NextDesc
        BY <1>1, <1>2, <1>3, <3>1
      <4>2. txDesc - Len(queue) + i - 1 = txDesc
        BY <1>1, <2>2, <3>1
      <4>. QED BY <4>1, <4>2 DEF NextDesc
    <3>2. CASE i # Len(queue) + 1
      <4>1. i \in 1 .. Len(queue)
        BY <2>2, <3>2
      <4>2. queue'[i] = queue[i]
        BY <1>1, <1>2, <1>3, <4>1
      <4>. QED BY <2>1, <4>1, <4>2
    <3>. QED BY <3>1, <3>2
  <2>. QED BY <1>1, <2>1, <2>2, <2>3, <2>4
<1>9. SentOnceInOrder' /\ OkMeansSent'
  BY <1>3, <1>5 DEF TxInv, SentOnceInOrder, OkMeansSent
<1>. QED BY <1>6, <1>7, <1>8, <1>9 DEF TxInv

\* A send that returns leaves its descriptor with the card only by a timeout.
LEMMA ReturnStep ==
    ASSUME TxInv, SendDone \/ SendTimeout  PROVE  TxInv'
<1>1. /\ txDesc \in Nat /\ lates \in 0 .. Descs /\ queue \in Seq(Desc) /\ test \in BOOLEAN
      /\ Len(queue) \in Nat
  BY DEF TxInv, TxOK
<1>2. /\ pc = "tx" /\ pc' = (IF test THEN "looprx" ELSE "idle")
      /\ UNCHANGED <<txDesc, txBufs, tsd, queue, out, loopback, cur, test>>
  BY DEF SendDone, SendTimeout, Returned
<1>3. pc' # "tx" /\ pc' \in {"idle", "looprx"} /\ (pc' = "idle" => ~test')
  BY <1>1, <1>2
<1>4. lates' \in 0 .. Descs /\ (lates' < Descs => lates < Descs)
  BY <1>1, Constants DEF SendDone, SendTimeout, Lates
<1>5. TxOK'
  BY <1>2, <1>3, <1>4 DEF TxInv, TxOK
<1>6. Buffered'
  BY <1>2 DEF TxInv, Buffered
<1>7. Queued'
  <2>. SUFFICES ASSUME lates' < Descs  PROVE  Len(queue) <= lates'
    BY <1>2, <1>3, <1>4 DEF TxInv, Queued
  <2>1. Len(queue) <= lates + 1 /\ (queue # <<>> => tsd[desc] = "busy")
    BY <1>2, <1>4 DEF TxInv, Queued
  <2>2. CASE SendDone
    <3>1. queue = <<>> /\ lates' = 0
      BY <1>1, <1>4, <2>1, <2>2 DEF SendDone, Lates
    <3>. QED BY <3>1
  <2>3. CASE SendTimeout
    <3>1. lates' = lates + 1
      BY <1>1, <1>4, <2>3 DEF SendTimeout, Lates
    <3>. QED BY <2>1, <3>1
  <2>. QED BY <2>2, <2>3
<1>8. SentOnceInOrder' /\ OkMeansSent'
  BY <1>2, <1>3, <1>4 DEF TxInv, SentOnceInOrder, OkMeansSent
<1>. QED BY <1>5, <1>6, <1>7, <1>8 DEF TxInv

\* The card finds in the buffer of its next descriptor the frame that was put
\* there when the descriptor was queued.
LEMMA TransmitStep ==
    ASSUME TxInv, Transmit  PROVE  TxInv'
<1>. DEFINE d == Head(queue)
            L == Len(queue)
            sent == [n |-> txBufs[d], loop |-> loopback]
<1>1. /\ txDesc \in Nat /\ cur = txDesc /\ txBufs \in [Desc -> Nat]
      /\ tsd \in [Desc -> {"idle", "busy", "ok", "error"}]
      /\ queue \in Seq(Desc) /\ out \in Seq(Frames) /\ lates \in 0 .. Descs
      /\ loopback \in BOOLEAN /\ loopback = test /\ (pc = "tx" => txDesc > 0)
  BY DEF TxInv, TxOK
<1>2. /\ queue # <<>> /\ queue' = Tail(queue)
      /\ UNCHANGED <<txDesc, txBufs, lates, loopback, pc, cur, test>>
      /\ \/ tsd' = [tsd EXCEPT ![d] = "ok"] /\ out' = Append(out, sent)
         \/ tsd' = [tsd EXCEPT ![d] = "error"] /\ out' = out
  BY DEF Transmit, shell
<1>3. d \in Desc /\ L \in Nat /\ L >= 1 /\ d = queue[1] /\ queue' \in Seq(Desc)
      /\ Len(queue') = L - 1 /\ \A i \in 1 .. L - 1 : queue'[i] = queue[i + 1]
  BY <1>1, <1>2
<1>4. sent \in Frames /\ sent.n = txBufs[d] /\ desc' = desc
  BY <1>1, <1>2, <1>3 DEF Frames, desc
<1>5. desc \in Desc
  BY DescFacts DEF TxInv
<1>. HIDE DEF d, L, sent
<1>6. /\ out' \in Seq(Frames) /\ Len(out) \in Nat
      /\ \A i \in 1 .. Len(out) : i \in 1 .. Len(out') /\ out'[i] = out[i] /\ out[i].n \in Nat
      /\ \A i \in 1 .. Len(out') : i \in 1 .. Len(out) \/ (i = Len(out) + 1 /\ out'[i] = sent)
  <2>1. Len(out) \in Nat /\ \A i \in 1 .. Len(out) : out[i] \in Frames
    BY <1>1
  <2>2. \A i \in 1 .. Len(out) : out[i].n \in Nat
    BY <2>1 DEF Frames
  <2>3. CASE out' = out
    BY <1>1, <2>1, <2>2, <2>3, Zenon
  <2>4. CASE out' = Append(out, sent)
    <3>1. out' \in Seq(Frames) /\ Len(out') = Len(out) + 1 /\ out'[Len(out) + 1] = sent
      BY <1>1, <1>4, <2>4
    <3>2. \A i \in 1 .. Len(out) : out'[i] = out[i]
      BY <1>1, <1>4, <2>4
    <3>3. \A i \in 1 .. Len(out) + 1 : i \in 1 .. Len(out) \/ i = Len(out) + 1
      BY <2>1
    <3>4. \A i \in 1 .. Len(out) : i \in 1 .. Len(out) + 1
      BY <2>1
    <3>. QED BY <2>1, <2>2, <3>1, <3>2, <3>3, <3>4, Zenon
  <2>. QED BY <1>2, <2>3, <2>4
<1>7. TxOK'
  <2>1. tsd' \in [Desc -> {"idle", "busy", "ok", "error"}]
    BY <1>1, <1>2
  <2>. QED BY <1>2, <1>3, <1>6, <2>1 DEF TxInv, TxOK
<1>8. Buffered'
  BY <1>2 DEF TxInv, Buffered
<1>9. ASSUME lates < Descs
      PROVE  /\ L <= txDesc /\ L <= Descs /\ (L <= lates + (IF pc = "tx" THEN 1 ELSE 0))
             /\ d = (txDesc - L) % Descs /\ sent.n = txDesc - L + 1
             /\ \A i \in 1 .. Len(out) : out[i].n <= txDesc - L
             /\ \A i \in 1 .. L : queue[i] = (txDesc - L + i - 1) % Descs
             /\ pc = "tx" => tsd[desc] = "busy"
  <2>1. /\ L <= txDesc /\ L <= lates + (IF pc = "tx" THEN 1 ELSE 0)
        /\ \A i \in 1 .. L : queue[i] = (txDesc - L + i - 1) % Descs
        /\ pc = "tx" => tsd[desc] = "busy"
        /\ \A i \in 1 .. Len(out) : out[i].n <= txDesc - L
    BY <1>2, <1>9 DEF TxInv, Queued, L
  <2>2. L <= Descs
    BY <1>1, <1>3, <1>9, <2>1, Constants
  <2>3. 1 \in 1 .. L /\ txDesc - L + 1 - 1 = txDesc - L
    BY <1>1, <1>3
  <2>4. d = (txDesc - L) % Descs
    BY <1>3, <2>1, <2>3
  <2>5. txDesc - L + 1 \in 1 .. txDesc /\ txDesc - L + 1 > txDesc - Descs
        /\ (txDesc - L + 1) - 1 = txDesc - L
    BY <1>1, <1>3, <2>1, <2>2, Constants
  <2>6. txBufs[d] = txDesc - L + 1
    BY <2>4, <2>5 DEF TxInv, Buffered
  <2>. QED BY <1>4, <2>1, <2>2, <2>4, <2>6
<1>10. txDesc \in Nat /\ L \in Nat
  BY <1>1, <1>3
<1>11. Queued'
  <2>. SUFFICES ASSUME lates < Descs
                PROVE  /\ L - 1 <= txDesc
                       /\ L - 1 <= lates + (IF pc = "tx" THEN 1 ELSE 0)
                       /\ \A i \in 1 .. L - 1 : queue'[i] = (txDesc - (L - 1) + i - 1) % Descs
                       /\ pc = "tx" /\ queue' # <<>> => tsd'[desc] = "busy"
                       /\ \A i \in 1 .. Len(out') : out'[i].n <= txDesc - (L - 1)
    BY <1>2, <1>3, <1>4 DEF Queued
  <2>1. L - 1 <= txDesc /\ L - 1 <= lates + (IF pc = "tx" THEN 1 ELSE 0)
    BY <1>1, <1>3, <1>9
  <2>2. ASSUME NEW i \in 1 .. L - 1
        PROVE  queue'[i] = (txDesc - (L - 1) + i - 1) % Descs
    <3>1. i + 1 \in 1 .. L /\ txDesc - L + (i + 1) - 1 = txDesc - (L - 1) + i - 1
      BY <1>1, <1>3
    <3>. QED BY <1>3, <1>9, <3>1
  <2>3. ASSUME pc = "tx", queue' # <<>>  PROVE  tsd'[desc] = "busy"
    <3>1. L - 1 >= 1
      <4>1. Len(queue') # 0
        BY <1>3, <2>3
      <4>. QED BY <1>3, <4>1
    <3>2. txDesc - L \in Nat /\ txDesc - 1 \in Nat /\ txDesc - L < txDesc - 1
          /\ (txDesc - 1) - (txDesc - L) < Descs
      BY <1>1, <1>3, <1>9, <3>1, Constants
    <3>3. d # desc
      BY <1>9, <3>2, ModDistinct DEF desc
    <3>. QED BY <1>1, <1>2, <1>5, <1>9, <2>3, <3>3
  <2>4. ASSUME NEW i \in 1 .. Len(out')
        PROVE  out'[i].n <= txDesc - (L - 1)
    <3>1. CASE i \in 1 .. Len(out)
      <4>1. out'[i] = out[i] /\ out[i].n \in Nat
        BY <1>6, <3>1
      <4>2. out[i].n <= txDesc - L
        BY <1>9, <3>1
      <4>3. \A x \in Nat : x <= txDesc - L => x <= txDesc - (L - 1)
        BY <1>10
      <4>. QED BY <4>1, <4>2, <4>3
    <3>2. CASE out'[i] = sent
      BY <1>1, <1>3, <1>9, <3>2
    <3>. QED BY <1>6, <3>1, <3>2
  <2>. QED BY <2>1, <2>2, <2>3, <2>4
<1>12. SentOnceInOrder'
  <2>. SUFFICES ASSUME lates < Descs,
                       NEW i \in 1 .. Len(out'), NEW j \in 1 .. Len(out'), i < j
                PROVE  out'[i].n < out'[j].n
    BY <1>2 DEF SentOnceInOrder
  <2>1. i \in 1 .. Len(out)
    BY <1>6
  <2>2. CASE j \in 1 .. Len(out)
    <3>1. out[i].n < out[j].n
      BY <2>1, <2>2 DEF TxInv, SentOnceInOrder
    <3>. QED BY <1>6, <2>1, <2>2, <3>1
  <2>3. CASE out'[j] = sent
    <3>1. out'[i] = out[i] /\ out[i].n \in Nat
      BY <1>6, <2>1
    <3>2. out[i].n <= txDesc - L
      BY <1>9, <2>1
    <3>3. \A x \in Nat : x <= txDesc - L => x < txDesc - L + 1
      BY <1>10
    <3>4. sent.n = txDesc - L + 1
      BY <1>9
    <3>. QED BY <2>3, <3>1, <3>2, <3>3, <3>4
  <2>. QED BY <1>6, <2>2, <2>3
<1>13. OkMeansSent'
  <2>. SUFFICES ASSUME pc = "tx", tsd'[desc] = "ok"
                PROVE  [n |-> cur, loop |-> test] \in Range(out')
    BY <1>2, <1>4 DEF OkMeansSent
  <2>1. ASSUME NEW i \in 1 .. Len(out), out[i] = [n |-> cur, loop |-> test]
        PROVE  [n |-> cur, loop |-> test] \in Range(out')
    <3>1. i \in DOMAIN out' /\ out'[i] = out[i]
      BY <1>6
    <3>. QED BY <2>1, <3>1 DEF Range
  <2>2. CASE tsd[desc] = "ok"
    <3>1. [n |-> cur, loop |-> test] \in Range(out)
      BY <2>2 DEF TxInv, OkMeansSent
    <3>2. PICK i \in 1 .. Len(out) : out[i] = [n |-> cur, loop |-> test]
      BY <1>1, <3>1 DEF Range
    <3>. QED BY <2>1, <3>2
  <2>3. CASE tsd[desc] # "ok"
    <3>1. desc = d /\ tsd' = [tsd EXCEPT ![d] = "ok"] /\ out' = Append(out, sent)
      BY <1>1, <1>2, <1>3, <1>5, <2>3
    <3>2. txDesc \in 1 .. txDesc /\ txDesc > txDesc - Descs
      BY <1>1, Constants
    <3>3. txBufs[desc] = cur
      BY <1>1, <3>2 DEF TxInv, Buffered, desc
    <3>4. sent = [n |-> cur, loop |-> test]
      BY <1>1, <3>1, <3>3 DEF sent
    <3>5. Len(out) + 1 \in DOMAIN out' /\ out'[Len(out) + 1] = sent
      BY <1>1, <1>4, <3>1
    <3>. QED BY <3>4, <3>5 DEF Range
  <2>. QED BY <2>2, <2>3
<1>. QED BY <1>7, <1>8, <1>11, <1>12, <1>13 DEF TxInv

\* Between sends the transmitter's state does not depend on what the shell does.
LEMMA QuietStep ==
    ASSUME TxInv, UNCHANGED <<tx, cur>>, pc # "tx", pc' \in {"idle", "looprx", "loopoff"},
           loopback' \in BOOLEAN, loopback' = test', pc' = "idle" => ~test'
    PROVE  TxInv'
<1>1. TxOK' /\ Buffered'
  BY DEF TxInv, TxOK, Buffered, tx
<1>2. Queued' /\ SentOnceInOrder' /\ OkMeansSent'
  BY DEF TxInv, Queued, SentOnceInOrder, OkMeansSent, tx
<1>. QED BY <1>1, <1>2 DEF TxInv

\* Every step keeps the transmitter's invariants.
LEMMA TxStep == TxInv /\ [Next]_vars => TxInv'
<1>. SUFFICES ASSUME TxInv, [Next]_vars  PROVE  TxInv'
  OBVIOUS
<1>0. loopback \in BOOLEAN /\ loopback = test /\ (pc = "idle" => ~test)
  BY DEF TxInv, TxOK
<1>1. ASSUME UNCHANGED <<tx, loopback, shell>>  PROVE  TxInv'
  BY <1>1 DEF TxInv, TxOK, Buffered, Queued, SentOnceInOrder, OkMeansSent, desc, tx, shell
<1>2. CASE Receive
  BY <1>1, <1>2 DEF Receive
<1>3. CASE poll_rx
  <2>1. pc \in {"idle", "looprx"} /\ UNCHANGED <<tx, loopback, cur, test>>
    BY <1>3 DEF poll_rx
  <2>2. pc' = pc \/ pc' = "loopoff"
    BY <1>3 DEF poll_rx
  <2>. QED BY <1>0, <2>1, <2>2, QuietStep
<1>4. CASE Send
  BY <1>0, <1>4, SendStep DEF Send
<1>5. CASE cmd_looptest
  BY <1>5, SendStep DEF cmd_looptest, set_loopback
<1>6. CASE SendDone \/ SendTimeout
  BY <1>6, ReturnStep
<1>7. CASE Transmit
  BY <1>7, TransmitStep
<1>8. CASE LoopDeadline
  BY <1>0, <1>8, QuietStep DEF LoopDeadline
<1>9. CASE LoopOff
  BY <1>9, QuietStep DEF LoopOff, set_loopback
<1>10. CASE UNCHANGED vars
  BY <1>1, <1>10 DEF vars
<1>. QED BY <1>2, <1>3, <1>4, <1>5, <1>6, <1>7, <1>8, <1>9, <1>10 DEF Next

-----------------------------------------------------------------------------
(***************************************************************************)
(* The theorems.                                                           *)
(***************************************************************************)

\* init leaves empty rings on both sides.
LEMMA RtlInit == Init => RtlInv
<1>. SUFFICES ASSUME Init  PROVE  RtlInv
  OBVIOUS
<1>1. RxOK
  <2>1. mem \in [Ring -> [n : Nat, w : Nat]] /\ \A x \in Ring : mem[x] = Blank
    BY DEF Init, Ring, Blank
  <2>2. 0 \in Ring
    BY Constants DEF Ring
  <2>3. received \in Seq(Sizes) /\ Len(received) = 0
    BY DEF Init
  <2>4. Blank.n = 0
    BY DEF Blank
  <2>5. capr \in Ring /\ cbr \in Ring /\ delivered \in 0 .. Len(received)
    BY <2>2, <2>3 DEF Init
  <2>6. \A x \in Ring : mem[x].n <= Len(received)
    BY <2>1, <2>3, <2>4
  <2>7. broken \in BOOLEAN /\ past \in BOOLEAN
    BY DEF Init
  <2>. QED BY <2>1, <2>3, <2>5, <2>6, <2>7, Zenon DEF RxOK
<1>2. RxLaid
  <2>. DEFINE pos == [i \in 1 .. 1 |-> 0]
  <2>1. Len(received) = 0 /\ capr = 0 /\ cbr = 0 /\ delivered = 0 /\ broken = FALSE
    BY DEF Init
  <2>2. pos \in [1 .. Len(received) + 1 -> Nat] /\ Laid(pos)
    BY <2>1 DEF Laid
  <2>3. cbr < BufWords
    BY <2>1, Constants
  <2>. QED BY <2>1, <2>2, <2>3 DEF RxLaid
<1>3. TxOK
  <2>1. /\ txDesc \in Nat /\ cur = txDesc /\ txBufs \in [Desc -> Nat]
        /\ tsd \in [Desc -> {"idle", "busy", "ok", "error"}]
        /\ queue \in Seq(Desc) /\ out \in Seq(Frames) /\ lates \in 0 .. Descs
    BY Constants DEF Init, Desc
  <2>2. /\ loopback \in BOOLEAN /\ loopback = test /\ ~test
        /\ pc = "idle" /\ pc # "tx"
    BY DEF Init
  <2>. QED BY <2>1, <2>2, Zenon DEF TxOK
<1>4. Buffered /\ Queued /\ SentOnceInOrder /\ OkMeansSent
  BY Constants DEF Init, Buffered, Queued, SentOnceInOrder, OkMeansSent
<1>. QED BY <1>1, <1>2, <1>3, <1>4 DEF RtlInv

\* The invariants of receiver and transmitter hold always.
THEOREM RtlInvariant == Spec => []RtlInv
<1>1. Init => RtlInv
  BY RtlInit
<1>2. RtlInv /\ [Next]_vars => RtlInv'
  BY RxStep, TxStep DEF RtlInv, TxInv
<1>. QED BY <1>1, <1>2, PTL DEF Spec

\* poll_rx never reads outside RX_BUF, although the card's ring is larger and
\* the header it reads may be any old word: the guard of rx_volatile_u16 and
\* the largest packet size are enough.
THEOREM PollReadsInBuffer == Spec => []ReadsInBuffer
<1>1. RtlInv => ReadsInBuffer
  <2>. SUFFICES ASSUME RxOK, NEW s \in rx_volatile_u16(capr), s >= 4
                PROVE  /\ first >= 0
                       /\ \A i \in 0 .. Words(s - 4) - 1 : ReadAt(i) \in 0 .. BufWords - 1
    BY DEF RtlInv, ReadsInBuffer
  <2>1. s \in Sizes /\ capr < BufWords
    BY SizeRead
  <2>2. s \in Nat /\ Words(s) < BufWords
    BY <2>1, Constants
  <2>3. Words(s - 4) = Words(s) - 1 /\ Words(s) \in Nat
    BY <2>2, WordsFacts
  <2>4. capr \in Nat
    BY DEF RxOK, Ring
  <2>5. first = BufWords - (capr + 1) /\ first >= 0
    BY <2>1, <2>4, Constants DEF first, data_start
  <2>6. ASSUME NEW i \in 0 .. Words(s - 4) - 1
        PROVE  ReadAt(i) \in 0 .. BufWords - 1
    <3>1. i \in Nat /\ i < BufWords
      BY <2>2, <2>3, Constants
    <3>2. CASE i < first
      <4>1. ReadAt(i) = capr + 1 + i
        BY <3>2 DEF ReadAt, data_start
      <4>. QED BY <2>4, <2>5, <3>1, <3>2, <4>1, Constants
    <3>3. CASE ~(i < first)
      <4>1. ReadAt(i) = i - first
        BY <3>3 DEF ReadAt
      <4>. QED BY <2>4, <2>5, <3>1, <3>3, <4>1, Constants
    <3>. QED BY <3>2, <3>3
  <2>. QED BY <2>5, <2>6
<1>. QED BY <1>1, RtlInvariant, PTL

\* Up to the end of RX_BUF poll_rx returns the packets whole, once and in order.
THEOREM PacketsInOrder == Spec => []FramesInOrder
<1>1. RtlInv => FramesInOrder
  <2>. SUFFICES ASSUME RxOK, RxLaid, ~past
                PROVE  ~broken /\ (capr = cbr => delivered = Len(received))
    BY DEF RtlInv, FramesInOrder
  <2>1. ~broken
    BY DEF RxLaid
  <2>2. PICK pos \in [1 .. Len(received) + 1 -> Nat] : Laid(pos)
    BY DEF RxLaid
  <2>3. delivered \in 0 .. Len(received) /\ Len(received) \in Nat
    BY DEF RxOK
  <2>4. ASSUME delivered # Len(received)  PROVE  capr # cbr
    <3>1. /\ delivered + 1 \in 1 .. Len(received)
          /\ Len(received) + 1 \in 1 .. Len(received) + 1
          /\ delivered + 1 < Len(received) + 1
      BY <2>3, <2>4
    <3>2. pos[delivered + 1] < pos[Len(received) + 1]
      BY <2>2, <3>1 DEF Laid
    <3>3. pos[delivered + 1] = capr /\ pos[Len(received) + 1] = cbr
      BY <2>2 DEF Laid
    <3>4. capr \in Nat /\ cbr \in Nat
      BY DEF RxOK, Ring
    <3>. QED BY <3>2, <3>3, <3>4
  <2>. QED BY <2>1, <2>4
<1>. QED BY <1>1, RtlInvariant, PTL

\* Frames leave in order and none twice, unless Descs sends in a row timed out.
THEOREM FramesLeaveInOrder == Spec => []SentOnceInOrder
<1>1. RtlInv => SentOnceInOrder
  BY DEF RtlInv
<1>. QED BY <1>1, RtlInvariant, PTL

\* TOK seen by a send is that of its own frame.
THEOREM TokIsOwn == Spec => []OkMeansSent
<1>1. RtlInv => OkMeansSent
  BY DEF RtlInv
<1>. QED BY <1>1, RtlInvariant, PTL
=============================================================================
