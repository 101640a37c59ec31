----------------------------- MODULE TcpProofs -----------------------------
(***************************************************************************)
(* Safety of the TCP and of httpget on top of it, for every table size,    *)
(* buffer size, sequence space and initial sequence number.                *)
(***************************************************************************)
EXTENDS HttpGet, SequenceTheorems, TLAPS

Flags == {"SYN", "ACK", "FIN", "PSH", "RST"}
SeqNos == 0 .. SeqMod - 1

\* A connection, a segment as it is sent, and the result of a handler.
Conn == [state : States, port : Ports \cup {0}, peer : Peers \cup {NoPeer},
         local_seq : SeqNos, remote_seq : SeqNos, local_ack : SeqNos,
         send_len : 0 .. SendCap, recv_buf : Seq(Nat),
         last_tx_seq : SeqNos, last_tx_len : 0 .. MSS, last_tx_flags : SUBSET Flags,
         retries : 0 .. MaxRetries]
Sent == [flags : SUBSET Flags, seq : SeqNos, ack : SeqNos, len : 0 .. MSS,
         to : Peers \cup {NoPeer}]
Result == [c : Conn, sent : Seq(Sent)]

-----------------------------------------------------------------------------
(***************************************************************************)
(* Constants and sequence numbers.                                         *)
(***************************************************************************)

\* The assumptions on the constants, one by one.
LEMMA Constants ==
    /\ SeqMod \in Nat \ {0} /\ MSS \in Nat \ {0} /\ SendCap \in Nat \ {0}
    /\ RecvCap \in Nat \ {0} /\ Window \in Nat \ {0}
    /\ MaxRetries \in Nat /\ PeerLen \in Nat /\ MaxOpens \in Nat
    /\ ISNs \subseteq SeqNos /\ PeerISN \in SeqNos /\ PeerLen + 2 < SeqMod
  BY TcpAssumption DEF SeqNos

\* The smaller of two numbers.
LEMMA LeastFacts ==
    ASSUME NEW a \in Int, NEW b \in Int
    PROVE  /\ Least(a, b) \in {a, b} /\ Least(a, b) <= a /\ Least(a, b) <= b
           /\ a <= b => Least(a, b) = a
  BY DEF Least

\* Sequence arithmetic stays in the sequence space.
LEMMA SeqType ==
    ASSUME NEW a \in Int, NEW b \in Int
    PROVE  Plus(a, b) \in SeqNos /\ Minus(a, b) \in SeqNos
<1>1. \A x \in Int : x % SeqMod \in SeqNos
  BY Constants DEF SeqNos
<1>. QED BY <1>1 DEF Plus, Minus

\* A sum of less than two laps wraps at most once.
LEMMA SeqPlus ==
    ASSUME NEW a \in SeqNos, NEW b \in SeqNos
    PROVE  Plus(a, b) = IF a + b < SeqMod THEN a + b ELSE a + b - SeqMod
<1>1. ASSUME a + b < SeqMod  PROVE  (a + b) % SeqMod = a + b
  BY <1>1, Constants DEF SeqNos
<1>2. ASSUME a + b >= SeqMod  PROVE  (a + b) % SeqMod = a + b - SeqMod
  <2>1. (a + b) % SeqMod = (a + b - SeqMod) % SeqMod
    BY <1>2, Constants DEF SeqNos
  <2>2. (a + b - SeqMod) % SeqMod = a + b - SeqMod
    BY <1>2, Constants DEF SeqNos
  <2>. QED BY <2>1, <2>2
<1>. QED BY <1>1, <1>2, Constants DEF Plus, SeqNos

\* Places less than a lap apart differ, and steps add up.
LEMMA SeqFacts ==
    ASSUME NEW a \in SeqNos, NEW m \in SeqNos, NEW n \in SeqNos
    PROVE  /\ Plus(a, m) = Plus(a, n) => m = n
           /\ m + n < SeqMod => Plus(Plus(a, m), n) = Plus(a, m + n)
<1>1. /\ Plus(a, m) = IF a + m < SeqMod THEN a + m ELSE a + m - SeqMod
      /\ Plus(a, n) = IF a + n < SeqMod THEN a + n ELSE a + n - SeqMod
  BY SeqPlus
<1>2. Plus(a, m) = Plus(a, n) => m = n
  BY <1>1, Constants DEF SeqNos
<1>3. ASSUME m + n < SeqMod  PROVE  Plus(Plus(a, m), n) = Plus(a, m + n)
  <2>1. m + n \in SeqNos /\ Plus(a, m) \in SeqNos
    BY <1>1, <1>3, Constants DEF SeqNos
  <2>2. Plus(a, m + n) = IF a + (m + n) < SeqMod THEN a + (m + n) ELSE a + (m + n) - SeqMod
    BY <2>1, SeqPlus
  <2>3. PICK b \in SeqNos : b = Plus(a, m)
    BY <2>1
  <2>4. Plus(b, n) = IF b + n < SeqMod THEN b + n ELSE b + n - SeqMod
    BY SeqPlus
  <2>. QED BY <1>1, <1>3, <2>2, <2>3, <2>4, Constants DEF SeqNos
<1>. QED BY <1>2, <1>3

-----------------------------------------------------------------------------
(***************************************************************************)
(* Sending.                                                                *)
(***************************************************************************)

\* Sending touches nothing of a connection but its sequence number and the
\* segment remembered for retransmission.
SameRest(c, d) ==
    /\ d.state = c.state /\ d.port = c.port /\ d.peer = c.peer
    /\ d.remote_seq = c.remote_seq /\ d.local_ack = c.local_ack
    /\ d.send_len = c.send_len /\ d.recv_buf = c.recv_buf /\ d.retries = c.retries

\* The segment with these flags and this length is the remembered one.
Remembers(c, flags, n) ==
    /\ c.last_tx_seq = c.local_seq /\ c.last_tx_len = n /\ c.last_tx_flags = flags

\* send_segment_raw changes only what is kept for a retransmission.
LEMMA RawFacts ==
    ASSUME NEW r \in Result, NEW flags \in SUBSET Flags, NEW n \in 0 .. MSS,
           NEW q, q = send_segment_raw(r, flags, n)
    PROVE  /\ q \in Result /\ SameRest(r.c, q.c) /\ q.c.local_seq = r.c.local_seq
           /\ flags \cap {"SYN", "FIN"} # {} \/ n > 0 => Remembers(q.c, flags, n)
           /\ ~(flags \cap {"SYN", "FIN"} # {} \/ n > 0) => q.c = r.c
<1>. DEFINE d == [r.c EXCEPT !.last_tx_seq = r.c.local_seq,
                            !.last_tx_len = n, !.last_tx_flags = flags]
            new == IF flags \cap {"SYN", "FIN"} # {} \/ n > 0 THEN d ELSE r.c
            seg == [flags |-> flags, seq |-> r.c.local_seq, ack |-> r.c.local_ack,
                    len |-> n, to |-> r.c.peer]
<1>1. r.c \in Conn /\ r.sent \in Seq(Sent)
  BY DEF Result
<1>2. /\ d \in Conn /\ SameRest(r.c, d) /\ d.local_seq = r.c.local_seq
      /\ Remembers(d, flags, n)
  BY <1>1 DEF Conn, SameRest, Remembers
<1>3. seg \in Sent
  BY <1>1 DEF Conn, Sent
<1>4. q = [c |-> new, sent |-> Append(r.sent, seg)]
  BY DEF send_segment_raw
<1>5. SameRest(r.c, r.c)
  BY DEF SameRest
<1>. HIDE DEF d, seg
<1>6. Append(r.sent, seg) \in Seq(Sent)
  BY <1>1, <1>3
<1>7. new \in Conn
  BY <1>1, <1>2
<1>. QED BY <1>2, <1>4, <1>5, <1>6, <1>7 DEF Result

\* send_segment moves the sequence number on and then sends.
LEMMA SegmentFacts ==
    ASSUME NEW r \in Result, NEW flags \in SUBSET Flags, NEW n \in 0 .. MSS,
           flags \cap {"SYN", "FIN"} # {} \/ n > 0,
           NEW q, q = send_segment(r, flags, n)
    PROVE  q \in Result /\ SameRest(r.c, q.c) /\ Remembers(q.c, flags, n)
<1>. DEFINE k == Card("SYN" \in flags) + Card("FIN" \in flags) + n
            p == [r EXCEPT !.c.local_seq = Plus(@, k)]
            d == [r.c EXCEPT !.local_seq = Plus(@, k)]
<1>1. r.c \in Conn /\ r.c.local_seq \in Int /\ k \in Int
  <2>1. Card("SYN" \in flags) \in Int
    BY DEF Card
  <2>2. Card("FIN" \in flags) \in Int /\ n \in Int
    BY Constants DEF Card
  <2>3. r.c \in Conn
    BY DEF Result
  <2>4. r.c.local_seq \in SeqNos
    BY <2>3 DEF Conn
  <2>5. r.c.local_seq \in Int
    BY <2>4, Constants DEF SeqNos
  <2>. QED BY <2>1, <2>2, <2>3, <2>5
<1>2. Plus(r.c.local_seq, k) \in SeqNos
  BY <1>1, SeqType
<1>. HIDE DEF k
<1>3. d \in Conn /\ SameRest(r.c, d)
  BY <1>1, <1>2 DEF Conn, SameRest
<1>4. p.c = d /\ p \in Result
  BY <1>1, <1>3 DEF Result
<1>5. q = send_segment_raw(p, flags, n)
  BY DEF send_segment, k
<1>. HIDE DEF p, d
<1>6. q \in Result /\ SameRest(p.c, q.c) /\ Remembers(q.c, flags, n)
  BY <1>4, <1>5, RawFacts
<1>. QED BY <1>3, <1>4, <1>6 DEF SameRest

\* flush_send leaves the receiving side alone, and does nothing without data.
LEMMA FlushFacts ==
    ASSUME NEW r \in Result, NEW q, q = flush_send(r)
    PROVE  q \in Result /\ SameRest(r.c, q.c) /\ (r.c.send_len = 0 => q = r)
<1>1. r.c.send_len \in 0 .. SendCap
  BY DEF Result, Conn
<1>2. CASE r.c.send_len = 0
  BY <1>2 DEF flush_send, SameRest
<1>3. CASE r.c.send_len # 0
  <2>. DEFINE n == Least(r.c.send_len, MSS)
  <2>1. n \in 0 .. MSS /\ n > 0
    BY <1>1, <1>3, Constants DEF Least
  <2>2. q = send_segment(r, {"PSH", "ACK"}, n) /\ {"PSH", "ACK"} \in SUBSET Flags
    BY <1>3 DEF flush_send, Flags
  <2>. QED BY <1>3, <2>1, <2>2, SegmentFacts
<1>. QED BY <1>2, <1>3

\* An acknowledgement changes nothing in the connection.
LEMMA AckFacts ==
    ASSUME NEW r \in Result
    PROVE  SendAck(r) \in Result /\ SendAck(r).c = r.c
<1>1. {"ACK"} \in SUBSET Flags /\ {"ACK"} \cap {"SYN", "FIN"} = {} /\ 0 \in 0 .. MSS /\ ~(0 > 0)
  BY Constants DEF Flags
<1>. QED BY <1>1, RawFacts DEF SendAck

-----------------------------------------------------------------------------
(***************************************************************************)
(* The invariant of one connection, and of what arrives for it.            *)
(***************************************************************************)

\* RetransmitsTheSame and AcksInStep of one connection.
Resends(c) ==
    c.state \in Awaiting =>
        Remembers(c, CASE c.state = "SynSent" -> {"SYN"}
                       [] c.state = "SynReceived" -> {"SYN", "ACK"}
                       [] OTHER -> {"FIN", "ACK"}, 0)
InStep(c) ==
    c.state \in {"SynReceived", "Established", "CloseWait", "LastAck"}
        => c.local_ack = c.remote_seq

GoodConn(c) == c \in Conn /\ Len(c.recv_buf) <= RecvCap /\ Resends(c) /\ InStep(c)
Good(r) == r \in Result /\ GoodConn(r.c)

\* Of a connection from which t bytes were read: the buffer goes on with the
\* peer's stream, and the place expected next is the one behind it, until the
\* FIN is counted.
Prefix(c, t) ==
    /\ t + Len(c.recv_buf) <= PeerLen
    /\ \A k \in 1 .. Len(c.recv_buf) : c.recv_buf[k] = t + k
Expects(c, t) == c.remote_seq = At(t + Len(c.recv_buf))

Stream(c, t) ==
    /\ c.state \in {"Listen", "SynSent"} => c.recv_buf = <<>> /\ t = 0
    /\ c.state \in Synchronised => Prefix(c, t)
    /\ c.state \in {"SynReceived", "Established", "FinWait1", "FinWait2"} => Expects(c, t)
    /\ c.state = "CloseWait" => c.remote_seq = Plus(FinSeq, 1)

\* What Deliverable says of a FIN.
FinLast(c, s) == Has(s, "FIN") => c.remote_seq \in {s.seq, Plus(FinSeq, 1)}

\* A piece of the stream is a sequence.
LEMMA OffsetsFacts ==
    ASSUME NEW k \in Nat, NEW m \in Nat
    PROVE  /\ Offsets(k, m) \in Seq(Nat) /\ Len(Offsets(k, m)) = m
           /\ \A x \in 1 .. m : Offsets(k, m)[x] = k + x
<1>1. \A x \in 1 .. m : k + x \in Nat
  OBVIOUS
<1>2. Offsets(k, m) \in [1 .. m -> Nat]
  BY <1>1 DEF Offsets
<1>. QED BY <1>2 DEF Offsets

\* What a segment of a peer may be.
LEMMA SegmentsFacts ==
    ASSUME NEW s \in Segments
    PROVE  /\ s.flags \in SUBSET Flags /\ s.seq \in SeqNos /\ s.ack \in SeqNos
           /\ s.from \in Peers /\ s.port \in Ports /\ s.data \in Seq(Nat)
           /\ Has(s, "SYN") => s.seq = PeerISN
           /\ s.data # <<>> \/ Has(s, "FIN") =>
                \E k \in 0 .. PeerLen, m \in 0 .. MSS :
                    /\ k + m <= PeerLen /\ s.seq = At(k) /\ s.data = Offsets(k, m)
                    /\ Has(s, "FIN") => k + m = PeerLen
<1>1. PICK c \in Contents, a \in 0 .. SeqMod - 1, peer \in Peers, port \in Ports :
          s = [flags |-> c.flags, seq |-> c.seq, data |-> c.data,
               ack |-> a, from |-> peer, port |-> port]
  BY DEF Segments
<1>2. s.flags = c.flags /\ s.seq = c.seq /\ s.data = c.data /\ s.ack \in SeqNos
      /\ s.from \in Peers /\ s.port \in Ports
  BY <1>1 DEF SeqNos
<1>3. \A k \in Nat : At(k) \in SeqNos
  BY SeqType, Constants DEF At, SeqNos
<1>4. CASE c \in {[flags |-> f, seq |-> PeerISN, data |-> <<>>] :
                    f \in {{"SYN"}, {"SYN", "ACK"}}}
  <2>1. PICK f \in {{"SYN"}, {"SYN", "ACK"}} : c = [flags |-> f, seq |-> PeerISN, data |-> <<>>]
    BY <1>4
  <2>2. c.flags = f /\ c.seq = PeerISN /\ c.data = <<>> /\ f \in SUBSET Flags /\ "FIN" \notin f
    BY <2>1 DEF Flags
  <2>. QED BY <1>2, <2>2, Constants DEF Has
<1>5. ASSUME NEW f \in {{"ACK"}, {"FIN", "ACK"}}, NEW p \in Pieces,
             c = [flags |-> f, seq |-> At(p[1]), data |-> Offsets(p[1], p[2])],
             "FIN" \in f => p[1] + p[2] = PeerLen
      PROVE  /\ c.flags \in SUBSET Flags /\ c.seq \in SeqNos /\ c.data \in Seq(Nat)
             /\ "SYN" \notin c.flags
             /\ \E k \in 0 .. PeerLen, m \in 0 .. MSS :
                    /\ k + m <= PeerLen /\ c.seq = At(k) /\ c.data = Offsets(k, m)
                    /\ "FIN" \in c.flags => k + m = PeerLen
  <2>1. p[1] \in 0 .. PeerLen /\ p[2] \in 0 .. MSS /\ p[1] + p[2] <= PeerLen
    BY DEF Pieces
  <2>2. c.flags = f /\ c.seq = At(p[1]) /\ c.data = Offsets(p[1], p[2])
    BY <1>5
  <2>3. f \in SUBSET Flags /\ "SYN" \notin f
    BY DEF Flags
  <2>4. p[1] \in Nat /\ p[2] \in Nat
    BY <2>1, Constants
  <2>. QED BY <1>3, <1>5, <2>1, <2>2, <2>3, <2>4, OffsetsFacts
<1>6. CASE c \in {[flags |-> {"ACK"}, seq |-> At(p[1]), data |-> Offsets(p[1], p[2])] :
                    p \in Pieces}
  <2>1. PICK p \in Pieces :
            c = [flags |-> {"ACK"}, seq |-> At(p[1]), data |-> Offsets(p[1], p[2])]
    BY <1>6
  <2>2. {"ACK"} \in {{"ACK"}, {"FIN", "ACK"}} /\ "FIN" \notin {"ACK"}
    OBVIOUS
  <2>. QED BY <1>2, <1>5, <2>1, <2>2 DEF Has
<1>7. CASE c \in {[flags |-> {"FIN", "ACK"}, seq |-> At(p[1]), data |-> Offsets(p[1], p[2])] :
                    p \in {q \in Pieces : q[1] + q[2] = PeerLen}}
  <2>1. PICK p \in Pieces :
            /\ c = [flags |-> {"FIN", "ACK"}, seq |-> At(p[1]), data |-> Offsets(p[1], p[2])]
            /\ p[1] + p[2] = PeerLen
    BY <1>7
  <2>2. {"FIN", "ACK"} \in {{"ACK"}, {"FIN", "ACK"}}
    OBVIOUS
  <2>. QED BY <1>2, <1>5, <2>1, <2>2 DEF Has
<1>8. CASE c = [flags |-> {"RST"}, seq |-> At(0), data |-> <<>>]
  <2>1. c.flags = {"RST"} /\ c.seq = At(0) /\ c.data = <<>>
    BY <1>8
  <2>2. {"RST"} \in SUBSET Flags /\ "FIN" \notin {"RST"} /\ "SYN" \notin {"RST"}
    BY DEF Flags
  <2>. QED BY <1>2, <1>3, <2>1, <2>2 DEF Has
<1>. QED BY <1>4, <1>6, <1>7, <1>8 DEF Contents

\* A segment starts where the connection expects it only if it is the next.
LEMMA AtFacts ==
    ASSUME NEW k \in 0 .. PeerLen, NEW j \in 0 .. PeerLen
    PROVE  /\ At(k) = At(j) => k = j
           /\ At(k) # Plus(FinSeq, 1)
           /\ \A m \in 0 .. PeerLen : k + m <= PeerLen => Plus(At(k), m) = At(k + m)
<1>1. \A x \in 0 .. PeerLen + 2 : x \in SeqNos
  BY Constants DEF SeqNos
<1>2. k + 1 \in 0 .. PeerLen + 2 /\ j + 1 \in 0 .. PeerLen + 2
      /\ PeerLen + 1 \in 0 .. PeerLen + 2 /\ 1 \in 0 .. PeerLen + 2
      /\ PeerLen + 2 \in 0 .. PeerLen + 2 /\ PeerLen + 1 + 1 = PeerLen + 2
  BY Constants
<1>3. At(k) = At(j) => k = j
  <2>1. At(k) = At(j) => k + 1 = j + 1
    BY <1>1, <1>2, SeqFacts, Constants DEF At
  <2>. QED BY <2>1, Constants
<1>4. Plus(FinSeq, 1) = Plus(PeerISN, PeerLen + 2)
  <2>1. PeerLen + 1 + 1 < SeqMod
    BY Constants
  <2>2. Plus(Plus(PeerISN, PeerLen + 1), 1) = Plus(PeerISN, PeerLen + 1 + 1)
    BY <1>1, <1>2, <2>1, SeqFacts, Constants
  <2>. QED BY <1>2, <2>2 DEF FinSeq, At
<1>5. At(k) # Plus(FinSeq, 1)
  <2>1. k + 1 # PeerLen + 2
    BY Constants
  <2>. QED BY <1>1, <1>2, <1>4, <2>1, SeqFacts, Constants DEF At
<1>6. ASSUME NEW m \in 0 .. PeerLen, k + m <= PeerLen  PROVE  Plus(At(k), m) = At(k + m)
  <2>1. m \in 0 .. PeerLen + 2 /\ k + 1 + m < SeqMod /\ k + 1 + m = k + m + 1
    BY <1>6, Constants
  <2>2. Plus(Plus(PeerISN, k + 1), m) = Plus(PeerISN, k + 1 + m)
    BY <1>1, <1>2, <2>1, SeqFacts, Constants
  <2>. QED BY <2>1, <2>2 DEF At
<1>. QED BY <1>3, <1>5, <1>6

-----------------------------------------------------------------------------
(***************************************************************************)
(* Receiving: the updates of a connection.                                 *)
(***************************************************************************)

\* Receiving touches nothing of the sending side.
SameSend(c, d) ==
    /\ d.state = c.state /\ d.port = c.port /\ d.peer = c.peer
    /\ d.local_seq = c.local_seq /\ d.send_len = c.send_len /\ d.retries = c.retries
    /\ d.last_tx_seq = c.last_tx_seq /\ d.last_tx_len = c.last_tx_len
    /\ d.last_tx_flags = c.last_tx_flags

\* Acknowledging what has arrived leaves buffer and sequence numbers alone.
LEMMA AckUpToFacts ==
    ASSUME NEW c \in Conn, NEW d, d = AckUpTo(c)
    PROVE  /\ d \in Conn /\ SameSend(c, d) /\ d.recv_buf = c.recv_buf
           /\ d.remote_seq = c.remote_seq /\ d.local_ack = c.remote_seq
  BY DEF AckUpTo, Conn, SameSend

\* A FIN takes one sequence number.
LEMMA CountFinFacts ==
    ASSUME NEW c \in Conn, NEW d, d = CountFin(c)
    PROVE  /\ d \in Conn /\ SameSend(c, d) /\ d.recv_buf = c.recv_buf
           /\ d.remote_seq = Plus(c.remote_seq, 1) /\ d.local_ack = d.remote_seq
<1>1. Plus(c.remote_seq, 1) \in SeqNos
  BY SeqType, Constants DEF Conn, SeqNos
<1>. QED BY <1>1 DEF CountFin, Conn, SameSend

\* A payload that fits is appended to the receive buffer, whole.
LEMMA PayloadFacts ==
    ASSUME NEW c \in Conn, Len(c.recv_buf) <= RecvCap, NEW s \in Segments,
           NEW d, d = TakePayload(c, s)
    PROVE  /\ d \in Conn /\ SameSend(c, d) /\ Len(d.recv_buf) <= RecvCap
           /\ d.local_ack = c.local_ack /\ d.remote_seq = Plus(c.remote_seq, Len(s.data))
           /\ Len(s.data) <= RecvCap - Len(c.recv_buf) =>
                d.recv_buf = c.recv_buf \o SubSeq(s.data, 1, Len(s.data))
<1>. DEFINE n == Least(Len(s.data), RecvCap - Len(c.recv_buf))
            buf == c.recv_buf \o SubSeq(s.data, 1, n)
            seq == Plus(c.remote_seq, Len(s.data))
<1>1. s.data \in Seq(Nat) /\ c.recv_buf \in Seq(Nat) /\ c.remote_seq \in Int
  BY SegmentsFacts DEF Conn, SeqNos
<1>2. Len(s.data) \in Nat /\ Len(c.recv_buf) \in Nat
  BY <1>1
<1>3. n \in 0 .. Len(s.data) /\ n <= RecvCap - Len(c.recv_buf)
      /\ (Len(s.data) <= RecvCap - Len(c.recv_buf) => n = Len(s.data))
  <2>1. RecvCap - Len(c.recv_buf) \in Nat
    BY <1>2, Constants
  <2>. QED BY <1>2, <2>1, LeastFacts
<1>. HIDE DEF n
<1>4. SubSeq(s.data, 1, n) \in Seq(Nat) /\ Len(SubSeq(s.data, 1, n)) = n
  BY <1>1, <1>3
<1>5. buf \in Seq(Nat) /\ Len(buf) = Len(c.recv_buf) + n
  BY <1>1, <1>4
<1>6. seq \in SeqNos
  BY <1>1, <1>2, SeqType
<1>7. d = [c EXCEPT !.recv_buf = buf, !.remote_seq = seq]
  BY DEF TakePayload, n
<1>. HIDE DEF buf, seq
<1>8. /\ d \in Conn /\ SameSend(c, d) /\ d.recv_buf = buf
      /\ d.local_ack = c.local_ack /\ d.remote_seq = seq
  BY <1>5, <1>6, <1>7 DEF Conn, SameSend
<1>9. Len(d.recv_buf) <= RecvCap
  BY <1>2, <1>3, <1>5, <1>8, Constants
<1>. QED BY <1>3, <1>8, <1>9 DEF buf, seq

\* Payload that starts where it is expected extends the prefix, and with a FIN
\* it completes the stream.
LEMMA PayloadStream ==
    ASSUME NEW c \in Conn, Len(c.recv_buf) <= RecvCap, NEW s \in Segments, InOrder(c, s),
           NEW t \in Nat, PeerLen <= RecvCap, Prefix(c, t), Expects(c, t),
           NEW d, d = TakePayload(c, s)
    PROVE  /\ Prefix(d, t) /\ Expects(d, t)
           /\ Has(s, "FIN") => t + Len(d.recv_buf) = PeerLen
<1>. DEFINE j == t + Len(c.recv_buf)
<1>1. s.data # <<>> /\ s.seq = c.remote_seq
  BY DEF InOrder
<1>2. PICK k \in 0 .. PeerLen, m \in 0 .. MSS :
          /\ k + m <= PeerLen /\ s.seq = At(k) /\ s.data = Offsets(k, m)
          /\ Has(s, "FIN") => k + m = PeerLen
  BY <1>1, SegmentsFacts
<1>3. c.recv_buf \in Seq(Nat) /\ Len(c.recv_buf) \in Nat /\ j \in 0 .. PeerLen
  BY Constants DEF Conn, Prefix
<1>4. k = j
  BY <1>1, <1>2, <1>3, AtFacts DEF Expects
<1>5. m \in Nat /\ k \in Nat /\ m \in 0 .. PeerLen
  BY <1>2, Constants
<1>6. /\ s.data \in Seq(Nat) /\ Len(s.data) = m
      /\ \A x \in 1 .. m : s.data[x] = k + x
  <2>1. /\ Offsets(k, m) \in Seq(Nat) /\ Len(Offsets(k, m)) = m
        /\ \A x \in 1 .. m : Offsets(k, m)[x] = k + x
    BY <1>5, OffsetsFacts
  <2>. QED BY <1>2, <2>1
<1>7. Len(s.data) <= RecvCap - Len(c.recv_buf)
  <2>1. Len(c.recv_buf) + m <= PeerLen
    BY <1>2, <1>3, <1>4, <1>5, Constants
  <2>. QED BY <1>3, <1>5, <1>6, <2>1, Constants
<1>8. SubSeq(s.data, 1, Len(s.data)) = s.data
  BY <1>6, SubSeqFull
<1>9. d.recv_buf = c.recv_buf \o s.data /\ d.remote_seq = Plus(c.remote_seq, m)
  BY <1>6, <1>7, <1>8, PayloadFacts
<1>cat. /\ Len(c.recv_buf \o s.data) = Len(c.recv_buf) + Len(s.data)
      /\ \A x \in 1 .. Len(c.recv_buf) + Len(s.data) : (c.recv_buf \o s.data)[x] =
            IF x <= Len(c.recv_buf) THEN c.recv_buf[x] ELSE s.data[x - Len(c.recv_buf)]
  BY <1>3, <1>6, ConcatProperties
<1>10. Len(d.recv_buf) = Len(c.recv_buf) + m /\ t + Len(d.recv_buf) = k + m
  <2>1. Len(d.recv_buf) = Len(c.recv_buf) + m
    BY <1>6, <1>9, <1>cat
  <2>. QED BY <1>3, <1>4, <1>5, <2>1
<1>11. ASSUME NEW x \in 1 .. Len(c.recv_buf) + m  PROVE  d.recv_buf[x] = t + x
  <2>0. d.recv_buf[x] = IF x <= Len(c.recv_buf) THEN c.recv_buf[x]
                        ELSE s.data[x - Len(c.recv_buf)]
    BY <1>6, <1>9, <1>cat
  <2>1. CASE x <= Len(c.recv_buf)
    <3>1. x \in 1 .. Len(c.recv_buf) /\ d.recv_buf[x] = c.recv_buf[x]
      BY <1>3, <2>0, <2>1
    <3>. QED BY <3>1 DEF Prefix
  <2>2. CASE x > Len(c.recv_buf)
    <3>1. x - Len(c.recv_buf) \in 1 .. m
      BY <1>3, <1>5, <2>2
    <3>2. d.recv_buf[x] = s.data[x - Len(c.recv_buf)]
      BY <1>3, <2>0, <2>2
    <3>3. k + (x - Len(c.recv_buf)) = t + x
      <4>1. \A l \in Nat : \A y \in Int : (t + l) + (y - l) = t + y
        OBVIOUS
      <4>2. x \in Int
        BY <1>3, <1>5
      <4>. QED BY <1>3, <1>4, <4>1, <4>2
    <3>. QED BY <1>6, <3>1, <3>2, <3>3
  <2>. QED BY <1>3, <1>5, <2>1, <2>2
<1>12. Plus(At(k), m) = At(k + m)
  BY <1>2, <1>5, AtFacts
<1>13. Prefix(d, t)
  BY <1>2, <1>10, <1>11 DEF Prefix
<1>14. Expects(d, t)
  BY <1>1, <1>2, <1>9, <1>10, <1>12 DEF Expects
<1>. QED BY <1>2, <1>10, <1>13, <1>14

\* Replacing the connection of a result.
LEMMA PutFacts ==
    ASSUME NEW r \in Result, NEW d \in Conn
    PROVE  [r EXCEPT !.c = d] \in Result /\ [r EXCEPT !.c = d].c = d
  BY DEF Result

-----------------------------------------------------------------------------
(***************************************************************************)
(* The handlers.                                                           *)
(***************************************************************************)

\* What every handler keeps.
Keeps(r, s, q) ==
    /\ Good(q)
    /\ \A t \in Nat : PeerLen <= RecvCap /\ FinLast(r.c, s) /\ Stream(r.c, t) => Stream(q.c, t)

\* A handler that does nothing keeps the connection good.
LEMMA KeepsItself ==
    ASSUME NEW r, Good(r), NEW s  PROVE  Keeps(r, s, r)
  BY DEF Keeps

\* A buffer that is empty before the first byte.
LEMMA EmptyStream ==
    ASSUME NEW c \in Conn, NEW s \in Segments, Has(s, "SYN"),
           NEW d \in Conn, d.remote_seq = Plus(s.seq, 1), d.recv_buf = c.recv_buf,
           c.recv_buf = <<>>
    PROVE  Prefix(d, 0) /\ Expects(d, 0)
<1>1. Len(d.recv_buf) = 0 /\ 0 + 0 = 0 /\ 0 + 1 = 1
  OBVIOUS
<1>2. s.seq = PeerISN
  BY SegmentsFacts
<1>. QED BY <1>1, <1>2, Constants DEF Prefix, Expects, At

\* handle_listen keeps the connection good.
LEMMA ListenKeeps ==
    ASSUME NEW r, Good(r), r.c.state = "Listen", NEW s \in Segments
    PROVE  Keeps(r, s, handle_listen(r, s))
<1>. DEFINE n == Plus(s.seq, 1)
            d == [r.c EXCEPT !.remote_seq = n, !.local_ack = n, !.state = "SynReceived"]
            p == [r EXCEPT !.c.remote_seq = n, !.c.local_ack = n, !.c.state = "SynReceived"]
            q == send_segment(p, {"SYN", "ACK"}, 0)
<1>1. CASE ~Has(s, "SYN")
  BY <1>1, KeepsItself DEF handle_listen
<1>2. CASE Has(s, "SYN")
  <2>1. r \in Result /\ r.c \in Conn /\ Len(r.c.recv_buf) <= RecvCap
    BY DEF Good, GoodConn
  <2>2. n \in SeqNos
    <3>1. s.seq \in Int
      BY SegmentsFacts, Constants DEF SeqNos
    <3>. QED BY <3>1, SeqType
  <2>. HIDE DEF n
  <2>3. /\ d \in Conn /\ d.state = "SynReceived" /\ d.remote_seq = n /\ d.local_ack = n
        /\ d.recv_buf = r.c.recv_buf
    BY <2>1, <2>2 DEF Conn, States
  <2>4. p = [r EXCEPT !.c = d]
    BY <2>1 DEF Result
  <2>5. p \in Result /\ p.c = d
    BY <2>1, <2>3, <2>4, PutFacts
  <2>. HIDE DEF d, p, q
  <2>6. {"SYN", "ACK"} \in SUBSET Flags /\ {"SYN", "ACK"} \cap {"SYN", "FIN"} # {}
        /\ 0 \in 0 .. MSS
    BY Constants DEF Flags
  <2>7. q \in Result /\ SameRest(p.c, q.c) /\ Remembers(q.c, {"SYN", "ACK"}, 0)
    BY <2>5, <2>6, SegmentFacts DEF q
  <2>8. q.c \in Conn /\ q.c.state = "SynReceived" /\ q.c.remote_seq = n /\ q.c.local_ack = n
        /\ q.c.recv_buf = r.c.recv_buf
    BY <2>3, <2>5, <2>7 DEF SameRest, Result
  <2>9. Good(q)
    BY <2>1, <2>7, <2>8 DEF Good, GoodConn, Resends, InStep
  <2>10. ASSUME NEW t \in Nat, Stream(r.c, t)  PROVE  Stream(q.c, t)
    <3>1. r.c.recv_buf = <<>> /\ t = 0
      BY <2>10 DEF Stream
    <3>2. Prefix(q.c, 0) /\ Expects(q.c, 0)
      BY <1>2, <2>1, <2>8, <3>1, EmptyStream DEF n
    <3>. QED BY <2>8, <3>1, <3>2 DEF Stream
  <2>11. handle_listen(r, s) = q
    BY <1>2 DEF handle_listen, q, p, n
  <2>. QED BY <2>9, <2>10, <2>11 DEF Keeps
<1>. QED BY <1>1, <1>2

\* So does handle_syn_sent.
LEMMA SynSentKeeps ==
    ASSUME NEW r, Good(r), r.c.state = "SynSent", NEW s \in Segments
    PROVE  Keeps(r, s, handle_syn_sent(r, s))
<1>. DEFINE n == Plus(s.seq, 1)
            d == [r.c EXCEPT !.remote_seq = n, !.local_ack = n,
                             !.state = "Established", !.retries = 0]
            p == [r EXCEPT !.c.remote_seq = n, !.c.local_ack = n,
                           !.c.state = "Established", !.c.retries = 0]
            q == flush_send(SendAck(p))
<1>1. CASE ~({"SYN", "ACK"} \subseteq s.flags /\ s.ack = r.c.local_seq)
  BY <1>1, KeepsItself DEF handle_syn_sent
<1>2. CASE {"SYN", "ACK"} \subseteq s.flags /\ s.ack = r.c.local_seq
  <2>0. Has(s, "SYN")
    BY <1>2 DEF Has
  <2>1. r \in Result /\ r.c \in Conn /\ Len(r.c.recv_buf) <= RecvCap
    BY DEF Good, GoodConn
  <2>2. n \in SeqNos /\ 0 \in 0 .. MaxRetries
    <3>1. s.seq \in Int
      BY SegmentsFacts, Constants DEF SeqNos
    <3>. QED BY <3>1, SeqType, Constants
  <2>. HIDE DEF n
  <2>3. /\ d \in Conn /\ d.state = "Established" /\ d.remote_seq = n /\ d.local_ack = n
        /\ d.recv_buf = r.c.recv_buf
    BY <2>1, <2>2 DEF Conn, States
  <2>4. p = [r EXCEPT !.c = d]
    BY <2>1 DEF Result
  <2>5. p \in Result /\ p.c = d
    BY <2>1, <2>3, <2>4, PutFacts
  <2>. HIDE DEF d, p, q
  <2>6. SendAck(p) \in Result /\ SendAck(p).c = d
    BY <2>5, AckFacts
  <2>7. q \in Result /\ SameRest(d, q.c)
    BY <2>6, FlushFacts DEF q
  <2>8. q.c \in Conn /\ q.c.state = "Established" /\ q.c.remote_seq = n /\ q.c.local_ack = n
        /\ q.c.recv_buf = r.c.recv_buf
    BY <2>3, <2>7 DEF SameRest, Result
  <2>9. Good(q)
    BY <2>1, <2>7, <2>8 DEF Good, GoodConn, Resends, InStep, Awaiting
  <2>10. ASSUME NEW t \in Nat, Stream(r.c, t)  PROVE  Stream(q.c, t)
    <3>1. r.c.recv_buf = <<>> /\ t = 0
      BY <2>10 DEF Stream
    <3>2. Prefix(q.c, 0) /\ Expects(q.c, 0)
      BY <2>0, <2>1, <2>8, <3>1, EmptyStream DEF n
    <3>. QED BY <2>8, <3>1, <3>2 DEF Stream
  <2>11. handle_syn_sent(r, s) = q
    BY <1>2 DEF handle_syn_sent, q, p, n
  <2>. QED BY <2>9, <2>10, <2>11 DEF Keeps
<1>. QED BY <1>1, <1>2

\* So does handle_syn_received.
LEMMA SynReceivedKeeps ==
    ASSUME NEW r, Good(r), r.c.state = "SynReceived", NEW s \in Segments
    PROVE  Keeps(r, s, handle_syn_received(r, s))
<1>. DEFINE d == [r.c EXCEPT !.state = "Established", !.retries = 0]
            q == [r EXCEPT !.c.state = "Established", !.c.retries = 0]
<1>1. CASE ~(Has(s, "ACK") /\ s.ack = r.c.local_seq)
  BY <1>1, KeepsItself DEF handle_syn_received
<1>2. CASE Has(s, "ACK") /\ s.ack = r.c.local_seq
  <2>1. r \in Result /\ r.c \in Conn /\ Len(r.c.recv_buf) <= RecvCap
        /\ r.c.local_ack = r.c.remote_seq
    BY DEF Good, GoodConn, InStep
  <2>2. /\ d \in Conn /\ d.state = "Established" /\ d.remote_seq = r.c.remote_seq
        /\ d.local_ack = r.c.local_ack /\ d.recv_buf = r.c.recv_buf
    <3>1. 0 \in 0 .. MaxRetries
      BY Constants
    <3>. QED BY <2>1, <3>1 DEF Conn, States
  <2>3. q = [r EXCEPT !.c = d]
    BY <2>1 DEF Result
  <2>4. q \in Result /\ q.c = d
    BY <2>1, <2>2, <2>3, PutFacts
  <2>. HIDE DEF d, q
  <2>5. Good(q)
    BY <2>1, <2>2, <2>4 DEF Good, GoodConn, Resends, InStep, Awaiting
  <2>6. ASSUME NEW t \in Nat, Stream(r.c, t)  PROVE  Stream(q.c, t)
    <3>1. Prefix(r.c, t) /\ Expects(r.c, t)
      BY <2>6 DEF Stream, Synchronised
    <3>2. Prefix(q.c, t) /\ Expects(q.c, t)
      BY <2>2, <2>4, <3>1 DEF Prefix, Expects
    <3>. QED BY <2>2, <2>4, <3>2 DEF Stream
  <2>7. handle_syn_received(r, s) = q
    BY <1>2 DEF handle_syn_received, q
  <2>. QED BY <2>5, <2>6, <2>7 DEF Keeps
<1>. QED BY <1>1, <1>2

\* Setting the state.
SetState(r, st) == [r EXCEPT !.c.state = st]

\* A change of state changes nothing else.
LEMMA StateFacts ==
    ASSUME NEW r \in Result, NEW st \in States, NEW q, q = SetState(r, st)
    PROVE  /\ q \in Result /\ q.c \in Conn /\ q.c.state = st
           /\ q.c.local_seq = r.c.local_seq /\ q.c.remote_seq = r.c.remote_seq
           /\ q.c.local_ack = r.c.local_ack /\ q.c.recv_buf = r.c.recv_buf
           /\ q.c.send_len = r.c.send_len
<1>. DEFINE d == [r.c EXCEPT !.state = st]
<1>1. r.c \in Conn
  BY DEF Result
<1>2. /\ d \in Conn /\ d.state = st
      /\ d.local_seq = r.c.local_seq /\ d.remote_seq = r.c.remote_seq
      /\ d.local_ack = r.c.local_ack /\ d.recv_buf = r.c.recv_buf /\ d.send_len = r.c.send_len
  BY <1>1 DEF Conn
<1>3. q = [r EXCEPT !.c = d]
  BY DEF Result, SetState
<1>. HIDE DEF d
<1>4. q \in Result /\ q.c = d
  BY <1>2, <1>3, PutFacts
<1>. QED BY <1>2, <1>4

\* Acknowledgements touch only the sending side.
LEMMA TakeAckFacts ==
    ASSUME NEW r \in Result, NEW s \in Segments, NEW a, a = TakeAck(r, s)
    PROVE  /\ a \in Result /\ a.c.state = r.c.state
           /\ a.c.remote_seq = r.c.remote_seq /\ a.c.local_ack = r.c.local_ack
           /\ a.c.recv_buf = r.c.recv_buf
<1>. DEFINE start == Minus(r.c.local_seq, r.c.send_len)
            acked == Least(Minus(s.ack, start), r.c.send_len)
            d == [r.c EXCEPT !.retries = 0, !.send_len = @ - acked]
            p == [r EXCEPT !.c.retries = 0, !.c.send_len = @ - acked]
<1>1. r.c \in Conn /\ r.c.send_len \in 0 .. SendCap /\ r.c.local_seq \in Int
  BY Constants DEF Result, Conn, SeqNos
<1>2. s.ack \in Int /\ r.c.send_len \in Int
  BY <1>1, SegmentsFacts, Constants DEF SeqNos
<1>3. start \in SeqNos
  BY <1>1, <1>2, SeqType
<1>4. start \in Int
  BY <1>3, Constants DEF SeqNos
<1>. HIDE DEF start
<1>5. Minus(s.ack, start) \in SeqNos
  BY <1>2, <1>4, SeqType
<1>6. Minus(s.ack, start) \in Nat
  BY <1>5, Constants DEF SeqNos
<1>7. acked \in Nat /\ acked <= r.c.send_len
  BY <1>1, <1>2, <1>6, LeastFacts
<1>. HIDE DEF acked
<1>8. r.c.send_len - acked \in 0 .. SendCap /\ 0 \in 0 .. MaxRetries
  BY <1>1, <1>7, Constants
<1>9. /\ d \in Conn /\ d.state = r.c.state /\ d.remote_seq = r.c.remote_seq
      /\ d.local_ack = r.c.local_ack /\ d.recv_buf = r.c.recv_buf
  BY <1>1, <1>8 DEF Conn
<1>10. p = [r EXCEPT !.c = d]
  BY <1>1 DEF Result
<1>11. p \in Result /\ p.c = d
  BY <1>9, <1>10, PutFacts
<1>12. a = flush_send(p) \/ a = r
  BY DEF TakeAck, start, acked
<1>. HIDE DEF d, p
<1>13. CASE a = flush_send(p)
  BY <1>9, <1>11, <1>13, FlushFacts DEF SameRest
<1>14. CASE a = r
  BY <1>14
<1>. QED BY <1>12, <1>13, <1>14

\* A FIN without data, delivered behind all data, finds the stream complete.
LEMMA BareFin ==
    ASSUME NEW c, NEW s \in Segments, NEW t \in Nat, Has(s, "FIN"), s.data = <<>>,
           FinLast(c, s), Prefix(c, t), Expects(c, t), c.recv_buf \in Seq(Nat)
    PROVE  t + Len(c.recv_buf) = PeerLen
<1>1. PICK k \in 0 .. PeerLen, m \in 0 .. MSS :
          k + m <= PeerLen /\ s.seq = At(k) /\ s.data = Offsets(k, m) /\ k + m = PeerLen
  BY SegmentsFacts
<1>2. m \in Nat /\ k \in Nat
  BY Constants
<1>3. Len(s.data) = m
  BY <1>1, <1>2, OffsetsFacts
<1>4. m = 0 /\ k = PeerLen
  BY <1>1, <1>2, <1>3, Constants
<1>5. t + Len(c.recv_buf) \in 0 .. PeerLen /\ c.remote_seq = At(t + Len(c.recv_buf))
  BY Constants DEF Prefix, Expects
<1>6. c.remote_seq = s.seq
  BY <1>5, AtFacts DEF FinLast
<1>7. PICK j \in 0 .. PeerLen : j = t + Len(c.recv_buf)
  BY <1>5
<1>8. At(k) = At(j)
  BY <1>1, <1>5, <1>6, <1>7
<1>9. k = j
  BY <1>8, AtFacts
<1>. QED BY <1>4, <1>7, <1>9

\* So does handle_established.
LEMMA EstablishedKeeps ==
    ASSUME NEW r, Good(r), r.c.state = "Established", NEW s \in Segments
    PROVE  Keeps(r, s, handle_established(r, s))
<1>. DEFINE a == TakeAck(r, s)
            d == TakePayload(a.c, s)
            b == IF s.data = <<>> THEN a ELSE SendAck([a EXCEPT !.c = AckUpTo(d)])
            e == CountFin(b.c)
            f == SendAck([b EXCEPT !.c = e])
            q == handle_established(r, s)
<1>1. r \in Result /\ Len(r.c.recv_buf) <= RecvCap /\ r.c.local_ack = r.c.remote_seq
  BY DEF Good, GoodConn, InStep
<1>2. /\ a \in Result /\ a.c.state = "Established"
      /\ a.c.remote_seq = r.c.remote_seq /\ a.c.local_ack = r.c.local_ack
      /\ a.c.recv_buf = r.c.recv_buf
  BY <1>1, TakeAckFacts
<1>3. q = IF s.data # <<>> /\ s.seq # a.c.remote_seq THEN SendAck(a)
          ELSE IF Has(s, "FIN") THEN [f EXCEPT !.c.state = "CloseWait"] ELSE b
  BY DEF handle_established
<1>. SUFFICES Keeps(r, s, q)
  OBVIOUS
<1>. HIDE DEF a, q
<1>4. a.c \in Conn
  BY <1>2 DEF Result
<1>5. ASSUME NEW t \in Nat, Stream(r.c, t)
      PROVE  /\ Prefix(r.c, t) /\ Expects(r.c, t) /\ Prefix(a.c, t) /\ Expects(a.c, t)
  BY <1>2, <1>5 DEF Stream, Synchronised, Prefix, Expects
<1>6. ASSUME NEW p \in Result, p.c.state = "Established", Len(p.c.recv_buf) <= RecvCap,
             p.c.local_ack = p.c.remote_seq,
             \A t \in Nat : PeerLen <= RecvCap /\ Stream(r.c, t)
                               => Prefix(p.c, t) /\ Expects(p.c, t)
      PROVE  Keeps(r, s, p)
  BY <1>6 DEF Keeps, Good, GoodConn, Resends, Awaiting, InStep, Stream, Result
<1>7. CASE s.data # <<>> /\ s.seq # a.c.remote_seq
  <2>1. q = SendAck(a) /\ q \in Result /\ q.c = a.c
    BY <1>2, <1>3, <1>7, AckFacts
  <2>. QED BY <1>1, <1>2, <1>5, <1>6, <2>1
<1>8. CASE ~(s.data # <<>> /\ s.seq # a.c.remote_seq)
  <2>1. /\ b \in Result /\ b.c.state = "Established" /\ Len(b.c.recv_buf) <= RecvCap
        /\ b.c.local_ack = b.c.remote_seq
        /\ \A t \in Nat : PeerLen <= RecvCap /\ Stream(r.c, t)
              => /\ Prefix(b.c, t) /\ Expects(b.c, t)
                 /\ Has(s, "FIN") /\ FinLast(r.c, s) => t + Len(b.c.recv_buf) = PeerLen
    <3>1. CASE s.data = <<>>
      <4>1. b = a
        BY <3>1
      <4>2. ASSUME NEW t \in Nat, Stream(r.c, t), Has(s, "FIN"), FinLast(r.c, s)
            PROVE  t + Len(r.c.recv_buf) = PeerLen
        <5>1. r.c.recv_buf \in Seq(Nat)
          BY <1>1 DEF Result, Conn
        <5>. QED BY <1>5, <3>1, <4>2, <5>1, BareFin
      <4>. QED BY <1>1, <1>2, <1>5, <4>1, <4>2
    <3>2. CASE s.data # <<>>
      <4>1. InOrder(a.c, s)
        BY <1>8, <3>2 DEF InOrder
      <4>2. d \in Conn /\ SameSend(a.c, d) /\ Len(d.recv_buf) <= RecvCap
        BY <1>1, <1>2, <1>4, PayloadFacts
      <4>3. ASSUME NEW t \in Nat, PeerLen <= RecvCap, Stream(r.c, t)
            PROVE  Prefix(d, t) /\ Expects(d, t) /\ (Has(s, "FIN") => t + Len(d.recv_buf) = PeerLen)
        BY <1>1, <1>2, <1>4, <1>5, <4>1, <4>3, PayloadStream
      <4>. HIDE DEF d
      <4>4. PICK u : u = AckUpTo(d)
        OBVIOUS
      <4>5. /\ u \in Conn /\ SameSend(d, u) /\ u.recv_buf = d.recv_buf
            /\ u.remote_seq = d.remote_seq /\ u.local_ack = d.remote_seq
        BY <4>2, <4>4, AckUpToFacts
      <4>6. [a EXCEPT !.c = u] \in Result /\ [a EXCEPT !.c = u].c = u
        BY <1>2, <4>5, PutFacts
      <4>7. b \in Result /\ b.c = u
        BY <3>2, <4>4, <4>6, AckFacts
      <4>8. u.state = "Established"
        BY <1>2, <4>2, <4>5 DEF SameSend
      <4>9. ASSUME NEW t \in Nat, PeerLen <= RecvCap, Stream(r.c, t)
            PROVE  Prefix(u, t) /\ Expects(u, t) /\ (Has(s, "FIN") => t + Len(u.recv_buf) = PeerLen)
        BY <4>3, <4>5, <4>9 DEF Prefix, Expects
      <4>. HIDE DEF b
      <4>. QED BY <4>2, <4>5, <4>7, <4>8, <4>9
    <3>. QED BY <3>1, <3>2
  <2>. HIDE DEF b
  <2>2. CASE ~Has(s, "FIN")
    BY <1>3, <1>6, <1>8, <2>1, <2>2
  <2>3. CASE Has(s, "FIN")
    <3>1. b.c \in Conn
      BY <2>1 DEF Result
    <3>2. /\ e \in Conn /\ e.recv_buf = b.c.recv_buf
          /\ e.remote_seq = Plus(b.c.remote_seq, 1) /\ e.local_ack = e.remote_seq
      BY <3>1, CountFinFacts
    <3>. HIDE DEF e
    <3>3. f \in Result /\ f.c = e
      BY <2>1, <3>2, PutFacts, AckFacts
    <3>. HIDE DEF f
    <3>4. q = SetState(f, "CloseWait") /\ "CloseWait" \in States
      BY <1>3, <1>8, <2>3 DEF States, SetState
    <3>5. /\ q \in Result /\ q.c \in Conn /\ q.c.state = "CloseWait"
          /\ q.c.remote_seq = e.remote_seq /\ q.c.local_ack = e.local_ack
          /\ q.c.recv_buf = e.recv_buf
      <4>1. /\ q \in Result /\ q.c \in Conn /\ q.c.state = "CloseWait"
            /\ q.c.remote_seq = f.c.remote_seq /\ q.c.local_ack = f.c.local_ack
            /\ q.c.recv_buf = f.c.recv_buf
        BY <3>3, <3>4, StateFacts
      <4>. QED BY <3>3, <4>1
    <3>6. Good(q)
      BY <2>1, <3>2, <3>5 DEF Good, GoodConn, Resends, Awaiting, InStep
    <3>7. ASSUME NEW t \in Nat, PeerLen <= RecvCap, FinLast(r.c, s), Stream(r.c, t)
          PROVE  Stream(q.c, t)
      <4>1. Prefix(b.c, t) /\ Expects(b.c, t) /\ t + Len(b.c.recv_buf) = PeerLen
        BY <2>1, <2>3, <3>7
      <4>2. q.c.remote_seq = Plus(FinSeq, 1)
        BY <3>2, <3>5, <4>1 DEF Expects, FinSeq
      <4>3. Prefix(q.c, t)
        BY <3>2, <3>5, <4>1 DEF Prefix
      <4>. QED BY <3>5, <4>2, <4>3 DEF Stream
    <3>. QED BY <3>6, <3>7 DEF Keeps
  <2>. QED BY <2>2, <2>3
<1>. QED BY <1>7, <1>8


\* The payload is taken if the segment is the next one, else nothing happens.
LEMMA ThenPayloadFacts ==
    ASSUME NEW p \in Result, Len(p.c.recv_buf) <= RecvCap, NEW s \in Segments,
           NEW q, q = ThenPayload(p, s)
    PROVE  /\ q \in Result /\ SameSend(p.c, q.c) /\ Len(q.c.recv_buf) <= RecvCap
           /\ ~InOrder(p.c, s) => q = p
           /\ InOrder(p.c, s) => q.c = TakePayload(p.c, s)
<1>1. p.c \in Conn
  BY DEF Result
<1>2. CASE ~InOrder(p.c, s)
  BY <1>2 DEF ThenPayload, SameSend
<1>3. CASE InOrder(p.c, s)
  <2>1. PICK d : d = TakePayload(p.c, s)
    OBVIOUS
  <2>2. d \in Conn /\ SameSend(p.c, d) /\ Len(d.recv_buf) <= RecvCap
    BY <1>1, <2>1, PayloadFacts
  <2>3. q = [p EXCEPT !.c = d]
    BY <1>3, <2>1 DEF ThenPayload
  <2>4. q \in Result /\ q.c = d
    BY <2>2, <2>3, PutFacts
  <2>. QED BY <1>3, <2>1, <2>2, <2>4
<1>. QED BY <1>2, <1>3

\* ToTimeWait counts the FIN; payload that came with it is not taken after that.
LEMMA ToTimeWaitFacts ==
    ASSUME NEW r \in Result, Len(r.c.recv_buf) <= RecvCap, NEW s \in Segments, Has(s, "FIN"),
           NEW q, q = ThenPayload(ToTimeWait(r), s)
    PROVE  /\ q \in Result /\ q.c.state = "TimeWait" /\ Len(q.c.recv_buf) <= RecvCap
           /\ \A t \in Nat : FinLast(r.c, s) /\ Prefix(r.c, t) /\ Expects(r.c, t) => Prefix(q.c, t)
<1>. DEFINE e == CountFin(r.c)
            f == SendAck([r EXCEPT !.c = e])
            p == SetState(f, "TimeWait")
<1>1. r.c \in Conn
  BY DEF Result
<1>2. /\ e \in Conn /\ e.recv_buf = r.c.recv_buf /\ e.remote_seq = Plus(r.c.remote_seq, 1)
  BY <1>1, CountFinFacts
<1>. HIDE DEF e
<1>3. f \in Result /\ f.c = e
  BY <1>2, PutFacts, AckFacts
<1>. HIDE DEF f
<1>4. "TimeWait" \in States
  BY DEF States
<1>5. /\ p \in Result /\ p.c \in Conn /\ p.c.state = "TimeWait"
      /\ p.c.remote_seq = f.c.remote_seq /\ p.c.recv_buf = f.c.recv_buf
  BY <1>3, <1>4, StateFacts
<1>. HIDE DEF p
<1>6. p.c.remote_seq = Plus(r.c.remote_seq, 1) /\ p.c.recv_buf = r.c.recv_buf
  BY <1>2, <1>3, <1>5
<1>7. q = ThenPayload(p, s)
  BY DEF ToTimeWait, SetState, p, f, e
<1>8. /\ q \in Result /\ SameSend(p.c, q.c) /\ Len(q.c.recv_buf) <= RecvCap
      /\ ~InOrder(p.c, s) => q = p
  BY <1>5, <1>6, <1>7, ThenPayloadFacts
<1>9. ASSUME NEW t \in Nat, FinLast(r.c, s), Prefix(r.c, t), Expects(r.c, t)
      PROVE  Prefix(q.c, t)
  <2>1. Len(r.c.recv_buf) \in Nat
    BY <1>1 DEF Conn
  <2>2. PICK j \in 0 .. PeerLen : j = t + Len(r.c.recv_buf)
    BY <1>9, <2>1, Constants DEF Prefix
  <2>3. r.c.remote_seq = At(j)
    BY <1>9, <2>2 DEF Expects
  <2>4. At(j) # Plus(FinSeq, 1)
    BY AtFacts
  <2>5. s.seq = At(j)
    BY <1>9, <2>3, <2>4 DEF FinLast
  <2>6. Plus(At(j), 1) # At(j)
    <3>1. CASE j = PeerLen
      BY <2>4, <3>1 DEF FinSeq
    <3>2. CASE j # PeerLen
      <4>1. j + 1 \in 0 .. PeerLen /\ 1 \in 0 .. PeerLen /\ j + 1 <= PeerLen /\ j + 1 # j
        BY <3>2, Constants
      <4>2. Plus(At(j), 1) = At(j + 1)
        BY <4>1, AtFacts
      <4>. QED BY <4>1, <4>2, AtFacts
    <3>. QED BY <3>1, <3>2
  <2>7. ~InOrder(p.c, s)
    BY <1>6, <2>3, <2>5, <2>6 DEF InOrder
  <2>. QED BY <1>6, <1>8, <1>9, <2>7 DEF Prefix
<1>. QED BY <1>5, <1>8, <1>9 DEF SameSend

\* Without a FIN, payload in FIN_WAIT_1 and FIN_WAIT_2 extends the prefix.
LEMMA FinWaitKeeps ==
    ASSUME NEW r, Good(r), r.c.state \in {"FinWait1", "FinWait2"}, NEW s \in Segments,
           NEW p \in Result, p.c.state \in {"FinWait1", "FinWait2"}, Resends(p.c),
           p.c.recv_buf = r.c.recv_buf, p.c.remote_seq = r.c.remote_seq
    PROVE  Keeps(r, s, ThenPayload(p, s))
<1>1. PICK q : q = ThenPayload(p, s)
  OBVIOUS
<1>2. Len(r.c.recv_buf) <= RecvCap
  BY DEF Good, GoodConn
<1>3. /\ q \in Result /\ SameSend(p.c, q.c) /\ Len(q.c.recv_buf) <= RecvCap
      /\ ~InOrder(p.c, s) => q = p
      /\ InOrder(p.c, s) => q.c = TakePayload(p.c, s)
  BY <1>1, <1>2, ThenPayloadFacts
<1>4. p.c \in Conn /\ q.c \in Conn /\ q.c.state = p.c.state
  BY <1>3 DEF Result, SameSend
<1>5. Resends(q.c)
  BY <1>3 DEF Resends, SameSend, Remembers
<1>6. Good(q)
  BY <1>3, <1>4, <1>5 DEF Good, GoodConn, InStep
<1>7. ASSUME NEW t \in Nat, PeerLen <= RecvCap, Stream(r.c, t)
      PROVE  Stream(q.c, t)
  <2>1. Prefix(r.c, t) /\ Expects(r.c, t)
    BY <1>7 DEF Stream, Synchronised
  <2>2. Prefix(p.c, t) /\ Expects(p.c, t)
    BY <2>1 DEF Prefix, Expects
  <2>3. CASE ~InOrder(p.c, s)
    BY <1>3, <2>2, <2>3 DEF Stream
  <2>4. CASE InOrder(p.c, s)
    <3>1. Prefix(q.c, t) /\ Expects(q.c, t)
      BY <1>2, <1>3, <1>4, <1>7, <2>2, <2>4, PayloadStream
    <3>. QED BY <1>4, <3>1 DEF Stream
  <2>. QED BY <2>3, <2>4
<1>. QED BY <1>1, <1>6, <1>7 DEF Keeps

\* A FIN in FIN_WAIT1 or FIN_WAIT2 keeps the connection good.
LEMMA FinKeeps ==
    ASSUME NEW r, Good(r), r.c.state \in {"FinWait1", "FinWait2"}, NEW s \in Segments,
           Has(s, "FIN")
    PROVE  Keeps(r, s, ThenPayload(ToTimeWait(r), s))
<1>1. PICK q : q = ThenPayload(ToTimeWait(r), s)
  OBVIOUS
<1>2. r \in Result /\ Len(r.c.recv_buf) <= RecvCap
  BY DEF Good, GoodConn
<1>3. /\ q \in Result /\ q.c.state = "TimeWait" /\ Len(q.c.recv_buf) <= RecvCap
      /\ \A t \in Nat : FinLast(r.c, s) /\ Prefix(r.c, t) /\ Expects(r.c, t) => Prefix(q.c, t)
  BY <1>1, <1>2, ToTimeWaitFacts
<1>4. Good(q)
  BY <1>3 DEF Good, GoodConn, Resends, Awaiting, InStep, Result
<1>5. ASSUME NEW t \in Nat, FinLast(r.c, s), Stream(r.c, t)  PROVE  Stream(q.c, t)
  <2>1. Prefix(r.c, t) /\ Expects(r.c, t)
    BY <1>5 DEF Stream, Synchronised
  <2>. QED BY <1>3, <1>5, <2>1 DEF Stream
<1>. QED BY <1>1, <1>4, <1>5 DEF Keeps

\* So does handle_fin_wait1.
LEMMA FinWait1Keeps ==
    ASSUME NEW r, Good(r), r.c.state = "FinWait1", NEW s \in Segments
    PROVE  Keeps(r, s, handle_fin_wait1(r, s))
<1>. DEFINE p == SetState(r, "FinWait2")
<1>1. r \in Result /\ Resends(r.c)
  BY DEF Good, GoodConn
<1>2. CASE ~Has(s, "ACK")
  <2>1. handle_fin_wait1(r, s) = ThenPayload(r, s)
    BY <1>2 DEF handle_fin_wait1
  <2>. QED BY <1>1, <2>1, FinWaitKeeps
<1>3. CASE Has(s, "ACK") /\ Has(s, "FIN")
  BY <1>3, FinKeeps DEF handle_fin_wait1
<1>4. CASE Has(s, "ACK") /\ ~Has(s, "FIN")
  <2>1. handle_fin_wait1(r, s) = ThenPayload(p, s)
    BY <1>4 DEF handle_fin_wait1, SetState
  <2>2. "FinWait2" \in States
    BY DEF States
  <2>3. /\ p \in Result /\ p.c.state = "FinWait2"
        /\ p.c.remote_seq = r.c.remote_seq /\ p.c.recv_buf = r.c.recv_buf
    BY <1>1, <2>2, StateFacts
  <2>. HIDE DEF p
  <2>4. Resends(p.c)
    BY <2>3 DEF Resends, Awaiting
  <2>. QED BY <2>1, <2>3, <2>4, FinWaitKeeps
<1>. QED BY <1>2, <1>3, <1>4

\* So does handle_fin_wait2.
LEMMA FinWait2Keeps ==
    ASSUME NEW r, Good(r), r.c.state = "FinWait2", NEW s \in Segments
    PROVE  Keeps(r, s, handle_fin_wait2(r, s))
<1>1. r \in Result /\ Resends(r.c)
  BY DEF Good, GoodConn
<1>2. CASE Has(s, "FIN")
  BY <1>2, FinKeeps DEF handle_fin_wait2
<1>3. CASE ~Has(s, "FIN")
  <2>1. handle_fin_wait2(r, s) = ThenPayload(r, s)
    BY <1>3 DEF handle_fin_wait2
  <2>. QED BY <1>1, <2>1, FinWaitKeeps
<1>. QED BY <1>2, <1>3

\* So does handle_close_wait.
LEMMA CloseWaitKeeps ==
    ASSUME NEW r, Good(r), r.c.state = "CloseWait", NEW s \in Segments
    PROVE  Keeps(r, s, handle_close_wait(r, s))
<1>. DEFINE d == TakePayload(r.c, s)
            a == IF InOrder(r.c, s) THEN SendAck([r EXCEPT !.c = AckUpTo(d)]) ELSE r
            q == handle_close_wait(r, s)
<1>1. r \in Result /\ r.c \in Conn /\ Len(r.c.recv_buf) <= RecvCap
      /\ r.c.local_ack = r.c.remote_seq
  BY DEF Good, GoodConn, InStep
<1>2. /\ a \in Result /\ a.c.state = "CloseWait" /\ Len(a.c.recv_buf) <= RecvCap
      /\ a.c.local_ack = a.c.remote_seq /\ (~InOrder(r.c, s) => a = r)
  <2>1. CASE ~InOrder(r.c, s)
    BY <1>1, <2>1
  <2>2. CASE InOrder(r.c, s)
    <3>1. d \in Conn /\ SameSend(r.c, d) /\ Len(d.recv_buf) <= RecvCap
      BY <1>1, PayloadFacts
    <3>. HIDE DEF d
    <3>2. PICK u : u = AckUpTo(d)
      OBVIOUS
    <3>3. /\ u \in Conn /\ SameSend(d, u) /\ u.recv_buf = d.recv_buf
          /\ u.remote_seq = d.remote_seq /\ u.local_ack = d.remote_seq
      BY <3>1, <3>2, AckUpToFacts
    <3>4. [r EXCEPT !.c = u] \in Result /\ [r EXCEPT !.c = u].c = u
      BY <1>1, <3>3, PutFacts
    <3>5. a \in Result /\ a.c = u
      BY <2>2, <3>2, <3>4, AckFacts
    <3>6. u.state = "CloseWait"
      BY <3>1, <3>3 DEF SameSend
    <3>. HIDE DEF a
    <3>. QED BY <2>2, <3>1, <3>3, <3>5, <3>6
  <2>. QED BY <2>1, <2>2
<1>3. q = IF Has(s, "FIN") THEN SendAck([a EXCEPT !.c = AckUpTo(a.c)]) ELSE a
  BY DEF handle_close_wait
<1>. SUFFICES Keeps(r, s, q)
  OBVIOUS
<1>. HIDE DEF a, q
<1>4. a.c \in Conn
  BY <1>2 DEF Result
<1>5. /\ q \in Result /\ q.c.state = "CloseWait" /\ q.c.recv_buf = a.c.recv_buf
      /\ q.c.remote_seq = a.c.remote_seq /\ q.c.local_ack = q.c.remote_seq
  <2>1. CASE ~Has(s, "FIN")
    BY <1>2, <1>3, <2>1
  <2>2. CASE Has(s, "FIN")
    <3>1. PICK u : u = AckUpTo(a.c)
      OBVIOUS
    <3>2. /\ u \in Conn /\ SameSend(a.c, u) /\ u.recv_buf = a.c.recv_buf
          /\ u.remote_seq = a.c.remote_seq /\ u.local_ack = a.c.remote_seq
      BY <1>4, <3>1, AckUpToFacts
    <3>3. [a EXCEPT !.c = u] \in Result /\ [a EXCEPT !.c = u].c = u
      BY <1>2, <3>2, PutFacts
    <3>4. q \in Result /\ q.c = u
      BY <1>3, <2>2, <3>1, <3>3, AckFacts
    <3>. QED BY <1>2, <3>2, <3>4 DEF SameSend
  <2>. QED BY <2>1, <2>2
<1>6. Good(q)
  BY <1>2, <1>5 DEF Good, GoodConn, Resends, Awaiting, InStep, Result
<1>7. ASSUME NEW t \in Nat, Stream(r.c, t)  PROVE  Stream(q.c, t)
  <2>1. Prefix(r.c, t) /\ r.c.remote_seq = Plus(FinSeq, 1)
    BY <1>7 DEF Stream, Synchronised
  <2>2. ~InOrder(r.c, s)
    <3>. SUFFICES ASSUME s.data # <<>>, s.seq = r.c.remote_seq  PROVE  FALSE
      BY DEF InOrder
    <3>1. PICK k \in 0 .. PeerLen : s.seq = At(k)
      BY SegmentsFacts
    <3>. QED BY <2>1, <3>1, AtFacts
  <2>. QED BY <1>2, <1>5, <2>1, <2>2 DEF Stream, Prefix
<1>. QED BY <1>6, <1>7 DEF Keeps

\* So does handle_last_ack.
LEMMA LastAckKeeps ==
    ASSUME NEW r, Good(r), r.c.state = "LastAck", NEW s \in Segments
    PROVE  Keeps(r, s, handle_last_ack(r, s))
<1>1. CASE ~Has(s, "ACK")
  BY <1>1, KeepsItself DEF handle_last_ack
<1>2. CASE Has(s, "ACK")
  <2>1. PICK q : q = SetState(r, "Closed")
    OBVIOUS
  <2>2. handle_last_ack(r, s) = q
    BY <1>2, <2>1 DEF handle_last_ack, SetState
  <2>3. r \in Result /\ Len(r.c.recv_buf) <= RecvCap /\ "Closed" \in States
    BY DEF Good, GoodConn, States
  <2>4. q \in Result /\ q.c \in Conn /\ q.c.state = "Closed" /\ q.c.recv_buf = r.c.recv_buf
    BY <2>1, <2>3, StateFacts
  <2>5. Good(q)
    BY <2>3, <2>4 DEF Good, GoodConn, Resends, Awaiting, InStep
  <2>6. \A t \in Nat : Stream(q.c, t)
    BY <2>4 DEF Stream, Synchronised
  <2>. QED BY <2>2, <2>5, <2>6 DEF Keeps
<1>. QED BY <1>1, <1>2

\* Whatever the state, a segment keeps the connection's invariants.
LEMMA ProcessKeeps ==
    ASSUME NEW r, Good(r), NEW s \in Segments
    PROVE  Keeps(r, s, process_segment(r, s))
<1>1. r.c.state \in States
  BY DEF Good, GoodConn, Conn
<1>2. CASE r.c.state = "Listen"
  BY <1>2, ListenKeeps DEF process_segment
<1>3. CASE r.c.state = "SynSent"
  BY <1>3, SynSentKeeps DEF process_segment
<1>4. CASE r.c.state = "SynReceived"
  BY <1>4, SynReceivedKeeps DEF process_segment
<1>5. CASE r.c.state = "Established"
  BY <1>5, EstablishedKeeps DEF process_segment
<1>6. CASE r.c.state = "FinWait1"
  BY <1>6, FinWait1Keeps DEF process_segment
<1>7. CASE r.c.state = "FinWait2"
  BY <1>7, FinWait2Keeps DEF process_segment
<1>8. CASE r.c.state = "CloseWait"
  BY <1>8, CloseWaitKeeps DEF process_segment
<1>9. CASE r.c.state = "LastAck"
  BY <1>9, LastAckKeeps DEF process_segment
<1>10. CASE r.c.state \in {"Closed", "TimeWait"}
  BY <1>10, KeepsItself DEF process_segment
<1>. QED BY <1>1, <1>2, <1>3, <1>4, <1>5, <1>6, <1>7, <1>8, <1>9, <1>10 DEF States

-----------------------------------------------------------------------------
(***************************************************************************)
(* The steps.                                                              *)
(***************************************************************************)
TcpInv ==
    /\ conns \in [Slots -> Conn] /\ taken \in [Slots -> Nat] /\ pc \in {"shell", "drain"}
    /\ \A i \in Slots : GoodConn(conns[i])

StreamInv == \A i \in Slots : Stream(conns[i], taken[i])

\* A slot is opened again only when the bytes its last connection left in the
\* buffer have been read: listen and connect keep them.
CleanOpen ==
    \A i \in Slots : conns[i].state = "Closed" /\ conns'[i].state # "Closed"
                        => conns[i].recv_buf = <<>>

\* What a step must keep.
StepKeeps ==
    TcpInv' /\ (PeerLen <= RecvCap /\ CleanOpen /\ StreamInv => StreamInv')

\* The result of a call on one connection.
LEMMA CallKeeps ==
    ASSUME TcpInv, NEW i \in Slots, NEW q, Good(q), Call(i, q),
           taken' \in [Slots -> Nat], \A j \in Slots : j # i => taken'[j] = taken[j],
           pc' \in {"shell", "drain"},
           PeerLen <= RecvCap /\ CleanOpen /\ Stream(conns[i], taken[i]) => Stream(q.c, taken'[i])
    PROVE  StepKeeps
<1>1. conns' = [conns EXCEPT ![i] = q.c] /\ conns \in [Slots -> Conn] /\ q.c \in Conn /\ GoodConn(q.c)
  BY DEF Call, TcpInv, Good, GoodConn
<1>2. conns' \in [Slots -> Conn] /\ conns'[i] = q.c
      /\ \A j \in Slots : j # i => conns'[j] = conns[j]
  BY <1>1
<1>3. TcpInv'
  BY <1>1, <1>2 DEF TcpInv
<1>4. ASSUME PeerLen <= RecvCap, CleanOpen, StreamInv  PROVE  StreamInv'
  <2>. SUFFICES ASSUME NEW j \in Slots  PROVE  Stream(conns'[j], taken'[j])
    BY DEF StreamInv
  <2>1. Stream(conns[j], taken[j]) /\ Stream(conns[i], taken[i])
    BY <1>4 DEF StreamInv
  <2>2. CASE j = i
    BY <1>2, <1>4, <2>1, <2>2
  <2>3. CASE j # i
    BY <1>2, <2>1, <2>3
  <2>. QED BY <2>2, <2>3
<1>. QED BY <1>3, <1>4 DEF StepKeeps

\* Calls on a connection in the table.
LEMMA OnFacts ==
    ASSUME NEW c \in Conn  PROVE  On(c) \in Result /\ On(c).c = c
  BY DEF On, Result

\* A slot that was never used is a good connection.
LEMMA FreshGood == Fresh \in Conn /\ GoodConn(Fresh) /\ \A t \in Nat : Stream(Fresh, t)
<1>1. Fresh \in Conn
  BY Constants DEF Fresh, Conn, States, SeqNos, Flags
<1>2. Fresh.state = "Closed" /\ Len(Fresh.recv_buf) = 0
  BY DEF Fresh
<1>. QED BY <1>1, <1>2, Constants DEF GoodConn, Resends, Awaiting, InStep, Stream, Synchronised

\* Open resets the count of bytes read.
LEMMA OpenFacts ==
    ASSUME TcpInv, NEW i \in Slots, Open(i)
    PROVE  /\ taken' \in [Slots -> Nat] /\ taken'[i] = 0 /\ pc' \in {"shell", "drain"}
           /\ \A j \in Slots : j # i => taken'[j] = taken[j]
           /\ conns[i] \in Conn /\ conns[i].state = "Closed" /\ Len(conns[i].recv_buf) <= RecvCap
<1>1. taken' = [taken EXCEPT ![i] = 0] /\ taken \in [Slots -> Nat] /\ pc' = pc
  BY DEF Open, TcpInv
<1>2. conns[i] \in Conn /\ Len(conns[i].recv_buf) <= RecvCap /\ conns[i].state = "Closed"
  BY DEF Open, FirstClosed, TcpInv, GoodConn
<1>. QED BY <1>1, <1>2 DEF TcpInv

\* listen preserves the invariant.
LEMMA ListenStep ==
    ASSUME TcpInv, NEW i \in Slots, NEW port \in Ports, listen(i, port)  PROVE  StepKeeps
<1>1. PICK n \in ISNs :
          Call(i, On([conns[i] EXCEPT !.state = "Listen", !.port = port,
                                      !.peer = NoPeer, !.local_seq = n,
                                      !.remote_seq = 0, !.local_ack = 0]))
  BY DEF listen
<1>2. PICK d : d = [conns[i] EXCEPT !.state = "Listen", !.port = port,
                                    !.peer = NoPeer, !.local_seq = n,
                                    !.remote_seq = 0, !.local_ack = 0]
  OBVIOUS
<1>3. /\ taken' \in [Slots -> Nat] /\ taken'[i] = 0 /\ pc' \in {"shell", "drain"}
      /\ \A j \in Slots : j # i => taken'[j] = taken[j]
      /\ conns[i] \in Conn /\ conns[i].state = "Closed" /\ Len(conns[i].recv_buf) <= RecvCap
  BY OpenFacts DEF listen
<1>4. n \in SeqNos /\ 0 \in SeqNos
  BY Constants DEF SeqNos
<1>5. d \in Conn /\ d.state = "Listen" /\ d.recv_buf = conns[i].recv_buf
  <2>1. PICK e : e = [conns[i] EXCEPT !.state = "Listen", !.port = port, !.peer = NoPeer]
    OBVIOUS
  <2>2. e \in Conn /\ e.state = "Listen" /\ e.recv_buf = conns[i].recv_buf
    BY <1>3, <2>1 DEF Conn, States
  <2>3. d = [e EXCEPT !.local_seq = n, !.remote_seq = 0, !.local_ack = 0]
    BY <1>2, <1>3, <2>1 DEF Conn
  <2>4. d \in Conn
    BY <1>4, <2>2, <2>3 DEF Conn
  <2>. QED BY <2>2, <2>3, <2>4 DEF Conn
<1>6. On(d) \in Result /\ On(d).c = d
  BY <1>5, OnFacts
<1>7. Good(On(d))
  BY <1>3, <1>5, <1>6 DEF Good, GoodConn, Resends, Awaiting, InStep
<1>8. Call(i, On(d))
  BY <1>1, <1>2
<1>9. ASSUME CleanOpen  PROVE  Stream(d, taken'[i])
  <2>1. conns'[i] = d
    BY <1>6, <1>8 DEF Call, TcpInv
  <2>2. conns[i].recv_buf = <<>>
    BY <1>3, <1>5, <1>9, <2>1 DEF CleanOpen
  <2>. QED BY <1>3, <1>5, <2>2 DEF Stream, Synchronised
<1>. QED BY <1>3, <1>6, <1>7, <1>8, <1>9, CallKeeps

\* So does connect.
LEMMA ConnectStep ==
    ASSUME TcpInv, NEW i \in Slots, NEW port \in Ports, NEW peer \in Peers,
           connect(i, port, peer)
    PROVE  StepKeeps
<1>1. PICK n \in ISNs :
          Call(i, send_segment(
            On([conns[i] EXCEPT !.state = "SynSent", !.port = port,
                                !.peer = peer, !.local_seq = n,
                                !.remote_seq = 0, !.local_ack = 0,
                                !.retries = 0]), {"SYN"}, 0))
  BY DEF connect
<1>2. PICK d : d = [conns[i] EXCEPT !.state = "SynSent", !.port = port,
                                !.peer = peer, !.local_seq = n,
                                !.remote_seq = 0, !.local_ack = 0,
                                !.retries = 0]
  OBVIOUS
<1>3. /\ taken' \in [Slots -> Nat] /\ taken'[i] = 0 /\ pc' \in {"shell", "drain"}
      /\ \A j \in Slots : j # i => taken'[j] = taken[j]
      /\ conns[i] \in Conn /\ conns[i].state = "Closed" /\ Len(conns[i].recv_buf) <= RecvCap
  BY OpenFacts DEF connect
<1>4. n \in SeqNos /\ 0 \in SeqNos /\ 0 \in 0 .. MaxRetries
  BY Constants DEF SeqNos
<1>5. d \in Conn /\ d.state = "SynSent" /\ d.recv_buf = conns[i].recv_buf
  <2>1. PICK e : e = [conns[i] EXCEPT !.state = "SynSent", !.port = port, !.peer = peer]
    OBVIOUS
  <2>2. e \in Conn /\ e.state = "SynSent" /\ e.recv_buf = conns[i].recv_buf
    BY <1>3, <2>1 DEF Conn, States
  <2>3. d = [e EXCEPT !.local_seq = n, !.remote_seq = 0, !.local_ack = 0,
                           !.retries = 0]
    BY <1>2, <1>3, <2>1 DEF Conn
  <2>4. d \in Conn
    BY <1>4, <2>2, <2>3 DEF Conn
  <2>. QED BY <2>2, <2>3, <2>4 DEF Conn
<1>6. On(d) \in Result /\ On(d).c = d
  BY <1>5, OnFacts
<1>7. PICK q : q = send_segment(On(d), {"SYN"}, 0)
  OBVIOUS
<1>8. {"SYN"} \in SUBSET Flags /\ {"SYN"} \cap {"SYN", "FIN"} # {} /\ 0 \in 0 .. MSS
  BY Constants DEF Flags
<1>9. q \in Result /\ SameRest(On(d).c, q.c) /\ Remembers(q.c, {"SYN"}, 0)
  BY <1>6, <1>7, <1>8, SegmentFacts
<1>10. q.c \in Conn /\ q.c.state = "SynSent" /\ q.c.recv_buf = conns[i].recv_buf
  BY <1>5, <1>6, <1>9 DEF SameRest, Result
<1>11. Good(q)
  BY <1>3, <1>9, <1>10 DEF Good, GoodConn, Resends, InStep
<1>12. Call(i, q)
  BY <1>1, <1>2, <1>7
<1>13. ASSUME CleanOpen  PROVE  Stream(q.c, taken'[i])
  <2>1. conns'[i] = q.c
    BY <1>12 DEF Call, TcpInv
  <2>2. conns[i].recv_buf = <<>>
    BY <1>3, <1>10, <1>13, <2>1 DEF CleanOpen
  <2>. QED BY <1>3, <1>10, <2>2 DEF Stream, Synchronised
<1>. QED BY <1>3, <1>11, <1>12, <1>13, CallKeeps

\* Sending keeps what is received.
LEMMA SameRestStream ==
    ASSUME NEW c, NEW d, SameRest(c, d), NEW t, Stream(c, t)  PROVE  Stream(d, t)
  BY DEF SameRest, Stream, Prefix, Expects

\* So does send.
LEMMA SendStep ==
    ASSUME TcpInv, NEW i \in Slots, NEW n \in 1 .. SendCap, send(i, n)  PROVE  StepKeeps
<1>. DEFINE copied == Least(n, SendCap - conns[i].send_len)
            d == [conns[i] EXCEPT !.send_len = @ + copied]
            q == flush_send(On(d))
<1>1. conns[i] \in Conn /\ conns[i].send_len \in 0 .. SendCap /\ GoodConn(conns[i])
  BY DEF TcpInv, Conn
<1>2. conns[i].state \in {"Established", "CloseWait"} /\ copied > 0 /\ Call(i, q)
      /\ UNCHANGED <<pc, taken, opens>>
  BY DEF send
<1>3. conns[i].send_len + copied \in 0 .. SendCap
  <2>1. n \in Int /\ SendCap - conns[i].send_len \in Int
    BY <1>1, Constants
  <2>2. copied \in {n, SendCap - conns[i].send_len} /\ copied <= SendCap - conns[i].send_len
    BY <2>1, LeastFacts
  <2>. HIDE DEF copied
  <2>. QED BY <1>1, <1>2, <2>1, <2>2, Constants
<1>. HIDE DEF copied
<1>4. /\ d \in Conn /\ d.state = conns[i].state /\ d.remote_seq = conns[i].remote_seq
      /\ d.local_ack = conns[i].local_ack /\ d.recv_buf = conns[i].recv_buf
  BY <1>1, <1>3 DEF Conn
<1>. HIDE DEF d
<1>5. On(d) \in Result /\ On(d).c = d
  BY <1>4, OnFacts
<1>6. q \in Result /\ SameRest(d, q.c)
  BY <1>5, FlushFacts
<1>. HIDE DEF q
<1>7. Good(q)
  BY <1>1, <1>2, <1>4, <1>6 DEF Good, GoodConn, Resends, Awaiting, InStep, SameRest, Result
<1>8. Stream(conns[i], taken[i]) => Stream(q.c, taken[i])
  BY <1>4, <1>6 DEF SameRest, Stream, Prefix, Expects
<1>. QED BY <1>2, <1>7, <1>8, CallKeeps DEF TcpInv

\* So does recv, which takes bytes off the front of the buffer.
LEMMA RecvStep ==
    ASSUME TcpInv, NEW i \in Slots, NEW max \in 1 .. RecvCap, recv(i, max)  PROVE  StepKeeps
<1>. DEFINE c == conns[i]
            L == Len(c.recv_buf)
            n == Least(L, max)
            rest == SubSeq(c.recv_buf, n + 1, L)
            d == [c EXCEPT !.recv_buf = rest]
<1>1. /\ c \in Conn /\ GoodConn(c) /\ c.recv_buf \in Seq(Nat) /\ L \in Nat
      /\ taken \in [Slots -> Nat] /\ taken[i] \in Nat /\ pc \in {"shell", "drain"}
  BY DEF TcpInv, Conn
<1>2. n > 0 /\ taken' = [taken EXCEPT ![i] = @ + n] /\ pc' = pc /\ Call(i, On(d))
  BY DEF recv
<1>3. n \in Nat /\ n <= L
  BY <1>1, LeastFacts
<1>. HIDE DEF n
<1>4. /\ rest \in Seq(Nat) /\ Len(rest) = L - n
      /\ \A k \in 1 .. L - n : rest[k] = c.recv_buf[n + k]
  <2>1. \A k \in n + 1 .. L : c.recv_buf[k] \in Nat
    BY <1>1, <1>3
  <2>2. n + 1 \in Int /\ L \in Int
    BY <1>1, <1>3
  <2>3. /\ rest \in Seq(Nat) /\ Len(rest) = (IF n + 1 <= L THEN L - (n + 1) + 1 ELSE 0)
        /\ \A k \in 1 .. L - (n + 1) + 1 : rest[k] = c.recv_buf[n + 1 + k - 1]
    BY <2>1, <2>2, SubSeqProperties
  <2>. HIDE DEF L, rest
  <2>4. L - (n + 1) + 1 = L - n /\ (~(n + 1 <= L) => L - n = 0)
    BY <1>1, <1>3
  <2>5. \A k \in 1 .. L - n : n + 1 + k - 1 = n + k
    BY <1>1, <1>3
  <2>. QED BY <2>3, <2>4, <2>5
<1>. HIDE DEF rest
<1>5. /\ d \in Conn /\ d.state = c.state /\ d.remote_seq = c.remote_seq
      /\ d.local_ack = c.local_ack /\ d.recv_buf = rest
      /\ (Remembers(c, c.last_tx_flags, 0) => Remembers(d, c.last_tx_flags, 0))
      /\ d.last_tx_flags = c.last_tx_flags
  BY <1>1, <1>4 DEF Conn, Remembers
<1>. HIDE DEF d
<1>6. On(d) \in Result /\ On(d).c = d
  BY <1>5, OnFacts
<1>7. Resends(d)
  BY <1>1, <1>5 DEF GoodConn, Resends, Remembers
<1>8. Len(d.recv_buf) <= RecvCap
  BY <1>1, <1>3, <1>4, <1>5, Constants DEF GoodConn
<1>9. Good(On(d))
  BY <1>1, <1>5, <1>6, <1>7, <1>8 DEF Good, GoodConn, InStep
<1>10. taken' \in [Slots -> Nat] /\ taken'[i] = taken[i] + n
       /\ \A j \in Slots : j # i => taken'[j] = taken[j]
  BY <1>1, <1>2, <1>3
<1>11. ASSUME Stream(c, taken[i])  PROVE  Stream(d, taken'[i])
  <2>1. c.state \in {"Listen", "SynSent"} => FALSE
    <3>1. L # 0
      BY <1>1, <1>2, <1>3
    <3>. QED BY <1>11, <3>1 DEF Stream
  <2>2. taken'[i] + Len(d.recv_buf) = taken[i] + L
    BY <1>1, <1>3, <1>4, <1>5, <1>10
  <2>3. ASSUME Prefix(c, taken[i])  PROVE  Prefix(d, taken'[i])
    <3>1. ASSUME NEW k \in 1 .. L - n  PROVE  d.recv_buf[k] = taken'[i] + k
      <4>1. n + k \in 1 .. L /\ taken[i] + (n + k) = taken[i] + n + k
        BY <1>1, <1>3
      <4>2. c.recv_buf[n + k] = taken[i] + (n + k)
        BY <2>3, <4>1 DEF Prefix
      <4>. QED BY <1>4, <1>5, <1>10, <4>1, <4>2
    <3>. QED BY <1>4, <1>5, <2>2, <2>3, <3>1 DEF Prefix
  <2>4. Expects(c, taken[i]) => Expects(d, taken'[i])
    BY <1>5, <2>2 DEF Expects
  <2>. QED BY <1>5, <1>11, <2>1, <2>3, <2>4 DEF Stream
<1>. HIDE DEF c
<1>. QED BY <1>1, <1>2, <1>6, <1>9, <1>10, <1>11, CallKeeps DEF c

\* A FIN is remembered for retransmission.
LEMMA FinFacts ==
    ASSUME NEW r \in Result, NEW st \in States, NEW q, q = Fin(r, st)
    PROVE  /\ q \in Result /\ q.c.state = st /\ Remembers(q.c, {"FIN", "ACK"}, 0)
           /\ q.c.remote_seq = r.c.remote_seq /\ q.c.local_ack = r.c.local_ack
           /\ q.c.recv_buf = r.c.recv_buf
<1>1. PICK p : p = SetState(r, st)
  OBVIOUS
<1>2. /\ p \in Result /\ p.c.state = st
      /\ p.c.remote_seq = r.c.remote_seq /\ p.c.local_ack = r.c.local_ack
      /\ p.c.recv_buf = r.c.recv_buf
  BY <1>1, StateFacts
<1>3. q = send_segment(p, {"FIN", "ACK"}, 0)
  BY <1>1 DEF Fin, SetState
<1>4. {"FIN", "ACK"} \in SUBSET Flags /\ {"FIN", "ACK"} \cap {"SYN", "FIN"} # {} /\ 0 \in 0 .. MSS
  BY Constants DEF Flags
<1>5. q \in Result /\ SameRest(p.c, q.c) /\ Remembers(q.c, {"FIN", "ACK"}, 0)
  BY <1>2, <1>3, <1>4, SegmentFacts
<1>. QED BY <1>2, <1>5 DEF SameRest

\* So does close.
LEMMA CloseStep ==
    ASSUME TcpInv, NEW i \in Slots, close(i)  PROVE  StepKeeps
<1>. DEFINE c == conns[i]
<1>1. c \in Conn /\ GoodConn(c) /\ taken' = taken /\ pc' = pc
  BY DEF TcpInv, close
<1>2. On(c) \in Result /\ On(c).c = c
  BY <1>1, OnFacts
<1>3. CASE c.state = "Established" /\ Call(i, Fin(flush_send(On(c)), "FinWait1"))
  <2>1. PICK p : p = flush_send(On(c))
    OBVIOUS
  <2>2. p \in Result /\ SameRest(c, p.c)
    BY <1>2, <2>1, FlushFacts
  <2>3. PICK q : q = Fin(p, "FinWait1")
    OBVIOUS
  <2>4. "FinWait1" \in States
    BY DEF States
  <2>5. /\ q \in Result /\ q.c.state = "FinWait1" /\ Remembers(q.c, {"FIN", "ACK"}, 0)
        /\ q.c.remote_seq = p.c.remote_seq /\ q.c.recv_buf = p.c.recv_buf
    BY <2>2, <2>3, <2>4, FinFacts
  <2>6. q.c.remote_seq = c.remote_seq /\ q.c.recv_buf = c.recv_buf
    BY <2>2, <2>5 DEF SameRest
  <2>7. Good(q)
    BY <1>1, <2>5, <2>6 DEF Good, GoodConn, Resends, InStep, Result
  <2>8. ASSUME Stream(c, taken[i])  PROVE  Stream(q.c, taken[i])
    BY <1>3, <2>5, <2>6, <2>8 DEF Stream, Synchronised, Prefix, Expects
  <2>9. Call(i, q)
    BY <1>3, <2>1, <2>3
  <2>. QED BY <1>1, <2>7, <2>8, <2>9, CallKeeps DEF TcpInv
<1>4. CASE c.state = "CloseWait" /\ Call(i, Fin(On(c), "LastAck"))
  <2>1. PICK q : q = Fin(On(c), "LastAck")
    OBVIOUS
  <2>2. "LastAck" \in States
    BY DEF States
  <2>3. /\ q \in Result /\ q.c.state = "LastAck" /\ Remembers(q.c, {"FIN", "ACK"}, 0)
        /\ q.c.remote_seq = c.remote_seq /\ q.c.local_ack = c.local_ack
        /\ q.c.recv_buf = c.recv_buf
    BY <1>2, <2>1, <2>2, FinFacts
  <2>4. Good(q)
    BY <1>1, <1>4, <2>3 DEF Good, GoodConn, Resends, InStep, Result
  <2>5. ASSUME Stream(c, taken[i])  PROVE  Stream(q.c, taken[i])
    BY <1>4, <2>3, <2>5 DEF Stream, Synchronised, Prefix
  <2>6. Call(i, q)
    BY <1>4, <2>1
  <2>. QED BY <1>1, <2>4, <2>5, <2>6, CallKeeps DEF TcpInv
<1>. QED BY <1>3, <1>4 DEF close

\* So does a segment, whatever its flags and the state it meets.
LEMMA ReceiveStep ==
    ASSUME TcpInv, NEW i \in Slots, NEW s \in Segments, receive(i, s)  PROVE  StepKeeps
<1>. DEFINE c == conns[i]
            d == [c EXCEPT !.peer = s.from]
<1>1. c \in Conn /\ GoodConn(c) /\ taken' = taken /\ pc' = pc /\ FinLast(c, s)
      /\ taken \in [Slots -> Nat] /\ taken[i] \in Nat /\ pc \in {"shell", "drain"}
  BY DEF TcpInv, receive, Deliverable, FinLast
<1>2. CASE Has(s, "RST")
  <2>1. Call(i, On(Fresh))
    BY <1>2 DEF receive
  <2>2. On(Fresh) \in Result /\ On(Fresh).c = Fresh
    BY FreshGood, OnFacts
  <2>3. Good(On(Fresh)) /\ Stream(On(Fresh).c, taken[i])
    BY <1>1, <2>2, FreshGood DEF Good
  <2>. QED BY <1>1, <2>1, <2>3, CallKeeps
<1>3. CASE ~Has(s, "RST")
  <2>1. s.from \in Peers
    BY SegmentsFacts
  <2>2. /\ d \in Conn /\ GoodConn(d) /\ FinLast(d, s)
        /\ \A t \in Nat : Stream(c, t) => Stream(d, t)
    <3>1. /\ d \in Conn /\ d.state = c.state /\ d.local_seq = c.local_seq
          /\ d.remote_seq = c.remote_seq /\ d.local_ack = c.local_ack /\ d.recv_buf = c.recv_buf
          /\ d.last_tx_seq = c.last_tx_seq /\ d.last_tx_len = c.last_tx_len
          /\ d.last_tx_flags = c.last_tx_flags
      BY <1>1, <2>1 DEF Conn
    <3>. HIDE DEF d
    <3>2. GoodConn(d)
      BY <1>1, <3>1 DEF GoodConn, Resends, Remembers, InStep
    <3>3. FinLast(d, s) /\ \A t \in Nat : Stream(c, t) => Stream(d, t)
      BY <1>1, <3>1 DEF FinLast, Stream, Prefix, Expects
    <3>. QED BY <3>1, <3>2, <3>3
  <2>3. PICK q : q = process_segment(On(d), s)
    OBVIOUS
  <2>4. Call(i, q)
    BY <1>3, <2>3 DEF receive
  <2>. HIDE DEF d
  <2>5. On(d) \in Result /\ On(d).c = d /\ Good(On(d))
    BY <2>2, OnFacts DEF Good
  <2>6. Keeps(On(d), s, q)
    BY <2>3, <2>5, ProcessKeeps
  <2>7. Good(q)
        /\ (PeerLen <= RecvCap /\ Stream(c, taken[i]) => Stream(q.c, taken[i]))
    BY <1>1, <2>2, <2>5, <2>6 DEF Keeps
  <2>. QED BY <1>1, <2>4, <2>7, CallKeeps
<1>. QED BY <1>2, <1>3

\* A retransmission sends the remembered segment and remembers it again.
LEMMA RetransmitKeeps ==
    ASSUME NEW c, GoodConn(c), c.state \in Awaiting, NEW e \in BOOLEAN,
           NEW q, q = check_retransmit(On(c), e)
    PROVE  Good(q) /\ \A t \in Nat : Stream(c, t) => Stream(q.c, t)
<1>1. c \in Conn /\ Resends(c) /\ InStep(c) /\ Len(c.recv_buf) <= RecvCap
  BY DEF GoodConn
<1>2. On(c) \in Result /\ On(c).c = c
  BY <1>1, OnFacts
<1>3. CASE c.retries >= MaxRetries
  <2>1. PICK p : p = send_segment_raw(On(c), {"RST", "ACK"}, 0)
    OBVIOUS
  <2>2. {"RST", "ACK"} \in SUBSET Flags /\ 0 \in 0 .. MSS
    BY Constants DEF Flags
  <2>3. p \in Result
    BY <1>2, <2>1, <2>2, RawFacts
  <2>4. q = [c |-> Fresh, sent |-> p.sent]
    BY <1>2, <1>3, <2>1 DEF check_retransmit
  <2>5. q \in Result /\ q.c = Fresh
    BY <2>3, <2>4, FreshGood DEF Result
  <2>. QED BY <2>5, FreshGood DEF Good
<1>4. CASE ~(c.retries >= MaxRetries) /\ e
  <2>. DEFINE flags == c.last_tx_flags
  <2>1. PICK p : p = send_segment_raw(On(c), flags, c.last_tx_len)
    OBVIOUS
  <2>2. flags \cap {"SYN", "FIN"} # {} /\ Remembers(c, flags, 0) /\ c.last_tx_len = 0
    BY <1>1 DEF Resends, Remembers, Awaiting
  <2>3. flags \in SUBSET Flags /\ c.last_tx_len \in 0 .. MSS
    BY <1>1 DEF Conn
  <2>4. p \in Result /\ SameRest(c, p.c) /\ Remembers(p.c, flags, 0)
    BY <1>2, <2>1, <2>2, <2>3, RawFacts
  <2>5. PICK d : d = [p.c EXCEPT !.retries = @ + 1]
    OBVIOUS
  <2>6. p.c \in Conn /\ p.c.retries + 1 \in 0 .. MaxRetries
    <3>1. c.retries \in 0 .. MaxRetries /\ p.c.retries = c.retries
      BY <1>1, <2>4 DEF Conn, SameRest
    <3>. QED BY <1>4, <2>4, <3>1, Constants DEF Result
  <2>7. /\ d \in Conn /\ d.state = p.c.state /\ d.remote_seq = p.c.remote_seq
        /\ d.local_ack = p.c.local_ack /\ d.recv_buf = p.c.recv_buf
        /\ d.local_seq = p.c.local_seq /\ d.last_tx_seq = p.c.last_tx_seq
        /\ d.last_tx_len = p.c.last_tx_len /\ d.last_tx_flags = p.c.last_tx_flags
    BY <2>5, <2>6 DEF Conn
  <2>8. q = [p EXCEPT !.c = d]
    <3>1. q = [p EXCEPT !.c.retries = @ + 1]
      BY <1>2, <1>4, <2>1 DEF check_retransmit
    <3>. QED BY <2>4, <2>5, <3>1 DEF Result
  <2>9. q \in Result /\ q.c = d
    BY <2>4, <2>7, <2>8, PutFacts
  <2>10. Resends(d)
    BY <1>1, <2>2, <2>4, <2>7 DEF Resends, Remembers, SameRest
  <2>11. Good(q)
    BY <1>1, <2>4, <2>7, <2>9, <2>10 DEF Good, GoodConn, InStep, SameRest
  <2>. QED BY <2>4, <2>7, <2>9, <2>11 DEF SameRest, Stream, Prefix, Expects
<1>5. CASE ~(c.retries >= MaxRetries) /\ ~e
  <2>1. q = On(c)
    BY <1>2, <1>5 DEF check_retransmit
  <2>. QED BY <1>2, <2>1 DEF Good
<1>. QED BY <1>3, <1>4, <1>5

\* poll on one connection keeps it good, whether its timer has run out or not.
LEMMA PollKeeps ==
    ASSUME NEW c, GoodConn(c), NEW e \in BOOLEAN, NEW q, q = PollOne(c, e)
    PROVE  Good(q) /\ \A t \in Nat : Stream(c, t) => Stream(q.c, t)
<1>1. c \in Conn /\ c.state \in States /\ Len(c.recv_buf) <= RecvCap /\ InStep(c)
  BY DEF GoodConn, Conn
<1>2. On(c) \in Result /\ On(c).c = c
  BY <1>1, OnFacts
<1>3. CASE c.state \in Awaiting
  <2>1. q = check_retransmit(On(c), e)
    BY <1>3 DEF PollOne, Awaiting
  <2>. QED BY <1>3, <2>1, RetransmitKeeps
<1>4. CASE c.state \in {"Established", "CloseWait"}
  <2>1. q = flush_send(On(c))
    BY <1>4 DEF PollOne
  <2>2. q \in Result /\ SameRest(c, q.c)
    BY <1>2, <2>1, FlushFacts
  <2>3. Good(q)
    BY <1>1, <1>4, <2>2 DEF Good, GoodConn, Resends, Awaiting, InStep, SameRest, Result
  <2>. QED BY <2>2, <2>3, SameRestStream
<1>5. CASE c.state = "TimeWait" /\ e
  <2>1. PICK d : d = [c EXCEPT !.state = "Closed"]
    OBVIOUS
  <2>2. q = On(d)
    BY <1>5, <2>1 DEF PollOne
  <2>3. d \in Conn /\ d.state = "Closed" /\ d.recv_buf = c.recv_buf
    BY <1>1, <2>1 DEF Conn, States
  <2>4. q \in Result /\ q.c = d
    BY <2>2, <2>3, OnFacts
  <2>. QED BY <1>1, <2>3, <2>4 DEF Good, GoodConn, Resends, Awaiting, InStep, Stream, Synchronised
<1>6. CASE c.state \notin Awaiting \cup {"Established", "CloseWait"} /\ ~(c.state = "TimeWait" /\ e)
  <2>1. q = On(c)
    BY <1>6 DEF PollOne, Awaiting
  <2>. QED BY <1>2, <2>1 DEF Good
<1>. QED BY <1>3, <1>4, <1>5, <1>6

\* So does poll over all connections.
LEMMA PollStep ==
    ASSUME TcpInv, NEW expired \in SUBSET Slots, poll(expired)  PROVE  StepKeeps
<1>1. /\ conns' = [i \in Slots |-> PollOne(conns[i], i \in expired).c]
      /\ pc' = "shell" /\ taken' = taken
  BY DEF poll
<1>2. ASSUME NEW i \in Slots
      PROVE  /\ GoodConn(conns'[i]) /\ conns'[i] \in Conn
             /\ Stream(conns[i], taken[i]) => Stream(conns'[i], taken[i])
  <2>1. PICK e \in BOOLEAN : e <=> i \in expired
    OBVIOUS
  <2>2. PICK q : q = PollOne(conns[i], e)
    OBVIOUS
  <2>3. conns'[i] = q.c
    <3>1. PollOne(conns[i], i \in expired) = q
      BY <2>1, <2>2 DEF PollOne, check_retransmit
    <3>. QED BY <1>1, <3>1
  <2>4. GoodConn(conns[i]) /\ taken[i] \in Nat
    BY DEF TcpInv
  <2>5. Good(q) /\ (Stream(conns[i], taken[i]) => Stream(q.c, taken[i]))
    BY <2>2, <2>4, PollKeeps
  <2>. QED BY <2>3, <2>5 DEF Good, GoodConn
<1>3. TcpInv'
  BY <1>1, <1>2 DEF TcpInv
<1>4. StreamInv => StreamInv'
  BY <1>1, <1>2 DEF StreamInv
<1>. QED BY <1>3, <1>4 DEF StepKeeps

\* Every step keeps the invariants.
LEMMA TcpStep == TcpInv /\ [Next]_vars => StepKeeps
<1>. SUFFICES ASSUME TcpInv, [Next]_vars  PROVE  StepKeeps
  OBVIOUS
<1>1. CASE ShellCalls
  BY <1>1, ListenStep, ConnectStep, SendStep, RecvStep, CloseStep DEF ShellCalls
<1>2. CASE BeginDispatch
  BY <1>2 DEF BeginDispatch, StepKeeps, TcpInv, StreamInv
<1>3. ASSUME NEW i \in Slots, NEW s \in Segments, receive(i, s)  PROVE  StepKeeps
  BY <1>3, ReceiveStep
<1>4. ASSUME NEW expired \in SUBSET Slots, poll(expired)  PROVE  StepKeeps
  BY <1>4, PollStep
<1>5. CASE UNCHANGED vars
  BY <1>5 DEF vars, StepKeeps, TcpInv, StreamInv
<1>. QED BY <1>1, <1>2, <1>3, <1>4, <1>5 DEF Next

\* The invariant holds at the start.
LEMMA TcpInit == Init => TcpInv /\ StreamInv
<1>. SUFFICES ASSUME Init  PROVE  TcpInv /\ StreamInv
  OBVIOUS
<1>1. conns = [i \in Slots |-> Fresh] /\ taken = [i \in Slots |-> 0] /\ pc = "shell"
  BY DEF Init
<1>. QED BY <1>1, FreshGood DEF TcpInv, StreamInv

-----------------------------------------------------------------------------
(***************************************************************************)
(* The theorems.                                                           *)
(***************************************************************************)

\* Every connection of the table keeps its invariant, whatever the shell calls,
\* the peers send and the timers do.
THEOREM TcpInvariant == Spec => []TcpInv
<1>1. Init => TcpInv
  BY TcpInit
<1>2. TcpInv /\ [Next]_vars => TcpInv'
  BY TcpStep DEF StepKeeps
<1>. QED BY <1>1, <1>2, PTL DEF Spec

\* The fixed-size buffers are never overrun, and every field stays in its range.
THEOREM TcpTypes == Spec => []TypeOK
<1>1. TcpInv => TypeOK
  BY DEF TcpInv, TypeOK, GoodConn, Conn, SeqNos
<1>. QED BY <1>1, TcpInvariant, PTL

\* A SYN or FIN that is sent again is the same segment.
THEOREM SameRetransmission == Spec => []RetransmitsTheSame
<1>1. TcpInv => RetransmitsTheSame
  BY DEF TcpInv, RetransmitsTheSame, GoodConn, Resends, Remembers
<1>. QED BY <1>1, TcpInvariant, PTL

\* Acknowledgements never run ahead of, nor fall behind, what was taken.
THEOREM AcksStayInStep == Spec => []AcksInStep
<1>1. TcpInv => AcksInStep
  BY DEF TcpInv, AcksInStep, GoodConn, InStep
<1>. QED BY <1>1, TcpInvariant, PTL

\* If a peer's stream fits the receive buffer and a slot is opened again only
\* after its buffer was read, the shell reads a prefix of the stream.
THEOREM ReadsPrefix ==
    PeerLen <= RecvCap => (Spec /\ [][CleanOpen]_vars => []ReceivesPrefix)
<1>. SUFFICES ASSUME PeerLen <= RecvCap  PROVE  Spec /\ [][CleanOpen]_vars => []ReceivesPrefix
  OBVIOUS
<1>1. Init => TcpInv /\ StreamInv
  BY TcpInit
<1>2. TcpInv /\ StreamInv /\ [Next]_vars /\ [CleanOpen]_vars => TcpInv' /\ StreamInv'
  <2>. SUFFICES ASSUME TcpInv, StreamInv, [Next]_vars, [CleanOpen]_vars
                PROVE  TcpInv' /\ StreamInv'
    OBVIOUS
  <2>1. StepKeeps
    BY TcpStep
  <2>2. CASE CleanOpen
    BY <2>1, <2>2 DEF StepKeeps
  <2>3. CASE UNCHANGED vars
    BY <2>3 DEF vars, TcpInv, StreamInv
  <2>. QED BY <2>2, <2>3
<1>3. TcpInv /\ StreamInv => ReceivesPrefix
  <2>. SUFFICES ASSUME TcpInv, StreamInv, NEW i \in Slots, conns[i].state \in Synchronised,
                       NEW k \in DOMAIN conns[i].recv_buf
                PROVE  conns[i].recv_buf[k] = taken[i] + k
    BY DEF ReceivesPrefix
  <2>1. conns[i].recv_buf \in Seq(Nat)
    BY DEF TcpInv, Conn
  <2>2. k \in 1 .. Len(conns[i].recv_buf)
    BY <2>1
  <2>. QED BY <2>2 DEF StreamInv, Stream, Prefix
<1>. QED BY <1>1, <1>2, <1>3, PTL DEF Spec

\* Until the first listen or connect every slot is fresh.
Unopened == opens \in Nat /\ (opens = 0 => \A i \in Slots : conns[i] = Fresh)

\* Only listen and connect bring a closed slot to life.
LEMMA OpenedBy ==
    ASSUME TcpInv, Next, NEW i \in Slots,
           conns[i].state = "Closed", conns'[i] # conns[i]
    PROVE  conns'[i].state = "Closed" \/ opens < MaxOpens
<1>1. conns \in [Slots -> Conn]
  BY DEF TcpInv
<1>2. ASSUME NEW j \in Slots, NEW q, Call(j, q)
      PROVE  conns'[j] = q.c /\ (j # i => conns'[i] = conns[i])
  BY <1>1, <1>2 DEF Call
<1>3. ASSUME NEW j \in Slots, Open(j)  PROVE  opens < MaxOpens
  BY <1>3 DEF Open
<1>4. ASSUME NEW j \in Slots, NEW n, send(j, n)  PROVE  FALSE
  BY <1>2, <1>4 DEF send
<1>5. ASSUME NEW j \in Slots, NEW max, recv(j, max)  PROVE  conns'[i].state = "Closed"
  <2>. DEFINE d == [conns[j] EXCEPT !.recv_buf =
                      SubSeq(@, Least(Len(conns[j].recv_buf), max) + 1, Len(@))]
  <2>1. Call(j, On(d))
    BY <1>5 DEF recv
  <2>2. conns'[j] = d /\ (j # i => conns'[i] = conns[i])
    BY <1>2, <2>1 DEF On
  <2>3. d.state = conns[j].state
    BY <1>1 DEF Conn
  <2>. QED BY <2>2, <2>3
<1>6. ASSUME NEW j \in Slots, close(j)  PROVE  FALSE
  BY <1>2, <1>6 DEF close
<1>7. ASSUME NEW j \in Slots, NEW s, receive(j, s)  PROVE  FALSE
  BY <1>2, <1>7 DEF receive, Matches
<1>8. ASSUME NEW expired, poll(expired)  PROVE  FALSE
  <2>1. conns'[i] = PollOne(conns[i], i \in expired).c
    BY <1>8 DEF poll
  <2>2. PollOne(conns[i], i \in expired) = On(conns[i])
    BY DEF PollOne
  <2>. QED BY <2>1, <2>2 DEF On
<1>9. CASE BeginDispatch
  BY <1>9 DEF BeginDispatch
<1>10. CASE ShellCalls
  BY <1>3, <1>4, <1>5, <1>6, <1>10 DEF ShellCalls, listen, connect
<1>. QED BY <1>7, <1>8, <1>9, <1>10 DEF Next

\* With a single listen or connect no slot is opened twice.
LEMMA OpenedOnce ==
    MaxOpens <= 1 /\ TcpInv /\ Unopened /\ [Next]_vars => CleanOpen /\ Unopened'
<1>. SUFFICES ASSUME MaxOpens <= 1, TcpInv, Unopened, [Next]_vars  PROVE  CleanOpen /\ Unopened'
  OBVIOUS
<1>1. CASE UNCHANGED vars
  BY <1>1 DEF vars, Unopened, CleanOpen
<1>2. CASE Next
  <2>1. CleanOpen
    <3>. SUFFICES ASSUME NEW i \in Slots, conns[i].state = "Closed", conns'[i].state # "Closed"
                  PROVE  conns[i].recv_buf = <<>>
      BY DEF CleanOpen
    <3>1. opens < MaxOpens
      BY <1>2, OpenedBy
    <3>2. opens = 0
      BY <3>1, Constants DEF Unopened
    <3>. QED BY <3>2 DEF Unopened, Fresh
  <2>2. opens' \in Nat /\ (opens' = 0 => opens = 0)
    <3>1. opens' = opens \/ opens' = opens + 1
      <4>1. CASE ShellCalls
        BY <4>1, Zenon DEF ShellCalls, listen, connect, Open, send, recv, close
      <4>. QED BY <1>2, <4>1, Zenon DEF Next, BeginDispatch, receive, poll
    <3>. QED BY <3>1 DEF Unopened
  <2>3. ASSUME opens' = 0, NEW i \in Slots  PROVE  conns'[i] = Fresh
    <3>1. opens = 0 /\ \A j \in Slots : conns[j] = Fresh
      BY <2>2, <2>3 DEF Unopened
    <3>2. Fresh.state = "Closed" /\ Len(Fresh.recv_buf) = 0
      BY DEF Fresh
    <3>3. ~\E j \in Slots : Open(j)
      BY <2>3, <3>1 DEF Open
    <3>4. ASSUME NEW j \in Slots, NEW max \in 1 .. RecvCap, recv(j, max)  PROVE  FALSE
      <4>1. Least(0, max) = 0
        BY LeastFacts
      <4>. QED BY <3>1, <3>2, <3>4, <4>1 DEF recv
    <3>5. ASSUME NEW j \in Slots, NEW n, send(j, n) \/ close(j) \/ receive(j, n)  PROVE  FALSE
      BY <3>1, <3>2, <3>5 DEF send, close, receive, Matches
    <3>6. ~ShellCalls
      BY <3>3, <3>4, <3>5 DEF ShellCalls, listen, connect
    <3>7. CASE BeginDispatch
      BY <3>1, <3>7 DEF BeginDispatch
    <3>8. ASSUME NEW expired, poll(expired)  PROVE  conns'[i] = Fresh
      <4>1. conns'[i] = PollOne(Fresh, i \in expired).c
        BY <3>1, <3>8 DEF poll
      <4>2. PollOne(Fresh, i \in expired) = On(Fresh)
        BY <3>2 DEF PollOne
      <4>. QED BY <4>1, <4>2 DEF On
    <3>. QED BY <1>2, <3>5, <3>6, <3>7, <3>8 DEF Next
  <2>. QED BY <2>1, <2>2, <2>3 DEF Unopened
<1>. QED BY <1>1, <1>2

\* If a peer's stream fits the receive buffer and the table is used once, the
\* shell reads a prefix of the stream, whatever is lost, repeated or reordered.
THEOREM FirstReadsPrefix ==
    PeerLen <= RecvCap /\ MaxOpens <= 1 => (Spec => []ReceivesPrefix)
<1>. SUFFICES ASSUME PeerLen <= RecvCap, MaxOpens <= 1  PROVE  Spec => []ReceivesPrefix
  OBVIOUS
<1>1. Init => TcpInv /\ Unopened
  BY TcpInit DEF Init, Unopened
<1>2. TcpInv /\ Unopened /\ [Next]_vars => TcpInv' /\ Unopened' /\ [CleanOpen]_vars
  BY OpenedOnce, TcpStep DEF StepKeeps
<1>3. Spec => [][CleanOpen]_vars
  BY <1>1, <1>2, PTL DEF Spec
<1>4. Spec /\ [][CleanOpen]_vars => []ReceivesPrefix
  BY ReadsPrefix
<1>. QED BY <1>3, <1>4, PTL

\* A request longer than the send buffer is cut to what fits.
LEMMA LongSend ==
    ASSUME TcpInv, NEW i \in Slots, NEW n \in Nat \ {0}, send(i, n)
    PROVE  \E m \in 1 .. SendCap : send(i, m)
<1>1. CASE n <= SendCap
  BY <1>1, Constants
<1>2. CASE n > SendCap
  <2>1. conns[i].send_len \in 0 .. SendCap
    BY DEF TcpInv, Conn
  <2>2. Least(n, SendCap - conns[i].send_len) = Least(SendCap, SendCap - conns[i].send_len)
    BY <1>2, <2>1, Constants DEF Least
  <2>3. send(i, SendCap) /\ SendCap \in 1 .. SendCap
    BY <2>2, Constants DEF send
  <2>. QED BY <2>3
<1>. QED BY <1>1, <1>2, Constants

HttpInv == TcpInv /\ slot \in Slots

\* A step of httpget is a step of the TCP, or none.
LEMMA HttpStepIsTcp == HttpInv /\ [HttpNext]_allVars => [Next]_vars /\ HttpInv'
<1>. SUFFICES ASSUME HttpInv, [HttpNext]_allVars  PROVE  [Next]_vars /\ slot' \in Slots
  BY TcpStep DEF StepKeeps, HttpInv
<1>1. TcpInv /\ slot \in Slots
  BY DEF HttpInv
<1>2. ASSUME NEW i \in Slots, NEW port \in Ports, NEW peer \in Peers,
             cmd_httpget(i, port, peer)
      PROVE  Next /\ slot' \in Slots
  BY <1>2 DEF cmd_httpget, Next, ShellCalls
<1>3. CASE Commands
  BY <1>1, <1>3 DEF Commands, Next, httpVars
<1>4. CASE Dispatch
  BY <1>1, <1>4 DEF Dispatch, Next, httpVars
<1>5. ASSUME NEW expired \in SUBSET Slots, EndDispatch(expired)  PROVE  Next /\ slot' \in Slots
  BY <1>1, <1>5 DEF EndDispatch, Next
<1>6. CASE Connected
  BY <1>1, <1>6 DEF Connected
<1>7. CASE SendRequest
  <2>1. slot' \in Slots
    BY <1>1, <1>7 DEF SendRequest
  <2>2. CASE CannotSend
    BY <1>7, <2>1, <2>2 DEF SendRequest
  <2>3. CASE ~CannotSend
    <3>1. send(slot, Request)
      BY <1>7, <2>3 DEF SendRequest
    <3>2. \E m \in 1 .. SendCap : send(slot, m)
      BY <1>1, <3>1, LongSend, RequestAssumption
    <3>. QED BY <1>1, <2>1, <3>2 DEF Next, ShellCalls
  <2>. QED BY <2>2, <2>3
<1>8. CASE Received
  <2>1. slot' \in Slots /\ RecvCap \in 1 .. RecvCap
    BY <1>1, <1>8, Constants DEF Received
  <2>. QED BY <1>1, <1>8, <2>1 DEF Received, Next, ShellCalls
<1>9. CASE HttpClose
  BY <1>1, <1>9 DEF HttpClose, Next, ShellCalls
<1>10. CASE Clock
  BY <1>1, <1>10 DEF Clock
<1>11. CASE UNCHANGED allVars
  BY <1>1, <1>11 DEF allVars, httpVars
<1>. QED BY <1>2, <1>3, <1>4, <1>5, <1>6, <1>7, <1>8, <1>9, <1>10, <1>11 DEF HttpNext, HttpStep

\* httpget drives the TCP only by the calls a shell may make, so that all of
\* the above holds while it runs.
THEOREM HttpUsesTcp == HttpSpec => Spec
<1>1. HttpInit => Init /\ HttpInv
  BY TcpInit DEF HttpInit, HttpInv
<1>2. HttpInv /\ [HttpNext]_allVars => [Next]_vars /\ HttpInv'
  BY HttpStepIsTcp
<1>. QED BY <1>1, <1>2, PTL DEF Spec, HttpSpec
=============================================================================
