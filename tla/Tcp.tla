-------------------------------- MODULE Tcp --------------------------------
(***************************************************************************)
(* The TCP of drivers/net/tcp.rs: a table of connections, the calls the    *)
(* shell makes on it, the handling of incoming segments, and the periodic  *)
(* poll.  Everything runs in the shell task under the table's mutex.  The  *)
(* shell's loop calls poll_and_dispatch (net/mod.rs), which handles every  *)
(* segment that has arrived and then polls the connections.                *)
(*                                                                         *)
(* Abstractions.  A remote address and port are one peer.  Bytes to be     *)
(* sent are counted; bytes received are identified by their place in the   *)
(* peer's stream.  Whether a timer has run out is chosen at each poll;     *)
(* rto_ms is RTO_MS * 2^retries throughout and is left out, as is          *)
(* send_acked, which nothing reads.  The network is configured (main.rs    *)
(* sets an address before the shell starts), so send_segment_raw sends.    *)
(***************************************************************************)
EXTENDS Integers, Sequences, FiniteSets

CONSTANTS
    Slots,          \* 0 .. MAX_CONNS - 1
    SeqMod,         \* sequence numbers wrap at SeqMod (2^32)
    MSS,            \* MSS
    SendCap,        \* send_buf.len()
    RecvCap,        \* recv_buf.len()
    Window,         \* WINDOW
    MaxRetries,     \* MAX_RETRIES
    Ports, Peers,   \* local ports; remote addresses with their ports
    ISNs,           \* what isn() may return
    PeerISN,        \* the initial sequence number peers use
    PeerLen,        \* bytes a peer sends before its FIN
    MaxOpens        \* calls of listen and connect

ASSUME TcpAssumption ==
    /\ Slots \subseteq Nat /\ IsFiniteSet(Slots) /\ Slots # {}
    /\ {SeqMod, MSS, SendCap, RecvCap, Window} \subseteq Nat \ {0}
    /\ {MaxRetries, PeerLen, MaxOpens} \subseteq Nat
    /\ ISNs \cup {PeerISN} \subseteq 0 .. SeqMod - 1
    /\ PeerLen + 2 < SeqMod

VARIABLES
    conns,      \* CONNS
    pc,         \* "shell", or "drain" inside poll_and_dispatch
    out,        \* the segments sent by the last step
    taken,      \* history: bytes recv has handed out since the slot opened
    opens       \* calls of listen and connect so far

vars == <<conns, pc, out, taken, opens>>

States == {"Closed", "Listen", "SynSent", "SynReceived", "Established",
           "FinWait1", "FinWait2", "CloseWait", "LastAck", "TimeWait"}
NoPeer == "none"

\* TcpConn::new
Fresh == [state |-> "Closed", port |-> 0, peer |-> NoPeer,
          local_seq |-> 0, remote_seq |-> 0, local_ack |-> 0,
          send_len |-> 0, recv_buf |-> <<>>,
          last_tx_seq |-> 0, last_tx_len |-> 0, last_tx_flags |-> {},
          retries |-> 0]

Init ==
    /\ conns = [i \in Slots |-> Fresh]
    /\ pc = "shell"
    /\ out = <<>>
    /\ taken = [i \in Slots |-> 0]
    /\ opens = 0

-----------------------------------------------------------------------------
(***************************************************************************)
(* Sequence arithmetic and sending.  A handler is a function from the      *)
(* connection and what has been sent so far, r = [c, sent], to the same.   *)
(***************************************************************************)
Plus(a, n) == (a + n) % SeqMod
Minus(a, n) == (a - n) % SeqMod
seq_lt(a, b) == Minus(b, a) < SeqMod \div 2
Least(a, b) == IF a < b THEN a ELSE b
Card(b) == IF b THEN 1 ELSE 0

\* Mutant of send_segment_raw: the segment is not remembered.
send_segment_raw_forgets(r, flags, n) ==
    [c |-> r.c,
     sent |-> Append(r.sent, [flags |-> flags, seq |-> r.c.local_seq,
                              ack |-> r.c.local_ack, len |-> n, to |-> r.c.peer])]

\* A segment that carries SYN, FIN or data is remembered for retransmission.
send_segment_raw(r, flags, n) ==
    [c |-> IF flags \cap {"SYN", "FIN"} # {} \/ n > 0
           THEN [r.c EXCEPT !.last_tx_seq = r.c.local_seq,
                            !.last_tx_len = n, !.last_tx_flags = flags]
           ELSE r.c,
     sent |-> Append(r.sent, [flags |-> flags, seq |-> r.c.local_seq,
                              ack |-> r.c.local_ack, len |-> n, to |-> r.c.peer])]

\* local_seq is advanced over the segment before the segment is built.
send_segment(r, flags, n) ==
    LET consumed == Card("SYN" \in flags) + Card("FIN" \in flags) + n
    IN  send_segment_raw([r EXCEPT !.c.local_seq = Plus(@, consumed)], flags, n)

flush_send(r) ==
    IF r.c.send_len = 0 THEN r
    ELSE send_segment(r, {"PSH", "ACK"}, Least(r.c.send_len, MSS))

SendAck(r) == send_segment_raw(r, {"ACK"}, 0)

check_retransmit(r, expired) ==
    IF r.c.retries >= MaxRetries
    THEN [c |-> Fresh, sent |-> send_segment_raw(r, {"RST", "ACK"}, 0).sent]
    ELSE IF expired
    THEN LET q == send_segment_raw(r, r.c.last_tx_flags, r.c.last_tx_len)
         IN  [q EXCEPT !.c.retries = @ + 1]
    ELSE r

-----------------------------------------------------------------------------
(***************************************************************************)
(* Segment processing.  s is the incoming segment.                         *)
(***************************************************************************)
Has(s, flag) == flag \in s.flags

\* Mutant of TakePayload: the sequence number does not move on, and the
\* payload is stored again when it is repeated.
TakePayloadTwice(c, s) ==
    LET n == Least(Len(s.data), RecvCap - Len(c.recv_buf))
    IN  [c EXCEPT !.recv_buf = @ \o SubSeq(s.data, 1, n)]

\* In-order payload: as much as fits is stored, all of it is accounted for.
TakePayload(c, s) ==
    LET n == Least(Len(s.data), RecvCap - Len(c.recv_buf))
    IN  [c EXCEPT !.recv_buf = @ \o SubSeq(s.data, 1, n),
                  !.remote_seq = Plus(@, Len(s.data))]

\* Mutant of CountFin: the FIN is counted and not acknowledged.
CountFinUnacked(c) == [c EXCEPT !.remote_seq = Plus(@, 1)]

CountFin(c) == [c EXCEPT !.remote_seq = Plus(@, 1),
                         !.local_ack = Plus(c.remote_seq, 1)]

AckUpTo(c) == [c EXCEPT !.local_ack = c.remote_seq]

InOrder(c, s) == s.data # <<>> /\ s.seq = c.remote_seq

handle_listen(r, s) ==
    IF ~Has(s, "SYN") THEN r
    ELSE send_segment(
           [r EXCEPT !.c.remote_seq = Plus(s.seq, 1), !.c.local_ack = Plus(s.seq, 1),
                     !.c.state = "SynReceived"],
           {"SYN", "ACK"}, 0)

handle_syn_sent(r, s) ==
    IF ~({"SYN", "ACK"} \subseteq s.flags /\ s.ack = r.c.local_seq) THEN r
    ELSE flush_send(SendAck(
           [r EXCEPT !.c.remote_seq = Plus(s.seq, 1), !.c.local_ack = Plus(s.seq, 1),
                     !.c.state = "Established", !.c.retries = 0]))

handle_syn_received(r, s) ==
    IF ~(Has(s, "ACK") /\ s.ack = r.c.local_seq) THEN r
    ELSE [r EXCEPT !.c.state = "Established", !.c.retries = 0]

\* The acknowledgement part of handle_established.
TakeAck(r, s) ==
    LET start == Minus(r.c.local_seq, r.c.send_len)
        acked == Least(Minus(s.ack, start), r.c.send_len)
    IN  IF Has(s, "ACK") /\ (seq_lt(start, s.ack) \/ s.ack = r.c.local_seq)
        THEN flush_send([r EXCEPT !.c.retries = 0, !.c.send_len = @ - acked])
        ELSE r

\* Payload out of order ends the handling with a duplicate ACK.
handle_established(r, s) ==
    LET a == TakeAck(r, s)
        b == IF s.data = <<>> THEN a
             ELSE SendAck([a EXCEPT !.c = AckUpTo(TakePayload(a.c, s))])
        f == SendAck([b EXCEPT !.c = CountFin(b.c)])
    IN  IF s.data # <<>> /\ s.seq # a.c.remote_seq THEN SendAck(a)
        ELSE IF Has(s, "FIN") THEN [f EXCEPT !.c.state = "CloseWait"]
        ELSE b

ThenPayload(r, s) ==
    IF InOrder(r.c, s) THEN [r EXCEPT !.c = TakePayload(r.c, s)] ELSE r

ToTimeWait(r) ==
    LET f == SendAck([r EXCEPT !.c = CountFin(r.c)])
    IN  [f EXCEPT !.c.state = "TimeWait"]

handle_fin_wait1(r, s) ==
    ThenPayload(
        IF ~Has(s, "ACK") THEN r
        ELSE IF Has(s, "FIN") THEN ToTimeWait(r)
        ELSE [r EXCEPT !.c.state = "FinWait2"], s)

handle_fin_wait2(r, s) ==
    ThenPayload(IF Has(s, "FIN") THEN ToTimeWait(r) ELSE r, s)

handle_close_wait(r, s) ==
    LET a == IF InOrder(r.c, s)
             THEN SendAck([r EXCEPT !.c = AckUpTo(TakePayload(r.c, s))]) ELSE r
    IN  IF Has(s, "FIN") THEN SendAck([a EXCEPT !.c = AckUpTo(a.c)]) ELSE a

handle_last_ack(r, s) ==
    IF Has(s, "ACK") THEN [r EXCEPT !.c.state = "Closed"] ELSE r

process_segment(r, s) ==
    CASE r.c.state = "Listen" -> handle_listen(r, s)
      [] r.c.state = "SynSent" -> handle_syn_sent(r, s)
      [] r.c.state = "SynReceived" -> handle_syn_received(r, s)
      [] r.c.state = "Established" -> handle_established(r, s)
      [] r.c.state = "FinWait1" -> handle_fin_wait1(r, s)
      [] r.c.state = "FinWait2" -> handle_fin_wait2(r, s)
      [] r.c.state = "CloseWait" -> handle_close_wait(r, s)
      [] r.c.state = "LastAck" -> handle_last_ack(r, s)
      [] OTHER -> r

-----------------------------------------------------------------------------
(***************************************************************************)
(* The shell's calls.                                                      *)
(***************************************************************************)
FirstClosed(i) ==
    /\ conns[i].state = "Closed"
    /\ \A j \in Slots : j < i => conns[j].state # "Closed"

\* Step of a call on connection i that ends with result r.
Call(i, r) ==
    /\ conns' = [conns EXCEPT ![i] = r.c]
    /\ out' = r.sent

On(c) == [c |-> c, sent |-> <<>>]

Open(i) ==
    /\ pc = "shell"
    /\ opens < MaxOpens
    /\ FirstClosed(i)
    /\ opens' = opens + 1
    /\ taken' = [taken EXCEPT ![i] = 0]
    /\ UNCHANGED pc

\* listen: the buffers and the retry count of the slot are left as they are.
listen(i, port) ==
    /\ Open(i)
    /\ \E n \in ISNs :
          Call(i, On([conns[i] EXCEPT !.state = "Listen", !.port = port,
                                      !.peer = NoPeer, !.local_seq = n,
                                      !.remote_seq = 0, !.local_ack = 0]))

connect(i, port, peer) ==
    /\ Open(i)
    /\ \E n \in ISNs :
          Call(i, send_segment(
            On([conns[i] EXCEPT !.state = "SynSent", !.port = port,
                                !.peer = peer, !.local_seq = n,
                                !.remote_seq = 0, !.local_ack = 0,
                                !.retries = 0]), {"SYN"}, 0))

send(i, n) ==
    LET copied == Least(n, SendCap - conns[i].send_len)
    IN  /\ pc = "shell"
        /\ conns[i].state \in {"Established", "CloseWait"}
        /\ copied > 0
        /\ Call(i, flush_send(On([conns[i] EXCEPT !.send_len = @ + copied])))
        /\ UNCHANGED <<pc, taken, opens>>

recv(i, max) ==
    LET n == Least(Len(conns[i].recv_buf), max)
    IN  /\ pc = "shell"
        /\ n > 0
        /\ taken' = [taken EXCEPT ![i] = @ + n]
        /\ Call(i, On([conns[i] EXCEPT
                         !.recv_buf = SubSeq(@, n + 1, Len(@))]))
        /\ UNCHANGED <<pc, opens>>

Fin(r, st) == send_segment([r EXCEPT !.c.state = st], {"FIN", "ACK"}, 0)

close(i) ==
    /\ pc = "shell"
    /\ \/ /\ conns[i].state = "Established"
          /\ Call(i, Fin(flush_send(On(conns[i])), "FinWait1"))
       \/ /\ conns[i].state = "CloseWait"
          /\ Call(i, Fin(On(conns[i]), "LastAck"))
    /\ UNCHANGED <<pc, taken, opens>>

-----------------------------------------------------------------------------
(***************************************************************************)
(* The network (external): peers whose byte streams and FINs have fixed    *)
(* places in sequence space, and whose segments may be lost, repeated and  *)
(* reordered; acknowledgement numbers are arbitrary.                       *)
(***************************************************************************)
Offsets(k, m) == [x \in 1 .. m |-> k + x]
At(k) == Plus(PeerISN, k + 1)       \* where byte k + 1 of the stream goes
FinSeq == At(PeerLen)

Pieces ==       \* parts of the stream that fit in a segment, and no part
    {p \in (0 .. PeerLen) \X (0 .. MSS) : p[1] + p[2] <= PeerLen}

Contents ==     \* flags, seq and data of the segments a peer may send
    {[flags |-> f, seq |-> PeerISN, data |-> <<>>] :
        f \in {{"SYN"}, {"SYN", "ACK"}}}
    \cup {[flags |-> {"ACK"}, seq |-> At(p[1]), data |-> Offsets(p[1], p[2])] :
        p \in Pieces}
    \cup {[flags |-> {"FIN", "ACK"}, seq |-> At(p[1]), data |-> Offsets(p[1], p[2])] :
        p \in {q \in Pieces : q[1] + q[2] = PeerLen}}
    \cup {[flags |-> {"RST"}, seq |-> At(0), data |-> <<>>]}

Segments ==
    {[flags |-> c.flags, seq |-> c.seq, data |-> c.data,
      ack |-> a, from |-> peer, port |-> port] :
        c \in Contents, a \in 0 .. SeqMod - 1, peer \in Peers, port \in Ports}

\* A peer stays within the window it was last given.  The code takes a FIN
\* wherever it finds one, so the network is assumed not to deliver a FIN
\* before the data ahead of it.
Deliverable(c, s) ==
    /\ s.data # <<>> =>
          Minus(s.seq, PeerISN) + Len(s.data) <= Minus(c.local_ack, PeerISN) + Window
    /\ Has(s, "FIN") => c.remote_seq \in {s.seq, Plus(FinSeq, 1)}

-----------------------------------------------------------------------------
(***************************************************************************)
(* poll_and_dispatch: receive until nothing is left, then poll.            *)
(***************************************************************************)
BeginDispatch ==
    /\ pc = "shell"
    /\ pc' = "drain"
    /\ out' = <<>>
    /\ UNCHANGED <<conns, taken, opens>>

Matches(i, s) ==
    /\ conns[i].state \notin {"Closed", "TimeWait"}
    /\ conns[i].port = s.port
    /\ conns[i].peer \in {NoPeer, s.from}

\* receive: the first connection that matches takes the sender as its peer
\* if it has none, and is reset by RST or processes the segment.
receive(i, s) ==
    LET bound == [conns[i] EXCEPT !.peer = s.from]
    IN  /\ pc = "drain"
        /\ Matches(i, s)
        /\ \A j \in Slots : j < i => ~Matches(j, s)
        /\ Deliverable(conns[i], s)
        /\ IF Has(s, "RST") THEN Call(i, On(Fresh))
           ELSE Call(i, process_segment(On(bound), s))
        /\ UNCHANGED <<pc, taken, opens>>

\* Mutant of PollOne: a connection in TIME_WAIT is never given back.
PollOneKeepsTimeWait(c, expired) ==
    CASE c.state \in {"SynSent", "SynReceived", "FinWait1", "LastAck"} ->
           check_retransmit(On(c), expired)
      [] c.state \in {"Established", "CloseWait"} -> flush_send(On(c))
      [] OTHER -> On(c)

\* What poll does to one connection; expired says whether its timer ran out.
PollOne(c, expired) ==
    CASE c.state \in {"SynSent", "SynReceived", "FinWait1", "LastAck"} ->
           check_retransmit(On(c), expired)
      [] c.state \in {"Established", "CloseWait"} -> flush_send(On(c))
      [] c.state = "TimeWait" /\ expired -> On([c EXCEPT !.state = "Closed"])
      [] OTHER -> On(c)

Concat(f) ==    \* the segments of all connections, in table order
    LET upto[n \in 0 .. Cardinality(Slots)] ==
            IF n = 0 THEN <<>> ELSE upto[n - 1] \o f[n - 1]
    IN  upto[Cardinality(Slots)]

poll(expired) ==
    LET r == [i \in Slots |-> PollOne(conns[i], i \in expired)]
    IN  /\ pc = "drain"
        /\ pc' = "shell"
        /\ conns' = [i \in Slots |-> r[i].c]
        /\ out' = Concat([i \in Slots |-> r[i].sent])
        /\ UNCHANGED <<taken, opens>>

\* The commands tcplisten, tcpconnect, tcpsend, tcprecv and tcpclose.
ShellCalls ==
    \/ \E i \in Slots, port \in Ports : listen(i, port)
    \/ \E i \in Slots, port \in Ports, peer \in Peers : connect(i, port, peer)
    \/ \E i \in Slots, n \in 1 .. SendCap : send(i, n)
    \/ \E i \in Slots, max \in 1 .. RecvCap : recv(i, max)
    \/ \E i \in Slots : close(i)

Next ==
    \/ ShellCalls
    \/ BeginDispatch
    \/ \E i \in Slots, s \in Segments : receive(i, s)
    \/ \E expired \in SUBSET Slots : poll(expired)

Spec == Init /\ [][Next]_vars

-----------------------------------------------------------------------------
Synchronised == {"SynReceived", "Established", "FinWait1", "FinWait2",
                 "CloseWait", "LastAck", "TimeWait"}
Awaiting == {"SynSent", "SynReceived", "FinWait1", "LastAck"}

\* Types, and the bounds of the fixed-size buffers.
TypeOK ==
    /\ pc \in {"shell", "drain"}
    /\ \A i \in Slots :
          LET c == conns[i]
          IN  /\ c.state \in States
              /\ c.port \in Ports \cup {0} /\ c.peer \in Peers \cup {NoPeer}
              /\ {c.local_seq, c.remote_seq, c.local_ack, c.last_tx_seq}
                    \subseteq 0 .. SeqMod - 1
              /\ c.send_len \in 0 .. SendCap
              /\ Len(c.recv_buf) <= RecvCap
              /\ c.last_tx_len \in 0 .. MSS
              /\ c.retries \in 0 .. MaxRetries

\* While a connection waits for the answer to its SYN or FIN, what it would
\* retransmit is that very segment, under the sequence number it was first
\* sent with (poll sends local_seq, not last_tx_seq).
RetransmitsTheSame ==
    \A i \in Slots :
        LET c == conns[i]
        IN  c.state \in Awaiting =>
              /\ c.last_tx_seq = c.local_seq
              /\ c.last_tx_len = 0
              /\ c.last_tx_flags = CASE c.state = "SynSent" -> {"SYN"}
                                     [] c.state = "SynReceived" -> {"SYN", "ACK"}
                                     [] OTHER -> {"FIN", "ACK"}

\* Whatever is lost, repeated or reordered, the shell reads a prefix of the
\* peer's stream: no byte twice, none out of order, none skipped.
ReceivesPrefix ==
    \A i \in Slots : conns[i].state \in Synchronised =>
        \A k \in DOMAIN conns[i].recv_buf : conns[i].recv_buf[k] = taken[i] + k

\* The acknowledgement number a connection sends is the one it expects next
\* until it begins to close, so a peer is never told of bytes not taken.
AcksInStep ==
    \A i \in Slots :
        conns[i].state \in {"SynReceived", "Established", "CloseWait", "LastAck"}
            => conns[i].local_ack = conns[i].remote_seq

\* A handshake or a close that is never answered does not hold its slot for
\* ever: the retries run out, and TIME_WAIT ends.
SlotsGivenBack ==
    \A i \in Slots :
        /\ \A st \in Awaiting : (conns[i].state = st) ~> (conns[i].state # st)
        /\ (conns[i].state = "TimeWait") ~> (conns[i].state = "Closed")

-----------------------------------------------------------------------------
(***************************************************************************)
(* A statement of the documentation that the code does not satisfy.        *)
(***************************************************************************)

\* "Three-way handshake" (tcp.rs:4): the acknowledgement number a connection
\* waits for is the one that acknowledges the SYN it sent.
HandshakeAck ==
    \A i \in Slots : conns[i].state \in {"SynSent", "SynReceived"} =>
        conns[i].local_seq = Plus(conns[i].last_tx_seq, 1)
=============================================================================
