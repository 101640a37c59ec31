------------------------- MODULE NetCommandsProofs -------------------------
(***************************************************************************)
(* What the network commands accept is right, whatever the network loses,  *)
(* delays or repeats, for any servers, pools, hosts and number of commands.*)
(***************************************************************************)
EXTENDS NetCommands, TLAPS

Addr == Hosts \cup {Gateway}

(* The frames and packets of the model, by the layer that builds them.     *)
Discovers == [k : {"discover"}, xid : Nat]
Requests == [k : {"request"}, xid : Nat, ip : Pool, server : Servers]
Questions == [k : {"who"}, ip : Addr, from : Pool \cup {DefaultIp}]
Echoes == [k : {"echo"}, ip : Addr]
DhcpReplies == [k : {"dhcp"}, type : {"offer", "ack", "nak"}, xid : Nat,
                yiaddr : Pool \cup {None}, server : Servers, router : Hosts \cup {None}]
ArpReplies == [k : {"arp"}, ip : Addr, mac : Addr, to : Pool \cup {DefaultIp}]
Leases == [ip : Pool, server : Servers]

WireOK ==
    /\ sent \subseteq Discovers \cup Requests \cup Questions \cup Echoes
    /\ net \subseteq DhcpReplies \cup ArpReplies \cup Echoes
    /\ granted \subseteq Leases

\* A dhcp command sends at most one request, for what it was offered, so an
\* acknowledgement with its number is for that address and that server.
OneRequest ==
    \A m \in sent \cap Requests :
        /\ m.xid <= xid
        /\ pc = "offer" => m.xid # xid
        /\ pc = "ack" /\ m.xid = xid => m.ip = offered.ip /\ m.server = offered.server

\* Every acknowledgement under way answers a request, and its lease is held.
AcksGranted ==
    \A p \in net \cap DhcpReplies : p.type = "ack" =>
        /\ [k |-> "request", xid |-> p.xid, ip |-> p.yiaddr, server |-> p.server] \in sent
        /\ [ip |-> p.yiaddr, server |-> p.server] \in granted
        /\ p.router = RouterOf[p.server]

\* No address is leased twice.
LeasedOnce == \A l \in granted : l.ip \notin taken

\* A host answers an ARP question with its own address.
OwnAddress == \A p \in net \cap ArpReplies : p.mac = p.ip

\* A ping resolves the address of a host it was given.
PingHasHost == pc \in {"resolve", "resolved"} => target # None

NetInv ==
    /\ TypeOK /\ WireOK
    /\ OneRequest /\ AcksGranted /\ LeasedOnce /\ OwnAddress
    /\ LeaseHeld /\ RightHost /\ PingHasHost

-----------------------------------------------------------------------------
USE DEF Addr, Discovers, Requests, Questions, Echoes, DhcpReplies, ArpReplies, Leases

\* The state before any command satisfies the invariant.
LEMMA NetInit == Init => NetInv
  BY NetAssumption DEF Init, NetInv, TypeOK, WireOK, OneRequest, AcksGranted,
     LeasedOnce, OwnAddress, LeaseHeld, RightHost, PingHasHost, NoOffer, Unset, Fallback

\* The commands fall back on addresses of the right kind.
LEMMA Fallbacks ==
    ASSUME TypeOK  PROVE  local_ip \in Pool \cup {DefaultIp} /\ gateway \in Addr
  BY DEF TypeOK, local_ip, gateway, Unset, Fallback

\* Ending a command forgets its locals.
LEMMA ReturnStep ==
    ASSUME NetInv, Return, UNCHANGED <<nic, xid, cfg, sent, net, granted, taken>>
    PROVE  NetInv'
  BY NetAssumption DEF Return, NetInv, TypeOK, WireOK, OneRequest, AcksGranted,
     LeasedOnce, OwnAddress, LeaseHeld, RightHost, PingHasHost, NoOffer

\* cmd_dhcp: the new transaction number is above that of every request.
LEMMA DhcpStep == ASSUME NetInv, cmd_dhcp  PROVE  NetInv'
<1>. USE DEF NetInv, cmd_dhcp, Typed
<1>1. TypeOK' /\ LeaseHeld' /\ RightHost' /\ PingHasHost' /\ LeasedOnce' /\ OwnAddress'
  BY NetAssumption DEF TypeOK, LeaseHeld, RightHost, PingHasHost, LeasedOnce, OwnAddress, send
<1>2. WireOK'
  BY NetAssumption DEF TypeOK, WireOK, send
<1>3. OneRequest' /\ AcksGranted'
  BY NetAssumption DEF TypeOK, WireOK, OneRequest, AcksGranted, send
<1>. QED BY <1>1, <1>2, <1>3

\* A frame other than a request leaves the shell in a loop other than the
\* two of dhcp, or the send fails.
LEMMA QuestionStep ==
    ASSUME NetInv, NEW frame \in Questions \cup Echoes,
           NEW loop \in {"whois", "resolve", "echo"}, send(frame, loop),
           xid' \in {xid, xid + 1}, xid' \in 0 .. MaxCommands,
           target' \in Addr, mac' \in Addr \cup {None},
           mac' # None => mac' = target',
           UNCHANGED <<nic, offered, cfg, net, granted, taken>>
    PROVE  NetInv'
<1>1. TypeOK' /\ LeaseHeld' /\ RightHost' /\ PingHasHost' /\ LeasedOnce' /\ OwnAddress'
  BY NetAssumption DEF NetInv, TypeOK, LeaseHeld, RightHost, PingHasHost, LeasedOnce, OwnAddress, send
<1>2. WireOK'
  BY NetAssumption DEF NetInv, TypeOK, WireOK, send
<1>3. OneRequest' /\ AcksGranted'
  BY NetAssumption DEF NetInv, TypeOK, WireOK, OneRequest, AcksGranted, send
<1>. QED BY <1>1, <1>2, <1>3 DEF NetInv

\* RecvOffer: the one request of this command carries what was offered.
LEMMA OfferStep == ASSUME NetInv, NEW p \in net, RecvOffer(p)  PROVE  NetInv'
<1>0. p \in DhcpReplies /\ p.xid = xid /\ pc = "offer"
  BY DEF NetInv, WireOK, RecvOffer, parse_dhcp_reply
<1>1. CASE p.yiaddr = None
  BY <1>1, ReturnStep DEF RecvOffer
<1>2. CASE p.yiaddr # None
  <2>. DEFINE frame == [k |-> "request", xid |-> xid, ip |-> p.yiaddr, server |-> p.server]
  <2>1. /\ offered' = [ip |-> p.yiaddr, server |-> p.server]
        /\ UNCHANGED <<nic, xid, target, mac, cfg, net, granted, taken>>
        /\ send(frame, "ack")
    BY <1>2 DEF RecvOffer
  <2>2. frame \in Requests /\ frame.xid = xid
        /\ frame.ip = offered'.ip /\ frame.server = offered'.server
    BY <1>0, <1>2, <2>1 DEF NetInv, TypeOK
  <2>3. /\ pc' \in {"ack", "failed"}
        /\ sent' \subseteq sent \cup {frame} /\ sent \subseteq sent'
    BY <2>1 DEF send
  <2>. HIDE DEF frame
  <2>4. TypeOK' /\ LeaseHeld' /\ RightHost' /\ PingHasHost' /\ LeasedOnce' /\ OwnAddress'
    BY <1>0, <1>2, <2>1, <2>3, NetAssumption
       DEF NetInv, TypeOK, LeaseHeld, RightHost, PingHasHost, LeasedOnce, OwnAddress
  <2>5. WireOK' /\ AcksGranted'
    BY <2>1, <2>2, <2>3 DEF NetInv, WireOK, AcksGranted
  <2>6. OneRequest'
    BY <1>0, <2>1, <2>2, <2>3 DEF NetInv, TypeOK, OneRequest
  <2>. QED BY <2>4, <2>5, <2>6 DEF NetInv
<1>. QED BY <1>1, <1>2

\* RecvAck: an acknowledgement of this transaction is for the offered address.
LEMMA AckStep == ASSUME NetInv, NEW p \in net, RecvAck(p)  PROVE  NetInv'
<1>0. p \in DhcpReplies /\ p.xid = xid /\ pc = "ack" /\ Return
      /\ UNCHANGED <<nic, xid, sent, net, granted, taken>>
  BY DEF NetInv, WireOK, RecvAck, parse_dhcp_reply
<1>1. CASE p.type # "ack"
  BY <1>0, <1>1, ReturnStep DEF RecvAck
<1>2. CASE p.type = "ack"
  <2>1. cfg' = [ip |-> offered.ip, server |-> p.server,
                router |-> IF p.router = None THEN Gateway ELSE p.router]
    BY <1>2 DEF RecvAck
  <2>. DEFINE m == [k |-> "request", xid |-> p.xid, ip |-> p.yiaddr, server |-> p.server]
              l == [ip |-> p.yiaddr, server |-> p.server]
  <2>2. m \in sent /\ l \in granted /\ p.router = RouterOf[p.server]
    BY <1>0, <1>2 DEF NetInv, AcksGranted
  <2>3. l \in Leases
    BY <2>2 DEF NetInv, WireOK
  <2>4. m \in Requests /\ m.xid = xid /\ m.ip = p.yiaddr
    BY <1>0, <2>3 DEF NetInv, WireOK
  <2>5. p.yiaddr = offered.ip
    <3>. HIDE DEF m
    <3>. QED BY <1>0, <2>2, <2>4 DEF NetInv, OneRequest
  <2>6. p.yiaddr \in Pool /\ p.yiaddr \notin taken
    BY <2>2, <2>3 DEF NetInv, LeasedOnce
  <2>7. LeaseHeld'
    BY <1>0, <2>1, <2>2, <2>5, <2>6, NetAssumption DEF LeaseHeld
  <2>8. TypeOK'
    BY <1>0, <2>1, <2>5, <2>6, NetAssumption DEF NetInv, TypeOK, Return, NoOffer
  <2>9. WireOK' /\ OneRequest' /\ AcksGranted' /\ LeasedOnce' /\ OwnAddress' /\ RightHost' /\ PingHasHost'
    BY <1>0 DEF NetInv, Return, WireOK, OneRequest, AcksGranted, LeasedOnce,
       OwnAddress, RightHost, PingHasHost
  <2>. QED BY <2>7, <2>8, <2>9 DEF NetInv
<1>. QED BY <1>1, <1>2

\* A packet that arrives keeps what the shell knows.
LEMMA ArrivalStep ==
    ASSUME NetInv, NEW p \in DhcpReplies \cup ArpReplies \cup Echoes, Arrives(p),
           p \in DhcpReplies => p.type # "ack",
           p \in ArpReplies => p.mac = p.ip,
           UNCHANGED <<nic, pc, xid, offered, target, mac, cfg, sent, granted, taken>>
    PROVE  NetInv'
<1>1. TypeOK' /\ LeaseHeld' /\ RightHost' /\ PingHasHost' /\ LeasedOnce' /\ OneRequest'
  BY DEF NetInv, TypeOK, LeaseHeld, RightHost, PingHasHost, LeasedOnce, OneRequest
<1>2. WireOK' /\ OwnAddress'
  BY DEF NetInv, WireOK, Arrives, OwnAddress
<1>3. AcksGranted'
  BY DEF NetInv, WireOK, Arrives, AcksGranted
<1>. QED BY <1>1, <1>2, <1>3 DEF NetInv

\* A server leases an address to this machine, or refuses it.
LEMMA AnswerStep ==
    ASSUME NetInv, NEW s \in Servers, ServerAnswers(s)  PROVE  NetInv'
<1>1. PICK m \in sent :
        /\ m.k = "request" /\ m.server = s
        /\ \/ /\ m.ip \notin taken
              /\ granted' = granted \cup {[ip |-> m.ip, server |-> s]}
              /\ Arrives([k |-> "dhcp", type |-> "ack", xid |-> m.xid, yiaddr |-> m.ip,
                          server |-> s, router |-> RouterOf[s]])
           \/ /\ m.ip \in taken
              /\ Arrives([k |-> "dhcp", type |-> "nak", xid |-> m.xid, yiaddr |-> None,
                          server |-> s, router |-> None])
              /\ UNCHANGED granted
  BY DEF ServerAnswers
<1>2. UNCHANGED <<nic, pc, xid, offered, target, mac, cfg, sent, taken>>
  BY DEF ServerAnswers
<1>3. m \in Requests
  BY <1>1 DEF NetInv, WireOK
<1>4. CASE m.ip \in taken
  <2>. DEFINE p == [k |-> "dhcp", type |-> "nak", xid |-> m.xid, yiaddr |-> None,
                    server |-> s, router |-> None]
  <2>1. Arrives(p) /\ UNCHANGED granted
    BY <1>1, <1>4
  <2>2. p \in DhcpReplies /\ p.type # "ack" /\ p \notin ArpReplies
    BY <1>3
  <2>. HIDE DEF p
  <2>. QED BY <1>2, <2>1, <2>2, ArrivalStep
<1>5. CASE m.ip \notin taken
  <2>. DEFINE p == [k |-> "dhcp", type |-> "ack", xid |-> m.xid, yiaddr |-> m.ip,
                    server |-> s, router |-> RouterOf[s]]
              l == [ip |-> m.ip, server |-> s]
  <2>1. net' = net \cup {p} /\ granted' = granted \cup {l}
    BY <1>1, <1>5 DEF Arrives
  <2>2. p \in DhcpReplies /\ p \notin ArpReplies /\ p.yiaddr = m.ip /\ p.server = s
        /\ p.router = RouterOf[s]
    BY <1>3, NetAssumption
  <2>3. [k |-> "request", xid |-> p.xid, ip |-> p.yiaddr, server |-> p.server] = m
    BY <1>1, <1>3
  <2>4. l \in Leases /\ l.ip = m.ip /\ l = [ip |-> p.yiaddr, server |-> p.server]
    BY <1>3
  <2>. HIDE DEF p, l
  <2>5. TypeOK' /\ RightHost' /\ PingHasHost' /\ OneRequest' /\ LeaseHeld'
    BY <1>2, <2>1 DEF NetInv, TypeOK, RightHost, PingHasHost, OneRequest, LeaseHeld
  <2>6. WireOK' /\ OwnAddress' /\ LeasedOnce'
    BY <1>2, <1>5, <2>1, <2>2, <2>4 DEF NetInv, WireOK, OwnAddress, LeasedOnce
  <2>7. AcksGranted'
    BY <1>1, <1>2, <2>1, <2>2, <2>3, <2>4 DEF NetInv, AcksGranted
  <2>. QED BY <2>5, <2>6, <2>7 DEF NetInv
<1>. QED BY <1>4, <1>5

\* Every step keeps the invariant.
LEMMA NetStep == NetInv /\ [Next]_vars => NetInv'
<1>. SUFFICES ASSUME NetInv, [Next]_vars  PROVE  NetInv'
  OBVIOUS
<1>1. CASE cmd_dhcp
  BY <1>1, DhcpStep
<1>2. CASE cmd_arpwhois
  <2>. DEFINE frame == [k |-> "who", ip |-> gateway, from |-> local_ip]
  <2>1. frame \in Questions
    BY Fallbacks DEF NetInv
  <2>2. send(frame, "whois") /\ xid' = xid + 1 /\ xid' \in 0 .. MaxCommands
        /\ target' \in Addr /\ mac' = mac /\ mac = None
        /\ UNCHANGED <<nic, offered, cfg, net, granted, taken>>
    BY <1>2, Fallbacks, NetAssumption DEF NetInv, TypeOK, cmd_arpwhois, Typed
  <2>. HIDE DEF frame
  <2>. QED BY <2>1, <2>2, QuestionStep
<1>3. ASSUME NEW t \in Hosts \cup {Gateway}, cmd_ping(t)  PROVE  NetInv'
  <2>. DEFINE frame == [k |-> "who", ip |-> t, from |-> cfg.ip]
  <2>1. xid' = xid + 1 /\ xid' \in 0 .. MaxCommands /\ target' = t /\ mac = None
        /\ UNCHANGED <<nic, offered, cfg, net, granted, taken>>
    BY <1>3, NetAssumption DEF NetInv, TypeOK, cmd_ping, Typed
  <2>2. CASE t = Gateway
    <3>1. mac' = t /\ pc' = "resolved" /\ UNCHANGED sent
      BY <1>3, <2>2 DEF cmd_ping
    <3>2. TypeOK' /\ WireOK' /\ LeasedOnce' /\ OwnAddress' /\ LeaseHeld' /\ RightHost'
          /\ PingHasHost'
      BY <2>1, <2>2, <3>1, NetAssumption DEF NetInv, TypeOK, WireOK, LeasedOnce,
         OwnAddress, LeaseHeld, RightHost, PingHasHost
    <3>3. OneRequest' /\ AcksGranted'
      BY <2>1, <3>1 DEF NetInv, TypeOK, OneRequest, AcksGranted
    <3>. QED BY <3>2, <3>3 DEF NetInv
  <2>3. CASE t # Gateway
    <3>1. frame \in Questions
      BY <1>3 DEF NetInv, TypeOK, cmd_ping, Fallback
    <3>2. send(frame, "resolve") /\ mac' = None
      BY <1>3, <2>1, <2>3 DEF cmd_ping
    <3>. HIDE DEF frame
    <3>. QED BY <2>1, <3>1, <3>2, QuestionStep
  <2>. QED BY <2>2, <2>3
<1>4. ASSUME NEW p \in net, WhoisReply(p) \/ resolve_mac(p)  PROVE  NetInv'
  <2>1. p \in ArpReplies /\ p.mac = p.ip /\ p.ip = target
        /\ pc' \in {"done", "resolved"} /\ mac' = p.mac
        /\ UNCHANGED <<nic, xid, offered, target, cfg, sent, net, granted, taken>>
    BY <1>4 DEF NetInv, WireOK, OwnAddress, WhoisReply, resolve_mac
  <2>. QED BY <2>1, NetAssumption DEF NetInv, TypeOK, WireOK, OneRequest,
                AcksGranted, LeasedOnce, OwnAddress, LeaseHeld, RightHost, PingHasHost
<1>5. ASSUME NEW p \in net, EchoReply(p)  PROVE  NetInv'
  BY <1>5 DEF EchoReply, NetInv, TypeOK, WireOK, OneRequest,
     AcksGranted, LeasedOnce, OwnAddress, LeaseHeld, RightHost, PingHasHost
<1>6. CASE Receive
  BY <1>4, <1>5, <1>6, OfferStep, AckStep DEF Receive
<1>7. CASE Report \/ GiveUp
  BY <1>7, ReturnStep DEF Report, GiveUp
<1>8. CASE SendEcho
  <2>. DEFINE frame == [k |-> "echo", ip |-> target]
  <2>1. send(frame, "echo") /\ target \in Addr
        /\ UNCHANGED <<nic, xid, offered, target, mac, cfg, net, granted, taken>>
    BY <1>8 DEF SendEcho, NetInv, TypeOK, PingHasHost
  <2>2. frame \in Echoes
    BY <2>1
  <2>3. xid' \in 0 .. MaxCommands /\ mac' \in Addr \cup {None} /\ (mac' # None => mac' = target')
    BY <2>1 DEF NetInv, TypeOK, RightHost
  <2>. HIDE DEF frame
  <2>. QED BY <2>1, <2>2, <2>3, QuestionStep
<1>9. CASE ResolveTimeout
  BY <1>9 DEF ResolveTimeout, NetInv, TypeOK, WireOK, OneRequest,
     AcksGranted, LeasedOnce, OwnAddress, LeaseHeld, RightHost, PingHasHost
<1>10. ASSUME NEW s \in Servers, ServerOffers(s)  PROVE  NetInv'
  <2>1. PICK m \in sent, a \in PoolOf[s] :
          /\ m.k = "discover"
          /\ Arrives([k |-> "dhcp", type |-> "offer", xid |-> m.xid, yiaddr |-> a,
                      server |-> s, router |-> RouterOf[s]])
          /\ UNCHANGED <<nic, pc, xid, offered, target, mac, cfg, sent, granted, taken>>
    BY <1>10 DEF ServerOffers
  <2>2. m \in Discovers /\ a \in Pool
    BY <2>1 DEF NetInv, WireOK, Pool
  <2>. DEFINE p == [k |-> "dhcp", type |-> "offer", xid |-> m.xid, yiaddr |-> a,
                    server |-> s, router |-> RouterOf[s]]
  <2>3. p \in DhcpReplies /\ p.type # "ack" /\ p \notin ArpReplies
    BY <2>2, NetAssumption
  <2>4. Arrives(p)
    BY <2>1
  <2>. HIDE DEF p
  <2>. QED BY <2>1, <2>3, <2>4, ArrivalStep
<1>11. ASSUME NEW a \in Pool, OtherClient(a)  PROVE  NetInv'
  <2>1. TypeOK' /\ WireOK' /\ OneRequest' /\ AcksGranted' /\ OwnAddress' /\ RightHost'
        /\ PingHasHost'
    BY <1>11 DEF OtherClient, NetInv, TypeOK, WireOK, OneRequest,
       AcksGranted, OwnAddress, RightHost, PingHasHost
  <2>2. LeasedOnce'
    BY <1>11 DEF OtherClient, NetInv, LeasedOnce
  <2>3. LeaseHeld'
    BY <1>11, <2>2 DEF OtherClient, NetInv, LeasedOnce, LeaseHeld
  <2>. QED BY <2>1, <2>2, <2>3 DEF NetInv
<1>12. ASSUME NEW h \in Hosts \cup {Gateway}, HostAnswers(h)  PROVE  NetInv'
  <2>1. PICK m \in sent :
          \/ m.k = "who" /\ m.ip = h /\ Arrives([k |-> "arp", ip |-> h, mac |-> h, to |-> m.from])
          \/ m.k = "echo" /\ m.ip = h /\ Arrives([k |-> "echo", ip |-> h])
    BY <1>12 DEF HostAnswers
  <2>2. UNCHANGED <<nic, pc, xid, offered, target, mac, cfg, sent, granted, taken>>
    BY <1>12 DEF HostAnswers
  <2>3. CASE m.k = "who"
    <3>. DEFINE p == [k |-> "arp", ip |-> h, mac |-> h, to |-> m.from]
    <3>1. Arrives(p)
      BY <2>1, <2>3
    <3>2. p \in ArpReplies /\ p.mac = p.ip /\ p \notin DhcpReplies
      BY <2>3 DEF NetInv, WireOK
    <3>. HIDE DEF p
    <3>. QED BY <2>2, <3>1, <3>2, ArrivalStep
  <2>4. CASE m.k = "echo"
    <3>. DEFINE p == [k |-> "echo", ip |-> h]
    <3>1. Arrives(p)
      BY <2>1, <2>4
    <3>2. p \in Echoes /\ p \notin DhcpReplies /\ p \notin ArpReplies
      OBVIOUS
    <3>. HIDE DEF p
    <3>. QED BY <2>2, <3>1, <3>2, ArrivalStep
  <2>. QED BY <2>1, <2>3, <2>4
<1>13. CASE UNCHANGED vars
  BY <1>13 DEF vars, NetInv, TypeOK, WireOK, OneRequest, AcksGranted, LeasedOnce,
     OwnAddress, LeaseHeld, RightHost, PingHasHost
<1>. QED BY <1>1, <1>2, <1>3, <1>6, <1>7, <1>8, <1>9, <1>10, <1>11, <1>12, <1>13, AnswerStep
         DEF Next, Deadline, NoCard

\* Together: the invariant holds in every state of every behaviour.
THEOREM NetInvariant == Spec => []NetInv
  BY NetInit, NetStep, PTL DEF Spec

\* The address cmd_dhcp stores in NET_CFG is one a server leased to this
\* machine, with that server's router, however late or often replies arrive.
THEOREM LeaseIsHeld == Spec => []LeaseHeld
<1>1. NetInv => LeaseHeld
  BY DEF NetInv
<1>. QED BY NetInvariant, <1>1, PTL

\* A hardware address that resolve_mac or arpwhois accepts is the asked host's.
THEOREM HostIsRight == Spec => []RightHost
<1>1. NetInv => RightHost
  BY DEF NetInv
<1>. QED BY NetInvariant, <1>1, PTL
=============================================================================
