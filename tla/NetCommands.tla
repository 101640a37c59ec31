----------------------------- MODULE NetCommands -----------------------------
(* The shell commands that ask the network something and wait for the answer: *)
(* dhcp (src/drivers/net/dhcp.rs), arpwhois and ping with its ARP resolution  *)
(* (src/shell/mod.rs).  Each sends a frame, polls the card and takes the      *)
(* first packet that looks like its answer, until a deadline.  The network   *)
(* loses, delays, reorders and repeats packets, so the answer to a command    *)
(* that gave up may reach a later one.                                       *)
EXTENDS Naturals, FiniteSets

CONSTANTS
    Servers,      \* DHCP servers
    PoolOf,       \* the addresses each of them leases
    Hosts,        \* other addresses on the network
    Gateway,      \* 10.0.2.2, the default gateway, which needs no ARP
    DefaultIp,    \* 10.0.2.15, the address before any lease
    RouterOf,     \* the router option of each server's acknowledgement, or None
    None,
    MaxCommands   \* bound on the commands typed

Pool == UNION {PoolOf[s] : s \in Servers}

ASSUME NetAssumption ==
    /\ None \notin Servers \cup Pool \cup Hosts \cup {Gateway, DefaultIp}
    /\ Gateway \notin Hosts
    /\ RouterOf \in [Servers -> Hosts \cup {None}]
    /\ MaxCommands \in Nat

VARIABLES
    nic,       \* the card net::init found
    pc,        \* the wait loop the shell is in, or "idle" at the prompt
    xid,       \* the transaction number of the dhcp command: the clock
    offered,   \* offered_ip and server_id, from the first reply
    target,    \* the address asked about
    mac,       \* whose hardware address was accepted for it
    cfg,       \* NET_CFG
    sent,      \* frames that left the card
    net,       \* packets that may still arrive, once or more often
    granted,   \* leases the servers hold for this machine
    taken      \* addresses leased to other machines

vars == <<nic, pc, xid, offered, target, mac, cfg, sent, net, granted, taken>>

NoOffer == [ip |-> None, server |-> None]
Unset == [ip |-> None, router |-> None, server |-> None]

\* What main stores before the shell runs, if there is a card.
Fallback == [ip |-> DefaultIp, router |-> Gateway, server |-> None]

Init ==
    /\ nic \in {"none", "e1000", "rtl8139"}
    /\ cfg = IF nic = "none" THEN Unset ELSE Fallback
    /\ pc = "idle" /\ xid = 0 /\ offered = NoOffer /\ target = None /\ mac = None
    /\ sent = {} /\ net = {} /\ granted = {} /\ taken = {}

-----------------------------------------------------------------------------
(* net::get_config with the defaults of the commands that use it.            *)

local_ip == IF cfg = Unset THEN DefaultIp ELSE cfg.ip
gateway == IF cfg = Unset THEN Gateway ELSE cfg.router

\* The command is over; its locals are dropped.
Return == pc' = "idle" /\ offered' = NoOffer /\ target' = None /\ mac' = None

\* net::send of a frame, then the wait loop.  A send that fails may have put
\* the frame on the wire all the same: the driver gives up after 100 ms.  The
\* E1000 has no driver.
send(frame, loop) ==
    \/ nic = "rtl8139" /\ sent' = sent \cup {frame} /\ pc' = loop
    \/ nic = "rtl8139" /\ sent' = sent \cup {frame} /\ pc' = "failed"
    \/ UNCHANGED sent /\ pc' = "failed"

\* A command line that starts a command; there is nothing to do without a card.
Typed ==
    /\ pc = "idle" /\ xid < MaxCommands /\ nic # "none"
    /\ xid' = xid + 1

NoCard == nic = "none" /\ UNCHANGED vars

\* The command prints that its send failed, or its answer, and ends.
Report ==
    /\ pc \in {"failed", "done"}
    /\ Return
    /\ UNCHANGED <<nic, xid, cfg, sent, net, granted, taken>>

-----------------------------------------------------------------------------
(* dhcp: cmd_dhcp and dhcp_request.                                          *)

cmd_dhcp ==
    /\ Typed
    /\ send([k |-> "discover", xid |-> xid + 1], "offer")
    /\ UNCHANGED <<nic, offered, target, mac, cfg, net, granted, taken>>

\* Mutant: the transaction number is not compared.
parse_any_xid(p) == p.k = "dhcp"

\* parse_dhcp_reply: a reply of this transaction, of whatever type.
parse_dhcp_reply(p) == p.k = "dhcp" /\ p.xid = xid

\* The first round takes the first reply; without an address it fails.
RecvOffer(p) ==
    /\ pc = "offer" /\ parse_dhcp_reply(p)
    /\ \/ /\ p.yiaddr # None
          /\ offered' = [ip |-> p.yiaddr, server |-> p.server]
          /\ send([k |-> "request", xid |-> xid, ip |-> p.yiaddr, server |-> p.server], "ack")
          /\ UNCHANGED <<nic, target, mac>>
       \/ p.yiaddr = None /\ Return /\ UNCHANGED sent
    /\ UNCHANGED <<nic, xid, cfg, net, granted, taken>>

\* The second round takes the first reply too: an acknowledgement configures
\* the offered address, anything else (a repeated offer, say) ends the command.
RecvAck(p) ==
    /\ pc = "ack" /\ parse_dhcp_reply(p)
    /\ cfg' = IF p.type = "ack"
              THEN [ip |-> offered.ip, server |-> p.server,
                    router |-> IF p.router = None THEN Gateway ELSE p.router]
              ELSE cfg
    /\ Return
    /\ UNCHANGED <<nic, xid, sent, net, granted, taken>>

-----------------------------------------------------------------------------
(* arpwhois and ping.                                                        *)

cmd_arpwhois ==
    /\ Typed
    /\ target' = gateway
    /\ send([k |-> "who", ip |-> gateway, from |-> local_ip], "whois")
    /\ UNCHANGED <<nic, offered, mac, cfg, net, granted, taken>>

\* arpwhois also wants the reply to be addressed to its own address.
WhoisReply(p) ==
    /\ pc = "whois" /\ p.k = "arp" /\ p.ip = target /\ p.to = local_ip
    /\ mac' = p.mac /\ pc' = "done"
    /\ UNCHANGED <<nic, xid, offered, target, cfg, sent, net, granted, taken>>

\* ping needs a configuration.  resolve_mac knows the gateway's address and
\* asks for any other.
cmd_ping(t) ==
    /\ Typed /\ cfg # Unset
    /\ target' = t
    /\ \/ /\ t = Gateway
          /\ mac' = Gateway /\ pc' = "resolved" /\ UNCHANGED sent
       \/ /\ t # Gateway
          /\ send([k |-> "who", ip |-> t, from |-> cfg.ip], "resolve")
          /\ UNCHANGED mac
    /\ UNCHANGED <<nic, offered, cfg, net, granted, taken>>

\* Mutant: any ARP reply resolves.
resolve_mac_any(p) ==
    /\ pc = "resolve" /\ p.k = "arp"
    /\ mac' = p.mac /\ pc' = "resolved"
    /\ UNCHANGED <<nic, xid, offered, target, cfg, sent, net, granted, taken>>

resolve_mac(p) ==
    /\ pc = "resolve" /\ p.k = "arp" /\ p.ip = target
    /\ mac' = p.mac /\ pc' = "resolved"
    /\ UNCHANGED <<nic, xid, offered, target, cfg, sent, net, granted, taken>>

\* Mutant: the question is asked again, without end.
ResolveRetry == pc = "resolve" /\ UNCHANGED vars

\* Without an answer in time a made-up address is used (QEMU ignores it).
ResolveTimeout ==
    /\ pc = "resolve"
    /\ mac' = None /\ pc' = "resolved"
    /\ UNCHANGED <<nic, xid, offered, target, cfg, sent, net, granted, taken>>

SendEcho ==
    /\ pc = "resolved"
    /\ send([k |-> "echo", ip |-> target], "echo")
    /\ UNCHANGED <<nic, xid, offered, target, mac, cfg, net, granted, taken>>

\* Any echo reply ends the wait, whoever it is from.
EchoReply(p) ==
    /\ pc = "echo" /\ p.k = "echo"
    /\ pc' = "done"
    /\ UNCHANGED <<nic, xid, offered, target, mac, cfg, sent, net, granted, taken>>

\* The deadline passes, or Ctrl+C ends an arpwhois or a ping.
GiveUp ==
    /\ pc \in {"offer", "ack", "whois", "echo"}
    /\ Return
    /\ UNCHANGED <<nic, xid, cfg, sent, net, granted, taken>>

-----------------------------------------------------------------------------
(* The other machines.                                                       *)

Arrives(p) == net' = net \cup {p}

\* A server offers an address that is free.
ServerOffers(s) ==
    \E m \in sent, a \in PoolOf[s] :
        /\ m.k = "discover" /\ a \notin taken
        /\ Arrives([k |-> "dhcp", type |-> "offer", xid |-> m.xid, yiaddr |-> a,
                    server |-> s, router |-> RouterOf[s]])
        /\ UNCHANGED <<nic, pc, xid, offered, target, mac, cfg, sent, granted, taken>>

\* The server named in a request leases the address if it is still free, and
\* refuses it otherwise.
ServerAnswers(s) ==
    \E m \in sent :
        /\ m.k = "request" /\ m.server = s
        /\ \/ /\ m.ip \notin taken
              /\ granted' = granted \cup {[ip |-> m.ip, server |-> s]}
              /\ Arrives([k |-> "dhcp", type |-> "ack", xid |-> m.xid, yiaddr |-> m.ip,
                          server |-> s, router |-> RouterOf[s]])
           \/ /\ m.ip \in taken
              /\ Arrives([k |-> "dhcp", type |-> "nak", xid |-> m.xid, yiaddr |-> None,
                          server |-> s, router |-> None])
              /\ UNCHANGED granted
        /\ UNCHANGED <<nic, pc, xid, offered, target, mac, cfg, sent, taken>>

OtherClient(a) ==
    /\ \A l \in granted : l.ip # a
    /\ taken' = taken \cup {a}
    /\ UNCHANGED <<nic, pc, xid, offered, target, mac, cfg, sent, net, granted>>

HostAnswers(h) ==
    /\ \E m \in sent :
          \/ m.k = "who" /\ m.ip = h /\ Arrives([k |-> "arp", ip |-> h, mac |-> h, to |-> m.from])
          \/ m.k = "echo" /\ m.ip = h /\ Arrives([k |-> "echo", ip |-> h])
    /\ UNCHANGED <<nic, pc, xid, offered, target, mac, cfg, sent, granted, taken>>

-----------------------------------------------------------------------------
Receive ==
    \E p \in net :
        RecvOffer(p) \/ RecvAck(p) \/ WhoisReply(p) \/ resolve_mac(p) \/ EchoReply(p)

Deadline == GiveUp \/ ResolveTimeout

Next ==
    \/ cmd_dhcp \/ cmd_arpwhois \/ \E t \in Hosts \cup {Gateway} : cmd_ping(t)
    \/ NoCard
    \/ Receive
    \/ Report \/ SendEcho
    \/ Deadline
    \/ \E s \in Servers : ServerOffers(s) \/ ServerAnswers(s)
    \/ \E a \in Pool : OtherClient(a)
    \/ \E h \in Hosts \cup {Gateway} : HostAnswers(h)

Spec == Init /\ [][Next]_vars

\* The clock runs, so every deadline passes; the shell takes its own steps.
FairSpec == Spec /\ WF_vars(Deadline) /\ WF_vars(Report \/ SendEcho)

-----------------------------------------------------------------------------
\* The locals and the configuration keep their shape; an address is accepted
\* only while a command that asked for one runs.
TypeOK ==
    /\ pc \in {"idle", "failed", "offer", "ack", "whois", "resolve", "resolved", "echo", "done"}
    /\ xid \in 0..MaxCommands
    /\ offered \in [ip : Pool \cup {None}, server : Servers \cup {None}]
    /\ target \in Hosts \cup {Gateway, None} /\ mac \in Hosts \cup {Gateway, None}
    /\ cfg \in {Unset, Fallback} \cup [ip : Pool, router : Hosts \cup {Gateway}, server : Servers]
    /\ pc = "idle" => offered = NoOffer /\ target = None /\ mac = None

\* The address cmd_dhcp stores is one a server leased to this machine,
\* and the router came from the server that leased it: neither a refused
\* request nor the late answer to an earlier dhcp command configures it.
LeaseHeld ==
    cfg.server # None => /\ [ip |-> cfg.ip, server |-> cfg.server] \in granted
                         /\ cfg.ip \notin taken
                         /\ cfg.router = IF RouterOf[cfg.server] = None THEN Gateway
                                         ELSE RouterOf[cfg.server]

\* A hardware address that resolve_mac or arpwhois accepts belongs to the host
\* that was asked for, also when the answer to an earlier question is late.
RightHost == mac # None => mac = target

\* The prompt comes back: every command ends, answered or not.
CommandsReturn == pc # "idle" ~> pc = "idle"
=============================================================================
