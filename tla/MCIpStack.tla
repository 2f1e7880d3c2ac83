------------------------------ MODULE MCIpStack ------------------------------
(* An instance of IpStack: two other hosts, one of which changes its hardware *)
(* address, and a frame of every kind the handlers tell apart.                *)
EXTENDS IpStack

Arp(op, ip, hw, target) == [type |-> "arp", op |-> op, sip |-> ip, shw |-> hw, tip |-> target,
                             n |-> 0]
Ip(kind, src, dst, fault) ==
    [type |-> "ip", packet |-> [kind |-> kind, src |-> src, dst |-> dst, fault |-> fault, n |-> 0]]

MCPeers == {"p", "q"}
MCHw == {"hp1", "hp2", "hq"}

MCConfigs == {{"udp", "icmp"}, {"udp", "icmp", "ipother"}}

MCFrames ==
    {Arp("request", "p", "hp1", "own"), Arp("reply", "p", "hp2", "own"),
     Arp("request", "q", "hq", "foreign"), [type |-> "unknown", n |-> 0],
     Ip("icmp_echo", "p", "own", "none"), Ip("icmp_echo", "p", "broadcast", "ttl"),
     Ip("udp_unknown", "p", "own", "none"),
     Ip("other", "q", "own", "none"), Ip("udp", "p", "foreign", "none")}
=============================================================================
