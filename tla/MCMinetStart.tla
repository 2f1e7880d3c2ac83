---------------------------- MODULE MCMinetStart ----------------------------
(* Instances of MinetStart for TLC. *)
EXTENDS MinetStart

Base == {"device_driver", "ethernet_mux", "arp_module", "ip_module", "ip_mux", "sock_module"}
Transports == {"icmp_module", "udp_module", "tcp_module", "ipother_module"}
All == Base \cup Transports \cup {"other_module", "socklib_module"}

(* The stack of setup.sh without its monitor; one with a monitor, one with  *)
(* app for socklib, a small one with both; and two that cannot start.       *)
Setup == [modules |-> All, monitored |-> {}]
Monitored == [modules |-> (All \ {"icmp_module", "ipother_module"}) \cup {"monitor"},
              monitored |-> {"ethernet_mux", "ip_mux", "tcp_module", "sock_module", "socklib_module"}]
WithApp == [modules |-> Base \cup {"tcp_module", "other_module", "app"}, monitored |-> {}]
Small == [modules |-> Base \cup {"udp_module", "socklib_module", "monitor"}, monitored |-> {"sock_module", "udp_module"}]
NoOther == [modules |-> Base \cup {"ipother_module", "socklib_module"}, monitored |-> {}]
NoMonitor == [modules |-> Base \cup {"tcp_module", "app"}, monitored |-> {"app"}]

TheConfigs == {Setup, Monitored, WithApp, Small, NoOther, NoMonitor}
=============================================================================
