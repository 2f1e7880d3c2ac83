---------------------------- MODULE MCTcpModule ----------------------------
(* Instances of TcpModule for TLC. *)
EXTENDS TcpModule, TLC

(* The two hosts do the same: sound while A and B are model values. *)
Symmetry == Permutations(Hosts)

(* A connects and writes, B accepts and reads; B does not close. *)
OneWay == conn'[A].st # "LISTEN" /\ conn'[B].last_sent = 1
OneWaySpec == Init /\ [][Next /\ OneWay]_vars /\ \A h \in Hosts : WF_vars(Timeout(h))
=============================================================================
