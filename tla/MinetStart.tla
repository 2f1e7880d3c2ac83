----------------------------- MODULE MinetStart -----------------------------
(***************************************************************************)
(* How the processes of Minet come up and go down (Minet.cc, the main of   *)
(* every module, start_minet.sh).                                          *)
(*                                                                         *)
(* Two modules that talk share two FIFOs; the open of one end of a FIFO    *)
(* waits for the other end.  A module opens its FIFOs one after the other, *)
(* first the one to the monitor, then those of its MinetConnect and        *)
(* MinetAccept calls, and then loops over MinetGetNextEvent.  When a       *)
(* process has ended, its neighbours read an end of file or write to a     *)
(* FIFO without reader, throw, and end too.                                *)
(***************************************************************************)
EXTENDS Naturals, SequencesExt

CONSTANT Configs  \* [modules, monitored]: values of MINET_MODULES, MINET_MONITOR

VARIABLES
  config,   \* the environment that the modules read
  fifos,    \* per module, the ends of FIFOs that it opens, in order
  opened,   \* per module, how many of them are open
  alive,    \* the processes that run
  stopped   \* a process has ended by itself

vars == <<config, fifos, opened, alive, stopped>>

-----------------------------------------------------------------------------
(* MinetIsModuleInConfig and MinetGetMonitorFifoName search the text of the *)
(* variable for the name: other_module is found in ipother_module.          *)
NamedIn(names, mod) == mod \in names \/ (mod = "other_module" /\ "ipother_module" \in names)
InConfig(c, mod) == NamedIn(c.modules, mod)
IsMonitored(c, mod) == mod # "monitor" /\ NamedIn(c.monitored, mod)

(* The other modules that a module may call MinetConnect or MinetAccept     *)
(* for; on any other it dies.                                               *)
Connects(m) ==
  CASE m = "ethernet_mux" -> {"device_driver"}
    [] m = "ip_module" -> {"ethernet_mux", "arp_module"}
    [] m \in {"arp_module", "other_module"} -> {"ethernet_mux"}
    [] m = "ip_mux" -> {"ip_module"}
    [] m \in {"icmp_module", "udp_module", "tcp_module", "ipother_module"} -> {"ip_mux"}
    [] m = "sock_module" -> {"ipother_module", "icmp_module", "udp_module", "tcp_module"}
    [] m \in {"socklib_module", "app"} -> {"sock_module"}
    [] OTHER -> {}

Accepts(m) ==
  CASE m = "device_driver" -> {"ethernet_mux"}
    [] m = "ethernet_mux" -> {"ip_module", "arp_module", "other_module"}
    [] m = "ip_module" -> {"ip_mux"}
    [] m = "arp_module" -> {"ip_module"}
    [] m = "ip_mux" -> {"icmp_module", "udp_module", "tcp_module", "ipother_module"}
    [] m \in {"icmp_module", "udp_module", "tcp_module", "ipother_module"} -> {"sock_module"}
    [] m = "sock_module" -> {"socklib_module", "app"}
    [] OTHER -> {}

(* The FIFOs of an application have the names of socklib.                   *)
Name(m) == IF m = "app" THEN "socklib_module" ELSE m
Reader(mod, m) == [from |-> Name(mod), to |-> Name(m), end |-> "read"]
Writer(m, mod) == [from |-> Name(m), to |-> Name(mod), end |-> "write"]

(* The side that connects first opens what it reads, the side that accepts  *)
(* what it writes.  The monitor only reads.                                 *)
MinetConnect(m, mod) == <<Reader(mod, m), Writer(m, mod)>>
MinetAccept(m, mod) ==
  IF m = "monitor" THEN <<Reader(mod, m)>> ELSE <<Writer(m, mod), Reader(mod, m)>>

-----------------------------------------------------------------------------
(* The calls of each main, in order.  The monitor accepts every module.     *)
monitor == <<"reader", "writer", "device_driver", "ethernet_mux", "ip_module", "arp_module", "other_module", "ip_mux",
             "ipother_module", "icmp_module", "udp_module", "tcp_module", "sock_module", "socklib_module", "app">>
device_driver == <<"ethernet_mux">>
ethernet_mux == <<"device_driver", "arp_module", "ip_module", "other_module">>
ip_module == <<"ethernet_mux", "arp_module", "ip_mux">>
(* Fault: it waits for the IP module first, which waits for ethernet_mux.   *)
arp_moduleAcceptsFirst == <<"ip_module", "ethernet_mux">>
arp_module == <<"ethernet_mux", "ip_module">>
other_module == <<"ethernet_mux">>
ip_mux == <<"ip_module", "udp_module", "tcp_module", "icmp_module", "ipother_module">>
icmp_module == <<"ip_mux", "sock_module">>
udp_module == <<"ip_mux", "sock_module">>
tcp_module == <<"ip_mux", "sock_module">>
ipother_module == <<"ip_mux", "sock_module">>
sock_module == <<"tcp_module", "udp_module", "icmp_module", "ipother_module", "app", "socklib_module">>
minet_init == <<"sock_module">>

Main(m) ==
  CASE m = "monitor" -> monitor
    [] m = "device_driver" -> device_driver
    [] m = "ethernet_mux" -> ethernet_mux
    [] m = "ip_module" -> ip_module
    [] m = "arp_module" -> arp_module
    [] m = "other_module" -> other_module
    [] m = "ip_mux" -> ip_mux
    [] m = "icmp_module" -> icmp_module
    [] m = "udp_module" -> udp_module
    [] m = "tcp_module" -> tcp_module
    [] m = "ipother_module" -> ipother_module
    [] m = "sock_module" -> sock_module
    [] m \in {"socklib_module", "app"} -> minet_init

(* It calls only for modules that are configured (the monitor: monitored).  *)
(* The socket module accepts socklib only if there is no app.               *)
Called(c, m, mod) ==
  IF m = "monitor" THEN IsMonitored(c, mod)
  ELSE InConfig(c, mod) /\ ~(m = "sock_module" /\ mod = "socklib_module" /\ InConfig(c, "app"))

CallsOf(c, m) == SelectSeq(Main(m), LAMBDA mod : Called(c, m, mod))

Ends(m, mod) == IF mod \in Connects(m) THEN MinetConnect(m, mod) ELSE MinetAccept(m, mod)

(* MinetInit opens the FIFO to the monitor. *)
MinetInit(c, m) == IF IsMonitored(c, m) THEN <<Writer(m, "monitor")>> ELSE <<>>

AllEnds(c, m) ==
  MinetInit(c, m) \o FlattenSeq([i \in DOMAIN CallsOf(c, m) |-> Ends(m, CallsOf(c, m)[i])])

(* A module that makes an invalid call is dead from the start. *)
ValidCalls(c, m) ==
  m = "monitor" \/ \A i \in DOMAIN CallsOf(c, m) : CallsOf(c, m)[i] \in Connects(m) \cup Accepts(m)

Init ==
  /\ config \in Configs
  /\ fifos = [m \in config.modules |-> AllEnds(config, m)]
  /\ opened = [m \in config.modules |-> 0]
  /\ alive = {m \in config.modules : ValidCalls(config, m)}
  /\ stopped = FALSE

-----------------------------------------------------------------------------
Partner(e) == CHOOSE f \in {[e EXCEPT !.end = "read"], [e EXCEPT !.end = "write"]} : f # e
Owner(e) == IF e.end = "read" THEN e.to ELSE e.from
Process(name) == IF name = "socklib_module" /\ "app" \in config.modules THEN "app" ELSE name

Finished(m) == opened[m] = Len(fifos[m])

(* m has opened e or is in the open of e. *)
Opening(m, e) == \E i \in DOMAIN fifos[m] : i <= opened[m] + 1 /\ fifos[m][i] = e

(* open(2): it returns when the other end is open or is being opened.       *)
Open(m) ==
  /\ m \in alive /\ ~Finished(m)
  /\ LET f == Partner(fifos[m][opened[m] + 1])
         p == Process(Owner(f))
     IN  p \in alive /\ Opening(p, f)
  /\ opened' = [opened EXCEPT ![m] = @ + 1]
  /\ UNCHANGED <<config, fifos, alive, stopped>>

Up(m) == m \in alive /\ Finished(m)

(* A process of a running stack ends by itself, for instance an application *)
(* that is done.  An end before all are up is left out: the others wait in  *)
(* open for good.                                                           *)
Running == \A m \in config.modules : Finished(m)
Stop(m) ==
  /\ m \in alive /\ Running /\ ~stopped
  /\ alive' = alive \ {m} /\ stopped' = TRUE
  /\ UNCHANGED <<config, fifos, opened>>

Neighbors(m) == {Process(Owner(Partner(e))) : e \in ToSet(fifos[m])}

(* Fault: a module goes on while one neighbour is there. *)
DieTogether(m) ==
  /\ Up(m)
  /\ Neighbors(m) \cap alive = {}
  /\ alive' = alive \ {m}
  /\ UNCHANGED <<config, fifos, opened, stopped>>

(* The exception of Serialize or Unserialize, or SIGPIPE, is not caught.    *)
Die(m) ==
  /\ Up(m)
  /\ ~(Neighbors(m) \subseteq alive)
  /\ alive' = alive \ {m}
  /\ UNCHANGED <<config, fifos, opened, stopped>>

Next == \E m \in config.modules : Open(m) \/ Stop(m) \/ Die(m)

(* No process waits for anything but the open or the event it is in.        *)
Spec == Init /\ [][Next]_vars /\ WF_vars(\E m \in config.modules : Open(m) \/ Die(m))

-----------------------------------------------------------------------------
(* What starts completely: modules that are looked for are there.           *)
Complete ==
  /\ "ipother_module" \in config.modules => "other_module" \in config.modules
  /\ \A m \in config.monitored : m \in config.modules
  /\ config.monitored # {} => "monitor" \in config.modules

(* Every open returns in the end: started in any order, the modules never   *)
(* wait for each other in a circle, and all of them get to their loops      *)
(* (Minet.cc 711, 974 and the order of the calls in each main).             *)
StartsUp == Complete ~> Running

(* When one process of a running stack ends, none is left. *)
StackEnds == stopped ~> alive = {}
=============================================================================
