---------------------------- MODULE Applications ----------------------------
(***************************************************************************)
(* The programs of apps/ on the user-level stack: which calls of the       *)
(* socket library each of them makes, and what it does with the answers.   *)
(*                                                                         *)
(* A program is a function from its points to the call made there and the  *)
(* points that follow when the call succeeds or fails.  What a program     *)
(* reads from its input, from a file or in the data of a message decides   *)
(* nothing but which of several points follows.                            *)
(***************************************************************************)
EXTENDS SockModule

CONSTANTS
  Programs,   \* the programs that are run
  FileFd      \* what open returns: the descriptors below it are taken

(* A program has at most one socket beside the one it listens on.          *)
ASSUME FileFdAssumption == FileFd \in Socks /\ FileFd > 2
ASSUME ProgramsAssumption ==
  Programs \subseteq {"any", "udp_server", "udp_client", "tcp_server", "tcp_client", "http_client",
                     "http_server1", "icmp_app"}

VARIABLES
  prog,  \* the program that runs
  pc,    \* its point
  fd,    \* the socket that minet_socket returned
  sock2  \* the socket that minet_accept returned

progVars == <<prog, pc, fd, sock2>>

(* Ends: main returned, the process exited with its sockets, or a call on   *)
(* the socket -1, which the socket module uses as an index.                 *)
Ends == {"done", "exit", "undefined"}

Do(type, ok, fail) == [type |-> type, ok |-> ok, fail |-> fail]

-----------------------------------------------------------------------------
udp_server ==
  [socket |-> Do("udp", {"bind"}, {"undefined"}),
   bind   |-> Do("mBIND", {"read"}, {"close"}),
   read   |-> Do("mREAD", {"read", "close"}, {"close"}),
   close  |-> Do("mCLOSE", {"done"}, {"done"})]

udp_client ==
  [socket  |-> Do("udp", {"bind"}, {"undefined"}),
   bind    |-> Do("mBIND", {"connect"}, {"close"}),
   connect |-> Do("mCONNECT", {"write", "close"}, {"close"}),
   write   |-> Do("mWRITE", {"write", "close"}, {"close"}),
   close   |-> Do("mCLOSE", {"done"}, {"done"})]

(* Fault: it accepts on a socket that does not listen. *)
tcp_serverNoListen ==
  [socket |-> Do("tcp", {"bind"}, {"undefined"}),
   bind   |-> Do("mBIND", {"accept"}, {"undefined"}),
   accept |-> Do("mACCEPT", {"read2"}, {"undefined"}),
   read2  |-> Do("mREAD", {"read2", "close2"}, {"close2"}),
   close2 |-> Do("mCLOSE", {"close"}, {"close"}),
   close  |-> Do("mCLOSE", {"done"}, {"done"})]

(* The accepted socket is closed first; it is -1 when accept failed.        *)
tcp_server ==
  [socket |-> Do("tcp", {"bind"}, {"undefined"}),
   bind   |-> Do("mBIND", {"listen"}, {"undefined"}),
   listen |-> Do("mLISTEN", {"accept"}, {"undefined"}),
   accept |-> Do("mACCEPT", {"read2"}, {"undefined"}),
   read2  |-> Do("mREAD", {"read2", "close2"}, {"close2"}),
   close2 |-> Do("mCLOSE", {"close"}, {"close"}),
   close  |-> Do("mCLOSE", {"done"}, {"done"})]

tcp_client ==
  [socket  |-> Do("tcp", {"bind"}, {"undefined"}),
   bind    |-> Do("mBIND", {"connect"}, {"close"}),
   connect |-> Do("mCONNECT", {"write", "close"}, {"close"}),
   write   |-> Do("mWRITE", {"write", "close"}, {"close"}),
   close   |-> Do("mCLOSE", {"done"}, {"done"})]

(* minet_select returns a positive error, which counts as success.          *)
http_client ==
  [socket  |-> Do("tcp", {"connect", "close"}, {"exit"}),
   connect |-> Do("mCONNECT", {"write"}, {"close"}),
   write   |-> Do("mWRITE", {"read"}, {"close"}),
   read    |-> Do("mREAD", {"read", "close"}, {"read", "close"}),
   close   |-> Do("mCLOSE", {"done"}, {"done"})]

(* After its one write it loops for good. *)
icmp_app ==
  [socket  |-> Do("udp", {"bind"}, {"undefined"}),
   bind    |-> Do("mBIND", {"connect"}, {"close"}),
   connect |-> Do("mCONNECT", {"write"}, {"close"}),
   write   |-> Do("mWRITE", {"exit"}, {"exit"}),
   close   |-> Do("mCLOSE", {"done"}, {"done"})]

(* Fault: after an error response the connection stays open. *)
handle_connectionLeaks ==
  [read2    |-> Do("mREAD", {"read2", "header2", "answer2"}, {"exit"}),
   header2  |-> Do("mWRITE", {"header2", "file"}, {"give_up2"}),
   file     |-> Do("mREAD", {"body2", "close2"}, {"give_up2"}),
   body2    |-> Do("mWRITE", {"body2", "file", "close2"}, {"file"}),
   answer2  |-> Do("mWRITE", {"answer2", "accept"}, {"give_up2"}),
   give_up2 |-> Do("mCLOSE", {"exit"}, {"exit"}),
   close2   |-> Do("mCLOSE", {"accept"}, {"accept"})]

(* handle_connection reads the file with minet_read, so from the socket     *)
(* that has the number of its descriptor; when a read of the request fails  *)
(* it calls close, not minet_close.                                         *)
handle_connection ==
  [read2    |-> Do("mREAD", {"read2", "header2", "answer2"}, {"exit"}),
   header2  |-> Do("mWRITE", {"header2", "file"}, {"give_up2"}),
   file     |-> Do("mREAD", {"body2", "close2"}, {"give_up2"}),
   body2    |-> Do("mWRITE", {"body2", "file", "close2"}, {"file"}),
   answer2  |-> Do("mWRITE", {"answer2", "close2"}, {"give_up2"}),
   give_up2 |-> Do("mCLOSE", {"exit"}, {"exit"}),
   close2   |-> Do("mCLOSE", {"accept"}, {"accept"})]

http_server1 ==
  [l \in {"socket", "bind", "listen", "accept"} \cup DOMAIN handle_connection |->
     CASE l = "socket" -> Do("tcp", {"bind"}, {"exit"})
       [] l = "bind"   -> Do("mBIND", {"listen"}, {"exit"})
       [] l = "listen" -> Do("mLISTEN", {"accept"}, {"exit"})
       [] l = "accept" -> Do("mACCEPT", {"read2"}, {"accept"})
       [] OTHER        -> handle_connection[l]]

Code ==
  CASE prog = "udp_server" -> udp_server [] prog = "udp_client" -> udp_client
    [] prog = "tcp_server" -> tcp_server [] prog = "tcp_client" -> tcp_client
    [] prog = "http_client" -> http_client [] prog = "http_server1" -> http_server1
    [] prog = "icmp_app" -> icmp_app

-----------------------------------------------------------------------------
OnAccepted == {"read2", "header2", "body2", "answer2", "give_up2", "close2"}
Servers == {"udp_server", "tcp_server", "http_server1"}
Fd == IF pc = "file" THEN FileFd ELSE IF pc \in OnAccepted THEN sock2 ELSE fd

(* A server binds the port of its command line, here 1; a client any.       *)
Issue(type) ==
  \/ type \in {"udp", "tcp"} /\ minet_socket(type)
  \/ type = "mBIND" /\ minet_bind(Fd, "any", IF prog \in Servers THEN 1 ELSE PORT_NONE)
  \/ type = "mCONNECT" /\ \E peer \in Peers : minet_connect(Fd, peer)
  \/ type = "mLISTEN" /\ minet_listen(Fd)
  \/ type = "mACCEPT" /\ minet_accept(Fd)
  \/ type = "mREAD" /\ minet_read(Fd)
  \/ type = "mWRITE" /\ minet_write(Fd)
  \/ type = "mCLOSE" /\ minet_close(Fd)

ProgramCalls ==
  /\ prog # "any" /\ pc \notin Ends
  /\ Len(tcpq) < MaxRequests
  /\ Issue(Code[pc].type)
  /\ UNCHANGED <<calls, progVars, socks, ports, tcpVars, udpVars>>

ProgramReturns ==
  /\ prog # "any"
  /\ AppReturns
  /\ LET answer == Head(answers)
         ok == answer.error = "EOK"
     IN  /\ pc' \in (IF ok THEN Code[pc].ok ELSE Code[pc].fail)
         /\ fd' = IF pc = "socket" THEN answer.sock ELSE fd
         /\ sock2' = IF pc = "accept" /\ ok THEN answer.sock ELSE sock2
  /\ UNCHANGED prog

Stack == Runs(SockStep \/ Below) \/ Crash

(* "any" is the application of SockModule. *)
AppInit ==
  /\ Init
  /\ prog \in Programs
  /\ pc = "socket" /\ fd = 0 /\ sock2 = 0

AppNext ==
  \/ Runs(ProgramCalls \/ ProgramReturns)
  \/ (Stack \/ (prog = "any" /\ Runs(AppCalls \/ AppReturns))) /\ UNCHANGED progVars

AppSpec == AppInit /\ [][AppNext]_<<vars, progVars>>

AppFairSpec ==
  /\ AppSpec
  /\ WF_<<vars, progVars>>(Runs(ProgramCalls)) /\ WF_<<vars, progVars>>(Runs(ProgramReturns))
  /\ Fairness
-----------------------------------------------------------------------------
(* A program makes no call that the state of its socket forbids, whatever   *)
(* TCP and UDP do.  There are two exceptions: it closes a socket that a     *)
(* failed connect has closed, and http_server1 reads a file as a socket.    *)
NotRefused ==
  prog # "any" /\ answers # <<>> /\ answers[1].error = "EINVALID_OP" => pc \in {"close", "file"}

(* A program that ends by itself has left no socket, and a server that      *)
(* waits for a connection has left none but the one it listens on.          *)
InUse == {k \in Socks : socks[k].status # "FREE"}
NoSocketLeft ==
  /\ pc = "done" => InUse = {}
  /\ prog \in {"tcp_server", "http_server1"} /\ pc = "accept" /\ call = Idle => InUse = {fd}
=============================================================================
