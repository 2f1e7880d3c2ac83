--------------------------- MODULE IpStack_proofs ---------------------------
(* Theorems about IpStack, for every FIFO size, every set of hosts and      *)
(* frames, and any number of frames and datagrams.                          *)
EXTENDS IpStack, DataLemmas, FiniteSetTheorems, TLAPS

Question == <<"ip", "arp">>
Response == <<"arp", "ip">>

(* Two of the FIFOs, and the modules at their ends.                         *)
LEMMA ArpLinks ==
  /\ Question \in Links /\ Response \in Links
  /\ "ip" \in Modules /\ "arp" \in Modules
<1>1. Modules = {"ethernet_mux", "arp", "ip", "ip_mux", "udp", "icmp", "ipother", "other", "dd"}
  BY DEF Modules, Opened
<1>2. Opened["arp"][2] = "ip" /\ 2 \in DOMAIN Opened["arp"]
  BY DEF Opened
<1>3. Opened["ip"][2] = "arp" /\ 2 \in DOMAIN Opened["ip"]
  BY DEF Opened
<1> QED
  BY <1>1, <1>2, <1>3 DEF Links, Question, Response

-----------------------------------------------------------------------------
(* Where the exchange between ip_module and arp_module stands.  A packet p  *)
(* that ip_module waits with is in one of four phases: the question is to   *)
(* be sent, is in the FIFO, the answer is to be sent, is in the FIFO.       *)
NotReplying == out["arp"] = <<>> \/ \E f : out["arp"] = <<To("ethernet_mux", f)>>

Resting ==
  /\ asking = {}
  /\ fifo[Question] = <<>> /\ fifo[Response] = <<>>
  /\ out["ip"] = <<>> \/ \E m, x : m # "arp" /\ out["ip"] = <<To(m, x)>>
  /\ NotReplying

Asking(p) ==
  /\ asking = {p}
  /\ out["ip"] = <<To("arp", p.dst)>> /\ fifo[Question] = <<>> /\ fifo[Response] = <<>>
  /\ NotReplying

Asked(p) ==
  /\ asking = {p}
  /\ out["ip"] = <<>> /\ fifo[Question] = <<p.dst>> /\ fifo[Response] = <<>>
  /\ NotReplying

Answering(p) ==
  /\ asking = {p}
  /\ out["ip"] = <<>> /\ fifo[Question] = <<>> /\ fifo[Response] = <<>>
  /\ \E a : /\ a.ip = p.dst
            /\ \/ out["arp"] = <<To("ip", a)>>
               \/ \E f : out["arp"] = <<To("ip", a), To("ethernet_mux", f)>>

Answered(p) ==
  /\ asking = {p}
  /\ out["ip"] = <<>> /\ fifo[Question] = <<>>
  /\ \E a : a.ip = p.dst /\ fifo[Response] = <<a>>
  /\ NotReplying

Exchange ==
  /\ DOMAIN fifo = Links /\ DOMAIN out = Modules
  /\ Resting \/ \E p : Asking(p) \/ Asked(p) \/ Answering(p) \/ Answered(p)

(* The other modules take no part in it.                                    *)
LEMMA Apart ==
  ASSUME Exchange, asking' = asking, DOMAIN fifo' = Links, DOMAIN out' = Modules,
         out'["ip"] = out["ip"], out'["arp"] = out["arp"],
         fifo'[Question] = fifo[Question], fifo'[Response] = fifo[Response]
  PROVE  Exchange'
<1>1. NotReplying' <=> NotReplying
  BY DEF NotReplying
<1> QED
  BY <1>1 DEF Exchange, Resting, Asking, Asked, Answering, Answered

LEMMA HandleApart ==
  ASSUME Exchange, NEW m, NEW from, NEW sends, m \notin {"ip", "arp"},
         Handle(m, from, sends), asking' = asking
  PROVE  Exchange'
<1>1. <<from, m>> # Question /\ <<from, m>> # Response
  BY DEF Question, Response
<1> QED
  BY <1>1, Apart, ArpLinks DEF Exchange, Handle

(* A send moves what the exchange waits for one phase on.                   *)
LEMMA SendExchange ==
  ASSUME Exchange, NEW m \in Modules, MinetSend(m)
  PROVE  Exchange'
<1> DEFINE link == <<m, Head(out[m]).to>>
<1>1. /\ out[m] # <<>> /\ asking' = asking
      /\ fifo' = [fifo EXCEPT ![link] = Append(@, Head(out[m]).object)]
      /\ out' = [out EXCEPT ![m] = Tail(@)]
  BY DEF MinetSend
<1>2. DOMAIN fifo' = Links /\ DOMAIN out' = Modules
  BY <1>1 DEF Exchange
<1>3. CASE m \notin {"ip", "arp"}
  <2>1. link # Question /\ link # Response
    BY <1>3 DEF Question, Response
  <2> QED
    BY <1>1, <1>2, <1>3, <2>1, Apart, ArpLinks DEF Exchange
<1>4. CASE m = "ip"
  <2>1. out'["arp"] = out["arp"] /\ out'["ip"] = Tail(out["ip"])
    BY <1>1, <1>4, ArpLinks DEF Exchange
  <2>2. fifo'[Response] = fifo[Response]
    BY <1>1, <1>4, ArpLinks DEF Exchange, Response
  <2>3. NotReplying' <=> NotReplying
    BY <2>1 DEF NotReplying
  <2>4. CASE Resting
    <3>1. PICK k, x : k # "arp" /\ out["ip"] = <<To(k, x)>>
      BY <1>1, <1>4, <2>4 DEF Resting
    <3>2. Head(out[m]).to = k /\ out'["ip"] = <<>>
      BY <3>1, <1>4, <2>1 DEF To
    <3>3. fifo'[Question] = fifo[Question]
      BY <1>1, <3>1, <3>2, ArpLinks DEF Exchange, Question
    <3> QED
      BY <1>1, <1>2, <2>2, <2>3, <2>4, <3>2, <3>3 DEF Exchange, Resting
  <2>5. ASSUME NEW p, Asking(p) PROVE Exchange'
    <3>1. Head(out[m]) = To("arp", p.dst) /\ out'["ip"] = <<>>
      BY <2>5, <1>4, <2>1 DEF Asking
    <3>2. link = Question /\ Head(out[m]).object = p.dst
      BY <3>1, <1>4 DEF To, Question
    <3>3. fifo'[Question] = <<p.dst>>
      <4>1. fifo'[Question] = Append(fifo[Question], p.dst)
        BY <1>1, <3>2, ArpLinks DEF Exchange
      <4> QED
        BY <4>1, <2>5 DEF Asking
    <3>4. Asked(p)'
      BY <1>1, <2>2, <2>3, <2>5, <3>1, <3>3 DEF Asked, Asking
    <3> QED
      BY <1>2, <3>4 DEF Exchange
  <2> QED
    BY <1>1, <1>4, <2>4, <2>5 DEF Exchange, Asked, Answering, Answered
<1>5. CASE m = "arp"
  <2>1. out'["ip"] = out["ip"] /\ out'["arp"] = Tail(out["arp"])
    BY <1>1, <1>5, ArpLinks DEF Exchange
  <2>2. fifo'[Question] = fifo[Question]
    BY <1>1, <1>5, ArpLinks DEF Exchange, Question
  <2>3. CASE NotReplying
    <3>1. PICK f : out["arp"] = <<To("ethernet_mux", f)>>
      BY <1>1, <1>5, <2>3 DEF NotReplying
    <3>2. link # Response /\ out'["arp"] = <<>>
      <4>1. Head(out["arp"]) = To("ethernet_mux", f)
        BY <3>1
      <4>2. link # Response
        BY <1>5, <4>1 DEF To, Response
      <4> QED
        BY <2>1, <3>1, <4>2
    <3>3. fifo'[Response] = fifo[Response] /\ NotReplying'
      BY <1>1, <3>2, ArpLinks DEF Exchange, NotReplying
    <3>4. CASE Resting
      <4>1. Resting'
        BY <1>1, <2>1, <2>2, <3>3, <3>4 DEF Resting
      <4> QED
        BY <1>2, <4>1 DEF Exchange
    <3>5. ASSUME NEW p, Asking(p) \/ Asked(p) \/ Answered(p) PROVE Exchange'
      <4>1. Asking(p)' \/ Asked(p)' \/ Answered(p)'
        BY <1>1, <2>1, <2>2, <3>3, <3>5 DEF Asking, Asked, Answered
      <4> QED
        BY <1>2, <4>1 DEF Exchange
    <3>6. ASSUME NEW p, Answering(p) PROVE FALSE
      BY <3>1, <3>6 DEF Answering, To
    <3> QED
      BY <3>4, <3>5, <3>6 DEF Exchange
  <2>4. ASSUME NEW p, Answering(p) PROVE Exchange'
    <3>1. PICK a : /\ a.ip = p.dst
                   /\ \/ out["arp"] = <<To("ip", a)>>
                      \/ \E f : out["arp"] = <<To("ip", a), To("ethernet_mux", f)>>
      BY <2>4 DEF Answering
    <3>2. Head(out["arp"]) = To("ip", a) /\ NotReplying'
      <4>1. CASE out["arp"] = <<To("ip", a)>>
        BY <4>1, <2>1 DEF NotReplying
      <4>2. ASSUME NEW f, out["arp"] = <<To("ip", a), To("ethernet_mux", f)>>
            PROVE  Head(out["arp"]) = To("ip", a) /\ NotReplying'
        <5>1. out'["arp"] = <<To("ethernet_mux", f)>>
          BY <4>2, <2>1
        <5> QED
          BY <4>2, <5>1 DEF NotReplying
      <4> QED
        BY <3>1, <4>1, <4>2
    <3>3. link = Response /\ Head(out[m]).object = a
      BY <1>5, <3>2 DEF To, Response
    <3>4. fifo'[Response] = <<a>>
      <4>1. fifo'[Response] = Append(fifo[Response], a)
        BY <1>1, <3>3, ArpLinks DEF Exchange
      <4> QED
        BY <4>1, <2>4 DEF Answering
    <3>5. Answered(p)'
      BY <1>1, <2>1, <2>2, <2>4, <3>1, <3>2, <3>4 DEF Answered, Answering
    <3> QED
      BY <1>2, <3>5 DEF Exchange
  <2> QED
    BY <2>3, <2>4 DEF Exchange, Resting, Asking, Asked, Answered
<1> QED
  BY <1>3, <1>4, <1>5

(* arp_module answers the question that is in its FIFO, and only that.      *)
LEMMA ArpFromIpExchange ==
  ASSUME Exchange, ArpFromIp
  PROVE  Exchange'
<1> DEFINE ip == Head(fifo[Question])
           answer == Lookup(ip)
           sends == IF answer.flag = "unknown"
                    THEN <<To("ip", answer), To("ethernet_mux", ArpRequest(ip))>>
                    ELSE <<To("ip", answer)>>
<1>1. /\ fifo[Question] # <<>> /\ asking' = asking
      /\ fifo' = [fifo EXCEPT ![Question] = Tail(@)]
      /\ out' = [out EXCEPT !["arp"] = sends]
  BY DEF ArpFromIp, Event, Handle, Question
<1>2. PICK p : Asked(p)
  BY <1>1 DEF Exchange, Resting, Asking, Answering, Answered
<1>3. ip = p.dst /\ answer.ip = p.dst
  BY <1>2 DEF Asked, Lookup
<1>4. /\ fifo'[Question] = <<>> /\ fifo'[Response] = <<>> /\ out'["ip"] = <<>>
      /\ out'["arp"] = sends
      /\ DOMAIN fifo' = Links /\ DOMAIN out' = Modules
  <2>1. Question # Response
    BY DEF Question, Response
  <2>2. fifo'[Question] = Tail(fifo[Question]) /\ fifo'[Response] = fifo[Response]
    BY <1>1, <2>1, ArpLinks DEF Exchange
  <2> QED
    BY <1>1, <1>2, <2>2, ArpLinks DEF Exchange, Asked
<1>5. \/ out'["arp"] = <<To("ip", answer)>>
      \/ out'["arp"] = <<To("ip", answer), To("ethernet_mux", ArpRequest(ip))>>
  BY <1>4
<1>6. Answering(p)'
  <2> HIDE DEF answer, ip
  <2> QED
    BY <1>1, <1>2, <1>3, <1>4, <1>5 DEF Answering, Asked
<1> QED
  BY <1>4, <1>6 DEF Exchange

LEMMA ArpFromNetworkExchange ==
  ASSUME Exchange, ArpFromNetwork
  PROVE  Exchange'
<1> DEFINE a == Head(fifo[<<"ethernet_mux", "arp">>])
<1>1. /\ out["arp"] = <<>> /\ asking' = asking
      /\ fifo' = [fifo EXCEPT ![<<"ethernet_mux", "arp">>] = Tail(@)]
      /\ out' = [out EXCEPT !["arp"] = IF a.op = "request" /\ a.tip = Own
                                       THEN <<To("ethernet_mux", ArpReply(a))>> ELSE <<>>]
  BY DEF ArpFromNetwork, Event, Idle, Handle
<1>2. /\ fifo'[Question] = fifo[Question] /\ fifo'[Response] = fifo[Response]
      /\ out'["ip"] = out["ip"] /\ DOMAIN fifo' = Links /\ DOMAIN out' = Modules
  BY <1>1, ArpLinks DEF Exchange, Question, Response
<1>3. NotReplying'
  BY <1>1, ArpLinks DEF Exchange, NotReplying
<1>4. \A p : ~Answering(p)
  BY <1>1 DEF Answering
<1>5. CASE Resting
  BY <1>1, <1>2, <1>3, <1>5 DEF Exchange, Resting
<1>6. ASSUME NEW p, Asking(p) \/ Asked(p) \/ Answered(p) PROVE Exchange'
  <2>1. Asking(p)' \/ Asked(p)' \/ Answered(p)'
    BY <1>1, <1>2, <1>3, <1>6 DEF Asking, Asked, Answered
  <2> QED
    BY <1>2, <2>1 DEF Exchange
<1> QED
  BY <1>4, <1>5, <1>6 DEF Exchange

(* ip_module begins to handle something only between two exchanges.         *)
LEMMA IdleRests ==
  ASSUME Exchange, Idle("ip")
  PROVE  Resting
BY DEF Exchange, Idle, Asking, Asked, Answering, Answered

LEMMA IpHandles ==
  ASSUME Exchange, Resting, NEW from, from # "arp", NEW sends,
         Handle("ip", from, sends),
         \/ asking' = {} /\ (sends = <<>> \/ \E m, x : m # "arp" /\ sends = <<To(m, x)>>)
         \/ \E p : asking' = {p} /\ sends = <<To("arp", p.dst)>>
  PROVE  Exchange'
<1>1. /\ fifo'[Question] = <<>> /\ fifo'[Response] = <<>>
      /\ out'["ip"] = sends /\ out'["arp"] = out["arp"]
      /\ DOMAIN fifo' = Links /\ DOMAIN out' = Modules
  <2>1. <<from, "ip">> # Question /\ <<from, "ip">> # Response
    BY DEF Question, Response
  <2> QED
    BY <2>1, ArpLinks DEF Handle, Exchange, Resting
<1>2. NotReplying'
  BY <1>1 DEF Resting, NotReplying
<1>3. Resting' \/ \E p : Asking(p)'
  BY <1>1, <1>2 DEF Resting, Asking
<1> QED
  BY <1>1, <1>3 DEF Exchange

LEMMA IpFromNetworkExchange ==
  ASSUME Exchange, IpFromNetwork
  PROVE  Exchange'
<1> DEFINE p == Head(fifo[<<"ethernet_mux", "ip">>]).packet
<1>1. Resting
  BY IdleRests DEF IpFromNetwork, Event
<1>2. CASE Handle("ip", "ethernet_mux", <<To("ip_mux", p)>>) /\ asking' = {}
  BY <1>1, <1>2, IpHandles
<1>3. CASE Ask("ethernet_mux", ICMPError(p))
  BY <1>1, <1>3, IpHandles DEF Ask
<1>4. CASE Handle("ip", "ethernet_mux", <<>>) /\ asking' = {}
  BY <1>1, <1>4, IpHandles
<1> QED
  BY <1>2, <1>3, <1>4 DEF IpFromNetwork

(* An answer that is read is the answer to the packet that waited.          *)
LEMMA SendPacketAnswered ==
  ASSUME Exchange, asking # {}, out["ip"] = <<>>, fifo[Response] # <<>>
  PROVE  /\ Answered(CHOOSE q \in asking : TRUE)
         /\ Head(fifo[Response]).ip = (CHOOSE q \in asking : TRUE).dst
<1>1. PICK p : Answered(p)
  BY DEF Exchange, Resting, Asking, Asked, Answering
<1>2. (CHOOSE q \in asking : TRUE) = p
  BY <1>1 DEF Answered
<1> QED
  BY <1>1, <1>2 DEF Answered

LEMMA SendPacketExchange ==
  ASSUME Exchange, SendPacket
  PROVE  Exchange'
<1> DEFINE p == CHOOSE q \in asking : TRUE
           resp == Head(fifo[Response])
           sends == IF resp.hw # Blank \/ p.dst = Broadcast
                    THEN <<To("ethernet_mux", IpFrame(resp.hw, p))>> ELSE <<>>
<1>1. /\ fifo' = [fifo EXCEPT ![Response] = Tail(@)]
      /\ out' = [out EXCEPT !["ip"] = sends]
      /\ asking' = {}
  BY DEF SendPacket, Handle, Response
<1>2. Answered(p)
  BY SendPacketAnswered DEF SendPacket, Response
<1>3. sends = <<>> \/ \E x : sends = <<To("ethernet_mux", x)>>
  OBVIOUS
<1> HIDE DEF p, sends
<1>4. /\ fifo'[Question] = <<>> /\ fifo'[Response] = <<>>
      /\ out'["ip"] = sends /\ out'["arp"] = out["arp"]
      /\ DOMAIN fifo' = Links /\ DOMAIN out' = Modules
  <2>1. Question # Response
    BY DEF Question, Response
  <2>2. fifo'[Question] = fifo[Question] /\ fifo'[Response] = Tail(fifo[Response])
    BY <1>1, <2>1, ArpLinks DEF Exchange
  <2> QED
    BY <1>1, <1>2, <2>2, ArpLinks DEF Exchange, Answered
<1>5. NotReplying'
  BY <1>2, <1>4 DEF Answered, NotReplying
<1>6. Resting'
  BY <1>1, <1>3, <1>4, <1>5 DEF Resting
<1> QED
  BY <1>4, <1>6 DEF Exchange

(* The remaining handlers belong to other modules.                          *)
LEMMA StepExchange ==
  ASSUME Exchange, [Next]_vars
  PROVE  Exchange'
<1>1. ASSUME NEW m \in Modules, MinetSend(m) PROVE Exchange'
  BY <1>1, SendExchange
<1>2. ASSUME NEW from \in {"dd", "arp", "ip"}, ethernet_mux(from) PROVE Exchange'
  BY <1>2, HandleApart DEF ethernet_mux
<1>3. ASSUME ArpFromIp \/ ArpFromNetwork PROVE Exchange'
  BY <1>3, ArpFromIpExchange, ArpFromNetworkExchange
<1>4. ASSUME IpFromNetwork \/ SendPacket PROVE Exchange'
  BY <1>4, IpFromNetworkExchange, SendPacketExchange
<1>5. ASSUME IpFromMux PROVE Exchange'
  <2>1. Resting /\ Ask("ip_mux", Head(fifo[<<"ip_mux", "ip">>]))
    BY <1>5, IdleRests DEF IpFromMux, Event
  <2> QED
    BY <2>1, IpHandles DEF Ask
<1>6. ASSUME NEW m \in {"udp", "icmp"}, IpMuxFromIp \/ IpMuxFromAbove(m) PROVE Exchange'
  BY <1>6, HandleApart DEF IpMuxFromIp, IpMuxFromAbove
<1>7. ASSUME UdpFromMux \/ IcmpFromMux PROVE Exchange'
  BY <1>7, HandleApart DEF UdpFromMux, IcmpFromMux
<1>8. ASSUME other_module \/ ipother_module \/ Transmit PROVE Exchange'
  BY <1>8, HandleApart DEF other_module, ipother_module, Swallow, Transmit
<1>9. ASSUME NEW f \in Frames, Arrive(f) PROVE Exchange'
  <2>1. <<"dd", "ethernet_mux">> # Question /\ <<"dd", "ethernet_mux">> # Response
    BY DEF Question, Response
  <2> QED
    BY <1>9, <2>1, Apart, ArpLinks DEF Arrive, Exchange
<1>10. ASSUME NEW dst \in Peers \cup {Broadcast}, UdpFromSock(dst) PROVE Exchange'
  BY <1>10, Apart, ArpLinks DEF UdpFromSock, Exchange
<1>11. CASE UNCHANGED vars
  BY <1>11, Apart DEF vars, Exchange
<1> QED
  BY <1>1, <1>2, <1>3, <1>4, <1>5, <1>6, <1>7, <1>8, <1>9, <1>10, <1>11 DEF Next, Step

LEMMA InitExchange == Init => Exchange
BY ArpLinks DEF Init, Exchange, Resting, NotReplying

(* ip_module and arp_module keep step, whatever else goes on in the stack:  *)
(* there is never a question too many or an answer left over, and an answer *)
(* that is read is about the packet that waits for it.                      *)
THEOREM AnswersMatch == Spec => []AnswerIsForQuestion
<1>1. Exchange => AnswerIsForQuestion
  <2> SUFFICES ASSUME Exchange PROVE AnswerIsForQuestion
    OBVIOUS
  <2>1. CASE Resting
    <3>1. Cardinality(asking) = 0
      BY <2>1, FS_EmptySet DEF Resting
    <3> QED
      BY <2>1, <3>1 DEF Resting, AnswerIsForQuestion, Question, Response
  <2>2. ASSUME NEW p, Asking(p) \/ Asked(p) \/ Answering(p) \/ Answered(p)
        PROVE  AnswerIsForQuestion
    <3>1. asking = {p}
      BY <2>2 DEF Asking, Asked, Answering, Answered
    <3>2. Cardinality(asking) = 1
      BY <3>1, FS_Singleton
    <3>3. CASE Answered(p)
      <4>1. PICK a : a.ip = p.dst /\ fifo[Response] = <<a>>
        BY <3>3 DEF Answered
      <4>2. fifo[Question] = <<>> /\ Len(fifo[Question]) = 0 /\ Len(fifo[Response]) = 1
        BY <3>3, <4>1 DEF Answered
      <4>3. \A q \in asking : \A i \in DOMAIN fifo[Response] : fifo[Response][i].ip = q.dst
        BY <3>1, <4>1
      <4> QED
        BY <3>2, <4>2, <4>3 DEF AnswerIsForQuestion, Question, Response
    <3>4. CASE Asking(p) \/ Asked(p) \/ Answering(p)
      <4>1. fifo[Response] = <<>> /\ (fifo[Question] = <<>> \/ fifo[Question] = <<p.dst>>)
        BY <3>4 DEF Asking, Asked, Answering
      <4>2. Len(fifo[Response]) = 0 /\ (Len(fifo[Question]) = 0 \/ Len(fifo[Question]) = 1)
        <5>1. CASE fifo[Question] = <<>>
          BY <4>1, <5>1
        <5>2. CASE fifo[Question] = <<p.dst>>
          BY <4>1, <5>2
        <5> QED
          BY <4>1, <5>1, <5>2
      <4>3. \A q \in asking : \A i \in DOMAIN fifo[Response] : fifo[Response][i].ip = q.dst
        BY <4>1
      <4>4. Len(fifo[Question]) + Len(fifo[Response]) =< Cardinality(asking)
        <5>1. CASE Len(fifo[Question]) = 0
          BY <3>2, <4>2, <5>1
        <5>2. CASE Len(fifo[Question]) = 1
          BY <3>2, <4>2, <5>2
        <5> QED
          BY <4>2, <5>1, <5>2
      <4> QED
        BY <4>3, <4>4 DEF AnswerIsForQuestion, Question, Response
    <3> QED
      BY <2>2, <3>3, <3>4
  <2> QED
    BY <2>1, <2>2 DEF Exchange
<1> QED
  BY <1>1, InitExchange, StepExchange, PTL DEF Spec

-----------------------------------------------------------------------------
(* Where the hardware addresses come from.                                  *)
Told(ip, hw) == \E f \in Range(arrived) : Announces(f, ip) /\ f.shw = hw

AnswerTold(a) == a.hw # Blank /\ a.ip \in Peers => Told(a.ip, a.hw)
FrameTold(f) == f.type = "ip" /\ f.packet.dst \in Peers => Told(f.packet.dst, f.dsthw)

(* What may be on its way from a to b.                                      *)
Good(a, b, x) ==
  /\ a = "dd" /\ b = "ethernet_mux" => x \in Range(arrived)
  /\ a = "ethernet_mux" /\ b = "arp" => x \in Range(arrived) /\ x.type = "arp"
  /\ a = "arp" /\ b = "ip" => AnswerTold(x)
  /\ a \in {"arp", "ip"} /\ b = "ethernet_mux" => FrameTold(x)
  /\ a = "ethernet_mux" /\ b = "dd" => FrameTold(x)

FifosGood ==
  /\ DOMAIN fifo = Links
  /\ \A l \in Links : Queue(fifo[l]) /\ \A x \in Range(fifo[l]) : Good(l[1], l[2], x)
OutsGood ==
  /\ DOMAIN out = Modules
  /\ \A m \in Modules : Queue(out[m]) /\ \A o \in Range(out[m]) : Good(m, o.to, o.object)
CacheTold == \A e \in cache : e[1] \in Peers => Told(e[1], e[2])
WireTold == \A f \in wire : FrameTold(f)

Origin == Queue(arrived) /\ FifosGood /\ OutsGood /\ CacheTold /\ WireTold

(* More links whose ends the handlers know.                                 *)
LEMMA MuxLinks ==
  /\ <<"dd", "ethernet_mux">> \in Links /\ <<"ethernet_mux", "arp">> \in Links
  /\ <<"arp", "ethernet_mux">> \in Links /\ <<"ip", "ethernet_mux">> \in Links
  /\ <<"ethernet_mux", "dd">> \in Links
<1>1. Modules = {"ethernet_mux", "arp", "ip", "ip_mux", "udp", "icmp", "ipother", "other", "dd"}
  BY DEF Modules, Opened
<1>2. /\ Opened["ethernet_mux"][1] = "dd" /\ Opened["ethernet_mux"][2] = "arp"
      /\ Opened["ethernet_mux"][3] = "ip" /\ {1, 2, 3} \subseteq DOMAIN Opened["ethernet_mux"]
  BY DEF Opened
<1>3. /\ Opened["arp"][1] = "ethernet_mux" /\ 1 \in DOMAIN Opened["arp"]
      /\ Opened["dd"][1] = "ethernet_mux" /\ 1 \in DOMAIN Opened["dd"]
  BY DEF Opened
<1> QED
  BY <1>1, <1>2, <1>3 DEF Links

(* A send takes to a FIFO what may be there.                                *)
LEMMA SendOrigin ==
  ASSUME Origin, NEW m \in Modules, MinetSend(m)
  PROVE  Origin'
<1> DEFINE link == <<m, Head(out[m]).to>>
<1>1. /\ out[m] # <<>>
      /\ fifo' = [fifo EXCEPT ![link] = Append(@, Head(out[m]).object)]
      /\ out' = [out EXCEPT ![m] = Tail(@)]
      /\ UNCHANGED <<cache, arrived, wire>>
  BY DEF MinetSend
<1>2. \A a, b, x : Good(a, b, x)' <=> Good(a, b, x)
  BY <1>1 DEF Good, AnswerTold, FrameTold, Told
<1>3. Queue(out[m]) /\ \A o \in Range(out[m]) : Good(m, o.to, o.object)
  BY DEF Origin, OutsGood
<1>4. /\ Queue(Tail(out[m])) /\ Range(Tail(out[m])) \subseteq Range(out[m])
      /\ Head(out[m]) \in Range(out[m])
  BY <1>1, <1>3, QueueTail
<1>5. OutsGood'
  BY <1>1, <1>2, <1>3, <1>4 DEF Origin, OutsGood
<1>6. FifosGood'
  <2>1. DOMAIN fifo' = Links
    BY <1>1 DEF Origin, FifosGood
  <2>2. ASSUME NEW l \in Links
        PROVE  Queue(fifo'[l]) /\ \A x \in Range(fifo'[l]) : Good(l[1], l[2], x)
    <3>1. Queue(fifo[l]) /\ \A x \in Range(fifo[l]) : Good(l[1], l[2], x)
      BY DEF Origin, FifosGood
    <3>2. CASE l = link
      <4>1. fifo'[l] = Append(fifo[l], Head(out[m]).object)
        BY <1>1, <3>2 DEF Origin, FifosGood
      <4>2. Good(l[1], l[2], Head(out[m]).object)
        BY <1>3, <1>4, <3>2
      <4> QED
        BY <3>1, <4>1, <4>2, QueueAppend
    <3>3. CASE l # link
      BY <1>1, <3>1, <3>3 DEF Origin, FifosGood
    <3> QED
      BY <3>2, <3>3
  <2> QED
    BY <1>2, <2>1, <2>2 DEF FifosGood
<1> QED
  BY <1>1, <1>5, <1>6 DEF Origin, CacheTold, WireTold, FrameTold, Told, Queue

(* So does a handler whose sends are good.                                  *)
LEMMA HandleOrigin ==
  ASSUME Origin, NEW m, NEW from, NEW sends, Handle(m, from, sends),
         fifo[<<from, m>>] # <<>>,
         UNCHANGED arrived,
         Queue(sends), \A o \in Range(sends) : Good(m, o.to, o.object)
  PROVE  FifosGood' /\ OutsGood' /\ Queue(arrived)'
<1>1. /\ fifo' = [fifo EXCEPT ![<<from, m>>] = Tail(@)]
      /\ out' = [out EXCEPT ![m] = sends]
  BY DEF Handle
<1>2. \A a, b, x : Good(a, b, x)' <=> Good(a, b, x)
  BY DEF Good, AnswerTold, FrameTold, Told
<1>3. OutsGood'
  BY <1>1, <1>2 DEF Origin, OutsGood
<1>4. FifosGood'
  <2>1. DOMAIN fifo' = Links
    BY <1>1 DEF Origin, FifosGood
  <2>2. ASSUME NEW l \in Links
        PROVE  Queue(fifo'[l]) /\ \A x \in Range(fifo'[l]) : Good(l[1], l[2], x)
    <3>1. Queue(fifo[l]) /\ \A x \in Range(fifo[l]) : Good(l[1], l[2], x)
      BY DEF Origin, FifosGood
    <3>2. fifo'[l] = fifo[l] \/ (fifo'[l] = Tail(fifo[l]) /\ fifo[l] # <<>>)
      BY <1>1 DEF Origin, FifosGood
    <3> QED
      BY <3>1, <3>2, QueueTail
  <2> QED
    BY <1>2, <2>1, <2>2 DEF FifosGood
<1> QED
  BY <1>3, <1>4 DEF Origin, Queue

(* Neither cache nor wire need be touched for that.                         *)
LEMMA PlainOrigin ==
  ASSUME Origin, NEW m, NEW from, NEW sends, Handle(m, from, sends),
         fifo[<<from, m>>] # <<>>,
         UNCHANGED <<arrived, cache, wire>>,
         Queue(sends), \A o \in Range(sends) : Good(m, o.to, o.object)
  PROVE  Origin'
<1>1. FifosGood' /\ OutsGood' /\ Queue(arrived)'
  BY HandleOrigin
<1> QED
  BY <1>1 DEF Origin, CacheTold, WireTold, FrameTold, Told

(* What the head of a FIFO is.                                              *)
LEMMA HeadGood ==
  ASSUME Origin, NEW l \in Links, fifo[l] # <<>>
  PROVE  Good(l[1], l[2], Head(fifo[l]))
<1>1. Queue(fifo[l]) /\ \A x \in Range(fifo[l]) : Good(l[1], l[2], x)
  BY DEF Origin, FifosGood
<1> QED
  BY <1>1, QueueTail

(* Modules that neither speak for the network nor about it.                 *)
LEMMA OtherOrigin ==
  ASSUME Origin, NEW m, m \notin {"ethernet_mux", "arp", "ip", "dd"}, NEW from, NEW sends,
         Handle(m, from, sends), fifo[<<from, m>>] # <<>>, Queue(sends),
         UNCHANGED <<arrived, cache, wire>>
  PROVE  Origin'
<1>1. \A o \in Range(sends) : Good(m, o.to, o.object)
  BY DEF Good
<1> QED
  BY <1>1, PlainOrigin

LEMMA MuxOrigin ==
  ASSUME Origin, NEW from \in {"dd", "arp", "ip"}, ethernet_mux(from)
  PROVE  Origin'
<1> DEFINE f == Head(fifo[<<from, "ethernet_mux">>])
           sends == IF from = "dd" THEN <<To(Destination(f), f)>> ELSE <<To("dd", f)>>
<1>1. /\ fifo[<<from, "ethernet_mux">>] # <<>>
      /\ Handle("ethernet_mux", from, sends) /\ UNCHANGED <<arrived, cache, wire>>
  BY DEF ethernet_mux, Event
<1>2. Good(from, "ethernet_mux", f)
  BY <1>1, MuxLinks, HeadGood
<1>3. Queue(sends) /\ \A o \in Range(sends) : Good("ethernet_mux", o.to, o.object)
  <2>1. CASE from = "dd"
    <3>1. f \in Range(arrived)
      BY <1>2, <2>1 DEF Good
    <3>2. Destination(f) \in {"arp", "ip", "other"} /\ (Destination(f) = "arp" => f.type = "arp")
      BY DEF Destination
    <3>3. sends = <<To(Destination(f), f)>>
      BY <2>1
    <3> HIDE DEF f, sends
    <3>4. Good("ethernet_mux", To(Destination(f), f).to, To(Destination(f), f).object)
      BY <3>1, <3>2 DEF To, Good
    <3> QED
      BY <3>3, <3>4, QueueLiterals
  <2>2. CASE from \in {"arp", "ip"}
    <3>1. FrameTold(f)
      BY <1>2, <2>2 DEF Good
    <3>2. sends = <<To("dd", f)>>
      BY <2>2
    <3> HIDE DEF f, sends
    <3>3. Good("ethernet_mux", To("dd", f).to, To("dd", f).object)
      BY <3>1 DEF To, Good
    <3> QED
      BY <3>2, <3>3, QueueLiterals
  <2> QED
    BY <2>1, <2>2
<1> HIDE DEF f, sends
<1> QED
  BY <1>1, <1>3, PlainOrigin

(* An answer with an address has it from the cache.                         *)
LEMMA ArpFromIpOrigin ==
  ASSUME Origin, ArpFromIp
  PROVE  Origin'
<1> DEFINE ip == Head(fifo[<<"ip", "arp">>])
           answer == Lookup(ip)
           one == To("ip", answer)
           two == To("ethernet_mux", ArpRequest(ip))
           sends == IF answer.flag = "unknown" THEN <<one, two>> ELSE <<one>>
<1>1. /\ fifo[<<"ip", "arp">>] # <<>>
      /\ Handle("arp", "ip", sends) /\ UNCHANGED <<arrived, cache, wire>>
  BY DEF ArpFromIp, Event
<1>2. AnswerTold(answer)
  <2>1. CASE Known(ip) = {}
    BY <2>1 DEF Lookup, AnswerTold
  <2>2. CASE Known(ip) # {}
    <3>1. PICK hw \in Known(ip) : answer.ip = ip /\ answer.hw = hw
      BY <2>2 DEF Lookup
    <3>2. <<ip, hw>> \in cache
      BY DEF Known
    <3> QED
      BY <3>1, <3>2 DEF Origin, CacheTold, AnswerTold
  <2> QED
    BY <2>1, <2>2
<1>3. Good("arp", one.to, one.object) /\ Good("arp", two.to, two.object)
  <2> HIDE DEF answer
  <2> QED
    BY <1>2 DEF To, Good, ArpRequest, FrameTold
<1>4. Queue(sends) /\ \A o \in Range(sends) : Good("arp", o.to, o.object)
  <2>1. sends = <<one, two>> \/ sends = <<one>>
    OBVIOUS
  <2> HIDE DEF one, two, sends
  <2> QED
    BY <1>3, <2>1, QueueLiterals
<1> HIDE DEF sends
<1> QED
  BY <1>1, <1>4, PlainOrigin

(* An entry of the cache is what a frame from the network announced.        *)
LEMMA ArpFromNetworkOrigin ==
  ASSUME Origin, ArpFromNetwork
  PROVE  Origin'
<1> DEFINE a == Head(fifo[<<"ethernet_mux", "arp">>])
           reply == To("ethernet_mux", ArpReply(a))
           sends == IF a.op = "request" /\ a.tip = Own THEN <<reply>> ELSE <<>>
<1>1. /\ fifo[<<"ethernet_mux", "arp">>] # <<>>
      /\ Handle("arp", "ethernet_mux", sends) /\ UNCHANGED <<arrived, wire>>
      /\ cache' = IF a.op \in {"request", "reply"} THEN Update(a.sip, a.shw) ELSE cache
  BY DEF ArpFromNetwork, Event
<1>2. a \in Range(arrived) /\ a.type = "arp"
  <2>1. Good("ethernet_mux", "arp", a)
    BY <1>1, MuxLinks, HeadGood
  <2> HIDE DEF a
  <2> QED
    BY <2>1 DEF Good
<1>3. CacheTold'
  <2> HIDE DEF a
  <2>1. \A ip, hw : Told(ip, hw)' <=> Told(ip, hw)
    BY <1>1 DEF Told
  <2>2. a.op \in {"request", "reply"} => Told(a.sip, a.shw)
    BY <1>2 DEF Told, Announces
  <2>3. ASSUME NEW e \in cache' PROVE e \in cache \/ (a.op \in {"request", "reply"} /\ e = <<a.sip, a.shw>>)
    BY <1>1 DEF Update
  <2> QED
    BY <2>1, <2>2, <2>3 DEF Origin, CacheTold
<1>4. Good("arp", reply.to, reply.object)
  BY DEF To, Good, ArpReply, FrameTold
<1>5. Queue(sends) /\ \A o \in Range(sends) : Good("arp", o.to, o.object)
  <2>1. sends = <<>> \/ sends = <<reply>>
    OBVIOUS
  <2> HIDE DEF reply, sends
  <2> QED
    BY <1>4, <2>1, QueueLiterals
<1> HIDE DEF sends
<1>6. FifosGood' /\ OutsGood' /\ Queue(arrived)'
  BY <1>1, <1>5, HandleOrigin
<1> QED
  BY <1>1, <1>3, <1>6 DEF Origin, WireTold, FrameTold, Told

(* Questions and packets for the modules above say nothing of addresses.    *)
LEMMA IpAboveOrigin ==
  ASSUME Origin, NEW from, fifo[<<from, "ip">>] # <<>>, NEW m \in {"arp", "ip_mux"}, NEW x,
         Handle("ip", from, <<To(m, x)>>) \/ Handle("ip", from, <<>>),
         UNCHANGED <<arrived, cache, wire>>
  PROVE  Origin'
<1>1. Good("ip", To(m, x).to, To(m, x).object)
  BY DEF To, Good
<1>2. PICK sends : (sends = <<To(m, x)>> \/ sends = <<>>) /\ Handle("ip", from, sends)
  OBVIOUS
<1>3. Queue(sends) /\ \A o \in Range(sends) : Good("ip", o.to, o.object)
  BY <1>1, <1>2, QueueLiterals
<1> QED
  BY <1>2, <1>3, PlainOrigin

LEMMA IpOrigin ==
  ASSUME Origin, IpFromNetwork \/ IpFromMux
  PROVE  Origin'
<1>1. CASE IpFromNetwork
  <2>1. fifo[<<"ethernet_mux", "ip">>] # <<>> /\ UNCHANGED <<arrived, cache, wire>>
    BY <1>1 DEF IpFromNetwork, Event
  <2>2. \E x : \E m \in {"arp", "ip_mux"} :
          Handle("ip", "ethernet_mux", <<To(m, x)>>) \/ Handle("ip", "ethernet_mux", <<>>)
    BY <1>1 DEF IpFromNetwork, Ask
  <2> QED
    BY <2>1, <2>2, IpAboveOrigin
<1>2. CASE IpFromMux
  <2>1. fifo[<<"ip_mux", "ip">>] # <<>> /\ UNCHANGED <<arrived, cache, wire>>
    BY <1>2 DEF IpFromMux, Event
  <2>2. \E x : Handle("ip", "ip_mux", <<To("arp", x)>>)
    BY <1>2 DEF IpFromMux, Ask
  <2> QED
    BY <2>1, <2>2, IpAboveOrigin
<1> QED
  BY <1>1, <1>2

(* The frame of a packet has the address of the answer, which is about the  *)
(* destination of that packet: here the two halves of the proof meet.       *)
LEMMA SendPacketOrigin ==
  ASSUME Exchange, Origin, SendPacket
  PROVE  Origin'
<1> DEFINE p == CHOOSE q \in asking : TRUE
           resp == Head(fifo[Response])
           frame == To("ethernet_mux", IpFrame(resp.hw, p))
           sends == IF resp.hw # Blank \/ p.dst = Broadcast THEN <<frame>> ELSE <<>>
<1>1. /\ fifo[<<"arp", "ip">>] # <<>> /\ Handle("ip", "arp", sends)
      /\ UNCHANGED <<arrived, cache, wire>>
  BY DEF SendPacket, Response
<1>2. resp.ip = p.dst
  BY SendPacketAnswered DEF SendPacket, Response
<1>3. AnswerTold(resp)
  <2>1. Good("arp", "ip", resp)
    BY <1>1, ArpLinks, HeadGood DEF Response
  <2> HIDE DEF resp
  <2> QED
    BY <2>1 DEF Good
<1>4. resp.hw # Blank \/ p.dst = Broadcast => Good("ip", frame.to, frame.object)
  <2>1. p.dst \in Peers => p.dst # Broadcast
    BY IpStackAssumption
  <2> HIDE DEF resp, p
  <2> QED
    BY <1>2, <1>3, <2>1 DEF To, Good, IpFrame, FrameTold, AnswerTold
<1>5. Queue(sends) /\ \A o \in Range(sends) : Good("ip", o.to, o.object)
  <2>1. sends = <<>> \/ (sends = <<frame>> /\ (resp.hw # Blank \/ p.dst = Broadcast))
    OBVIOUS
  <2> HIDE DEF frame, sends, resp, p
  <2> QED
    BY <1>4, <2>1, QueueLiterals
<1> HIDE DEF sends
<1> QED
  BY <1>1, <1>5, PlainOrigin

(* What arrives is remembered, and what was told before still is.           *)
LEMMA ArriveOrigin ==
  ASSUME Origin, NEW f \in Frames, Arrive(f)
  PROVE  Origin'
<1> DEFINE link == <<"dd", "ethernet_mux">>
<1>1. PICK g : /\ fifo' = [fifo EXCEPT ![link] = Append(@, g)]
               /\ arrived' = Append(arrived, g)
               /\ UNCHANGED <<out, cache, wire>>
  BY DEF Arrive
<1>2. Queue(arrived)' /\ Range(arrived') = Range(arrived) \cup {g}
  BY <1>1, QueueAppend DEF Origin
<1>3. \A ip, hw : Told(ip, hw) => Told(ip, hw)'
  BY <1>2 DEF Told
<1>4. \A a, b, x : Good(a, b, x) => Good(a, b, x)'
  BY <1>2, <1>3 DEF Good, AnswerTold, FrameTold
<1>5. FifosGood'
  <2>1. DOMAIN fifo' = Links
    BY <1>1 DEF Origin, FifosGood
  <2>2. ASSUME NEW l \in Links
        PROVE  Queue(fifo'[l]) /\ \A x \in Range(fifo'[l]) : Good(l[1], l[2], x)'
    <3>1. Queue(fifo[l]) /\ \A x \in Range(fifo[l]) : Good(l[1], l[2], x)'
      BY <1>4 DEF Origin, FifosGood
    <3>2. CASE l # link
      BY <1>1, <3>1, <3>2 DEF Origin, FifosGood
    <3>3. CASE l = link
      <4>1. fifo'[l] = Append(fifo[l], g)
        BY <1>1, <3>3 DEF Origin, FifosGood
      <4>2. Good(l[1], l[2], g)'
        BY <1>2, <3>3 DEF Good
      <4> QED
        BY <3>1, <4>1, <4>2, QueueAppend
    <3> QED
      BY <3>2, <3>3
  <2> QED
    BY <2>1, <2>2 DEF FifosGood
<1>6. OutsGood'
  BY <1>1, <1>4 DEF Origin, OutsGood
<1>7. CacheTold' /\ WireTold'
  BY <1>1, <1>3 DEF Origin, CacheTold, WireTold, FrameTold
<1> QED
  BY <1>2, <1>5, <1>6, <1>7 DEF Origin

LEMMA TransmitOrigin ==
  ASSUME Origin, Transmit
  PROVE  Origin'
<1> DEFINE f == Head(fifo[<<"ethernet_mux", "dd">>])
<1>1. /\ fifo[<<"ethernet_mux", "dd">>] # <<>> /\ Handle("dd", "ethernet_mux", <<>>)
      /\ UNCHANGED <<arrived, cache>> /\ wire' = wire \cup {f}
  BY DEF Transmit, Event
<1>2. FrameTold(f)
  <2>1. Good("ethernet_mux", "dd", f)
    BY <1>1, MuxLinks, HeadGood
  <2> HIDE DEF f
  <2> QED
    BY <2>1 DEF Good
<1>3. FifosGood' /\ OutsGood' /\ Queue(arrived)'
  BY <1>1, QueueLiterals, HandleOrigin
<1> HIDE DEF f
<1> QED
  BY <1>1, <1>2, <1>3 DEF Origin, CacheTold, WireTold, FrameTold, Told

LEMMA StepOrigin ==
  ASSUME Exchange, Origin, [Next]_vars
  PROVE  Origin'
<1>1. ASSUME NEW m \in Modules, MinetSend(m) PROVE Origin'
  BY <1>1, SendOrigin
<1>2. ASSUME NEW from \in {"dd", "arp", "ip"}, ethernet_mux(from) PROVE Origin'
  BY <1>2, MuxOrigin
<1>3. ASSUME ArpFromIp \/ ArpFromNetwork PROVE Origin'
  BY <1>3, ArpFromIpOrigin, ArpFromNetworkOrigin
<1>4. ASSUME IpFromNetwork \/ IpFromMux \/ SendPacket PROVE Origin'
  BY <1>4, IpOrigin, SendPacketOrigin
<1>5. ASSUME IpMuxFromIp PROVE Origin'
  <2> DEFINE p == Head(fifo[<<"ip", "ip_mux">>])
             above == Protocol(p.kind)
             sends == IF above \in handled THEN <<To(above, p)>>
                      ELSE IF above = "ipother" THEN <<To("ip", ICMPError(p))>> ELSE <<>>
  <2>1. /\ fifo[<<"ip", "ip_mux">>] # <<>> /\ Handle("ip_mux", "ip", sends)
        /\ UNCHANGED <<arrived, cache, wire>>
    BY <1>5 DEF IpMuxFromIp, Event
  <2>2. Queue(sends)
    BY QueueLiterals
  <2> HIDE DEF sends
  <2> QED
    BY <2>1, <2>2, OtherOrigin
<1>6. ASSUME NEW m \in {"udp", "icmp"}, IpMuxFromAbove(m) PROVE Origin'
  BY <1>6, OtherOrigin, QueueLiterals DEF IpMuxFromAbove, Event
<1>7. ASSUME NEW m \in {"udp", "icmp"}, NEW x, NEW c \in BOOLEAN,
             Event(m, "ip_mux"), Handle(m, "ip_mux", IF c THEN <<x>> ELSE <<>>),
             UNCHANGED <<arrived, cache, wire>>
      PROVE  Origin'
  <2>1. Queue(IF c THEN <<x>> ELSE <<>>)
    BY QueueLiterals
  <2> QED
    BY <1>7, <2>1, OtherOrigin DEF Event
<1>8. ASSUME UdpFromMux PROVE Origin'
  BY <1>7, <1>8 DEF UdpFromMux
<1>9. ASSUME IcmpFromMux PROVE Origin'
  BY <1>7, <1>9 DEF IcmpFromMux
<1>10. ASSUME other_module \/ ipother_module PROVE Origin'
  BY <1>10, OtherOrigin, QueueLiterals DEF other_module, ipother_module, Swallow, Event
<1>11. ASSUME Transmit PROVE Origin'
  BY <1>11, TransmitOrigin
<1>12. ASSUME NEW f \in Frames, Arrive(f) PROVE Origin'
  BY <1>12, ArriveOrigin
<1>13. ASSUME UNCHANGED <<fifo, cache, arrived, wire>>,
              OutsGood'
       PROVE  Origin'
  BY <1>13 DEF Origin, FifosGood, CacheTold, WireTold, Queue, Good, AnswerTold, FrameTold, Told
<1>14. ASSUME NEW dst \in Peers \cup {Broadcast}, UdpFromSock(dst) PROVE Origin'
  <2>1. PICK x : out' = [out EXCEPT !["udp"] = <<To("ip_mux", x)>>]
    BY <1>14 DEF UdpFromSock
  <2>2. UNCHANGED <<fifo, cache, arrived, wire>>
    BY <1>14 DEF UdpFromSock
  <2>3. \A a, b, y : Good(a, b, y)' <=> Good(a, b, y)
    BY <2>2 DEF Good, AnswerTold, FrameTold, Told
  <2>4. \A o \in Range(<<To("ip_mux", x)>>) : Good("udp", o.to, o.object)
    BY DEF Good
  <2>5. OutsGood'
    BY <2>1, <2>3, <2>4, QueueLiterals DEF Origin, OutsGood
  <2> QED
    BY <1>13, <2>2, <2>5
<1>15. CASE UNCHANGED vars
  <2>1. OutsGood'
    BY <1>15 DEF vars, Origin, OutsGood, Good, AnswerTold, FrameTold, Told, Queue
  <2> QED
    BY <1>13, <1>15, <2>1 DEF vars
<1> QED
  BY <1>1, <1>2, <1>3, <1>4, <1>5, <1>6, <1>8, <1>9, <1>10, <1>11, <1>12, <1>14, <1>15
     DEF Next, Step

LEMMA InitOrigin == Init => Origin
<1> SUFFICES ASSUME Init PROVE Origin
  OBVIOUS
<1>1. FifosGood
  BY QueueLiterals DEF Init, FifosGood
<1>2. OutsGood
  BY QueueLiterals DEF Init, OutsGood
<1>3. CacheTold
  BY IpStackAssumption DEF Init, CacheTold
<1> QED
  BY <1>1, <1>2, <1>3, QueueLiterals DEF Init, Origin, WireTold

(* A packet for another host only ever leaves in a frame to a hardware      *)
(* address that this host announced: through the cache, which anybody on    *)
(* the network may overwrite, and the exchange of question and answer.      *)
THEOREM FramesGoWhereAnnounced == Spec => []SentToAnnounced
<1>1. Origin => SentToAnnounced
  BY DEF Origin, WireTold, FrameTold, Told, SentToAnnounced, Range
<1> QED
  BY <1>1, InitExchange, StepExchange, InitOrigin, StepOrigin, PTL DEF Spec

-----------------------------------------------------------------------------
(* What a step moves, whatever the objects are: a send takes one from what  *)
(* is still to be sent to a FIFO, a handler takes one from a FIFO.          *)
Queues ==
  /\ DOMAIN fifo = Links /\ \A l \in Links : Queue(fifo[l])
  /\ DOMAIN out = Modules /\ \A m \in Modules : Queue(out[m])

LEMMA SendMoves ==
  ASSUME Queues, NEW m \in Modules, MinetSend(m)
  PROVE  /\ Queues'
         /\ \A l \in Links : \A x \in Range(fifo'[l]) :
              x \in Range(fifo[l])
                \/ (l = <<m, Head(out[m]).to>> /\ x = Head(out[m]).object /\ Head(out[m]) \in Range(out[m]))
         /\ \A k \in Modules : Range(out'[k]) \subseteq Range(out[k])
<1> DEFINE link == <<m, Head(out[m]).to>>
           x0 == Head(out[m]).object
<1>1. /\ out[m] # <<>>
      /\ fifo' = [fifo EXCEPT ![link] = Append(@, x0)]
      /\ out' = [out EXCEPT ![m] = Tail(@)]
  BY DEF MinetSend
<1>2. /\ Queue(Tail(out[m])) /\ Range(Tail(out[m])) \subseteq Range(out[m])
      /\ Head(out[m]) \in Range(out[m])
  BY <1>1, QueueTail DEF Queues
<1> HIDE DEF link, x0
<1>3. ASSUME NEW l \in Links
      PROVE  Queue(fifo'[l]) /\ \A x \in Range(fifo'[l]) : x \in Range(fifo[l]) \/ (l = link /\ x = x0)
  <2>1. CASE l # link
    BY <1>1, <2>1 DEF Queues
  <2>2. CASE l = link
    <3>1. fifo'[l] = Append(fifo[l], x0)
      BY <1>1, <2>2 DEF Queues
    <3> QED
      BY <2>2, <3>1, QueueAppend DEF Queues
  <2> QED
    BY <2>1, <2>2
<1>4. ASSUME NEW k \in Modules PROVE Queue(out'[k]) /\ Range(out'[k]) \subseteq Range(out[k])
  BY <1>1, <1>2 DEF Queues
<1>5. DOMAIN fifo' = Links /\ DOMAIN out' = Modules
  BY <1>1 DEF Queues
<1> QED
  BY <1>2, <1>3, <1>4, <1>5 DEF Queues, link, x0

LEMMA HandleMoves ==
  ASSUME Queues, NEW m, NEW from, NEW sends, Handle(m, from, sends),
         fifo[<<from, m>>] # <<>>, Queue(sends)
  PROVE  /\ Queues'
         /\ \A l \in Links : Range(fifo'[l]) \subseteq Range(fifo[l])
         /\ \A k \in Modules : Range(out'[k]) \subseteq Range(out[k])
                                 \/ (k = m /\ Range(out'[k]) = Range(sends))
<1>1. /\ fifo' = [fifo EXCEPT ![<<from, m>>] = Tail(@)]
      /\ out' = [out EXCEPT ![m] = sends]
  BY DEF Handle
<1>2. ASSUME NEW l \in Links PROVE Queue(fifo'[l]) /\ Range(fifo'[l]) \subseteq Range(fifo[l])
  <2>1. Queue(fifo[l])
    BY DEF Queues
  <2>2. fifo'[l] = fifo[l] \/ (fifo'[l] = Tail(fifo[l]) /\ fifo[l] # <<>>)
    BY <1>1 DEF Queues
  <2> QED
    BY <2>1, <2>2, QueueTail
<1>3. ASSUME NEW k \in Modules
      PROVE  Queue(out'[k]) /\ (Range(out'[k]) \subseteq Range(out[k]) \/ (k = m /\ Range(out'[k]) = Range(sends)))
  BY <1>1 DEF Queues
<1>4. DOMAIN fifo' = Links /\ DOMAIN out' = Modules
  BY <1>1 DEF Queues
<1> QED
  BY <1>2, <1>3, <1>4 DEF Queues

-----------------------------------------------------------------------------
(* What is on its way has the type its reader expects.                      *)
Upward(p) == p \in Packets({Own, Broadcast}) /\ p.src \in Peers
Downward(p) == p \in Packets(Peers \cup {Broadcast}) /\ p.src \in {Own, Broadcast}
Announcement(f) == f.type = "arp" => f.sip \in Peers /\ f.shw \in Hw
Received(f) == f.type = "ip" => f.packet \in Packets(Addresses) /\ f.packet.src \in Peers
Leaving(f) == f.type = "ip" => f.packet \in Packets(Peers \cup {Broadcast})
Answers == [ip : Peers \cup {Broadcast}, hw : Hw \cup {Blank}, flag : {"ok", "unknown"}]

Fits(a, b, x) ==
  /\ a = "dd" /\ b = "ethernet_mux" => Announcement(x) /\ Received(x)
  /\ a = "ethernet_mux" /\ b = "arp" => x.type = "arp" /\ Announcement(x)
  /\ a = "ethernet_mux" /\ b = "ip" => x.type = "ip" /\ Received(x)
  /\ a = "ip" /\ b = "arp" => x \in Peers \cup {Broadcast}
  /\ a = "arp" /\ b = "ip" => x \in Answers
  /\ a = "ip" /\ b = "ip_mux" => Upward(x)
  /\ a = "ip_mux" /\ b \in {"udp", "icmp"} => Upward(x)
  /\ a = "ip_mux" /\ b = "ip" => Downward(x)
  /\ a \in {"udp", "icmp"} /\ b = "ip_mux" => Downward(x)
  /\ a \in {"arp", "ip"} /\ b = "ethernet_mux" => Leaving(x)
  /\ a = "ethernet_mux" /\ b = "dd" => Leaving(x)

AllFit ==
  /\ \A l \in Links : \A x \in Range(fifo[l]) : Fits(l[1], l[2], x)
  /\ \A m \in Modules : \A o \in Range(out[m]) : Fits(m, o.to, o.object)

Typed ==
  /\ Queues /\ AllFit
  /\ handled \in Configs
  /\ \A p \in asking : Downward(p)
  /\ cache \subseteq (Peers \X Hw) \cup {<<Own, OwnHw>>}
  /\ \A f \in wire : Leaving(f)
  /\ number \in [frames : 0 .. MaxFrames, writes : 0 .. MaxWrites]

LEMMA FitSends ==
  ASSUME Typed, NEW m \in Modules, MinetSend(m)
  PROVE  Typed'
<1>1. UNCHANGED <<handled, asking, cache, wire, number>>
  BY DEF MinetSend
<1>2. AllFit' /\ Queues'
  <2>1. Queues /\ AllFit
    BY DEF Typed
  <2> QED
    BY <2>1, SendMoves DEF AllFit
<1> QED
  BY <1>1, <1>2 DEF Typed

LEMMA FitHandles ==
  ASSUME Typed, NEW m, NEW from, NEW sends, Handle(m, from, sends),
         fifo[<<from, m>>] # <<>>, Queue(sends), \A o \in Range(sends) : Fits(m, o.to, o.object)
  PROVE  AllFit' /\ Queues'
<1>1. Queues /\ AllFit
  BY DEF Typed
<1>2. /\ Queues'
      /\ \A l \in Links : Range(fifo'[l]) \subseteq Range(fifo[l])
      /\ \A k \in Modules : Range(out'[k]) \subseteq Range(out[k])
                              \/ (k = m /\ Range(out'[k]) = Range(sends))
  BY <1>1, HandleMoves
<1>3. \A l \in Links : \A x \in Range(fifo'[l]) : Fits(l[1], l[2], x)
  BY <1>1, <1>2 DEF AllFit
<1>4. \A k \in Modules : \A o \in Range(out'[k]) : Fits(k, o.to, o.object)
  BY <1>1, <1>2 DEF AllFit
<1> QED
  BY <1>2, <1>3, <1>4 DEF AllFit

(* A handler that sends nothing, or one object.                             *)
LEMMA FitHandlesOne ==
  ASSUME Typed, NEW m, NEW from, NEW sends, Handle(m, from, sends),
         fifo[<<from, m>>] # <<>>,
         sends = <<>> \/ \E b, x : sends = <<To(b, x)>> /\ Fits(m, b, x)
  PROVE  AllFit' /\ Queues'
<1>1. CASE sends = <<>>
  <2>1. Queue(sends) /\ Range(sends) = {}
    BY <1>1, QueueLiterals
  <2> QED
    BY <2>1, FitHandles
<1>2. ASSUME NEW b, NEW x, sends = <<To(b, x)>>, Fits(m, b, x)
      PROVE  AllFit' /\ Queues'
  <2>1. Queue(sends) /\ Range(sends) = {To(b, x)}
    BY <1>2, QueueLiterals
  <2>2. To(b, x).to = b /\ To(b, x).object = x
    BY DEF To
  <2> QED
    BY <1>2, <2>1, <2>2, FitHandles
<1> QED
  BY <1>1, <1>2

LEMMA HeadFits ==
  ASSUME Typed, NEW l \in Links, fifo[l] # <<>>
  PROVE  Fits(l[1], l[2], Head(fifo[l]))
BY QueueTail DEF Typed, Queues, AllFit

(* The links above ip_module.                                               *)
LEMMA UpperLinks ==
  /\ <<"ethernet_mux", "ip">> \in Links
  /\ <<"ip", "ip_mux">> \in Links /\ <<"ip_mux", "ip">> \in Links
  /\ <<"udp", "ip_mux">> \in Links /\ <<"ip_mux", "udp">> \in Links
  /\ <<"icmp", "ip_mux">> \in Links /\ <<"ip_mux", "icmp">> \in Links
  /\ "udp" \in Modules
<1>1. Modules = {"ethernet_mux", "arp", "ip", "ip_mux", "udp", "icmp", "ipother", "other", "dd"}
  BY DEF Modules, Opened
<1>2. /\ Opened["ip"][1] = "ethernet_mux" /\ Opened["ip"][3] = "ip_mux"
      /\ {1, 3} \subseteq DOMAIN Opened["ip"]
      /\ Opened["ip_mux"][1] = "ip" /\ Opened["ip_mux"][2] = "udp"
      /\ Opened["ip_mux"][3] = "icmp" /\ {1, 2, 3} \subseteq DOMAIN Opened["ip_mux"]
      /\ Opened["udp"][1] = "ip_mux" /\ 1 \in DOMAIN Opened["udp"]
      /\ Opened["icmp"][1] = "ip_mux" /\ 1 \in DOMAIN Opened["icmp"]
  BY DEF Opened
<1> QED
  BY <1>1, <1>2 DEF Links

LEMMA MuxFits ==
  ASSUME Typed, NEW from \in {"dd", "arp", "ip"}, ethernet_mux(from)
  PROVE  Typed'
<1> DEFINE f == Head(fifo[<<from, "ethernet_mux">>])
           sends == IF from = "dd" THEN <<To(Destination(f), f)>> ELSE <<To("dd", f)>>
<1>1. /\ fifo[<<from, "ethernet_mux">>] # <<>>
      /\ Handle("ethernet_mux", from, sends) /\ UNCHANGED <<handled, asking, cache, wire, number>>
  BY DEF ethernet_mux, Event
<1>2. Fits(from, "ethernet_mux", f)
  BY <1>1, MuxLinks, HeadFits
<1>3. \E b, x : sends = <<To(b, x)>> /\ Fits("ethernet_mux", b, x)
  <2>1. CASE from = "dd"
    <3>1. Announcement(f) /\ Received(f)
      BY <1>2, <2>1 DEF Fits
    <3>2. Fits("ethernet_mux", Destination(f), f)
      BY <3>1 DEF Fits, Destination
    <3>3. sends = <<To(Destination(f), f)>>
      BY <2>1
    <3> QED
      BY <3>2, <3>3
  <2>2. CASE from \in {"arp", "ip"}
    <3>1. Leaving(f)
      BY <1>2, <2>2 DEF Fits
    <3>2. Fits("ethernet_mux", "dd", f)
      BY <3>1 DEF Fits
    <3>3. sends = <<To("dd", f)>>
      BY <2>2
    <3> QED
      BY <3>2, <3>3
  <2> QED
    BY <2>1, <2>2
<1> HIDE DEF sends
<1>4. AllFit' /\ Queues'
  BY <1>1, <1>3, FitHandlesOne
<1> QED
  BY <1>1, <1>4 DEF Typed

LEMMA LookupTyped ==
  ASSUME Typed, NEW ip \in Peers \cup {Broadcast}
  PROVE  Lookup(ip) \in Answers
<1>1. \A hw \in Known(ip) : hw \in Hw
  <2> TAKE hw \in Known(ip)
  <2>1. <<ip, hw>> \in (Peers \X Hw) \cup {<<Own, OwnHw>>}
    BY DEF Known, Typed
  <2>2. ip # Own
    BY IpStackAssumption
  <2> QED
    BY <2>1, <2>2
<1>2. Known(ip) # {} => (CHOOSE hw \in Known(ip) : TRUE) \in Hw
  BY <1>1
<1> QED
  BY <1>2 DEF Lookup, Answers

LEMMA ArpFromIpFits ==
  ASSUME Typed, ArpFromIp
  PROVE  Typed'
<1> DEFINE ip == Head(fifo[<<"ip", "arp">>])
           answer == Lookup(ip)
           one == To("ip", answer)
           two == To("ethernet_mux", ArpRequest(ip))
           sends == IF answer.flag = "unknown" THEN <<one, two>> ELSE <<one>>
<1>1. /\ fifo[<<"ip", "arp">>] # <<>> /\ Handle("arp", "ip", sends)
      /\ UNCHANGED <<handled, asking, cache, wire, number>>
  BY DEF ArpFromIp, Event
<1>2. ip \in Peers \cup {Broadcast}
  <2>1. Fits("ip", "arp", ip)
    BY <1>1, ArpLinks, HeadFits DEF Question
  <2> QED
    BY <2>1 DEF Fits
<1>3. answer \in Answers
  BY <1>2, LookupTyped
<1>4. /\ one.to = "ip" /\ one.object = answer
      /\ two.to = "ethernet_mux" /\ two.object = ArpRequest(ip)
  BY DEF To
<1>5. Fits("arp", "ip", answer) /\ Fits("arp", "ethernet_mux", ArpRequest(ip))
  <2> HIDE DEF answer
  <2> QED
    BY <1>3 DEF Fits, ArpRequest, Leaving
<1>6. Queue(sends) /\ \A o \in Range(sends) : Fits("arp", o.to, o.object)
  <2>1. sends = <<one, two>> \/ sends = <<one>>
    OBVIOUS
  <2> HIDE DEF one, two, sends
  <2> QED
    BY <1>4, <1>5, <2>1, QueueLiterals
<1> HIDE DEF sends
<1>7. AllFit' /\ Queues'
  BY <1>1, <1>6, FitHandles
<1> QED
  BY <1>1, <1>7 DEF Typed

LEMMA ArpFromNetworkFits ==
  ASSUME Typed, ArpFromNetwork
  PROVE  Typed'
<1> DEFINE a == Head(fifo[<<"ethernet_mux", "arp">>])
           sends == IF a.op = "request" /\ a.tip = Own
                    THEN <<To("ethernet_mux", ArpReply(a))>> ELSE <<>>
<1>1. /\ fifo[<<"ethernet_mux", "arp">>] # <<>> /\ Handle("arp", "ethernet_mux", sends)
      /\ UNCHANGED <<handled, asking, wire, number>>
      /\ cache' = cache \/ cache' = Update(a.sip, a.shw)
  BY DEF ArpFromNetwork, Event
<1>2. a.sip \in Peers /\ a.shw \in Hw
  <2>1. Fits("ethernet_mux", "arp", a)
    BY <1>1, MuxLinks, HeadFits
  <2> QED
    BY <2>1 DEF Fits, Announcement
<1>3. cache' \subseteq (Peers \X Hw) \cup {<<Own, OwnHw>>}
  <2> HIDE DEF a
  <2>1. cache' \subseteq cache \cup {<<a.sip, a.shw>>}
    BY <1>1 DEF Update
  <2> QED
    BY <1>2, <2>1 DEF Typed
<1>4. sends = <<>> \/ \E b, x : sends = <<To(b, x)>> /\ Fits("arp", b, x)
  <2>1. Fits("arp", "ethernet_mux", ArpReply(a))
    BY DEF Fits, ArpReply, Leaving
  <2> QED
    BY <2>1
<1> HIDE DEF sends
<1>5. AllFit' /\ Queues'
  BY <1>1, <1>4, FitHandlesOne
<1> QED
  BY <1>1, <1>3, <1>5 DEF Typed

(* An error goes back to a host of the network.                             *)
LEMMA ErrorTyped ==
  ASSUME NEW p, p \in Packets(Addresses), p.src \in Peers
  PROVE  Downward(ICMPError(p))
BY DEF Downward, ICMPError, Packets, Kinds, Faults

LEMMA UpwardTyped ==
  ASSUME NEW p, Upward(p)
  PROVE  p \in Packets(Addresses) /\ p.src \in Peers
BY DEF Upward, Packets, Addresses

LEMMA RespondTyped ==
  ASSUME NEW p, Upward(p)
  PROVE  Downward(Respond(p)) /\ Respond(p).n = p.n
BY DEF Upward, Downward, Respond, Packets, Kinds

(* A packet that ip_module asks about is on its way down.                   *)
LEMMA AskFits ==
  ASSUME Typed, NEW from, NEW p, Downward(p), Ask(from, p), fifo[<<from, "ip">>] # <<>>,
         UNCHANGED <<handled, cache, wire, number>>
  PROVE  Typed'
<1>1. p.dst \in Peers \cup {Broadcast}
  BY DEF Downward, Packets
<1>2. Fits("ip", "arp", p.dst)
  BY <1>1 DEF Fits
<1>3. Handle("ip", from, <<To("arp", p.dst)>>) /\ asking' = {p}
  BY DEF Ask
<1>4. AllFit' /\ Queues'
  BY <1>2, <1>3, FitHandlesOne
<1> QED
  BY <1>3, <1>4 DEF Typed

LEMMA IpFromNetworkFits ==
  ASSUME Typed, IpFromNetwork
  PROVE  Typed'
<1> DEFINE p == Head(fifo[<<"ethernet_mux", "ip">>]).packet
<1>1. fifo[<<"ethernet_mux", "ip">>] # <<>> /\ UNCHANGED <<handled, cache, wire, number>>
  BY DEF IpFromNetwork, Event
<1>2. p \in Packets(Addresses) /\ p.src \in Peers
  <2>1. Fits("ethernet_mux", "ip", Head(fifo[<<"ethernet_mux", "ip">>]))
    BY <1>1, UpperLinks, HeadFits
  <2> QED
    BY <2>1 DEF Fits, Received
<1>3. CASE p.dst \in {Own, Broadcast} /\ Handle("ip", "ethernet_mux", <<To("ip_mux", p)>>) /\ asking' = {}
  <2>1. Fits("ip", "ip_mux", p)
    <3> HIDE DEF p
    <3> QED
      BY <1>2, <1>3 DEF Fits, Upward, Packets
  <2>2. AllFit' /\ Queues'
    BY <1>1, <1>3, <2>1, FitHandlesOne
  <2> QED
    BY <1>1, <1>3, <2>2 DEF Typed
<1>4. CASE Ask("ethernet_mux", ICMPError(p))
  BY <1>1, <1>2, <1>4, ErrorTyped, AskFits
<1>5. CASE Handle("ip", "ethernet_mux", <<>>) /\ asking' = {}
  <2>1. AllFit' /\ Queues'
    BY <1>1, <1>5, FitHandlesOne
  <2> QED
    BY <1>1, <1>5, <2>1 DEF Typed
<1> QED
  BY <1>3, <1>4, <1>5 DEF IpFromNetwork

LEMMA SendPacketFits ==
  ASSUME Typed, SendPacket
  PROVE  Typed'
<1> DEFINE p == CHOOSE q \in asking : TRUE
           resp == Head(fifo[<<"arp", "ip">>])
           sends == IF resp.hw # Blank \/ p.dst = Broadcast
                    THEN <<To("ethernet_mux", IpFrame(resp.hw, p))>> ELSE <<>>
<1>1. /\ fifo[<<"arp", "ip">>] # <<>> /\ Handle("ip", "arp", sends) /\ asking' = {}
      /\ asking # {} /\ UNCHANGED <<handled, cache, wire, number>>
  BY DEF SendPacket
<1>2. Downward(p)
  <2>1. p \in asking
    BY <1>1
  <2> HIDE DEF p
  <2> QED
    BY <2>1 DEF Typed
<1>3. sends = <<>> \/ \E b, x : sends = <<To(b, x)>> /\ Fits("ip", b, x)
  <2>1. Fits("ip", "ethernet_mux", IpFrame(resp.hw, p))
    <3> HIDE DEF p, resp
    <3> QED
      BY <1>2 DEF Fits, IpFrame, Leaving, Downward
  <2> QED
    BY <2>1
<1> HIDE DEF sends
<1>4. AllFit' /\ Queues'
  BY <1>1, <1>3, FitHandlesOne
<1> QED
  BY <1>1, <1>4 DEF Typed

LEMMA IpMuxFromIpFits ==
  ASSUME Typed, IpMuxFromIp
  PROVE  Typed'
<1> DEFINE p == Head(fifo[<<"ip", "ip_mux">>])
           above == Protocol(p.kind)
           sends == IF above \in handled THEN <<To(above, p)>>
                    ELSE IF above = "ipother" THEN <<To("ip", ICMPError(p))>> ELSE <<>>
<1>1. /\ fifo[<<"ip", "ip_mux">>] # <<>> /\ Handle("ip_mux", "ip", sends)
      /\ UNCHANGED <<handled, asking, cache, wire, number>>
  BY DEF IpMuxFromIp, Event
<1>2. Upward(p)
  <2>1. Fits("ip", "ip_mux", p)
    BY <1>1, UpperLinks, HeadFits
  <2> QED
    BY <2>1 DEF Fits
<1>3. Downward(ICMPError(p))
  BY <1>2, UpwardTyped, ErrorTyped
<1>4. above \in {"udp", "tcp", "icmp", "ipother"}
  BY DEF Protocol
<1>5. Fits("ip_mux", above, p) /\ Fits("ip_mux", "ip", ICMPError(p))
  <2> HIDE DEF p, above
  <2> QED
    BY <1>2, <1>3, <1>4 DEF Fits
<1>6. sends = <<>> \/ \E b, x : sends = <<To(b, x)>> /\ Fits("ip_mux", b, x)
  BY <1>5
<1> HIDE DEF sends
<1>7. AllFit' /\ Queues'
  BY <1>1, <1>6, FitHandlesOne
<1> QED
  BY <1>1, <1>7 DEF Typed

LEMMA TransportFits ==
  ASSUME Typed, UdpFromMux \/ IcmpFromMux
  PROVE  Typed'
<1>1. CASE UdpFromMux
  <2> DEFINE p == Head(fifo[<<"ip_mux", "udp">>])
             sends == IF p.kind = "udp_unknown" THEN <<To("ip_mux", ICMPError(p))>> ELSE <<>>
  <2>1. /\ fifo[<<"ip_mux", "udp">>] # <<>> /\ Handle("udp", "ip_mux", sends)
        /\ UNCHANGED <<handled, asking, cache, wire, number>>
    BY <1>1 DEF UdpFromMux, Event
  <2>2. Fits("ip_mux", "udp", p)
    BY <2>1, UpperLinks, HeadFits
  <2>3. Downward(ICMPError(p))
    BY <2>2, UpwardTyped, ErrorTyped DEF Fits
  <2>4. Fits("udp", "ip_mux", ICMPError(p))
    BY <2>3 DEF Fits
  <2>5. sends = <<>> \/ \E b, x : sends = <<To(b, x)>> /\ Fits("udp", b, x)
    BY <2>4
  <2> HIDE DEF sends
  <2>6. AllFit' /\ Queues'
    BY <2>1, <2>5, FitHandlesOne
  <2> QED
    BY <2>1, <2>6 DEF Typed
<1>2. CASE IcmpFromMux
  <2> DEFINE p == Head(fifo[<<"ip_mux", "icmp">>])
             sends == IF p.kind = "icmp_echo" THEN <<To("ip_mux", Respond(p))>> ELSE <<>>
  <2>1. /\ fifo[<<"ip_mux", "icmp">>] # <<>> /\ Handle("icmp", "ip_mux", sends)
        /\ UNCHANGED <<handled, asking, cache, wire, number>>
    BY <1>2 DEF IcmpFromMux, Event
  <2>2. Fits("ip_mux", "icmp", p)
    BY <2>1, UpperLinks, HeadFits
  <2>3. Downward(Respond(p))
    BY <2>2, RespondTyped DEF Fits
  <2>4. Fits("icmp", "ip_mux", Respond(p))
    BY <2>3 DEF Fits
  <2>5. sends = <<>> \/ \E b, x : sends = <<To(b, x)>> /\ Fits("icmp", b, x)
    BY <2>4
  <2> HIDE DEF sends
  <2>6. AllFit' /\ Queues'
    BY <2>1, <2>5, FitHandlesOne
  <2> QED
    BY <2>1, <2>6 DEF Typed
<1> QED
  BY <1>1, <1>2

(* What the network brings is of the three kinds that are assumed of it.    *)
LEMMA NumberTyped ==
  ASSUME NEW f \in Frames, number.frames \in 0 .. MaxFrames, number.frames < MaxFrames
  PROVE  /\ Announcement(Number(f)) /\ Received(Number(f))
         /\ Number(f).type = "ip" => Number(f).packet.n = number.frames + 1
<1> DEFINE k == number.frames + 1
<1>1. k \in 1 .. MaxFrames + MaxWrites
  BY IpStackAssumption
<1>2. CASE f \in [type : {"arp"}, op : {"request", "reply", "other"}, sip : Peers, shw : Hw,
                  tip : Addresses, n : {0}]
  <2>1. Number(f) = [f EXCEPT !.n = k]
    BY <1>2 DEF Number
  <2> QED
    BY <1>2, <2>1 DEF Announcement, Received
<1>3. CASE f \in [type : {"ip"},
                  packet : [kind : Kinds, src : Peers, dst : Addresses, fault : Faults, n : {0}]]
  <2>1. Number(f) = [f EXCEPT !.packet = [@ EXCEPT !.n = k]]
    BY <1>3 DEF Number
  <2> DEFINE q == [f.packet EXCEPT !.n = k]
  <2>2. q \in Packets(Addresses) /\ q.src \in Peers /\ q.n = k
    BY <1>1, <1>3 DEF Packets
  <2>3. Number(f).type = "ip" /\ Number(f).packet = q
    BY <1>3, <2>1
  <2> QED
    BY <2>2, <2>3 DEF Announcement, Received
<1>4. CASE f \in [type : {"unknown"}, n : {0}]
  <2>1. Number(f) = [f EXCEPT !.n = k]
    BY <1>4 DEF Number
  <2> QED
    BY <1>4, <2>1 DEF Announcement, Received
<1> QED
  BY <1>2, <1>3, <1>4, FramesAssumption

LEMMA ArriveFits ==
  ASSUME Typed, NEW f \in Frames, Arrive(f)
  PROVE  Typed'
<1> DEFINE link == <<"dd", "ethernet_mux">>
<1>1. /\ number.frames < MaxFrames /\ number' = [number EXCEPT !.frames = @ + 1]
      /\ fifo' = [fifo EXCEPT ![link] = Append(@, Number(f))]
      /\ UNCHANGED <<handled, out, asking, cache, wire>>
  BY DEF Arrive
<1>2. number' \in [frames : 0 .. MaxFrames, writes : 0 .. MaxWrites]
  BY <1>1, IpStackAssumption DEF Typed
<1>3. Fits("dd", "ethernet_mux", Number(f))
  BY <1>1, NumberTyped DEF Typed, Fits
<1>4. ASSUME NEW l \in Links PROVE Queue(fifo'[l]) /\ \A x \in Range(fifo'[l]) : Fits(l[1], l[2], x)
  <2>1. Queue(fifo[l]) /\ \A x \in Range(fifo[l]) : Fits(l[1], l[2], x)
    BY DEF Typed, Queues, AllFit
  <2>2. CASE l # link
    BY <1>1, <2>1, <2>2 DEF Typed, Queues
  <2>3. CASE l = link
    <3>1. fifo'[l] = Append(fifo[l], Number(f))
      BY <1>1, <2>3 DEF Typed, Queues
    <3> QED
      BY <1>3, <2>1, <2>3, <3>1, QueueAppend
  <2> QED
    BY <2>2, <2>3
<1>5. Queues' /\ AllFit'
  BY <1>1, <1>4 DEF Typed, Queues, AllFit
<1> QED
  BY <1>1, <1>2, <1>5 DEF Typed

LEMMA UdpFromSockFits ==
  ASSUME Typed, NEW dst \in Peers \cup {Broadcast}, UdpFromSock(dst)
  PROVE  Typed'
<1> DEFINE p == [kind |-> "udp", src |-> Own, dst |-> dst, fault |-> "none",
                 n |-> MaxFrames + number.writes + 1]
<1>1. /\ number.writes < MaxWrites /\ number' = [number EXCEPT !.writes = @ + 1]
      /\ out' = [out EXCEPT !["udp"] = <<To("ip_mux", p)>>]
      /\ UNCHANGED <<handled, fifo, asking, cache, wire>>
  BY DEF UdpFromSock
<1>2. number' \in [frames : 0 .. MaxFrames, writes : 0 .. MaxWrites]
  BY <1>1, IpStackAssumption DEF Typed
<1>3. Downward(p)
  <2>1. MaxFrames + number.writes + 1 \in 1 .. MaxFrames + MaxWrites
    BY <1>1, IpStackAssumption DEF Typed
  <2> QED
    BY <2>1 DEF Downward, Packets, Kinds, Faults
<1> HIDE DEF p
<1>4. To("ip_mux", p).to = "ip_mux" /\ To("ip_mux", p).object = p
  BY DEF To
<1>5. ASSUME NEW m \in Modules PROVE Queue(out'[m]) /\ \A o \in Range(out'[m]) : Fits(m, o.to, o.object)
  <2>1. CASE m # "udp"
    BY <1>1, <2>1 DEF Typed, Queues, AllFit
  <2>2. CASE m = "udp"
    <3>1. out'[m] = <<To("ip_mux", p)>>
      BY <1>1, <2>2 DEF Typed, Queues
    <3>2. Fits("udp", "ip_mux", p)
      BY <1>3 DEF Fits
    <3> QED
      BY <1>4, <2>2, <3>1, <3>2, QueueLiterals
  <2> QED
    BY <2>1, <2>2
<1>6. Queues' /\ AllFit'
  BY <1>1, <1>5 DEF Typed, Queues, AllFit
<1> QED
  BY <1>1, <1>2, <1>6 DEF Typed

LEMMA StepTyped ==
  ASSUME Typed, [Next]_vars
  PROVE  Typed'
<1>1. ASSUME NEW m \in Modules, MinetSend(m) PROVE Typed'
  BY <1>1, FitSends
<1>2. ASSUME NEW from \in {"dd", "arp", "ip"}, ethernet_mux(from) PROVE Typed'
  BY <1>2, MuxFits
<1>3. ASSUME ArpFromIp \/ ArpFromNetwork PROVE Typed'
  BY <1>3, ArpFromIpFits, ArpFromNetworkFits
<1>4. ASSUME IpFromNetwork \/ SendPacket PROVE Typed'
  BY <1>4, IpFromNetworkFits, SendPacketFits
<1>5. ASSUME IpFromMux PROVE Typed'
  <2>1. /\ fifo[<<"ip_mux", "ip">>] # <<>> /\ UNCHANGED <<handled, cache, wire, number>>
        /\ Ask("ip_mux", Head(fifo[<<"ip_mux", "ip">>]))
    BY <1>5 DEF IpFromMux, Event
  <2>2. Downward(Head(fifo[<<"ip_mux", "ip">>]))
    BY <2>1, UpperLinks, HeadFits DEF Fits
  <2> QED
    BY <2>1, <2>2, AskFits
<1>6. ASSUME IpMuxFromIp PROVE Typed'
  BY <1>6, IpMuxFromIpFits
<1>7. ASSUME NEW m \in {"udp", "icmp"}, IpMuxFromAbove(m) PROVE Typed'
  <2> DEFINE p == Head(fifo[<<m, "ip_mux">>])
  <2>1. /\ fifo[<<m, "ip_mux">>] # <<>> /\ Handle("ip_mux", m, <<To("ip", p)>>)
        /\ UNCHANGED <<handled, asking, cache, wire, number>>
    BY <1>7 DEF IpMuxFromAbove, Event
  <2>2. Fits(m, "ip_mux", p)
    BY <2>1, UpperLinks, HeadFits
  <2>3. Fits("ip_mux", "ip", p)
    <3> HIDE DEF p
    <3> QED
      BY <2>2 DEF Fits
  <2>4. AllFit' /\ Queues'
    BY <2>1, <2>3, FitHandlesOne
  <2> QED
    BY <2>1, <2>4 DEF Typed
<1>8. ASSUME UdpFromMux \/ IcmpFromMux PROVE Typed'
  BY <1>8, TransportFits
<1>9. ASSUME other_module \/ ipother_module PROVE Typed'
  <2>1. PICK m, from : /\ fifo[<<from, m>>] # <<>> /\ Handle(m, from, <<>>)
                       /\ UNCHANGED <<handled, asking, cache, wire, number>>
    BY <1>9 DEF other_module, ipother_module, Swallow, Event
  <2>2. AllFit' /\ Queues'
    BY <2>1, FitHandlesOne
  <2> QED
    BY <2>1, <2>2 DEF Typed
<1>10. ASSUME Transmit PROVE Typed'
  <2> DEFINE f == Head(fifo[<<"ethernet_mux", "dd">>])
  <2>1. /\ fifo[<<"ethernet_mux", "dd">>] # <<>> /\ Handle("dd", "ethernet_mux", <<>>)
        /\ wire' = wire \cup {f} /\ UNCHANGED <<handled, asking, cache, number>>
    BY <1>10 DEF Transmit, Event
  <2>2. Leaving(f)
    BY <2>1, MuxLinks, HeadFits DEF Fits
  <2>3. AllFit' /\ Queues'
    BY <2>1, FitHandlesOne
  <2> HIDE DEF f
  <2> QED
    BY <2>1, <2>2, <2>3 DEF Typed
<1>11. ASSUME NEW f \in Frames, Arrive(f) PROVE Typed'
  BY <1>11, ArriveFits
<1>12. ASSUME NEW dst \in Peers \cup {Broadcast}, UdpFromSock(dst) PROVE Typed'
  BY <1>12, UdpFromSockFits
<1>13. CASE UNCHANGED vars
  BY <1>13 DEF vars, Typed, Queues, AllFit
<1> QED
  BY <1>1, <1>2, <1>3, <1>4, <1>5, <1>6, <1>7, <1>8, <1>9, <1>10, <1>11, <1>12, <1>13
     DEF Next, Step

LEMMA InitTyped == Init => Typed
<1> SUFFICES ASSUME Init PROVE Typed
  OBVIOUS
<1>1. Queues /\ AllFit
  BY QueueLiterals DEF Init, Queues, AllFit
<1>2. number \in [frames : 0 .. MaxFrames, writes : 0 .. MaxWrites]
  BY IpStackAssumption DEF Init
<1> QED
  BY <1>1, <1>2 DEF Init, Typed

-----------------------------------------------------------------------------
(* A FIFO holds no more than it can, and no handler sends more than two     *)
(* objects.                                                                 *)
Bounded ==
  /\ \A l \in Links : Len(fifo[l]) \in 0 .. FifoSize
  /\ \A m \in Modules : Len(out[m]) \in 0 .. 2

LEMMA HandleBounded ==
  ASSUME Queues, Bounded, NEW m, NEW from, NEW sends, Handle(m, from, sends),
         fifo[<<from, m>>] # <<>>, Len(sends) \in 0 .. 2
  PROVE  Bounded'
<1>1. /\ fifo' = [fifo EXCEPT ![<<from, m>>] = Tail(@)]
      /\ out' = [out EXCEPT ![m] = sends]
  BY DEF Handle
<1>2. ASSUME NEW l \in Links PROVE Len(fifo'[l]) \in 0 .. FifoSize
  <2>1. CASE fifo'[l] = fifo[l]
    BY <2>1 DEF Bounded
  <2>2. CASE fifo'[l] = Tail(fifo[l]) /\ fifo[l] # <<>>
    <3>1. PICK S : fifo[l] \in Seq(S)
      BY DEF Queues, Queue
    <3>2. Len(fifo[l]) \in 1 .. FifoSize /\ Len(Tail(fifo[l])) = Len(fifo[l]) - 1
      BY <2>2, <3>1 DEF Bounded
    <3> QED
      BY <2>2, <3>2, IpStackAssumption
  <2> QED
    BY <1>1, <2>1, <2>2 DEF Queues
<1>3. \A k \in Modules : Len(out'[k]) \in 0 .. 2
  BY <1>1 DEF Queues, Bounded
<1> QED
  BY <1>2, <1>3 DEF Bounded

LEMMA StepBounded ==
  ASSUME Queues, Bounded, [Next]_vars
  PROVE  Bounded'
<1>1. ASSUME NEW m \in Modules, MinetSend(m) PROVE Bounded'
  <2> DEFINE link == <<m, Head(out[m]).to>>
             x0 == Head(out[m]).object
  <2>1. /\ out[m] # <<>> /\ Len(fifo[link]) < FifoSize
        /\ fifo' = [fifo EXCEPT ![link] = Append(@, x0)]
        /\ out' = [out EXCEPT ![m] = Tail(@)]
    BY <1>1 DEF MinetSend
  <2> HIDE DEF link, x0
  <2>2. ASSUME NEW l \in Links PROVE Len(fifo'[l]) \in 0 .. FifoSize
    <3>1. CASE l # link
      BY <2>1, <3>1 DEF Queues, Bounded
    <3>2. CASE l = link
      <4>1. fifo'[l] = Append(fifo[l], x0) /\ Len(fifo[l]) \in 0 .. FifoSize
        BY <2>1, <3>2 DEF Queues, Bounded
      <4>2. PICK S : fifo[l] \in Seq(S)
        BY DEF Queues, Queue
      <4>3. Len(Append(fifo[l], x0)) = Len(fifo[l]) + 1
        BY <4>2
      <4> QED
        BY <2>1, <3>2, <4>1, <4>3, IpStackAssumption
    <3> QED
      BY <3>1, <3>2
  <2>3. ASSUME NEW k \in Modules PROVE Len(out'[k]) \in 0 .. 2
    <3>1. CASE k # m
      BY <2>1, <3>1 DEF Queues, Bounded
    <3>2. CASE k = m
      <4>1. PICK S : out[m] \in Seq(S)
        BY DEF Queues, Queue
      <4>2. Len(out[m]) \in 1 .. 2 /\ Len(Tail(out[m])) = Len(out[m]) - 1
        BY <2>1, <4>1 DEF Bounded
      <4> QED
        BY <2>1, <3>2, <4>2 DEF Queues
    <3> QED
      BY <3>1, <3>2
  <2> QED
    BY <2>2, <2>3 DEF Bounded
<1>2. ASSUME NEW m, NEW from, NEW sends, Event(m, from) \/ fifo[<<from, m>>] # <<>>,
             Handle(m, from, sends),
             \/ sends = <<>> \/ (\E x : sends = <<x>>) \/ (\E x, y : sends = <<x, y>>)
      PROVE  Bounded'
  <2>1. Len(sends) \in 0 .. 2
    BY <1>2
  <2> QED
    BY <1>2, <2>1, HandleBounded DEF Event
<1>3. ASSUME NEW from \in {"dd", "arp", "ip"}, ethernet_mux(from) PROVE Bounded'
  BY <1>2, <1>3 DEF ethernet_mux
<1>4. ASSUME ArpFromIp PROVE Bounded'
  BY <1>2, <1>4 DEF ArpFromIp
<1>5. ASSUME ArpFromNetwork PROVE Bounded'
  BY <1>2, <1>5 DEF ArpFromNetwork
<1>6. ASSUME IpFromNetwork \/ IpFromMux PROVE Bounded'
  BY <1>2, <1>6 DEF IpFromNetwork, IpFromMux, Ask
<1>7. ASSUME SendPacket PROVE Bounded'
  BY <1>2, <1>7 DEF SendPacket
<1>8. ASSUME IpMuxFromIp PROVE Bounded'
  BY <1>2, <1>8 DEF IpMuxFromIp
<1>9. ASSUME NEW m \in {"udp", "icmp"}, IpMuxFromAbove(m) PROVE Bounded'
  BY <1>2, <1>9 DEF IpMuxFromAbove
<1>10. ASSUME UdpFromMux \/ IcmpFromMux PROVE Bounded'
  BY <1>2, <1>10 DEF UdpFromMux, IcmpFromMux
<1>11. ASSUME other_module \/ ipother_module \/ Transmit PROVE Bounded'
  BY <1>2, <1>11 DEF other_module, ipother_module, Swallow, Transmit
<1>12. ASSUME NEW f \in Frames, Arrive(f) PROVE Bounded'
  <2> DEFINE link == <<"dd", "ethernet_mux">>
  <2>1. /\ Len(fifo[link]) < FifoSize /\ out' = out
        /\ fifo' = [fifo EXCEPT ![link] = Append(@, Number(f))]
    BY <1>12 DEF Arrive
  <2>2. PICK S : fifo[link] \in Seq(S)
    BY MuxLinks DEF Queues, Queue
  <2>3. Len(Append(fifo[link], Number(f))) = Len(fifo[link]) + 1
    BY <2>2
  <2>4. Len(fifo[link]) \in 0 .. FifoSize
    BY MuxLinks DEF Bounded
  <2>5. Len(fifo[link]) + 1 \in 0 .. FifoSize
    BY <2>1, <2>4, IpStackAssumption
  <2> HIDE DEF link
  <2> QED
    BY <2>1, <2>3, <2>5 DEF Queues, Bounded
<1>13. ASSUME NEW dst \in Peers \cup {Broadcast}, UdpFromSock(dst) PROVE Bounded'
  <2>1. PICK x : out' = [out EXCEPT !["udp"] = <<x>>] /\ fifo' = fifo
    BY <1>13 DEF UdpFromSock
  <2> QED
    BY <2>1 DEF Queues, Bounded
<1>14. CASE UNCHANGED vars
  BY <1>14 DEF vars, Bounded
<1> QED
  BY <1>1, <1>3, <1>4, <1>5, <1>6, <1>7, <1>8, <1>9, <1>10, <1>11, <1>12, <1>13, <1>14
     DEF Next, Step

(* Every FIFO carries what its reader unserialises, is never overfull, and  *)
(* no module has more than two objects left to send: for every size of the  *)
(* FIFOs and whatever the other hosts send under their own addresses.       *)
THEOREM FifosWellTyped == Spec => []TypeOK
<1>1. Init => Bounded
  BY IpStackAssumption DEF Init, Bounded
<1>2. ASSUME Exchange, Typed, Bounded PROVE TypeOK
  <2>1. \A l \in Links : \A i \in DOMAIN fifo[l] : Fits(l[1], l[2], fifo[l][i])
    BY <1>2 DEF Typed, AllFit, Range
  <2>2. \A i \in DOMAIN fifo[Question] : fifo[Question][i] \in Peers \cup {Broadcast}
    BY <2>1, ArpLinks DEF Fits, Question
  <2>3. \A i \in DOMAIN fifo[Response] : fifo[Response][i] \in Answers
    BY <2>1, ArpLinks DEF Fits, Response
  <2>4. \A i \in DOMAIN fifo[<<"ip", "ip_mux">>] : Upward(fifo[<<"ip", "ip_mux">>][i])
    BY <2>1, UpperLinks DEF Fits
  <2>5. \A i \in DOMAIN fifo[<<"ip_mux", "ip">>] : Downward(fifo[<<"ip_mux", "ip">>][i])
    BY <2>1, UpperLinks DEF Fits
  <2>6. Cardinality(asking) =< 1
    <3>1. asking = {} \/ \E p : asking = {p}
      BY <1>2 DEF Exchange, Resting, Asking, Asked, Answering, Answered
    <3>2. CASE asking = {}
      BY <3>2, FS_EmptySet
    <3>3. ASSUME NEW p, asking = {p} PROVE Cardinality(asking) =< 1
      <4>1. Cardinality(asking) = 1
        BY <3>3, FS_Singleton
      <4> QED
        BY <4>1
    <3> QED
      BY <3>1, <3>2, <3>3
  <2>7. \A p \in asking : p \in Packets(Peers \cup {Broadcast})
    BY <1>2 DEF Typed, Downward
  <2>8. cache \subseteq (Peers \cup {Own}) \X (Hw \cup {OwnHw})
    BY <1>2 DEF Typed
  <2> QED
    BY <1>2, <2>2, <2>3, <2>4, <2>5, <2>6, <2>7, <2>8
       DEF TypeOK, Bounded, Question, Response, Answers, Upward, Downward
<1>3. Typed => Queues
  BY DEF Typed
<1> QED
  BY <1>1, <1>2, <1>3, InitExchange, StepExchange, InitTyped, StepTyped, StepBounded, PTL DEF Spec

-----------------------------------------------------------------------------
(* The numbers of what is on its way.  A packet keeps its number in         *)
(* whatever form it travels; questions, answers and ARP packets have none   *)
(* here (0), nor has what no answer can come of any more.                   *)
FrameNr(f) == IF f.type = "ip" THEN f.packet.n ELSE 0

OnFrameLink(a, b) ==
  \/ a \in {"dd", "arp", "ip"} /\ b = "ethernet_mux"
  \/ a = "ethernet_mux" /\ b \in {"ip", "dd"}
OnPacketLink(a, b) ==
  \/ a \in {"ip", "udp", "icmp"} /\ b = "ip_mux"
  \/ a = "ip_mux" /\ b \in {"ip", "udp", "icmp"}

Nr(a, b, x) == IF OnFrameLink(a, b) THEN FrameNr(x) ELSE IF OnPacketLink(a, b) THEN x.n ELSE 0

InFifo(l, k) == \E x \in Range(fifo[l]) : Nr(l[1], l[2], x) = k
InOut(m, k) == \E o \in Range(out[m]) : Nr(m, o.to, o.object) = k
InAsking(k) == \E p \in asking : p.n = k
OnWire(k) == \E f \in wire : FrameNr(f) = k

(* The places where a number may be.                                        *)
Holds(s, k) ==
  \/ \E l \in Links : s = <<"fifo", l>> /\ InFifo(l, k)
  \/ \E m \in Modules : s = <<"out", m>> /\ InOut(m, k)
  \/ s = <<"asking", "ip">> /\ InAsking(k)
  \/ s = <<"wire", "dd">> /\ OnWire(k)

Used == (1 .. number.frames) \cup (MaxFrames + 1 .. MaxFrames + number.writes)

(* A number is in one place at a time, and there once.                      *)
OnePlace == \A s, t, k : k # 0 /\ Holds(s, k) /\ Holds(t, k) => s = t
FifoOnce(l, q) ==
  \A i, j \in DOMAIN q : Nr(l[1], l[2], q[i]) = Nr(l[1], l[2], q[j]) /\ Nr(l[1], l[2], q[i]) # 0 => i = j
OutOnce(m, q) ==
  q = <<>> \/ (\E o : q = <<o>>) \/ \A o \in Range(q) : Nr(m, o.to, o.object) = 0
InUse == \A s, k : k # 0 /\ Holds(s, k) => k \in Used

Numbered ==
  /\ OnePlace /\ InUse
  /\ \A l \in Links : FifoOnce(l, fifo[l])
  /\ \A m \in Modules : OutOnce(m, out[m])
  /\ AtMostOneAnswer

LEMMA OnceTail ==
  ASSUME NEW l, NEW q, Queue(q), q # <<>>, FifoOnce(l, q)
  PROVE  /\ FifoOnce(l, Tail(q))
         /\ Nr(l[1], l[2], Head(q)) # 0
              => \A x \in Range(Tail(q)) : Nr(l[1], l[2], x) # Nr(l[1], l[2], Head(q))
<1>1. PICK S : q \in Seq(S)
  BY DEF Queue
<1>2. /\ Len(q) \in Nat \ {0} /\ DOMAIN q = 1 .. Len(q) /\ Head(q) = q[1] /\ 1 \in DOMAIN q
  BY <1>1
<1>3. /\ Tail(q) \in Seq(S) /\ Len(Tail(q)) = Len(q) - 1
      /\ \A i \in 1 .. Len(q) - 1 : Tail(q)[i] = q[i + 1]
  BY <1>1, <1>2
<1>4. DOMAIN Tail(q) = 1 .. Len(q) - 1
  BY <1>3
<1>5. \A i, j \in 1 .. Len(q) - 1 : /\ i + 1 \in 1 .. Len(q) /\ j + 1 \in 1 .. Len(q) /\ i + 1 # 1
                                    /\ (i + 1 = j + 1 => i = j)
  BY <1>2
<1>6. FifoOnce(l, Tail(q))
  BY <1>2, <1>3, <1>4, <1>5 DEF FifoOnce
<1>7. ASSUME Nr(l[1], l[2], Head(q)) # 0, NEW x \in Range(Tail(q))
      PROVE  Nr(l[1], l[2], x) # Nr(l[1], l[2], Head(q))
  <2>1. PICK i \in 1 .. Len(q) - 1 : x = Tail(q)[i]
    BY <1>4 DEF Range
  <2>2. x = q[i + 1] /\ i + 1 \in 1 .. Len(q) /\ i + 1 # 1
    BY <1>3, <1>5, <2>1
  <2> QED
    BY <1>2, <1>7, <2>2 DEF FifoOnce
<1> QED
  BY <1>6, <1>7

LEMMA OnceAppend ==
  ASSUME NEW l, NEW q, Queue(q), FifoOnce(l, q), NEW e,
         Nr(l[1], l[2], e) # 0 => \A x \in Range(q) : Nr(l[1], l[2], x) # Nr(l[1], l[2], e)
  PROVE  FifoOnce(l, Append(q, e))
<1> DEFINE t == Append(q, e)
<1>1. PICK S : q \in Seq(S)
  BY DEF Queue
<1>2. Len(q) \in Nat /\ DOMAIN q = 1 .. Len(q) /\ q \in Seq(S \cup {e})
  BY <1>1
<1>3. /\ t \in Seq(S \cup {e}) /\ Len(t) = Len(q) + 1
      /\ \A i \in 1 .. Len(q) : t[i] = q[i]
      /\ t[Len(q) + 1] = e
  BY <1>2
<1>4. DOMAIN t = 1 .. Len(q) + 1
  BY <1>3
<1> HIDE DEF t
<1>5. \A i \in 1 .. Len(q) + 1 : i \in 1 .. Len(q) \/ i = Len(q) + 1
  BY <1>2
<1>6. \A i \in 1 .. Len(q) : t[i] \in Range(q)
  BY <1>2, <1>3 DEF Range
<1>7. ASSUME NEW i \in DOMAIN t, NEW j \in DOMAIN t,
             Nr(l[1], l[2], t[i]) = Nr(l[1], l[2], t[j]), Nr(l[1], l[2], t[i]) # 0
      PROVE  i = j
  <2>1. CASE i \in 1 .. Len(q) /\ j \in 1 .. Len(q)
    BY <1>2, <1>3, <1>7, <2>1 DEF FifoOnce
  <2>2. CASE i = Len(q) + 1 /\ j \in 1 .. Len(q)
    BY <1>3, <1>6, <1>7, <2>2
  <2>3. CASE i \in 1 .. Len(q) /\ j = Len(q) + 1
    BY <1>3, <1>6, <1>7, <2>3
  <2> QED
    BY <1>4, <1>5, <2>1, <2>2, <2>3
<1>8. FifoOnce(l, t)
  BY <1>7 DEF FifoOnce
<1> QED
  BY <1>8 DEF t

(* What a step moves from src to dst, or creates at dst, is in one place.   *)
ToFifo(dst, n) ==
  \A l \in Links : \A k : k # 0 /\ InFifo(l, k)' => InFifo(l, k) \/ (dst = <<"fifo", l>> /\ k = n)
ToOut(dst, n) ==
  \A m \in Modules : \A k : k # 0 /\ InOut(m, k)' => InOut(m, k) \/ (dst = <<"out", m>> /\ k = n)
ToAsking(dst, n) ==
  \A k : k # 0 /\ InAsking(k)' => InAsking(k) \/ (dst = <<"asking", "ip">> /\ k = n)
ToWire(dst, n) ==
  \A k : k # 0 /\ OnWire(k)' => OnWire(k) \/ (dst = <<"wire", "dd">> /\ k = n)

Reaches(dst, n) == \A s, k : k # 0 /\ Holds(s, k)' => Holds(s, k) \/ (s = dst /\ k = n)
Leaves(src, n) == n # 0 => Holds(src, n) /\ ~ Holds(src, n)'

LEMMA ReachesOne ==
  ASSUME NEW dst, NEW n, ToFifo(dst, n), ToOut(dst, n), ToAsking(dst, n), ToWire(dst, n)
  PROVE  Reaches(dst, n)
BY DEF Holds, Reaches, ToFifo, ToOut, ToAsking, ToWire

LEMMA Moved ==
  ASSUME OnePlace, InUse, NEW src, NEW dst, NEW n,
         Reaches(dst, n), Leaves(src, n), UNCHANGED number
  PROVE  OnePlace' /\ InUse'
<1>1. OnePlace'
  <2> SUFFICES ASSUME NEW s, NEW t, NEW k, k # 0, Holds(s, k)', Holds(t, k)'
               PROVE  s = t
    BY DEF OnePlace
  <2>1. CASE k # n
    BY <2>1 DEF OnePlace, Reaches
  <2>2. CASE k = n
    <3>1. s # src /\ t # src
      BY <2>2 DEF Leaves
    <3>2. (Holds(s, k) => s = src) /\ (Holds(t, k) => t = src)
      BY <2>2 DEF OnePlace, Leaves
    <3> QED
      BY <3>1, <3>2 DEF Reaches
  <2> QED
    BY <2>1, <2>2
<1>2. InUse'
  <2>1. Used' = Used
    BY DEF Used
  <2> SUFFICES ASSUME NEW s, NEW k, k # 0, Holds(s, k)' PROVE k \in Used
    BY <2>1 DEF InUse
  <2> QED
    BY DEF InUse, Reaches, Leaves
<1> QED
  BY <1>1, <1>2

LEMMA Created ==
  ASSUME OnePlace, InUse, NEW dst, NEW n,
         Reaches(dst, n),
         n # 0 => n \notin Used /\ n \in Used', Used \subseteq Used'
  PROVE  OnePlace' /\ InUse'
<1>1. OnePlace'
  <2> SUFFICES ASSUME NEW s, NEW t, NEW k, k # 0, Holds(s, k)', Holds(t, k)'
               PROVE  s = t
    BY DEF OnePlace
  <2>1. CASE k # n
    BY <2>1 DEF OnePlace, Reaches
  <2>2. CASE k = n
    <3>1. ~ Holds(s, k) /\ ~ Holds(t, k)
      BY <2>2 DEF InUse
    <3> QED
      BY <2>2, <3>1 DEF Reaches
  <2> QED
    BY <2>1, <2>2
<1>2. InUse'
  <2> SUFFICES ASSUME NEW s, NEW k, k # 0, Holds(s, k)' PROVE k \in Used'
    BY DEF InUse
  <2> QED
    BY DEF InUse, Reaches, Leaves
<1> QED
  BY <1>1, <1>2

(* A handler takes a number from a FIFO, and it is there no more.           *)
LEMMA HandleNumbers ==
  ASSUME Queues, \A l \in Links : FifoOnce(l, fifo[l]),
         NEW m \in Modules, NEW from, <<from, m>> \in Links, NEW sends, Handle(m, from, sends),
         fifo[<<from, m>>] # <<>>, NEW n, n = Nr(from, m, Head(fifo[<<from, m>>]))
  PROVE  /\ \A l \in Links : FifoOnce(l, fifo'[l])
         /\ \A l \in Links : \A k : InFifo(l, k)' => InFifo(l, k)
         /\ n # 0 => Holds(<<"fifo", <<from, m>>>>, n) /\ ~ Holds(<<"fifo", <<from, m>>>>, n)'
         /\ \A k \in Modules : out'[k] = IF k = m THEN sends ELSE out[k]
<1> DEFINE link == <<from, m>>
<1>1. /\ fifo' = [fifo EXCEPT ![link] = Tail(@)] /\ out' = [out EXCEPT ![m] = sends]
      /\ link \in Links /\ link[1] = from /\ link[2] = m /\ fifo[link] # <<>> /\ Queue(fifo[link])
  BY DEF Handle, Queues
<1>2. fifo'[link] = Tail(fifo[link]) /\ \A l \in Links : l # link => fifo'[l] = fifo[l]
  BY <1>1 DEF Queues
<1>3. \A k \in Modules : out'[k] = IF k = m THEN sends ELSE out[k]
  BY <1>1 DEF Queues
<1>4. /\ FifoOnce(link, Tail(fifo[link]))
      /\ n # 0 => \A x \in Range(Tail(fifo[link])) : Nr(from, m, x) # n
      /\ Range(Tail(fifo[link])) \subseteq Range(fifo[link]) /\ Head(fifo[link]) \in Range(fifo[link])
  BY <1>1, OnceTail, QueueTail
<1>5. n # 0 => InFifo(link, n) /\ ~ InFifo(link, n)'
  <2>1. InFifo(link, n)
    BY <1>1, <1>4 DEF InFifo
  <2>2. ASSUME n # 0, InFifo(link, n)' PROVE FALSE
    <3>1. PICK x \in Range(fifo'[link]) : Nr(link[1], link[2], x) = n
      BY <2>2 DEF InFifo
    <3> QED
      BY <1>1, <1>2, <1>4, <2>2, <3>1
  <2> QED
    BY <2>1, <2>2
<1>6. n # 0 => Holds(<<"fifo", link>>, n) /\ ~ Holds(<<"fifo", link>>, n)'
  <2>1. \A l : <<"fifo", link>> = <<"fifo", l>> => l = link
    OBVIOUS
  <2> QED
    BY <1>1, <1>5, <2>1 DEF Holds
<1>7. \A l \in Links : FifoOnce(l, fifo'[l])
  BY <1>2, <1>4
<1>8. \A l \in Links : \A k : InFifo(l, k)' => InFifo(l, k)
  BY <1>2, <1>4 DEF InFifo
<1> QED
  BY <1>3, <1>6, <1>7, <1>8

(* A handler passes the number on to what it sends, or drops it.            *)
LEMMA HandleNumbered ==
  ASSUME Queues, Numbered,
         NEW m \in Modules, NEW from, <<from, m>> \in Links, NEW sends, Handle(m, from, sends),
         fifo[<<from, m>>] # <<>>, NEW n, n = Nr(from, m, Head(fifo[<<from, m>>])),
         OutOnce(m, sends), \A o \in Range(sends) : Nr(m, o.to, o.object) \in {0, n},
         asking' \subseteq asking, UNCHANGED <<wire, number>>
  PROVE  Numbered'
<1>1. \A l \in Links : FifoOnce(l, fifo[l])
  BY DEF Numbered
<1>2. /\ \A l \in Links : FifoOnce(l, fifo'[l])
      /\ \A l \in Links : \A k : InFifo(l, k)' => InFifo(l, k)
      /\ n # 0 => Holds(<<"fifo", <<from, m>>>>, n) /\ ~ Holds(<<"fifo", <<from, m>>>>, n)'
      /\ \A k \in Modules : out'[k] = IF k = m THEN sends ELSE out[k]
  BY <1>1, HandleNumbers
<1>3. \A k \in Modules : OutOnce(k, out'[k])
  BY <1>2 DEF Numbered
<1>4. Reaches(<<"out", m>>, n)
  <2>1. PICK dst : dst = <<"out", m>>
    OBVIOUS
  <2>2. ToFifo(dst, n)
    BY <1>2 DEF ToFifo
  <2>3. ToOut(dst, n)
    BY <1>2, <2>1 DEF InOut, ToOut
  <2>4. ToAsking(dst, n)
    BY DEF InAsking, ToAsking
  <2>5. ToWire(dst, n)
    BY DEF OnWire, ToWire
  <2> QED
    BY <2>1, <2>2, <2>3, <2>4, <2>5, ReachesOne
<1>5. OnePlace' /\ InUse'
  <2>1. OnePlace /\ InUse /\ number' = number
    BY DEF Numbered
  <2>2. PICK src, dst : src = <<"fifo", <<from, m>>>> /\ dst = <<"out", m>>
    OBVIOUS
  <2>3. Reaches(dst, n)
    BY <1>4, <2>2
  <2>4. Leaves(src, n)
    BY <1>2, <2>2 DEF Leaves
  <2> QED
    BY <2>1, <2>3, <2>4, Moved
<1>6. AtMostOneAnswer'
  BY DEF Numbered, AtMostOneAnswer
<1> QED
  BY <1>2, <1>3, <1>5, <1>6 DEF Numbered

(* ip_module keeps the packet, and asks: the question has no number.        *)
LEMMA AskNumbered ==
  ASSUME Queues, Numbered, NEW from, <<from, "ip">> \in Links, NEW p, Ask(from, p),
         fifo[<<from, "ip">>] # <<>>, p.n = Nr(from, "ip", Head(fifo[<<from, "ip">>])),
         UNCHANGED <<wire, number>>
  PROVE  Numbered'
<1> DEFINE sends == <<To("arp", p.dst)>>
<1>1. /\ \A l \in Links : FifoOnce(l, fifo[l])
      /\ Handle("ip", from, sends) /\ asking' = {p}
  BY DEF Numbered, Ask
<1>2. PICK n : n = p.n
  OBVIOUS
<1> HIDE DEF sends
<1>3. /\ \A l \in Links : FifoOnce(l, fifo'[l])
      /\ \A l \in Links : \A k : InFifo(l, k)' => InFifo(l, k)
      /\ n # 0 => Holds(<<"fifo", <<from, "ip">>>>, n) /\ ~ Holds(<<"fifo", <<from, "ip">>>>, n)'
      /\ \A k \in Modules : out'[k] = IF k = "ip" THEN sends ELSE out[k]
  BY <1>1, <1>2, ArpLinks, HandleNumbers
<1>4. (\E o : sends = <<o>>) /\ \A o \in Range(sends) : Nr("ip", o.to, o.object) = 0
  <2>1. To("arp", p.dst).to = "arp"
    BY DEF To
  <2>2. \A x : Nr("ip", "arp", x) = 0
    BY DEF Nr, OnFrameLink, OnPacketLink
  <2>3. Range(sends) = {To("arp", p.dst)}
    BY QueueLiterals DEF sends
  <2> QED
    BY <2>1, <2>2, <2>3 DEF sends
<1>5. \A k \in Modules : OutOnce(k, out'[k])
  BY <1>3, <1>4 DEF Numbered, OutOnce
<1>6. Reaches(<<"asking", "ip">>, n)
  <2>1. \A u \in Modules : \A k : k # 0 /\ InOut(u, k)' => InOut(u, k)
    BY <1>3, <1>4 DEF InOut
  <2>2. \A k : InAsking(k)' => k = n
    BY <1>1, <1>2 DEF InAsking
  <2>3. \A k : OnWire(k)' => OnWire(k)
    BY DEF OnWire
  <2> QED
    BY <1>3, <2>1, <2>2, <2>3 DEF Reaches, Holds
<1>7. OnePlace' /\ InUse'
  <2>1. OnePlace /\ InUse /\ number' = number
    BY DEF Numbered
  <2>2. PICK src, dst : src = <<"fifo", <<from, "ip">>>> /\ dst = <<"asking", "ip">>
    OBVIOUS
  <2>3. Reaches(dst, n)
    BY <1>6, <2>2
  <2>4. Leaves(src, n)
    BY <1>3, <2>2 DEF Leaves
  <2> QED
    BY <2>1, <2>3, <2>4, Moved
<1>8. AtMostOneAnswer'
  BY DEF Numbered, AtMostOneAnswer
<1> QED
  BY <1>3, <1>5, <1>7, <1>8 DEF Numbered

(* The packet that waited goes into the frame.                              *)
LEMMA SendPacketNumbered ==
  ASSUME Queues, Numbered, Exchange, SendPacket
  PROVE  Numbered'
<1> DEFINE sends(p) == IF Head(fifo[Response]).hw # Blank \/ p.dst = Broadcast
                       THEN <<To("ethernet_mux", IpFrame(Head(fifo[Response]).hw, p))>> ELSE <<>>
<1>1. PICK p : /\ p = (CHOOSE q \in asking : TRUE)
               /\ Handle("ip", "arp", sends(p)) /\ asking' = {} /\ fifo[Response] # <<>>
               /\ UNCHANGED <<wire, number>>
  BY DEF SendPacket, Response
<1>2. asking = {p}
  BY <1>1, SendPacketAnswered DEF SendPacket, Response, Answered
<1>3. PICK n : n = p.n
  OBVIOUS
<1>4. PICK s : s = sends(p)
  OBVIOUS
<1>5. OutOnce("ip", s) /\ \A o \in Range(s) : Nr("ip", o.to, o.object) = n
  <2>1. CASE s = <<>>
    BY <2>1, QueueLiterals DEF OutOnce
  <2>2. CASE \E hw : s = <<To("ethernet_mux", IpFrame(hw, p))>>
    <3>1. PICK hw : s = <<To("ethernet_mux", IpFrame(hw, p))>>
      BY <2>2
    <3>2. /\ To("ethernet_mux", IpFrame(hw, p)).to = "ethernet_mux"
          /\ To("ethernet_mux", IpFrame(hw, p)).object = IpFrame(hw, p)
      BY DEF To
    <3>3. Nr("ip", "ethernet_mux", IpFrame(hw, p)) = n
      BY <1>3 DEF Nr, OnFrameLink, FrameNr, IpFrame
    <3>4. Range(s) = {To("ethernet_mux", IpFrame(hw, p))}
      BY <3>1, QueueLiterals
    <3> QED
      BY <3>1, <3>2, <3>3, <3>4 DEF OutOnce
  <2> QED
    BY <1>4, <2>1, <2>2
<1>6. /\ \A l \in Links : FifoOnce(l, fifo[l])
      /\ Handle("ip", "arp", s) /\ <<"arp", "ip">> \in Links /\ fifo[<<"arp", "ip">>] # <<>>
  BY <1>1, <1>4, ArpLinks DEF Numbered, Response
<1> HIDE DEF sends
<1>7. /\ \A l \in Links : FifoOnce(l, fifo'[l])
      /\ \A l \in Links : \A k : InFifo(l, k)' => InFifo(l, k)
      /\ \A k \in Modules : out'[k] = IF k = "ip" THEN s ELSE out[k]
  <2>1. PICK n0 : n0 = Nr("arp", "ip", Head(fifo[<<"arp", "ip">>]))
    OBVIOUS
  <2> QED
    BY <1>6, <2>1, ArpLinks, HandleNumbers
<1>8. \A k \in Modules : OutOnce(k, out'[k])
  BY <1>5, <1>7 DEF Numbered
<1>9. Reaches(<<"out", "ip">>, n)
  <2>1. PICK dst : dst = <<"out", "ip">>
    OBVIOUS
  <2>2. ToFifo(dst, n)
    BY <1>7 DEF ToFifo
  <2>3. ToOut(dst, n)
    BY <1>5, <1>7, <2>1 DEF InOut, ToOut
  <2>4. ToAsking(dst, n)
    BY <1>1 DEF InAsking, ToAsking
  <2>5. ToWire(dst, n)
    BY <1>1 DEF OnWire, ToWire
  <2> QED
    BY <2>1, <2>2, <2>3, <2>4, <2>5, ReachesOne
<1>10. Holds(<<"asking", "ip">>, n) /\ ~ Holds(<<"asking", "ip">>, n)'
  <2>1. \A x : <<"asking", "ip">> # <<"fifo", x>> /\ <<"asking", "ip">> # <<"out", x>>
    OBVIOUS
  <2>2. <<"asking", "ip">> # <<"wire", "dd">>
    OBVIOUS
  <2>3. InAsking(n) /\ ~ InAsking(n)'
    BY <1>1, <1>2, <1>3 DEF InAsking
  <2> QED
    BY <2>1, <2>2, <2>3 DEF Holds
<1>11. OnePlace' /\ InUse'
  <2>1. OnePlace /\ InUse /\ number' = number
    BY <1>1 DEF Numbered
  <2>2. PICK src, dst : src = <<"asking", "ip">> /\ dst = <<"out", "ip">>
    OBVIOUS
  <2>3. Reaches(dst, n)
    BY <1>9, <2>2
  <2>4. Leaves(src, n)
    BY <1>10, <2>2 DEF Leaves
  <2> QED
    BY <2>1, <2>3, <2>4, Moved
<1>12. AtMostOneAnswer'
  BY <1>1 DEF Numbered, AtMostOneAnswer
<1> QED
  BY <1>7, <1>8, <1>11, <1>12 DEF Numbered

(* A number that reaches the wire was not there before.                     *)
LEMMA TransmitNumbered ==
  ASSUME Typed, Numbered, Transmit
  PROVE  Numbered'
<1>1. PICK f : /\ f = Head(fifo[<<"ethernet_mux", "dd">>])
               /\ fifo[<<"ethernet_mux", "dd">>] # <<>> /\ Handle("dd", "ethernet_mux", <<>>)
               /\ wire' = wire \cup {f} /\ UNCHANGED <<asking, number>>
  BY DEF Transmit, Event
<1>2. PICK n : n = FrameNr(f)
  OBVIOUS
<1>3. n = Nr("ethernet_mux", "dd", Head(fifo[<<"ethernet_mux", "dd">>]))
  BY <1>1, <1>2 DEF Nr, OnFrameLink
<1>4. Queues /\ \A l \in Links : FifoOnce(l, fifo[l])
  BY DEF Typed, Numbered
<1>5. "dd" \in Modules
  BY DEF Modules, Opened
<1>6. /\ \A l \in Links : FifoOnce(l, fifo'[l])
      /\ \A l \in Links : \A k : InFifo(l, k)' => InFifo(l, k)
      /\ n # 0 => /\ Holds(<<"fifo", <<"ethernet_mux", "dd">>>>, n)
                  /\ ~ Holds(<<"fifo", <<"ethernet_mux", "dd">>>>, n)'
      /\ \A k \in Modules : out'[k] = IF k = "dd" THEN <<>> ELSE out[k]
  BY <1>1, <1>3, <1>4, <1>5, MuxLinks, HandleNumbers
<1>7. \A k \in Modules : OutOnce(k, out'[k])
  BY <1>6 DEF Numbered, OutOnce
<1>8. Reaches(<<"wire", "dd">>, n)
  <2>1. \A u \in Modules : \A k : InOut(u, k)' => InOut(u, k)
    BY <1>6, QueueLiterals DEF InOut
  <2>2. \A k : OnWire(k)' => OnWire(k) \/ k = n
    BY <1>1, <1>2 DEF OnWire
  <2>3. \A k : InAsking(k)' => InAsking(k)
    BY <1>1 DEF InAsking
  <2> QED
    BY <1>6, <2>1, <2>2, <2>3 DEF Reaches, Holds
<1>9. OnePlace' /\ InUse'
  <2>1. OnePlace /\ InUse /\ number' = number
    BY <1>1 DEF Numbered
  <2>2. PICK src, dst : src = <<"fifo", <<"ethernet_mux", "dd">>>> /\ dst = <<"wire", "dd">>
    OBVIOUS
  <2>3. Reaches(dst, n)
    BY <1>8, <2>2
  <2>4. Leaves(src, n)
    BY <1>6, <2>2 DEF Leaves
  <2> QED
    BY <2>1, <2>3, <2>4, Moved
<1>10. f.type = "ip" => n = f.packet.n /\ n # 0
  <2>1. Leaving(f)
    BY <1>1, MuxLinks, HeadFits DEF Fits
  <2>2. f.type = "ip" => f.packet.n \in 1 .. MaxFrames + MaxWrites
    BY <2>1 DEF Leaving, Packets
  <2> QED
    BY <1>2, <2>2, IpStackAssumption DEF FrameNr
<1>11. ASSUME n # 0, NEW g \in wire PROVE FrameNr(g) # n
  <2>1. <<"wire", "dd">> # <<"fifo", <<"ethernet_mux", "dd">>>>
    OBVIOUS
  <2>2. FrameNr(g) = n => Holds(<<"wire", "dd">>, n)
    BY DEF Holds, OnWire
  <2> QED
    BY <1>6, <1>11, <2>1, <2>2 DEF Numbered, OnePlace
<1>12. AtMostOneAnswer'
  <2> SUFFICES ASSUME NEW g \in wire', NEW h \in wire', g.type = "ip", h.type = "ip",
                      g.packet.n = h.packet.n
               PROVE  g = h
    BY DEF AtMostOneAnswer
  <2>1. FrameNr(g) = g.packet.n /\ FrameNr(h) = g.packet.n
    BY DEF FrameNr
  <2>2. CASE g \in wire /\ h \in wire
    BY <2>2 DEF Numbered, AtMostOneAnswer
  <2>3. CASE g = f /\ h \in wire
    BY <1>10, <1>11, <2>1, <2>3
  <2>4. CASE g \in wire /\ h = f
    BY <1>10, <1>11, <2>1, <2>4
  <2> QED
    BY <1>1, <2>2, <2>3, <2>4
<1> QED
  BY <1>6, <1>7, <1>9, <1>12 DEF Numbered

(* A send takes a number from what is still to be sent to a FIFO.           *)
LEMMA SendNumbered ==
  ASSUME Queues, Numbered, NEW m \in Modules, MinetSend(m)
  PROVE  Numbered'
<1>1. PICK o, link, n :
        /\ o = Head(out[m]) /\ link = <<m, o.to>> /\ n = Nr(m, o.to, o.object)
        /\ out[m] # <<>>
        /\ fifo' = [fifo EXCEPT ![link] = Append(@, o.object)]
        /\ out' = [out EXCEPT ![m] = Tail(@)]
        /\ UNCHANGED <<asking, wire, number>>
  BY DEF MinetSend
<1>2. Queue(out[m]) /\ o \in Range(out[m]) /\ Range(Tail(out[m])) \subseteq Range(out[m])
  BY <1>1, QueueTail DEF Queues
<1>3. out'[m] = Tail(out[m]) /\ \A k \in Modules : k # m => out'[k] = out[k]
  BY <1>1 DEF Queues
<1>4. OutOnce(m, Tail(out[m])) /\ (n # 0 => \A x \in Range(Tail(out[m])) : Nr(m, x.to, x.object) # n)
  <2>1. OutOnce(m, out[m])
    BY DEF Numbered
  <2>2. CASE \E x : out[m] = <<x>>
    <3>1. Tail(out[m]) = <<>>
      BY <2>2
    <3> QED
      BY <3>1, QueueLiterals DEF OutOnce
  <2>3. CASE \A x \in Range(out[m]) : Nr(m, x.to, x.object) = 0
    BY <1>2, <2>3 DEF OutOnce
  <2> QED
    BY <1>1, <2>1, <2>2, <2>3 DEF OutOnce
<1>5. \A k \in Modules : OutOnce(k, out'[k])
  BY <1>3, <1>4 DEF Numbered
<1>6. n # 0 => Holds(<<"out", m>>, n) /\ ~ Holds(<<"out", m>>, n)'
  <2>1. InOut(m, n)
    BY <1>1, <1>2 DEF InOut
  <2>2. n # 0 => ~ InOut(m, n)'
    BY <1>3, <1>4 DEF InOut
  <2>3. \A l : <<"out", m>> # <<"fifo", l>> /\ (<<"out", m>> = <<"out", l>> => l = m)
    OBVIOUS
  <2>4. <<"out", m>> # <<"asking", "ip">> /\ <<"out", m>> # <<"wire", "dd">>
    OBVIOUS
  <2> QED
    BY <2>1, <2>2, <2>3, <2>4 DEF Holds
<1>7. ASSUME NEW l \in Links
      PROVE  /\ FifoOnce(l, fifo'[l])
             /\ \A k : k # 0 /\ InFifo(l, k)' => InFifo(l, k) \/ (l = link /\ k = n)
  <2>1. Queue(fifo[l]) /\ FifoOnce(l, fifo[l])
    BY DEF Queues, Numbered
  <2>2. CASE l # link
    BY <1>1, <2>1, <2>2 DEF Queues, InFifo
  <2>3. CASE l = link
    <3>1. fifo'[l] = Append(fifo[l], o.object)
      BY <1>1, <2>3 DEF Queues
    <3>2. l[1] = m /\ l[2] = o.to
      BY <1>1, <2>3
    <3>3. n # 0 => \A x \in Range(fifo[l]) : Nr(l[1], l[2], x) # n
      <4>1. n # 0 /\ InFifo(l, n) => Holds(<<"fifo", l>>, n)
        BY DEF Holds
      <4>2. <<"fifo", l>> # <<"out", m>>
        OBVIOUS
      <4> QED
        BY <1>6, <4>1, <4>2 DEF Numbered, OnePlace, InFifo
    <3>4. Nr(l[1], l[2], o.object) = n
      BY <1>1, <3>2
    <3>5. FifoOnce(l, fifo'[l])
      BY <2>1, <3>1, <3>3, <3>4, OnceAppend
    <3>6. Range(fifo'[l]) = Range(fifo[l]) \cup {o.object}
      BY <2>1, <3>1, QueueAppend
    <3> QED
      BY <2>3, <3>4, <3>5, <3>6 DEF InFifo
  <2> QED
    BY <2>2, <2>3
<1>8. Reaches(<<"fifo", link>>, n)
  <2>1. PICK dst : dst = <<"fifo", link>>
    OBVIOUS
  <2>2. ToFifo(dst, n)
    BY <1>7, <2>1 DEF ToFifo
  <2>3. ToOut(dst, n)
    BY <1>2, <1>3 DEF InOut, ToOut
  <2>4. ToAsking(dst, n)
    BY <1>1 DEF InAsking, ToAsking
  <2>5. ToWire(dst, n)
    BY <1>1 DEF OnWire, ToWire
  <2> QED
    BY <2>1, <2>2, <2>3, <2>4, <2>5, ReachesOne
<1>9. OnePlace' /\ InUse'
  <2>1. OnePlace /\ InUse /\ number' = number
    BY <1>1 DEF Numbered
  <2>2. PICK src, dst : src = <<"out", m>> /\ dst = <<"fifo", link>>
    OBVIOUS
  <2>3. Reaches(dst, n)
    BY <1>8, <2>2
  <2>4. Leaves(src, n)
    BY <1>6, <2>2 DEF Leaves
  <2> QED
    BY <2>1, <2>3, <2>4, Moved
<1>10. AtMostOneAnswer'
  BY <1>1 DEF Numbered, AtMostOneAnswer
<1> QED
  BY <1>5, <1>7, <1>9, <1>10 DEF Numbered

(* What arrives, and what an application sends, has a number of its own.    *)
LEMMA ArriveNumbered ==
  ASSUME Typed, Numbered, NEW f \in Frames, Arrive(f)
  PROVE  Numbered'
<1>1. PICK g, link, n :
        /\ g = Number(f) /\ link = <<"dd", "ethernet_mux">> /\ n = FrameNr(g)
        /\ number.frames < MaxFrames /\ number' = [number EXCEPT !.frames = @ + 1]
        /\ fifo' = [fifo EXCEPT ![link] = Append(@, g)]
        /\ UNCHANGED <<out, asking, wire>>
  BY DEF Arrive
<1>2. number \in [frames : 0 .. MaxFrames, writes : 0 .. MaxWrites]
  BY DEF Typed
<1>3. n = 0 \/ n = number.frames + 1
  BY <1>1, <1>2, NumberTyped DEF FrameNr
<1>4. n # 0 => n \notin Used /\ n \in Used'
  BY <1>1, <1>2, <1>3, IpStackAssumption DEF Used
<1>5. Used \subseteq Used'
  BY <1>1, <1>2, IpStackAssumption DEF Used
<1>6. \A x : Nr(link[1], link[2], x) = FrameNr(x)
  BY <1>1 DEF Nr, OnFrameLink
<1>7. ASSUME NEW l \in Links
      PROVE  /\ FifoOnce(l, fifo'[l])
             /\ \A k : k # 0 /\ InFifo(l, k)' => InFifo(l, k) \/ (l = link /\ k = n)
  <2>1. Queue(fifo[l]) /\ FifoOnce(l, fifo[l])
    BY DEF Typed, Queues, Numbered
  <2>2. CASE l # link
    BY <1>1, <2>1, <2>2 DEF Typed, Queues, InFifo
  <2>3. CASE l = link
    <3>1. fifo'[l] = Append(fifo[l], g)
      BY <1>1, <2>3 DEF Typed, Queues
    <3>2. n # 0 => \A x \in Range(fifo[l]) : Nr(l[1], l[2], x) # n
      <4>1. InFifo(l, n) => Holds(<<"fifo", l>>, n)
        BY DEF Holds
      <4> QED
        BY <1>4, <4>1 DEF Numbered, InUse, InFifo
    <3>3. Nr(l[1], l[2], g) = n
      BY <1>1, <1>6, <2>3
    <3>4. FifoOnce(l, fifo'[l])
      BY <2>1, <3>1, <3>2, <3>3, OnceAppend
    <3>5. Range(fifo'[l]) = Range(fifo[l]) \cup {g}
      BY <2>1, <3>1, QueueAppend
    <3> QED
      BY <2>3, <3>3, <3>4, <3>5 DEF InFifo
  <2> QED
    BY <2>2, <2>3
<1>8. PICK dst : dst = <<"fifo", link>>
  OBVIOUS
<1>9. Reaches(dst, n)
  <2>1. ToFifo(dst, n)
    BY <1>7, <1>8 DEF ToFifo
  <2>2. ToOut(dst, n) /\ ToAsking(dst, n) /\ ToWire(dst, n)
    BY <1>1 DEF ToOut, ToAsking, ToWire, InOut, InAsking, OnWire
  <2> QED
    BY <2>1, <2>2, ReachesOne
<1>10. OnePlace /\ InUse
  BY DEF Numbered
<1>11. OnePlace' /\ InUse'
  BY <1>4, <1>5, <1>9, <1>10, Created
<1> QED
  BY <1>1, <1>7, <1>11 DEF Numbered, AtMostOneAnswer

LEMMA UdpFromSockNumbered ==
  ASSUME Typed, Numbered, NEW dst \in Peers \cup {Broadcast}, UdpFromSock(dst)
  PROVE  Numbered'
<1>1. PICK p, n :
        /\ p.n = n /\ n = MaxFrames + number.writes + 1
        /\ number.writes < MaxWrites /\ number' = [number EXCEPT !.writes = @ + 1]
        /\ out' = [out EXCEPT !["udp"] = <<To("ip_mux", p)>>]
        /\ UNCHANGED <<fifo, asking, wire>>
  BY DEF UdpFromSock
<1>2. number \in [frames : 0 .. MaxFrames, writes : 0 .. MaxWrites]
  BY DEF Typed
<1>3. n # 0 => n \notin Used /\ n \in Used'
  BY <1>1, <1>2, IpStackAssumption DEF Used
<1>4. Used \subseteq Used'
  BY <1>1, <1>2, IpStackAssumption DEF Used
<1>5. \A m \in Modules : out'[m] = IF m = "udp" THEN <<To("ip_mux", p)>> ELSE out[m]
  BY <1>1 DEF Typed, Queues
<1>6. \A o \in Range(<<To("ip_mux", p)>>) : Nr("udp", o.to, o.object) = n
  <2>1. To("ip_mux", p).to = "ip_mux" /\ To("ip_mux", p).object = p
    BY DEF To
  <2>2. Nr("udp", "ip_mux", p) = n
    BY <1>1 DEF Nr, OnFrameLink, OnPacketLink
  <2> QED
    BY <2>1, <2>2, QueueLiterals
<1>7. \A m \in Modules : OutOnce(m, out'[m])
  BY <1>5 DEF Numbered, OutOnce
<1>8. PICK d : d = <<"out", "udp">>
  OBVIOUS
<1>9. Reaches(d, n)
  <2>1. ToOut(d, n)
    BY <1>5, <1>6, <1>8 DEF ToOut, InOut
  <2>2. ToFifo(d, n) /\ ToAsking(d, n) /\ ToWire(d, n)
    BY <1>1 DEF ToFifo, ToAsking, ToWire, InFifo, InAsking, OnWire
  <2> QED
    BY <2>1, <2>2, ReachesOne
<1>10. OnePlace /\ InUse
  BY DEF Numbered
<1>11. OnePlace' /\ InUse'
  BY <1>3, <1>4, <1>9, <1>10, Created
<1> QED
  BY <1>1, <1>7, <1>11 DEF Numbered, AtMostOneAnswer

(* A handler that sends nothing, or one object with the number of what it   *)
(* read or none.                                                            *)
LEMMA HandleOneNumbered ==
  ASSUME Typed, Numbered,
         NEW m \in Modules, NEW from, <<from, m>> \in Links, NEW sends, Handle(m, from, sends),
         fifo[<<from, m>>] # <<>>,
         \/ sends = <<>>
         \/ \E b, x : /\ sends = <<To(b, x)>>
                      /\ Nr(m, b, x) \in {0, Nr(from, m, Head(fifo[<<from, m>>]))},
         asking' \subseteq asking, UNCHANGED <<wire, number>>
  PROVE  Numbered'
<1>1. PICK n : n = Nr(from, m, Head(fifo[<<from, m>>]))
  OBVIOUS
<1>2. OutOnce(m, sends) /\ \A o \in Range(sends) : Nr(m, o.to, o.object) \in {0, n}
  <2>1. CASE sends = <<>>
    BY <2>1, QueueLiterals DEF OutOnce
  <2>2. ASSUME NEW b, NEW x, sends = <<To(b, x)>>, Nr(m, b, x) \in {0, n}
        PROVE  OutOnce(m, sends) /\ \A o \in Range(sends) : Nr(m, o.to, o.object) \in {0, n}
    <3>1. To(b, x).to = b /\ To(b, x).object = x /\ Range(sends) = {To(b, x)}
      BY <2>2, QueueLiterals DEF To
    <3> QED
      BY <2>2, <3>1 DEF OutOnce
  <2> QED
    BY <1>1, <2>1, <2>2
<1>3. Queues
  BY DEF Typed
<1> QED
  BY <1>1, <1>2, <1>3, HandleNumbered

LEMMA MuxNumbered ==
  ASSUME Typed, Numbered, NEW from \in {"dd", "arp", "ip"}, ethernet_mux(from)
  PROVE  Numbered'
<1>1. PICK f : /\ f = Head(fifo[<<from, "ethernet_mux">>]) /\ fifo[<<from, "ethernet_mux">>] # <<>>
               /\ Handle("ethernet_mux", from,
                         IF from = "dd" THEN <<To(Destination(f), f)>> ELSE <<To("dd", f)>>)
               /\ UNCHANGED <<asking, wire, number>>
  BY DEF ethernet_mux, Event
<1>2. Nr(from, "ethernet_mux", f) = FrameNr(f) /\ \A b : Nr("ethernet_mux", b, f) \in {0, FrameNr(f)}
  BY DEF Nr, OnFrameLink, OnPacketLink
<1>3. PICK b : Handle("ethernet_mux", from, <<To(b, f)>>)
  BY <1>1
<1>4. "ethernet_mux" \in Modules
  BY DEF Modules, Opened
<1> QED
  BY <1>1, <1>2, <1>3, <1>4, MuxLinks, HandleOneNumbered

(* Neither the answers nor the questions of arp_module have a number.       *)
LEMMA ArpNumbered ==
  ASSUME Typed, Numbered, ArpFromIp \/ ArpFromNetwork
  PROVE  Numbered'
<1>1. \A x : Nr("arp", "ip", x) = 0 /\ (x.type = "arp" => Nr("arp", "ethernet_mux", x) = 0)
  BY DEF Nr, OnFrameLink, OnPacketLink, FrameNr
<1>2. CASE ArpFromIp
  <2>1. PICK one, two, s :
          /\ one.to = "ip" /\ two.to = "ethernet_mux" /\ two.object.type = "arp"
          /\ s = <<one, two>> \/ s = <<one>>
          /\ Handle("arp", "ip", s) /\ fifo[<<"ip", "arp">>] # <<>>
          /\ UNCHANGED <<asking, wire, number>>
    <3> DEFINE ip == Head(fifo[<<"ip", "arp">>])
               one == To("ip", Lookup(ip))
               two == To("ethernet_mux", ArpRequest(ip))
               s == IF Lookup(ip).flag = "unknown" THEN <<one, two>> ELSE <<one>>
    <3>1. one.to = "ip" /\ two.to = "ethernet_mux" /\ two.object.type = "arp"
      BY DEF To, ArpRequest
    <3>2. s = <<one, two>> \/ s = <<one>>
      OBVIOUS
    <3>3. /\ Handle("arp", "ip", s) /\ fifo[<<"ip", "arp">>] # <<>>
          /\ UNCHANGED <<asking, wire, number>>
      BY <1>2 DEF ArpFromIp, Event
    <3> HIDE DEF one, two, s
    <3> QED
      BY <3>1, <3>2, <3>3
  <2>2. Range(s) \subseteq {one, two}
    BY <2>1, QueueLiterals
  <2>3. \A o \in Range(s) : Nr("arp", o.to, o.object) = 0
    BY <1>1, <2>1, <2>2
  <2>4. OutOnce("arp", s)
    BY <2>3 DEF OutOnce
  <2>5. PICK n : n = Nr("ip", "arp", Head(fifo[<<"ip", "arp">>]))
    OBVIOUS
  <2>6. Queues /\ <<"ip", "arp">> \in Links /\ "arp" \in Modules
    BY ArpLinks DEF Typed, Question
  <2> QED
    BY <2>1, <2>3, <2>4, <2>5, <2>6, HandleNumbered
<1>3. CASE ArpFromNetwork
  <2>1. PICK s : /\ s = <<>> \/ \E a : s = <<To("ethernet_mux", ArpReply(a))>>
                 /\ Handle("arp", "ethernet_mux", s) /\ fifo[<<"ethernet_mux", "arp">>] # <<>>
                 /\ UNCHANGED <<asking, wire, number>>
    BY <1>3 DEF ArpFromNetwork, Event
  <2>2. \A a : Nr("arp", "ethernet_mux", ArpReply(a)) = 0
    BY <1>1 DEF ArpReply
  <2> QED
    BY <2>1, <2>2, ArpLinks, MuxLinks, HandleOneNumbered
<1> QED
  BY <1>2, <1>3

LEMMA IpNumbered ==
  ASSUME Typed, Numbered, IpFromNetwork \/ IpFromMux
  PROVE  Numbered'
<1>1. Queues
  BY DEF Typed
<1>2. CASE IpFromMux
  <2>1. PICK p : /\ p = Head(fifo[<<"ip_mux", "ip">>]) /\ fifo[<<"ip_mux", "ip">>] # <<>>
                 /\ Ask("ip_mux", p) /\ UNCHANGED <<wire, number>>
    BY <1>2 DEF IpFromMux, Event
  <2>2. p.n = Nr("ip_mux", "ip", p)
    BY DEF Nr, OnFrameLink, OnPacketLink
  <2> QED
    BY <1>1, <2>1, <2>2, UpperLinks, AskNumbered
<1>3. CASE IpFromNetwork
  <2>1. PICK f : /\ f = Head(fifo[<<"ethernet_mux", "ip">>]) /\ fifo[<<"ethernet_mux", "ip">>] # <<>>
                 /\ UNCHANGED <<wire, number>>
                 /\ \/ Handle("ip", "ethernet_mux", <<To("ip_mux", f.packet)>>) /\ asking' = {}
                    \/ Ask("ethernet_mux", ICMPError(f.packet))
                    \/ Handle("ip", "ethernet_mux", <<>>) /\ asking' = {}
    BY <1>3 DEF IpFromNetwork, Event
  <2>2. f.type = "ip"
    BY <2>1, UpperLinks, HeadFits DEF Fits
  <2>3. Nr("ethernet_mux", "ip", f) = f.packet.n
    BY <2>2 DEF Nr, OnFrameLink, FrameNr
  <2>4. CASE Ask("ethernet_mux", ICMPError(f.packet))
    <3>1. ICMPError(f.packet).n = f.packet.n
      BY DEF ICMPError
    <3>2. PICK p : p = ICMPError(f.packet)
      OBVIOUS
    <3> QED
      BY <1>1, <2>1, <2>3, <2>4, <3>1, <3>2, UpperLinks, AskNumbered
  <2>5. CASE Handle("ip", "ethernet_mux", <<To("ip_mux", f.packet)>>) /\ asking' = {}
    <3>1. Nr("ip", "ip_mux", f.packet) = f.packet.n
      BY DEF Nr, OnFrameLink, OnPacketLink
    <3> QED
      BY <2>1, <2>3, <2>5, <3>1, ArpLinks, UpperLinks, HandleOneNumbered
  <2>6. CASE Handle("ip", "ethernet_mux", <<>>) /\ asking' = {}
    BY <2>1, <2>6, ArpLinks, UpperLinks, HandleOneNumbered
  <2> QED
    BY <2>1, <2>4, <2>5, <2>6
<1> QED
  BY <1>2, <1>3

(* Above ip_module, an error and a reply have the number of their cause.    *)
LEMMA AboveNumbered ==
  ASSUME Typed, Numbered,
         \/ IpMuxFromIp \/ \E m \in {"udp", "icmp"} : IpMuxFromAbove(m)
         \/ UdpFromMux \/ IcmpFromMux
  PROVE  Numbered'
<1>1. \A x : /\ Nr("ip", "ip_mux", x) = x.n /\ Nr("ip_mux", "ip", x) = x.n
             /\ \A m \in {"udp", "icmp"} : Nr("ip_mux", m, x) = x.n /\ Nr(m, "ip_mux", x) = x.n
             /\ \A m \in {"udp", "tcp", "icmp", "ipother"} : Nr("ip_mux", m, x) \in {0, x.n}
             /\ ICMPError(x).n = x.n
  BY DEF Nr, OnFrameLink, OnPacketLink, ICMPError
<1>2. {"ip_mux", "udp", "icmp"} \subseteq Modules
  BY DEF Modules, Opened
<1>3. CASE IpMuxFromIp
  <2>1. PICK p, s :
          /\ p = Head(fifo[<<"ip", "ip_mux">>]) /\ fifo[<<"ip", "ip_mux">>] # <<>>
          /\ \/ s = <<To(Protocol(p.kind), p)>> \/ s = <<To("ip", ICMPError(p))>> \/ s = <<>>
          /\ Handle("ip_mux", "ip", s) /\ UNCHANGED <<asking, wire, number>>
    BY <1>3 DEF IpMuxFromIp, Event
  <2>2. Protocol(p.kind) \in {"udp", "tcp", "icmp", "ipother"}
    BY DEF Protocol
  <2>3. Nr("ip_mux", Protocol(p.kind), p) \in {0, p.n} /\ Nr("ip_mux", "ip", ICMPError(p)) = p.n
    BY <1>1, <2>2
  <2> QED
    BY <1>1, <1>2, <2>1, <2>3, UpperLinks, HandleOneNumbered
<1>4. ASSUME NEW m \in {"udp", "icmp"}, IpMuxFromAbove(m) PROVE Numbered'
  <2>1. PICK p : /\ p = Head(fifo[<<m, "ip_mux">>]) /\ fifo[<<m, "ip_mux">>] # <<>>
                 /\ Handle("ip_mux", m, <<To("ip", p)>>) /\ UNCHANGED <<asking, wire, number>>
    BY <1>4 DEF IpMuxFromAbove, Event
  <2>2. Nr("ip_mux", "ip", p) = Nr(m, "ip_mux", p)
    BY <1>1
  <2> QED
    BY <1>2, <2>1, <2>2, UpperLinks, HandleOneNumbered
<1>5. CASE UdpFromMux
  <2>1. PICK p, s :
          /\ p = Head(fifo[<<"ip_mux", "udp">>]) /\ fifo[<<"ip_mux", "udp">>] # <<>>
          /\ s = <<>> \/ s = <<To("ip_mux", ICMPError(p))>>
          /\ Handle("udp", "ip_mux", s) /\ UNCHANGED <<asking, wire, number>>
    BY <1>5 DEF UdpFromMux, Event
  <2>2. Nr("udp", "ip_mux", ICMPError(p)) = Nr("ip_mux", "udp", p)
    BY <1>1
  <2> QED
    BY <1>2, <2>1, <2>2, UpperLinks, HandleOneNumbered
<1>6. CASE IcmpFromMux
  <2>1. PICK p, s :
          /\ p = Head(fifo[<<"ip_mux", "icmp">>]) /\ fifo[<<"ip_mux", "icmp">>] # <<>>
          /\ s = <<>> \/ s = <<To("ip_mux", Respond(p))>>
          /\ Handle("icmp", "ip_mux", s) /\ UNCHANGED <<asking, wire, number>>
    BY <1>6 DEF IcmpFromMux, Event
  <2>2. Respond(p).n = p.n
    BY <2>1, UpperLinks, HeadFits, RespondTyped DEF Fits
  <2>3. Nr("icmp", "ip_mux", Respond(p)) = Nr("ip_mux", "icmp", p)
    BY <1>1, <2>2
  <2> QED
    BY <1>2, <2>1, <2>3, UpperLinks, HandleOneNumbered
<1> QED
  BY <1>3, <1>4, <1>5, <1>6

LEMMA StepNumbered ==
  ASSUME Exchange, Typed, Numbered, [Next]_vars
  PROVE  Numbered'
<1>1. Queues
  BY DEF Typed
<1>2. ASSUME NEW m \in Modules, MinetSend(m) PROVE Numbered'
  BY <1>1, <1>2, SendNumbered
<1>3. ASSUME NEW from \in {"dd", "arp", "ip"}, ethernet_mux(from) PROVE Numbered'
  BY <1>3, MuxNumbered
<1>4. CASE ArpFromIp \/ ArpFromNetwork
  BY <1>4, ArpNumbered
<1>5. CASE IpFromNetwork \/ IpFromMux
  BY <1>5, IpNumbered
<1>6. CASE SendPacket
  BY <1>1, <1>6, SendPacketNumbered
<1>7. CASE \/ IpMuxFromIp \/ \E m \in {"udp", "icmp"} : IpMuxFromAbove(m)
           \/ UdpFromMux \/ IcmpFromMux
  BY <1>7, AboveNumbered
<1>8. CASE other_module \/ ipother_module
  <2>1. PICK m, from : /\ m \in Modules /\ <<from, m>> \in Links
                       /\ fifo[<<from, m>>] # <<>> /\ Handle(m, from, <<>>)
                       /\ UNCHANGED <<asking, wire, number>>
    <3>1. /\ <<"ethernet_mux", "other">> \in Links /\ <<"ip_mux", "ipother">> \in Links
          /\ "other" \in Modules /\ "ipother" \in Modules
      <4>1. Modules = {"ethernet_mux", "arp", "ip", "ip_mux", "udp", "icmp", "ipother", "other", "dd"}
        BY DEF Modules, Opened
      <4>2. /\ Opened["other"][1] = "ethernet_mux" /\ 1 \in DOMAIN Opened["other"]
            /\ Opened["ipother"][1] = "ip_mux" /\ 1 \in DOMAIN Opened["ipother"]
        BY DEF Opened
      <4> QED
        BY <4>1, <4>2 DEF Links
    <3> QED
      BY <1>8, <3>1 DEF other_module, ipother_module, Swallow, Event
  <2> QED
    BY <2>1, HandleOneNumbered
<1>9. CASE Transmit
  BY <1>9, TransmitNumbered
<1>10. ASSUME NEW f \in Frames, Arrive(f) PROVE Numbered'
  BY <1>10, ArriveNumbered
<1>11. ASSUME NEW dst \in Peers \cup {Broadcast}, UdpFromSock(dst) PROVE Numbered'
  BY <1>11, UdpFromSockNumbered
<1>12. CASE UNCHANGED vars
  BY <1>12 DEF vars, Numbered, OnePlace, InUse, Used, Holds, InFifo, InOut, InAsking, OnWire,
     AtMostOneAnswer
<1> QED
  BY <1>2, <1>3, <1>4, <1>5, <1>6, <1>7, <1>8, <1>9, <1>10, <1>11, <1>12 DEF Next, Step

LEMMA InitNumbered == Init => Numbered
<1> SUFFICES ASSUME Init PROVE Numbered
  OBVIOUS
<1>1. \A s, k : ~ Holds(s, k)
  BY QueueLiterals DEF Init, Holds, InFifo, InOut, InAsking, OnWire
<1>2. OnePlace /\ InUse
  BY <1>1 DEF OnePlace, InUse
<1>3. \A l \in Links : FifoOnce(l, fifo[l])
  BY DEF Init, FifoOnce
<1> QED
  BY <1>2, <1>3 DEF Init, Numbered, OutOnce, AtMostOneAnswer

(* What arrives, or an application sends, brings at most one packet onto    *)
(* the network: no handler both passes a packet on and complains about it,  *)
(* and no FIFO gives the same packet twice.                                 *)
THEOREM OneAnswerEach == Spec => []AtMostOneAnswer
<1>1. Numbered => AtMostOneAnswer
  BY DEF Numbered
<1> QED
  BY <1>1, InitExchange, StepExchange, InitTyped, StepTyped, InitNumbered, StepNumbered, PTL DEF Spec

-----------------------------------------------------------------------------
(* The way of an announcement to the cache: from the driver to              *)
(* ethernet_mux, which hands it to arp_module.                              *)
FromNetwork == <<"dd", "ethernet_mux">>
ToArp == <<"ethernet_mux", "arp">>

(* The frames that ethernet_mux has read.                                   *)
Handed == Len(arrived) - Len(fifo[FromNetwork])

(* The FIFO of the driver holds the frames that arrived last.               *)
LastArrived ==
  /\ Queue(arrived) /\ Len(arrived) = number.frames
  /\ \A i \in 1 .. Len(arrived) : arrived[i].type = "arp" => arrived[i].n = i
  /\ Queue(fifo[FromNetwork]) /\ Handed \in Nat
  /\ \A i \in 1 .. Len(fifo[FromNetwork]) : fifo[FromNetwork][i] = arrived[Handed + i]
  /\ out["dd"] = <<>>

(* Frames in the order of their numbers.                                    *)
Rising(q) == \A i, j \in DOMAIN q : i < j => q[i].n < q[j].n

(* The cache knows the last announcements among the first c frames.         *)
CurrentUpTo(c) ==
  \A ip \in Peers : \A i \in 1 .. c :
    Announces(arrived[i], ip) /\ (\A j \in 1 .. c : j > i => ~ Announces(arrived[j], ip))
      => Known(ip) = {arrived[i].shw}

(* The ARP frames that ethernet_mux has read and arp_module has not are on  *)
(* their way, in order.                                                     *)
OnTheirWay(c) ==
  /\ c \in 0 .. Handed
  /\ \A j \in 1 .. Handed : j > c /\ arrived[j].type = "arp" =>
       arrived[j] \in Range(fifo[ToArp]) \/ out["ethernet_mux"] = <<To("arp", arrived[j])>>
  /\ \A x \in Range(fifo[ToArp]) :
       x.n \in 1 .. Handed /\ x.n > c /\ arrived[x.n] = x /\ x.type = "arp"
  /\ Rising(fifo[ToArp])
  /\ \/ out["ethernet_mux"] = <<>>
     \/ \E b, x : out["ethernet_mux"] = <<To(b, x)>> /\ b # "arp"
     \/ \E x : /\ out["ethernet_mux"] = <<To("arp", x)>>
               /\ x.n = Handed /\ Handed > c /\ arrived[Handed] = x /\ x.type = "arp"
               /\ \A y \in Range(fifo[ToArp]) : y.n < Handed

Followed == LastArrived /\ \E c : CurrentUpTo(c) /\ OnTheirWay(c)

LEMMA RisingAppend ==
  ASSUME NEW q, Queue(q), Rising(q), NEW x, \A y \in Range(q) : y.n < x.n
  PROVE  Rising(Append(q, x))
<1>1. Len(q) \in Nat /\ DOMAIN q = 1 .. Len(q)
  BY QueuePositions
<1>2. /\ Len(Append(q, x)) = Len(q) + 1 /\ Append(q, x)[Len(q) + 1] = x
      /\ \A i \in 1 .. Len(q) : Append(q, x)[i] = q[i]
  BY AppendPositions
<1>3. DOMAIN Append(q, x) = 1 .. Len(q) + 1
  BY <1>2, QueueAppend, QueuePositions
<1>4. \A i \in 1 .. Len(q) : q[i].n < x.n
  BY <1>1 DEF Range
<1>5. ASSUME NEW i \in 1 .. Len(q) + 1, NEW j \in 1 .. Len(q) + 1, i < j
      PROVE  Append(q, x)[i].n < Append(q, x)[j].n
  <2>1. i \in 1 .. Len(q) /\ (j = Len(q) + 1 \/ j \in 1 .. Len(q))
    BY <1>1, <1>5
  <2> QED
    BY <1>1, <1>2, <1>4, <1>5, <2>1 DEF Rising
<1> QED
  BY <1>3, <1>5 DEF Rising

LEMMA RisingTail ==
  ASSUME NEW q, Queue(q), q # <<>>, Rising(q)
  PROVE  /\ Rising(Tail(q))
         /\ \A x \in Range(Tail(q)) : Head(q).n < x.n
         /\ \A x \in Range(q) : x = Head(q) \/ x \in Range(Tail(q))
<1>1. /\ Len(q) \in Nat \ {0} /\ DOMAIN q = 1 .. Len(q) /\ Head(q) = q[1]
  BY QueuePositions
<1>2. /\ Len(Tail(q)) = Len(q) - 1
      /\ \A i \in 1 .. Len(q) - 1 : Tail(q)[i] = q[i + 1]
  BY TailPositions
<1>3. DOMAIN Tail(q) = 1 .. Len(q) - 1
  BY <1>2, QueueTail, QueuePositions
<1>4. \A i \in 1 .. Len(q) - 1 : i + 1 \in 1 .. Len(q) /\ 1 < i + 1
  BY <1>1
<1>5. Rising(Tail(q))
  <2>1. \A i, j \in 1 .. Len(q) - 1 : i < j => i + 1 < j + 1
    BY <1>1
  <2> QED
    BY <1>1, <1>2, <1>3, <1>4, <2>1 DEF Rising
<1>6. \A x \in Range(Tail(q)) : Head(q).n < x.n
  <2>1. 1 \in 1 .. Len(q)
    BY <1>1
  <2> QED
    BY <1>1, <1>2, <1>3, <1>4, <2>1 DEF Rising, Range
<1>7. ASSUME NEW x \in Range(q) PROVE x = Head(q) \/ x \in Range(Tail(q))
  <2>1. PICK i \in 1 .. Len(q) : x = q[i]
    BY <1>1 DEF Range
  <2>2. CASE i = 1
    BY <1>1, <2>1, <2>2
  <2>3. CASE i # 1
    <3>1. i - 1 \in 1 .. Len(q) - 1 /\ (i - 1) + 1 = i
      BY <1>1, <2>3
    <3>2. Tail(q)[i - 1] = x
      BY <1>2, <2>1, <3>1
    <3> QED
      BY <1>3, <3>1, <3>2 DEF Range
  <2> QED
    BY <2>2, <2>3
<1> QED
  BY <1>5, <1>6, <1>7

(* Most modules have no part in it.                                         *)
LEMMA FollowedApart ==
  ASSUME Followed, UNCHANGED <<arrived, cache>>, number'.frames = number.frames,
         fifo'[FromNetwork] = fifo[FromNetwork], fifo'[ToArp] = fifo[ToArp],
         out'["ethernet_mux"] = out["ethernet_mux"], out'["dd"] = out["dd"]
  PROVE  Followed'
<1>1. Handed' = Handed
  BY DEF Handed
<1>2. LastArrived'
  BY <1>1 DEF Followed, LastArrived
<1>3. PICK c : CurrentUpTo(c) /\ OnTheirWay(c)
  BY DEF Followed
<1>4. CurrentUpTo(c)'
  BY <1>3 DEF CurrentUpTo, Known
<1>5. OnTheirWay(c)'
  BY <1>1, <1>3 DEF OnTheirWay
<1> QED
  BY <1>2, <1>4, <1>5 DEF Followed

LEMMA HandleFollowed ==
  ASSUME Queues, Followed, NEW m, NEW from, NEW sends, Handle(m, from, sends),
         m \notin {"ethernet_mux", "dd"}, <<from, m>> # ToArp,
         UNCHANGED <<arrived, cache, number>>
  PROVE  Followed'
<1>1. <<from, m>> # FromNetwork
  BY DEF FromNetwork
<1>2. /\ fifo'[FromNetwork] = fifo[FromNetwork] /\ fifo'[ToArp] = fifo[ToArp]
      /\ out'["ethernet_mux"] = out["ethernet_mux"] /\ out'["dd"] = out["dd"]
  <2>1. "ethernet_mux" \in Modules /\ "dd" \in Modules
    BY DEF Modules, Opened
  <2>2. FromNetwork \in Links /\ ToArp \in Links
    BY MuxLinks DEF FromNetwork, ToArp
  <2>3. /\ fifo' = [fifo EXCEPT ![<<from, m>>] = Tail(@)]
        /\ out' = [out EXCEPT ![m] = sends]
    BY DEF Handle
  <2> QED
    BY <1>1, <2>1, <2>2, <2>3 DEF Queues
<1> QED
  BY <1>2, FollowedApart

LEMMA OnTheirWayKept ==
  ASSUME NEW c, OnTheirWay(c), Handed' = Handed, Handed \in Nat, c \in Nat,
         fifo'[ToArp] = fifo[ToArp], out' = out,
         \A i \in 1 .. Handed : arrived'[i] = arrived[i]
  PROVE  OnTheirWay(c)'
<1>1. c \in 0 .. Handed'
  BY DEF OnTheirWay
<1>2. \A j \in 1 .. Handed' : j > c /\ arrived'[j].type = "arp" =>
        arrived'[j] \in Range(fifo'[ToArp]) \/ out'["ethernet_mux"] = <<To("arp", arrived'[j])>>
  BY DEF OnTheirWay
<1>3. \A x \in Range(fifo'[ToArp]) :
        x.n \in 1 .. Handed' /\ x.n > c /\ arrived'[x.n] = x /\ x.type = "arp"
  BY DEF OnTheirWay
<1>4. Handed > c => arrived'[Handed] = arrived[Handed]
  OBVIOUS
<1>5. Rising(fifo'[ToArp])
  BY DEF OnTheirWay
<1>6. \/ out'["ethernet_mux"] = <<>>
      \/ \E b, x : out'["ethernet_mux"] = <<To(b, x)>> /\ b # "arp"
      \/ \E x : /\ out'["ethernet_mux"] = <<To("arp", x)>>
                /\ x.n = Handed' /\ Handed' > c /\ arrived'[Handed'] = x /\ x.type = "arp"
                /\ \A y \in Range(fifo'[ToArp]) : y.n < Handed'
  BY <1>4 DEF OnTheirWay
<1> QED
  BY <1>1, <1>2, <1>3, <1>5, <1>6 DEF OnTheirWay

LEMMA ArriveFollowed ==
  ASSUME Queues, number \in [frames : 0 .. MaxFrames, writes : 0 .. MaxWrites],
         Followed, NEW f \in Frames, Arrive(f)
  PROVE  Followed'
<1>1. PICK g : /\ g = Number(f) /\ number' = [number EXCEPT !.frames = @ + 1]
               /\ fifo' = [fifo EXCEPT ![FromNetwork] = Append(@, g)]
               /\ arrived' = Append(arrived, g)
               /\ UNCHANGED <<out, cache>>
  BY DEF Arrive, FromNetwork
<1>2. FromNetwork \in Links /\ ToArp \in Links /\ FromNetwork # ToArp
  BY MuxLinks DEF FromNetwork, ToArp
<1>3. fifo'[FromNetwork] = Append(fifo[FromNetwork], g) /\ fifo'[ToArp] = fifo[ToArp]
  BY <1>1, <1>2 DEF Queues
<1>4. Queue(arrived) /\ Queue(fifo[FromNetwork])
  BY DEF Followed, LastArrived
<1>5. PICK L \in Nat : L = Len(arrived)
  BY <1>4, QueuePositions
<1>6. PICK l \in Nat : l = Len(fifo[FromNetwork])
  BY <1>4, QueuePositions
<1>7. /\ Len(arrived') = L + 1 /\ arrived'[L + 1] = g
      /\ \A i \in 1 .. L : arrived'[i] = arrived[i]
  BY <1>1, <1>4, <1>5, AppendPositions
<1>8. /\ Len(fifo'[FromNetwork]) = l + 1 /\ fifo'[FromNetwork][l + 1] = g
      /\ \A i \in 1 .. l : fifo'[FromNetwork][i] = fifo[FromNetwork][i]
  BY <1>3, <1>4, <1>6, AppendPositions
<1>9. Handed' = L - l /\ Handed = L - l /\ L - l \in Nat
  <2>1. (L + 1) - (l + 1) = L - l
    OBVIOUS
  <2>2. Handed = L - l /\ Handed' = (L + 1) - (l + 1)
    BY <1>5, <1>6, <1>7, <1>8 DEF Handed
  <2>3. Handed \in Nat
    BY DEF Followed, LastArrived
  <2> QED
    BY <2>1, <2>2, <2>3
<1>10. LastArrived'
  <2>1. Queue(arrived') /\ Queue(fifo'[FromNetwork])
    BY <1>1, <1>3, QueueAppend DEF Followed, LastArrived
  <2>2. number.frames = L /\ number'.frames = L + 1
    BY <1>1, <1>5 DEF Followed, LastArrived
  <2>3. g.type = "arp" => g.n = L + 1
    <3>1. g.type = "arp" => f.type = "arp"
      <4>1. f.type = "ip" => g.type = "ip"
        BY <1>1, FramesAssumption DEF Number
      <4>2. f.type # "ip" => g.type = f.type
        BY <1>1, FramesAssumption DEF Number
      <4> QED
        BY <4>1, <4>2
    <3>2. f.type = "arp" => f \in [type : {"arp"}, op : {"request", "reply", "other"}, sip : Peers,
                                   shw : Hw, tip : Addresses, n : {0}]
      BY FramesAssumption
    <3>3. f.type = "arp" => g.n = number.frames + 1
      BY <1>1, <3>2 DEF Number
    <3> QED
      BY <2>2, <3>1, <3>3
  <2>4. \A i \in 1 .. L + 1 : arrived'[i].type = "arp" => arrived'[i].n = i
    <3> TAKE i \in 1 .. L + 1
    <3>1. i \in 1 .. L \/ i = L + 1
      BY <1>6
    <3>2. CASE i \in 1 .. L
      BY <1>5, <1>7, <3>2 DEF Followed, LastArrived
    <3> QED
      BY <1>7, <2>3, <3>1, <3>2
  <2>5. \A i \in 1 .. l + 1 : fifo'[FromNetwork][i] = arrived'[L - l + i]
    <3> TAKE i \in 1 .. l + 1
    <3>1. CASE i \in 1 .. l
      <4>1. L - l + i \in 1 .. L
        BY <1>9, <3>1
      <4>2. fifo[FromNetwork][i] = arrived[L - l + i]
        BY <1>6, <1>9, <3>1 DEF Followed, LastArrived
      <4> QED
        BY <1>7, <1>8, <3>1, <4>1, <4>2
    <3>2. CASE i = l + 1
      <4>1. L \in Nat /\ l \in Nat
        BY <1>5, <1>6
      <4>2. L - l + (l + 1) = L + 1
        BY <4>1
      <4> QED
        BY <1>7, <1>8, <3>2, <4>2
    <3>3. i \in 1 .. l \/ i = l + 1
      BY <1>6
    <3> QED
      BY <3>1, <3>2, <3>3
  <2>6. out'["dd"] = <<>>
    BY <1>1 DEF Followed, LastArrived
  <2> QED
    BY <1>7, <1>8, <1>9, <2>1, <2>2, <2>4, <2>5, <2>6 DEF LastArrived
<1>11. PICK c : CurrentUpTo(c) /\ OnTheirWay(c)
  BY DEF Followed
<1>12. \A i \in 1 .. Handed : arrived'[i] = arrived[i]
  BY <1>7, <1>9
<1>13. CurrentUpTo(c)'
  <2>1. c \in 0 .. Handed
    BY <1>11 DEF OnTheirWay
  <2>2. \A i \in 1 .. c : arrived'[i] = arrived[i]
    BY <1>9, <1>12, <2>1
  <2>3. \A ip : Known(ip)' = Known(ip)
    BY <1>1 DEF Known
  <2> QED
    BY <1>11, <2>2, <2>3 DEF CurrentUpTo, Announces
<1>14. OnTheirWay(c)'
  <2>1. Handed' = Handed /\ Handed \in Nat /\ c \in Nat
    BY <1>9, <1>11 DEF OnTheirWay
  <2>2. fifo'[ToArp] = fifo[ToArp] /\ out' = out
    BY <1>1, <1>3
  <2>3. Handed > c => arrived'[Handed] = arrived[Handed]
    BY <1>12, <2>1
  <2> QED
    BY <1>11, <1>12, <2>1, <2>2, <2>3, OnTheirWayKept
<1> QED
  BY <1>10, <1>13, <1>14 DEF Followed

LEMMA LastArrivedKept ==
  ASSUME LastArrived, arrived' = arrived, number'.frames = number.frames,
         fifo'[FromNetwork] = fifo[FromNetwork], out'["dd"] = out["dd"]
  PROVE  LastArrived' /\ Handed' = Handed
<1>1. Handed' = Handed
  BY DEF Handed
<1> QED
  BY <1>1 DEF LastArrived

LEMMA CurrentKept ==
  ASSUME NEW c, CurrentUpTo(c), arrived' = arrived, cache' = cache
  PROVE  CurrentUpTo(c)'
BY DEF CurrentUpTo, Known

(* A frame that ethernet_mux hands on.                                      *)
LEMMA DeliverFollowed ==
  ASSUME Queues, Followed, MinetSend("ethernet_mux")
  PROVE  Followed'
<1> DEFINE o == Head(out["ethernet_mux"])
<1>1. /\ out["ethernet_mux"] # <<>>
      /\ fifo' = [fifo EXCEPT ![<<"ethernet_mux", o.to>>] = Append(@, o.object)]
      /\ out' = [out EXCEPT !["ethernet_mux"] = Tail(@)]
      /\ UNCHANGED <<arrived, cache, number>>
  BY DEF MinetSend
<1>2. /\ FromNetwork \in Links /\ ToArp \in Links
      /\ "ethernet_mux" \in Modules /\ "dd" \in Modules
  BY MuxLinks DEF FromNetwork, ToArp, Modules, Opened
<1>3. fifo'[FromNetwork] = fifo[FromNetwork] /\ out'["dd"] = out["dd"]
  <2>1. FromNetwork # <<"ethernet_mux", o.to>>
    BY DEF FromNetwork
  <2> QED
    BY <1>1, <1>2, <2>1 DEF Queues
<1>4. LastArrived' /\ Handed' = Handed
  BY <1>1, <1>3, LastArrivedKept DEF Followed
<1>5. PICK c : CurrentUpTo(c) /\ OnTheirWay(c)
  BY DEF Followed
<1>6. CurrentUpTo(c)'
  BY <1>1, <1>5, CurrentKept
<1>7. OnTheirWay(c)'
  <2>1. ASSUME NEW b, NEW x, out["ethernet_mux"] = <<To(b, x)>>, b # "arp"
        PROVE  OnTheirWay(c)'
    <3>1. o = To(b, x) /\ o.to = b /\ out'["ethernet_mux"] = <<>>
      BY <1>1, <1>2, <2>1 DEF To, Queues
    <3>2. fifo'[ToArp] = fifo[ToArp]
      <4>1. ToArp # <<"ethernet_mux", o.to>>
        BY <2>1, <3>1 DEF ToArp
      <4> QED
        BY <1>1, <1>2, <4>1 DEF Queues
    <3>3. \A y : out["ethernet_mux"] # <<To("arp", y)>>
      BY <2>1 DEF To
    <3> QED
      BY <1>1, <1>4, <1>5, <3>1, <3>2, <3>3 DEF OnTheirWay
  <2>2. ASSUME NEW x, out["ethernet_mux"] = <<To("arp", x)>>,
               x.n = Handed, Handed > c, arrived[Handed] = x, x.type = "arp",
               \A y \in Range(fifo[ToArp]) : y.n < Handed
        PROVE  OnTheirWay(c)'
    <3>1. o.to = "arp" /\ o.object = x /\ out'["ethernet_mux"] = <<>>
      BY <1>1, <1>2, <2>2 DEF To, Queues
    <3>2. fifo'[ToArp] = Append(fifo[ToArp], x)
      BY <1>1, <1>2, <3>1 DEF ToArp, Queues
    <3>3. Queue(fifo[ToArp])
      BY <1>2 DEF Queues
    <3>4. Range(fifo'[ToArp]) = Range(fifo[ToArp]) \cup {x}
      BY <3>2, <3>3, QueueAppend
    <3>5. Rising(fifo'[ToArp])
      BY <1>5, <2>2, <3>2, <3>3, RisingAppend DEF OnTheirWay
    <3>6. \A y : out["ethernet_mux"] = <<To("arp", y)>> => y = x
      BY <2>2 DEF To
    <3>7. Handed \in 1 .. Handed
      <4>1. Handed \in Nat /\ c \in 0 .. Handed
        BY <1>5 DEF Followed, LastArrived, OnTheirWay
      <4> QED
        BY <2>2, <4>1
    <3>8. \A j \in 1 .. Handed' : j > c /\ arrived'[j].type = "arp" => arrived'[j] \in Range(fifo'[ToArp])
      BY <1>1, <1>4, <1>5, <3>4, <3>6 DEF OnTheirWay
    <3>9. \A y \in Range(fifo'[ToArp]) :
            y.n \in 1 .. Handed' /\ y.n > c /\ arrived'[y.n] = y /\ y.type = "arp"
      BY <1>1, <1>4, <1>5, <2>2, <3>4, <3>7 DEF OnTheirWay
    <3> QED
      BY <1>1, <1>4, <1>5, <3>1, <3>5, <3>8, <3>9 DEF OnTheirWay
  <2> QED
    BY <1>1, <1>5, <2>1, <2>2 DEF OnTheirWay
<1> QED
  BY <1>4, <1>6, <1>7 DEF Followed

LEMMA SendFollowed ==
  ASSUME Queues, Followed, NEW m \in Modules, MinetSend(m)
  PROVE  Followed'
<1>1. CASE m = "ethernet_mux"
  BY <1>1, DeliverFollowed
<1>2. CASE m # "ethernet_mux"
  <2>1. /\ out[m] # <<>>
        /\ fifo' = [fifo EXCEPT ![<<m, Head(out[m]).to>>] = Append(@, Head(out[m]).object)]
        /\ out' = [out EXCEPT ![m] = Tail(@)]
        /\ UNCHANGED <<arrived, cache, number>>
    BY DEF MinetSend
  <2>2. m # "dd"
    BY <2>1 DEF Followed, LastArrived
  <2>3. <<m, Head(out[m]).to>> # FromNetwork /\ <<m, Head(out[m]).to>> # ToArp
    BY <1>2, <2>2 DEF FromNetwork, ToArp
  <2>4. /\ fifo'[FromNetwork] = fifo[FromNetwork] /\ fifo'[ToArp] = fifo[ToArp]
        /\ out'["ethernet_mux"] = out["ethernet_mux"] /\ out'["dd"] = out["dd"]
    <3>1. "ethernet_mux" \in Modules /\ "dd" \in Modules
      BY DEF Modules, Opened
    <3>2. FromNetwork \in Links /\ ToArp \in Links
      BY MuxLinks DEF FromNetwork, ToArp
    <3> QED
      BY <1>2, <2>1, <2>2, <2>3, <3>1, <3>2 DEF Queues
  <2> QED
    BY <2>1, <2>4, FollowedApart
<1> QED
  BY <1>1, <1>2

(* ethernet_mux reads a frame of the driver: it is the next that arrived.   *)
LEMMA ReadFollowed ==
  ASSUME Queues, Followed, ethernet_mux("dd")
  PROVE  Followed'
<1> DEFINE f == Head(fifo[FromNetwork])
<1>1. /\ out["ethernet_mux"] = <<>> /\ fifo[FromNetwork] # <<>>
      /\ fifo' = [fifo EXCEPT ![FromNetwork] = Tail(@)]
      /\ out' = [out EXCEPT !["ethernet_mux"] = <<To(Destination(f), f)>>]
      /\ UNCHANGED <<arrived, cache, number>>
  BY DEF ethernet_mux, Event, Idle, Handle, FromNetwork
<1>2. /\ FromNetwork \in Links /\ ToArp \in Links /\ FromNetwork # ToArp
      /\ "ethernet_mux" \in Modules /\ "dd" \in Modules
  BY MuxLinks DEF FromNetwork, ToArp, Modules, Opened
<1>3. /\ fifo'[FromNetwork] = Tail(fifo[FromNetwork]) /\ fifo'[ToArp] = fifo[ToArp]
      /\ out'["ethernet_mux"] = <<To(Destination(f), f)>> /\ out'["dd"] = <<>>
  BY <1>1, <1>2 DEF Queues, Followed, LastArrived
<1>4. Queue(arrived) /\ Queue(fifo[FromNetwork]) /\ Handed \in Nat
  BY DEF Followed, LastArrived
<1>5. PICK l \in Nat : l = Len(fifo[FromNetwork])
  BY <1>4, QueuePositions
<1>6. PICK L \in Nat : L = Len(arrived)
  BY <1>4, QueuePositions
<1>7. PICK h \in Nat : h = Handed
  BY <1>4
<1>8. h = L - l /\ l # 0 /\ f = fifo[FromNetwork][1]
  <2>1. h = L - l
    BY <1>5, <1>6, <1>7 DEF Handed
  <2>2. l # 0 /\ f = fifo[FromNetwork][1]
    BY <1>1, <1>4, <1>5, QueuePositions
  <2> QED
    BY <2>1, <2>2
<1>9. /\ Len(fifo'[FromNetwork]) = l - 1
      /\ \A i \in 1 .. l - 1 : fifo'[FromNetwork][i] = fifo[FromNetwork][i + 1]
  BY <1>1, <1>3, <1>4, <1>5, TailPositions
<1>10. Handed' = h + 1
  <2>1. Handed' = L - (l - 1)
    BY <1>1, <1>6, <1>9 DEF Handed
  <2>2. L - (l - 1) = (L - l) + 1
    BY <1>5, <1>6
  <2> QED
    BY <1>8, <2>1, <2>2
<1>11. \A i \in 1 .. l : fifo[FromNetwork][i] = arrived[h + i]
  BY <1>5, <1>7 DEF Followed, LastArrived
<1>12. f = arrived[h + 1] /\ h + 1 \in 1 .. L
  <2>1. 1 \in 1 .. l /\ h + 1 \in 1 .. L
    BY <1>5, <1>6, <1>7, <1>8
  <2> QED
    BY <1>8, <1>11, <2>1
<1>13. LastArrived'
  <2>1. Queue(fifo'[FromNetwork])
    BY <1>1, <1>3, <1>4, QueueTail
  <2>2. ASSUME NEW i \in 1 .. l - 1 PROVE fifo'[FromNetwork][i] = arrived[(h + 1) + i]
    <3>1. i + 1 \in 1 .. l /\ h + (i + 1) = (h + 1) + i
      BY <1>5, <1>7
    <3> QED
      BY <1>9, <1>11, <3>1
  <2>3. h + 1 \in Nat
    BY <1>7
  <2> QED
    BY <1>1, <1>3, <1>9, <1>10, <2>1, <2>2, <2>3 DEF Followed, LastArrived
<1>14. PICK c : CurrentUpTo(c) /\ OnTheirWay(c)
  BY DEF Followed
<1>15. c \in 0 .. h /\ c \in 0 .. h + 1 /\ h + 1 > c
  <2>1. c \in 0 .. h
    BY <1>7, <1>14 DEF OnTheirWay
  <2> QED
    BY <1>7, <2>1
<1>16. CurrentUpTo(c)'
  BY <1>1, <1>14, CurrentKept
<1>17. f.type = "arp" => f.n = h + 1
  BY <1>6, <1>12 DEF Followed, LastArrived
<1>18. f.type = "arp" <=> Destination(f) = "arp"
  BY DEF Destination
<1> HIDE DEF f
<1>19. \A x \in Range(fifo[ToArp]) :
         x.n \in 1 .. h /\ x.n > c /\ arrived[x.n] = x /\ x.type = "arp"
  BY <1>7, <1>14 DEF OnTheirWay
<1>20. \A x \in Range(fifo[ToArp]) : x.n \in 1 .. h + 1 /\ x.n < h + 1
  BY <1>7, <1>19
<1>21. ASSUME NEW j \in 1 .. h + 1, j > c, arrived[j].type = "arp"
       PROVE  arrived[j] \in Range(fifo[ToArp]) \/ out'["ethernet_mux"] = <<To("arp", arrived[j])>>
  <2>1. j \in 1 .. h \/ j = h + 1
    BY <1>7
  <2>2. CASE j \in 1 .. h
    BY <1>1, <1>7, <1>14, <1>21, <2>2 DEF OnTheirWay
  <2>3. CASE j = h + 1
    BY <1>3, <1>12, <1>18, <1>21, <2>3
  <2> QED
    BY <2>1, <2>2, <2>3
<1>22. OnTheirWay(c)'
  <2>1. CASE f.type = "arp"
    BY <1>1, <1>3, <1>10, <1>12, <1>14, <1>15, <1>17, <1>18, <1>19, <1>20, <1>21, <2>1 DEF OnTheirWay
  <2>2. CASE f.type # "arp"
    BY <1>1, <1>3, <1>10, <1>14, <1>15, <1>18, <1>19, <1>20, <1>21, <2>2 DEF OnTheirWay
  <2> QED
    BY <2>1, <2>2
<1> QED
  BY <1>13, <1>16, <1>22 DEF Followed

(* ethernet_mux reads what is to leave.                                     *)
LEMMA WriteFollowed ==
  ASSUME Queues, Followed, NEW from \in {"arp", "ip"}, ethernet_mux(from)
  PROVE  Followed'
<1>1. PICK f : /\ out["ethernet_mux"] = <<>>
               /\ fifo' = [fifo EXCEPT ![<<from, "ethernet_mux">>] = Tail(@)]
               /\ out' = [out EXCEPT !["ethernet_mux"] = <<To("dd", f)>>]
               /\ UNCHANGED <<arrived, cache, number>>
  <2>1. from # "dd"
    OBVIOUS
  <2> QED
    BY <2>1 DEF ethernet_mux, Event, Idle, Handle
<1>2. /\ FromNetwork \in Links /\ ToArp \in Links
      /\ "ethernet_mux" \in Modules /\ "dd" \in Modules
  BY MuxLinks DEF FromNetwork, ToArp, Modules, Opened
<1>3. <<from, "ethernet_mux">> # FromNetwork /\ <<from, "ethernet_mux">> # ToArp
  BY DEF FromNetwork, ToArp
<1>4. /\ fifo'[FromNetwork] = fifo[FromNetwork] /\ fifo'[ToArp] = fifo[ToArp]
      /\ out'["ethernet_mux"] = <<To("dd", f)>> /\ out'["dd"] = out["dd"]
  BY <1>1, <1>2, <1>3 DEF Queues
<1>5. LastArrived' /\ Handed' = Handed
  BY <1>1, <1>4, LastArrivedKept DEF Followed
<1>6. PICK c : CurrentUpTo(c) /\ OnTheirWay(c)
  BY DEF Followed
<1>7. CurrentUpTo(c)'
  BY <1>1, <1>6, CurrentKept
<1>8. OnTheirWay(c)'
  <2>1. "dd" # "arp"
    OBVIOUS
  <2> QED
    BY <1>1, <1>4, <1>5, <1>6, <2>1 DEF OnTheirWay
<1> QED
  BY <1>5, <1>7, <1>8 DEF Followed

(* What is true of the cache after an update.                               *)
LEMMA UpdateKnown ==
  ASSUME NEW sip, NEW shw \in Hw, cache' = Update(sip, shw)
  PROVE  /\ Known(sip)' = {shw}
         /\ \A ip : ip # sip => Known(ip)' = Known(ip)
<1>1. cache' = {e \in cache : e[1] # sip} \cup {<<sip, shw>>}
  BY DEF Update
<1>2. Known(sip)' = {shw}
  BY <1>1 DEF Known
<1>3. ASSUME NEW ip, ip # sip PROVE Known(ip)' = Known(ip)
  <2>1. \A hw : <<ip, hw>> \in cache' <=> <<ip, hw>> \in cache
    BY <1>1, <1>3
  <2> QED
    BY <2>1 DEF Known
<1> QED
  BY <1>2, <1>3

(* arp_module reads the first frame that is on its way: from then on it     *)
(* knows what had arrived up to that frame.                                 *)
LEMMA LearnFollowed ==
  ASSUME Typed, Followed, ArpFromNetwork
  PROVE  Followed'
<1> DEFINE head == Head(fifo[ToArp])
<1>1. PICK a : a = head
  OBVIOUS
<1>2. /\ fifo[ToArp] # <<>>
      /\ fifo' = [fifo EXCEPT ![ToArp] = Tail(@)]
      /\ cache' = IF a.op \in {"request", "reply"} THEN Update(a.sip, a.shw) ELSE cache
      /\ UNCHANGED <<arrived, number>>
  BY <1>1 DEF ArpFromNetwork, Event, Handle, ToArp
<1>3. PICK sends : out' = [out EXCEPT !["arp"] = sends]
  BY DEF ArpFromNetwork, Handle
<1> HIDE DEF head
<1>4. /\ FromNetwork \in Links /\ ToArp \in Links /\ FromNetwork # ToArp
      /\ "ethernet_mux" \in Modules /\ "dd" \in Modules /\ "arp" \in Modules
  BY MuxLinks DEF FromNetwork, ToArp, Modules, Opened
<1>5. Queues
  BY DEF Typed
<1>6. /\ fifo'[FromNetwork] = fifo[FromNetwork] /\ fifo'[ToArp] = Tail(fifo[ToArp])
      /\ out'["ethernet_mux"] = out["ethernet_mux"] /\ out'["dd"] = out["dd"]
  BY <1>2, <1>3, <1>4, <1>5 DEF Queues
<1>7. LastArrived' /\ Handed' = Handed
  BY <1>2, <1>6, LastArrivedKept DEF Followed
<1>8. PICK c : CurrentUpTo(c) /\ OnTheirWay(c)
  BY DEF Followed
<1>9. PICK h \in Nat : h = Handed /\ c \in 0 .. h /\ Handed' = h
  BY <1>7, <1>8 DEF Followed, LastArrived, OnTheirWay
<1>10. Queue(fifo[ToArp]) /\ Rising(fifo[ToArp])
  BY <1>4, <1>5, <1>8 DEF Queues, OnTheirWay
<1>11. /\ Rising(fifo'[ToArp])
       /\ \A x \in Range(fifo'[ToArp]) : a.n < x.n
       /\ \A x \in Range(fifo[ToArp]) : x = a \/ x \in Range(fifo'[ToArp])
  BY <1>1, <1>2, <1>6, <1>10, RisingTail DEF head
<1>12. Range(fifo'[ToArp]) \subseteq Range(fifo[ToArp]) /\ a \in Range(fifo[ToArp])
  BY <1>1, <1>2, <1>6, <1>10, QueueTail DEF head
<1>13. \A x \in Range(fifo[ToArp]) : x.n \in 1 .. h /\ x.n > c /\ arrived[x.n] = x /\ x.type = "arp"
  BY <1>8, <1>9 DEF OnTheirWay
<1>14. PICK k \in 1 .. h : k = a.n /\ k > c /\ arrived[k] = a /\ a.type = "arp"
  BY <1>12, <1>13
<1>15. \A j \in 1 .. h : arrived[j].type = "arp" => arrived[j].n = j
  <2>1. Len(arrived) \in Nat /\ Len(fifo[FromNetwork]) \in Nat
    BY QueuePositions DEF Followed, LastArrived
  <2>2. h = Len(arrived) - Len(fifo[FromNetwork])
    BY <1>9 DEF Handed
  <2>3. \A j \in 1 .. h : j \in 1 .. Len(arrived)
    BY <1>9, <2>1, <2>2
  <2> QED
    BY <2>3 DEF Followed, LastArrived
<1>16. \A x : out["ethernet_mux"] = <<To("arp", x)>> =>
         x.n = h /\ arrived[h] = x /\ \A y \in Range(fifo[ToArp]) : y.n < h
  <2> TAKE x
  <2> HAVE out["ethernet_mux"] = <<To("arp", x)>>
  <2>1. out["ethernet_mux"] # <<>>
    OBVIOUS
  <2>2. \A b, y : out["ethernet_mux"] = <<To(b, y)>> => b = "arp" /\ y = x
    BY DEF To
  <2> QED
    BY <1>8, <1>9, <2>1, <2>2 DEF OnTheirWay
<1>17. ASSUME NEW j \in 1 .. h, j > c, arrived[j].type = "arp"
       PROVE  j >= k
  <2>1. arrived[j] \in Range(fifo[ToArp]) \/ out["ethernet_mux"] = <<To("arp", arrived[j])>>
    BY <1>8, <1>9, <1>17 DEF OnTheirWay
  <2>2. CASE arrived[j] = a
    BY <1>14, <1>15, <1>17, <2>2
  <2>3. CASE arrived[j] \in Range(fifo'[ToArp])
    BY <1>11, <1>14, <1>15, <1>17, <2>3
  <2>4. CASE out["ethernet_mux"] = <<To("arp", arrived[j])>>
    BY <1>12, <1>14, <1>15, <1>16, <1>17, <2>4
  <2> QED
    BY <1>11, <2>1, <2>2, <2>3, <2>4
<1>18. CurrentUpTo(k)'
  <2>1. a.sip \in Peers /\ a.shw \in Hw
    <3>1. Fits("ethernet_mux", "arp", Head(fifo[ToArp]))
      BY <1>2, <1>4, HeadFits DEF ToArp
    <3> QED
      BY <1>1, <3>1 DEF Fits, Announcement, head
  <2>2. ASSUME NEW ip \in Peers, NEW i \in 1 .. k, Announces(arrived[i], ip),
               \A j \in 1 .. k : j > i => ~ Announces(arrived[j], ip)
        PROVE  Known(ip)' = {arrived[i].shw}
    <3>1. CASE i = k
      <4>1. a.op \in {"request", "reply"} /\ a.sip = ip
        BY <1>14, <2>2, <3>1 DEF Announces
      <4>2. cache' = Update(a.sip, a.shw)
        BY <1>2, <4>1
      <4>3. Known(a.sip)' = {a.shw}
        BY <2>1, <4>2, UpdateKnown
      <4> QED
        BY <1>14, <3>1, <4>1, <4>3
    <3>2. CASE i # k
      <4>1. i < k /\ i \in 1 .. h
        BY <1>9, <1>14, <3>2
      <4>2. arrived[i].type = "arp"
        BY <2>2 DEF Announces
      <4>3. ~ (i > c)
        BY <1>17, <4>1, <4>2
      <4>4. i \in 1 .. c /\ \A j \in 1 .. c : j \in 1 .. k
        BY <1>9, <1>14, <4>3
      <4>5. Known(ip) = {arrived[i].shw}
        BY <1>8, <2>2, <4>4 DEF CurrentUpTo
      <4>6. k \in 1 .. k /\ ~ Announces(a, ip)
        BY <1>14, <2>2, <4>1
      <4>7. Known(ip)' = Known(ip)
        <5>1. CASE a.op \in {"request", "reply"}
          <6>1. ip # a.sip
            BY <1>14, <4>6, <5>1 DEF Announces
          <6>2. cache' = Update(a.sip, a.shw)
            BY <1>2, <5>1
          <6> QED
            BY <2>1, <6>1, <6>2, UpdateKnown
        <5>2. CASE a.op \notin {"request", "reply"}
          BY <1>2, <5>2 DEF Known
        <5> QED
          BY <5>1, <5>2
      <4> QED
        BY <4>5, <4>7
    <3> QED
      BY <3>1, <3>2
  <2>3. arrived' = arrived
    BY <1>2
  <2> QED
    BY <2>2, <2>3 DEF CurrentUpTo
<1>19. OnTheirWay(k)'
  <2>1. k \in 0 .. Handed'
    BY <1>9, <1>14
  <2>2. ASSUME NEW j \in 1 .. h, j > k, arrived[j].type = "arp"
        PROVE  arrived[j] \in Range(fifo'[ToArp]) \/ out'["ethernet_mux"] = <<To("arp", arrived[j])>>
    <3>1. j > c
      BY <1>9, <1>14, <2>2
    <3>2. arrived[j] # a
      BY <1>14, <1>15, <2>2
    <3> QED
      BY <1>6, <1>8, <1>9, <1>11, <2>2, <3>1, <3>2 DEF OnTheirWay
  <2>3. \A x \in Range(fifo'[ToArp]) :
          x.n \in 1 .. h /\ x.n > k /\ arrived[x.n] = x /\ x.type = "arp"
    BY <1>11, <1>12, <1>13, <1>14
  <2>4. \/ out'["ethernet_mux"] = <<>>
        \/ \E b, x : out'["ethernet_mux"] = <<To(b, x)>> /\ b # "arp"
        \/ \E x : /\ out'["ethernet_mux"] = <<To("arp", x)>>
                  /\ x.n = h /\ h > k /\ arrived[h] = x /\ x.type = "arp"
                  /\ \A y \in Range(fifo'[ToArp]) : y.n < h
    <3>1. k < h \/ \A x : out["ethernet_mux"] # <<To("arp", x)>>
      BY <1>12, <1>14, <1>16
    <3> QED
      BY <1>6, <1>8, <1>9, <1>12, <3>1 DEF OnTheirWay
  <2>5. arrived' = arrived
    BY <1>2
  <2> QED
    BY <1>9, <1>11, <2>1, <2>2, <2>3, <2>4, <2>5 DEF OnTheirWay
<1> QED
  BY <1>7, <1>18, <1>19 DEF Followed

LEMMA StepFollowed ==
  ASSUME Typed, Followed, [Next]_vars
  PROVE  Followed'
<1>0. Queues /\ number \in [frames : 0 .. MaxFrames, writes : 0 .. MaxWrites]
  BY DEF Typed
<1>1. ASSUME NEW m \in Modules, MinetSend(m) PROVE Followed'
  BY <1>0, <1>1, SendFollowed
<1>2. ASSUME NEW from \in {"dd", "arp", "ip"}, ethernet_mux(from) PROVE Followed'
  BY <1>0, <1>2, ReadFollowed, WriteFollowed
<1>3. ASSUME ArpFromNetwork PROVE Followed'
  BY <1>3, LearnFollowed
<1>4. ASSUME NEW m, NEW from, NEW sends, Handle(m, from, sends),
             m \notin {"ethernet_mux", "dd"}, <<from, m>> # <<"ethernet_mux", "arp">>,
             UNCHANGED <<arrived, cache, number>>
      PROVE  Followed'
  BY <1>0, <1>4, HandleFollowed DEF ToArp
<1>5. ASSUME ArpFromIp PROVE Followed'
  <2>1. <<"ip", "arp">> # <<"ethernet_mux", "arp">>
    OBVIOUS
  <2> QED
    BY <1>4, <1>5, <2>1 DEF ArpFromIp
<1>6. ASSUME IpFromNetwork \/ IpFromMux \/ SendPacket PROVE Followed'
  <2>1. \A from : <<from, "ip">> # <<"ethernet_mux", "arp">>
    OBVIOUS
  <2> QED
    BY <1>4, <1>6, <2>1 DEF IpFromNetwork, IpFromMux, SendPacket, Ask
<1>7. ASSUME NEW m \in {"udp", "icmp"}, IpMuxFromIp \/ IpMuxFromAbove(m) PROVE Followed'
  <2>1. \A from : <<from, "ip_mux">> # <<"ethernet_mux", "arp">>
    OBVIOUS
  <2> QED
    BY <1>4, <1>7, <2>1 DEF IpMuxFromIp, IpMuxFromAbove
<1>8. ASSUME UdpFromMux \/ IcmpFromMux PROVE Followed'
  <2>1. \A from : <<from, "udp">> # <<"ethernet_mux", "arp">> /\ <<from, "icmp">> # <<"ethernet_mux", "arp">>
    OBVIOUS
  <2> QED
    BY <1>4, <1>8, <2>1 DEF UdpFromMux, IcmpFromMux
<1>9. ASSUME other_module \/ ipother_module PROVE Followed'
  <2>1. \A from : <<from, "other">> # <<"ethernet_mux", "arp">> /\ <<from, "ipother">> # <<"ethernet_mux", "arp">>
    OBVIOUS
  <2> QED
    BY <1>4, <1>9, <2>1 DEF other_module, ipother_module, Swallow
<1>10. ASSUME Transmit PROVE Followed'
  <2>1. /\ fifo' = [fifo EXCEPT ![<<"ethernet_mux", "dd">>] = Tail(@)]
        /\ out' = [out EXCEPT !["dd"] = <<>>]
        /\ UNCHANGED <<arrived, cache, number>>
    BY <1>10 DEF Transmit, Handle
  <2>2. <<"ethernet_mux", "dd">> # FromNetwork /\ <<"ethernet_mux", "dd">> # ToArp
    BY DEF FromNetwork, ToArp
  <2>3. /\ FromNetwork \in Links /\ ToArp \in Links
        /\ "ethernet_mux" \in Modules /\ "dd" \in Modules
    BY MuxLinks DEF FromNetwork, ToArp, Modules, Opened
  <2>4. /\ fifo'[FromNetwork] = fifo[FromNetwork] /\ fifo'[ToArp] = fifo[ToArp]
        /\ out'["ethernet_mux"] = out["ethernet_mux"] /\ out'["dd"] = out["dd"]
    BY <1>0, <2>1, <2>2, <2>3 DEF Queues, Followed, LastArrived
  <2> QED
    BY <2>1, <2>4, FollowedApart
<1>11. ASSUME NEW f \in Frames, Arrive(f) PROVE Followed'
  BY <1>0, <1>11, ArriveFollowed
<1>12. ASSUME NEW dst \in Peers \cup {Broadcast}, UdpFromSock(dst) PROVE Followed'
  <2>1. PICK sends : /\ out' = [out EXCEPT !["udp"] = sends]
                     /\ number' = [number EXCEPT !.writes = @ + 1]
                     /\ UNCHANGED <<fifo, arrived, cache>>
    BY <1>12 DEF UdpFromSock
  <2>2. "ethernet_mux" \in Modules /\ "dd" \in Modules
    BY DEF Modules, Opened
  <2>3. out'["ethernet_mux"] = out["ethernet_mux"] /\ out'["dd"] = out["dd"]
    BY <1>0, <2>1, <2>2 DEF Queues
  <2>4. number'.frames = number.frames
    BY <1>0, <2>1
  <2> QED
    BY <2>1, <2>3, <2>4, FollowedApart
<1>13. CASE UNCHANGED vars
  BY <1>13, FollowedApart DEF vars
<1> QED
  BY <1>1, <1>2, <1>3, <1>5, <1>6, <1>7, <1>8, <1>9, <1>10, <1>11, <1>12, <1>13 DEF Next, Step

LEMMA InitFollowed == Init => Followed
<1> SUFFICES ASSUME Init PROVE Followed
  OBVIOUS
<1>1. /\ FromNetwork \in Links /\ ToArp \in Links
      /\ "ethernet_mux" \in Modules /\ "dd" \in Modules
  BY MuxLinks DEF FromNetwork, ToArp, Modules, Opened
<1>2. /\ arrived = <<>> /\ number.frames = 0
      /\ fifo[FromNetwork] = <<>> /\ fifo[ToArp] = <<>>
      /\ out["ethernet_mux"] = <<>> /\ out["dd"] = <<>>
  BY <1>1 DEF Init
<1>3. Len(<<>>) = 0 /\ Queue(<<>>) /\ Range(<<>>) = {} /\ DOMAIN <<>> = {}
  BY QueueLiterals
<1>4. Handed = 0 /\ 1 .. 0 = {}
  BY <1>2, <1>3 DEF Handed
<1>5. LastArrived
  BY <1>2, <1>3, <1>4 DEF LastArrived
<1>6. CurrentUpTo(0)
  BY <1>4 DEF CurrentUpTo
<1>7. OnTheirWay(0)
  BY <1>2, <1>3, <1>4 DEF OnTheirWay, Rising
<1> QED
  BY <1>5, <1>6, <1>7 DEF Followed

(* When nothing is on its way, what arp_module knows of each host that      *)
(* announced itself is what it announced last.                              *)
THEOREM CacheFollowsNetwork == Spec => []CacheIsCurrent
<1>1. ASSUME Followed PROVE CacheIsCurrent
  <2>1. SUFFICES ASSUME Quiet, NEW ip \in Peers, NEW i \in DOMAIN arrived, LastAnnounced(ip, i)
                 PROVE  Known(ip) = {arrived[i].shw}
    BY DEF CacheIsCurrent
  <2>2. fifo[FromNetwork] = <<>> /\ fifo[ToArp] = <<>> /\ out["ethernet_mux"] = <<>>
    <3>1. FromNetwork \in Links /\ ToArp \in Links /\ "ethernet_mux" \in Modules
      BY MuxLinks DEF FromNetwork, ToArp, Modules, Opened
    <3> QED
      BY <2>1, <3>1 DEF Quiet, Idle
  <2>3. PICK L \in Nat : L = Len(arrived) /\ DOMAIN arrived = 1 .. L
    BY <1>1, QueuePositions DEF Followed, LastArrived
  <2>4. Handed = L
    BY <2>2, <2>3 DEF Handed
  <2>5. PICK c : CurrentUpTo(c) /\ OnTheirWay(c)
    BY <1>1 DEF Followed
  <2>6. c \in 0 .. L
    BY <2>4, <2>5 DEF OnTheirWay
  <2>7. Range(fifo[ToArp]) = {}
    BY <2>2, QueueLiterals
  <2>8. ~ (i > c)
    BY <2>1, <2>2, <2>3, <2>4, <2>5, <2>7 DEF OnTheirWay, LastAnnounced, Announces
  <2>9. i \in 1 .. c /\ \A j \in 1 .. c : j \in DOMAIN arrived
    BY <2>3, <2>6, <2>8
  <2> QED
    BY <2>1, <2>5, <2>9 DEF CurrentUpTo, LastAnnounced
<1>2. Init => Typed /\ Followed
  BY InitTyped, InitFollowed
<1>3. Typed /\ Followed /\ [Next]_vars => (Typed /\ Followed)'
  BY StepTyped, StepFollowed
<1> QED
  BY <1>1, <1>2, <1>3, PTL DEF Spec
=============================================================================
