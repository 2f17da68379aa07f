--------------------------- MODULE CaptureProofs ---------------------------
(***************************************************************************)
(* What holds of Capture for any machine, any answers of the driver and    *)
(* any frames: no timer of the set-up is left when the capture begins,     *)
(* with a net filter the records and the totals agree on which side of it  *)
(* a packet came from, the addresses that tell directions apart are the    *)
(* interface's own, and every variable keeps its type.                     *)
(***************************************************************************)
EXTENDS Capture, SequenceTheorems, Induction

(* The timer runs only while an acknowledgement is awaited, and that is only *)
(* in the stages of the talk with the driver.                                *)
AlarmInv ==
    /\ alarm => awaited # Nothing
    /\ awaited # Nothing => phase \in Stages

LEMMA AlarmInit == Init => AlarmInv
  BY DEF Init, AlarmInv

LEMMA ExitAlarm == ASSUME exit PROVE AlarmInv'
  BY DEF exit, AlarmInv

LEMMA RequestAlarm ==
    ASSUME AlarmInv, NEW stage \in Stages, NEW ack \in Acks, Request(stage, ack)
    PROVE  AlarmInv'
<1>1. CASE exit
  BY <1>1, ExitAlarm
<1>2. CASE Wait(ack) /\ UNCHANGED phase
  BY <1>2 DEF Request, Wait, AlarmInv, Acks, Nothing
<1> QED BY <1>1, <1>2 DEF Request

LEMMA AcknowledgedAlarm ==
    ASSUME AlarmInv, NEW m, NEW ack, NEW next, Acknowledged(ack, m, next)
    PROVE  AlarmInv'
<1>1. CASE exit
  BY <1>1, ExitAlarm
<1>2. CASE Stop /\ awaited' = Nothing
  BY <1>2 DEF Stop, AlarmInv
<1> QED BY <1>1, <1>2 DEF Acknowledged

LEMMA AlarmNext == AlarmInv /\ [Next]_vars => AlarmInv'
<1> SUFFICES ASSUME AlarmInv, [Next]_vars PROVE AlarmInv'
  OBVIOUS
<1>1. CASE UNCHANGED dlpiVars
  BY <1>1 DEF dlpiVars, AlarmInv
<1>2. CASE Driver
  <2>1. CASE GetmsgFails
    BY <2>1, ExitAlarm DEF GetmsgFails
  <2>2. CASE \E m \in Messages : dlokack(m) \/ dlbindack(m) \/ dlinfoack(m, interface.hw)
    BY <2>2, AcknowledgedAlarm DEF dlokack, dlbindack, dlinfoack
  <2> QED BY <1>2, <2>1, <2>2 DEF Driver
<1>3. CASE Timer
  BY <1>3, ExitAlarm DEF Timer, sigalrm
<1>4. CASE SetUp
  <2>1. CASE dlattachreq \/ dlbindreq \/ dlinforeq
    BY <2>1, RequestAlarm DEF dlattachreq, dlbindreq, dlinforeq, Stages, Acks
  <2>2. CASE exit
    BY <2>2, ExitAlarm
  <2>3. ASSUME phase \notin Stages, UNCHANGED <<awaited, alarm>> PROVE AlarmInv'
    BY <2>3 DEF AlarmInv
  <2>4. CASE get_addrs_dlpi \/ HardwareAddress
    BY <2>2, <2>3, <2>4 DEF get_addrs_dlpi, HardwareAddress, Stages
  <2>5. CASE options_set_defaults \/ IPAddress
    BY <2>3, <2>5 DEF options_set_defaults, IPAddress, Stages
  <2>6. CASE packet_init \/ set_filter_code
    BY <2>2, <2>3, <2>6 DEF packet_init, set_filter_code, Stages
  <2> QED BY <1>4, <2>1, <2>4, <2>5, <2>6 DEF SetUp
<1> QED BY <1>1, <1>2, <1>3, <1>4 DEF Next, vars

(* No alarm of the set-up ends a capture that has begun (dlcommon.c:484-505). *)
THEOREM NoAlarmLeft == Spec => NoLateAlarm
<1>1. AlarmInv /\ [Next]_vars => [phase = "loop" => phase' = "loop"]_vars
  <2> SUFFICES ASSUME AlarmInv, Next, phase = "loop" PROVE phase' = "loop"
    BY DEF vars, dlpiVars
  <2>1. ~alarm /\ awaited = Nothing
    BY DEF AlarmInv, Stages
  <2>2. ~Driver
    BY <2>1 DEF Driver, GetmsgFails, dlokack, dlbindack, dlinfoack, Acknowledged, Nothing
  <2>3. ~Timer
    BY <2>1 DEF Timer, sigalrm
  <2>4. ~SetUp
    BY DEF SetUp, options_set_defaults, get_addrs_dlpi, HardwareAddress, dlattachreq,
           dlbindreq, dlinforeq, Request, IPAddress, packet_init, set_filter_code
  <2> QED BY <2>2, <2>3, <2>4 DEF Next, dlpiVars
<1> QED BY <1>1, AlarmInit, AlarmNext, PTL DEF Spec, NoLateAlarm

-----------------------------------------------------------------------------
(* What has been seen: a frame, and perhaps the answer to it, each with the  *)
(* handler's verdict.                                                        *)
Made(f, i) == [frame |-> f, verdict |-> Verdict(f, i)]
Starts == 1..Len(options.block_protocols) + 1

SeenInv ==
    /\ phase \in {"filter", "loop"} => packet_handler \in Handlers
    /\ seen # <<>> => phase = "loop"
    /\ \/ seen = <<>>
       \/ \E f \in Frames[packet_handler] : \E i \in Starts : seen = <<Made(f, i)>>
       \/ \E f \in Frames[packet_handler] : \E i, j \in Starts :
             /\ HasReply(packet_handler, f.header)
             /\ seen = <<Made(f, i), Made(Reply(f), j)>>

LEMMA AppendTwo == ASSUME NEW a, NEW b PROVE Append(<<a>>, b) = <<a, b>>
<1>1. <<a>> \in Seq({a, b}) /\ <<a, b>> \in Seq({a, b})
  OBVIOUS
<1>2. Append(<<a>>, b) \in Seq({a, b}) /\ Len(Append(<<a>>, b)) = 2
  BY <1>1
<1>3. \A n \in 1..2 : Append(<<a>>, b)[n] = <<a, b>>[n]
  BY <1>1
<1>4. Len(<<a, b>>) = 2
  OBVIOUS
<1> QED BY <1>1, <1>2, <1>3, <1>4, SeqEqual

LEMMA SeenInit == Init => SeenInv
  BY DEF Init, SeenInv

LEMMA SeenCapture ==
    ASSUME SeenInv, phase = "loop", packet_loop, UNCHANGED phase
    PROVE  SeenInv'
<1>1. UNCHANGED <<options, packet_handler, if_addr>>
  BY DEF packet_loop, Capture
<1>2. /\ Starts' = Starts
      /\ \A f, i : Made(f, i)' = Made(f, i)
      /\ \A f : Reply(f)' = Reply(f)
  BY <1>1 DEF Starts, Made, Verdict, Reply, handle_ip_packet, Assigned, Filtered, Unfiltered,
              Own, in_filter_net, Blocked, PortIgnored, in_port_list
<1>3. ASSUME NEW f, Capture(f)
      PROVE  \E i \in Starts : seen' = Append(seen, Made(f, i))
  BY <1>3 DEF Capture, Made, Starts
<1>4. CASE seen = <<>> /\ \E f \in Frames[packet_handler] : Capture(f)
  <2>1. PICK f \in Frames[packet_handler] : Capture(f)
    BY <1>4
  <2>2. PICK i \in Starts : seen' = Append(seen, Made(f, i))
    BY <1>3, <2>1
  <2>3. seen' = <<Made(f, i)>>
    BY <1>4, <2>2
  <2> QED BY <1>1, <1>2, <2>3 DEF SeenInv
<1>5. CASE /\ Len(seen) = 1 /\ HasReply(packet_handler, seen[1].frame.header)
           /\ Capture(Reply(seen[1].frame))
  <2>1. PICK f \in Frames[packet_handler], i \in Starts : seen = <<Made(f, i)>>
    BY <1>5 DEF SeenInv
  <2>2. seen[1].frame = f
    BY <2>1 DEF Made
  <2>3. PICK j \in Starts : seen' = Append(seen, Made(Reply(f), j))
    BY <1>3, <1>5, <2>2
  <2>4. seen' = <<Made(f, i), Made(Reply(f), j)>>
    BY <2>1, <2>3, AppendTwo
  <2>5. HasReply(packet_handler, f.header)' 
    BY <1>1, <1>5, <2>2
  <2> QED BY <1>1, <1>2, <2>4, <2>5 DEF SeenInv
<1> QED BY <1>4, <1>5 DEF packet_loop

(* Only the capture itself touches what has been seen, and the handler is    *)
(* chosen before it begins.                                                  *)
LEMMA SeenQuiet ==
    ASSUME SeenInv, UNCHANGED <<options, packet_handler, if_addr, seen>>,
           seen # <<>> => phase' = "loop",
           phase' \in {"filter", "loop"} => phase \in {"filter", "loop"}
    PROVE  SeenInv'
<1>1. /\ Starts' = Starts
      /\ \A f, i : Made(f, i)' = Made(f, i)
      /\ \A f : Reply(f)' = Reply(f)
  BY DEF Starts, Made, Verdict, Reply, handle_ip_packet, Assigned, Filtered, Unfiltered,
         Own, in_filter_net, Blocked, PortIgnored, in_port_list
<1> QED BY <1>1 DEF SeenInv

(* Before the capture nothing has been seen. *)
LEMMA SeenBefore ==
    ASSUME SeenInv, seen' = seen, phase # "loop",
           phase' \in {"filter", "loop"} => packet_handler' \in Handlers
    PROVE  SeenInv'
  BY DEF SeenInv

LEMMA SeenNext == SeenInv /\ AlarmInv /\ [Next]_vars => SeenInv'
<1> SUFFICES ASSUME SeenInv, AlarmInv, [Next]_vars PROVE SeenInv'
  OBVIOUS
<1>1. CASE UNCHANGED vars
  BY <1>1, SeenQuiet DEF vars, dlpiVars, SeenInv
<1>2. CASE phase = "loop" /\ packet_loop /\ UNCHANGED <<dlpiVars, machine, interface, if_ip6_addr>>
  BY <1>2, SeenCapture DEF dlpiVars
<1>3. CASE Driver
  <2>1. awaited # Nothing
    BY <1>3 DEF Driver, GetmsgFails, dlokack, dlbindack, dlinfoack, Acknowledged, Nothing
  <2>2. phase # "loop"
    BY <2>1 DEF AlarmInv, Stages
  <2>3. phase' \in {"bind", "info", "ip", "exit"}
    BY <1>3 DEF Driver, GetmsgFails, dlokack, dlbindack, dlinfoack, Acknowledged, exit
  <2>4. seen' = seen
    BY <1>3 DEF Driver
  <2> QED BY <2>2, <2>3, <2>4, SeenBefore
<1>4. CASE Timer
  <2>1. phase # "loop"
    BY <1>4 DEF Timer, sigalrm, AlarmInv, Stages
  <2> QED BY <1>4, <2>1, SeenBefore DEF Timer, sigalrm, exit
<1>5. CASE SetUp
  <2>1. CASE dlattachreq \/ dlbindreq \/ dlinforeq
    <3>1. phase \in Stages /\ (phase' = phase \/ phase' = "exit")
      BY <2>1 DEF dlattachreq, dlbindreq, dlinforeq, Request, exit, Stages
    <3>2. seen' = seen
      BY <1>5, <2>1, <3>1 DEF SetUp, options_set_defaults, IPAddress, packet_init,
                              set_filter_code, Stages
    <3> QED BY <3>1, <3>2, SeenBefore DEF Stages
  <2>2. CASE get_addrs_dlpi
    <3>1. phase = "open" /\ phase' \in {"exit", "attach", "ip"}
      BY <2>2 DEF get_addrs_dlpi, exit, OpenDevice
    <3>2. seen' = seen
      BY <1>5, <3>1 DEF SetUp, options_set_defaults, IPAddress, packet_init, set_filter_code
    <3> QED BY <3>1, <3>2, SeenBefore
  <2>3. CASE HardwareAddress
    <3>1. phase = "socket" /\ phase' \in {"exit", "ip"}
      BY <2>3 DEF HardwareAddress, exit
    <3>2. seen' = seen
      BY <1>5, <3>1 DEF SetUp, options_set_defaults, IPAddress, packet_init, set_filter_code
    <3> QED BY <3>1, <3>2, SeenBefore
  <2>4. CASE options_set_defaults
    BY <2>4, SeenBefore DEF options_set_defaults
  <2>5. CASE IPAddress /\ UNCHANGED <<options, packet_handler, seen, machine, interface>>
    BY <2>5, SeenBefore DEF IPAddress
  <2>6. CASE packet_init /\ UNCHANGED <<options, if_addr, seen, machine, interface, if_ip6_addr, hw>>
    <3>1. phase = "pcap" /\ (phase' = "exit" \/ packet_handler' \in Handlers)
      BY <2>6 DEF packet_init, exit
    <3> QED BY <2>6, <3>1, SeenBefore
  <2>7. CASE set_filter_code /\ UNCHANGED <<options, packet_handler, if_addr, seen, machine,
                                            interface, if_ip6_addr, hw>>
    <3>1. phase = "filter" /\ packet_handler \in Handlers
      BY <2>7 DEF set_filter_code, SeenInv
    <3> QED BY <2>7, <3>1, SeenBefore
  <2> QED BY <1>5, <2>1, <2>2, <2>3, <2>4, <2>5, <2>6, <2>7 DEF SetUp
<1> QED BY <1>1, <1>2, <1>3, <1>4, <1>5 DEF Next

(* Both invariants at once. *)
THEOREM SeenInvariance == Spec => [](SeenInv /\ AlarmInv)
  BY SeenInit, SeenNext, AlarmInit, AlarmNext, PTL DEF Spec

-----------------------------------------------------------------------------
(* With a net filter *)

LEMMA FilteredSides ==
    ASSUME NEW p, Filtered(p) # Junk
    PROVE  LET ap == assign_addr_pair(p, Filtered(p).flip)
           IN  /\ in_filter_net(ap.src) /\ ~in_filter_net(ap.dst)
               /\ p.src = ap.src <=> Filtered(p).direction = 1
<1>1. CASE in_filter_net(p.src) /\ ~in_filter_net(p.dst)
  <2>1. Filtered(p) = Outgoing
    BY <1>1 DEF Filtered
  <2> QED BY <1>1, <2>1 DEF Outgoing, assign_addr_pair
<1>2. CASE in_filter_net(p.dst) /\ ~in_filter_net(p.src)
  <2>1. Filtered(p) = Incoming
    BY <1>2 DEF Filtered
  <2> QED BY <1>2, <2>1 DEF Incoming, assign_addr_pair
<1> QED BY <1>1, <1>2 DEF Filtered

LEMMA VerdictFiltered ==
    ASSUME options.netfilter, NEW f, NEW i, Verdict(f, i).counted
    PROVE  /\ in_filter_net(Verdict(f, i).key.src) /\ ~in_filter_net(Verdict(f, i).key.dst)
           /\ Verdict(f, i).sent <=> (Verdict(f, i).direction = 1)
<1> DEFINE d == Direction(packet_handler, f.header, if_addr.hw)
           p == f.packet
           as == Filtered(p)
           ap == assign_addr_pair(p, as.flip)
<1>1. Verdict(f, i) = handle_ip_packet(p, d, i)
  BY DEF Verdict, Ignored
<1>2. /\ as # Junk
      /\ Verdict(f, i).sent = (p.src = ap.src) /\ Verdict(f, i).direction = as.direction
      /\ Verdict(f, i).key = [ap EXCEPT !.dst_port = IF Dynamic(ap.dst_port) THEN 0 ELSE ap.dst_port]
  BY <1>1 DEF handle_ip_packet, Ignored, Assigned
<1>3. Verdict(f, i).key.src = ap.src /\ Verdict(f, i).key.dst = ap.dst
  BY <1>2 DEF assign_addr_pair
<1>4. /\ in_filter_net(ap.src) /\ ~in_filter_net(ap.dst)
      /\ p.src = ap.src <=> as.direction = 1
  BY <1>2, FilteredSides
<1> HIDE DEF d, p, as, ap
<1> QED BY <1>2, <1>3, <1>4

(* What has been seen was made by the handler. *)
LEMMA SeenMade ==
    ASSUME SeenInv, NEW n \in 1..Len(seen)
    PROVE  \E f : \E i \in Starts : seen[n] = Made(f, i)
  BY DEF SeenInv

(* For any net, mask, frames and ports, a filtered record is of a host in    *)
(* the net with one outside it, and sent and outgoing are the same           *)
(* (iftop.c:462-481, 529-547).                                               *)
THEOREM FilterSafe == Spec => []FilterSeparates
<1>1. SeenInv => FilterSeparates
  <2> SUFFICES ASSUME SeenInv, NEW n \in 1..Len(seen), options.netfilter,
                      seen[n].verdict.counted
               PROVE  /\ in_filter_net(seen[n].verdict.key.src)
                      /\ ~in_filter_net(seen[n].verdict.key.dst)
                      /\ seen[n].verdict.sent <=> (seen[n].verdict.direction = 1)
    BY DEF FilterSeparates
  <2>1. PICK f, i : seen[n] = Made(f, i)
    BY SeenMade
  <2>2. seen[n].verdict = Verdict(f, i)
    BY <2>1 DEF Made
  <2> QED BY <2>2, VerdictFiltered
<1> QED BY <1>1, SeenInvariance, PTL

-----------------------------------------------------------------------------
(* The two directions of a conversation *)

(* Of two addresses one is below the other. *)
LEMMA BelowOrder ==
    ASSUME NEW a \in Addrs, NEW b \in Addrs, a # b
    PROVE  Below(a, b) <=> ~Below(b, a)
<1>1. a \in [1..4 -> 0..255] /\ b \in [1..4 -> 0..255]
  BY OctetsAssumption
<1>2. /\ a[1] \in Int /\ a[2] \in Int /\ a[3] \in Int /\ a[4] \in Int
      /\ b[1] \in Int /\ b[2] \in Int /\ b[3] \in Int /\ b[4] \in Int
  BY <1>1
<1>3. a[1] # b[1] \/ a[2] # b[2] \/ a[3] # b[3] \/ a[4] # b[4]
  BY <1>1
<1>4. ASSUME NEW x, NEW y
      PROVE  Below(x, y) <=> \/ x[4] < y[4]
                             \/ x[4] = y[4] /\ x[3] < y[3]
                             \/ x[4] = y[4] /\ x[3] = y[3] /\ x[2] < y[2]
                             \/ x[4] = y[4] /\ x[3] = y[3] /\ x[2] = y[2] /\ x[1] < y[1]
  <2>1. \A i \in 1..4 : i = 1 \/ i = 2 \/ i = 3 \/ i = 4
    OBVIOUS
  <2>2. 2..4 = {2, 3, 4} /\ 3..4 = {3, 4} /\ 4..4 = {4} /\ 5..4 = {}
    OBVIOUS
  <2> QED BY <2>1, <2>2 DEF Below
<1> QED BY <1>2, <1>3, <1>4

(* What the link layer says of a frame and of the answer to it. *)
LEMMA DirectionsFit ==
    ASSUME packet_handler \in Handlers, NEW f \in Frames[packet_handler],
           HasReply(packet_handler, f.header), ~SourceRouted(packet_handler, f.header)
    PROVE  LET there == Direction(packet_handler, f.header, if_addr.hw)
               back  == Direction(packet_handler, Reply(f).header, if_addr.hw)
           IN  <<there, back>> \in {<<1, 0>>, <<0, 1>>, <<-1, -1>>, <<Unhandled, Unhandled>>}
<1> DEFINE h == f.header
           r == ReplyHeader(packet_handler, h)
<1>1. Reply(f).header = r
  BY DEF Reply
<1>2. h \in HeaderOf(packet_handler) /\ (packet_handler \in Hosts => h.shost # h.dhost)
  BY FramesAssumption DEF FrameOf
<1>3. CASE packet_handler = "eth"
  <2>1. h \in EthHeader /\ h.shost # h.dhost /\ h.dhost # Broadcast /\ h.shost # Broadcast
    BY <1>2, <1>3, HwAddrAssumption DEF HeaderOf, Hosts, HasReply, EthHeader
  <2>2. r = [h EXCEPT !.shost = h.dhost, !.dhost = h.shost]
    BY <1>3 DEF ReplyHeader, Hosts
  <2>3. r.shost = h.dhost /\ r.dhost = h.shost /\ r.types = h.types
    BY <2>1, <2>2 DEF EthHeader
  <2> QED BY <1>1, <1>3, <2>1, <2>3 DEF Direction, handle_eth_packet, EtherType, Unhandled
<1>4. CASE packet_handler = "tokenring"
  <2>1. /\ h \in TokenHeader /\ h.shost # h.dhost /\ h.dhost # Broadcast
        /\ h.shost # Broadcast /\ ~h.routed
    BY <1>2, <1>4, HwAddrAssumption DEF HeaderOf, Hosts, HasReply, SourceRouted, TokenHeader
  <2>2. r = [h EXCEPT !.shost = h.dhost, !.dhost = h.shost]
    BY <1>4 DEF ReplyHeader, Hosts
  <2>3. /\ r.shost = h.dhost /\ r.dhost = h.shost /\ r.routed = h.routed
        /\ r.frame_type = h.frame_type /\ r.llc = h.llc
    BY <2>1, <2>2 DEF TokenHeader
  <2> QED BY <1>1, <1>4, <2>1, <2>3 DEF Direction, handle_tokenring_packet,
                                         handle_llc_packet, Unhandled
<1>5. CASE packet_handler = "cooked"
  <2>1. h \in CookedHeader
    BY <1>2, <1>5 DEF HeaderOf
  <2>2. /\ h.pkttype = "HOST" => r.pkttype = "OUTGOING"
        /\ h.pkttype = "OUTGOING" => r.pkttype = "HOST"
        /\ h.pkttype \notin {"HOST", "OUTGOING"} => r = h
    BY <1>5, <2>1 DEF ReplyHeader, CookedHeader, Hosts
  <2> QED BY <1>1, <1>5, <2>2 DEF Direction, handle_cooked_packet
<1>6. CASE packet_handler \notin {"eth", "tokenring", "cooked"}
  <2>1. r = h
    BY <1>6 DEF ReplyHeader, Hosts
  <2>2. Direction(packet_handler, h, if_addr.hw) \in {-1, Unhandled}
    BY <1>6 DEF Direction, Handlers, handle_ppp_packet, handle_pflog_packet, handle_null_packet,
                handle_radiotap_packet, handle_raw_packet
  <2> QED BY <1>1, <2>1, <2>2 DEF Unhandled
<1> QED BY <1>3, <1>4, <1>5, <1>6

LEMMA ReplyPacket ==
    ASSUME packet_handler \in Handlers, NEW f \in Frames[packet_handler]
    PROVE  LET p == f.packet  q == Reply(f).packet
           IN  /\ p.src \in Addrs /\ p.dst \in Addrs
               /\ q.src = p.dst /\ q.dst = p.src /\ q.ip_p = p.ip_p
               /\ q.sport = p.dport /\ q.dport = p.sport
<1>1. f.packet \in Packet
  BY FramesAssumption DEF FrameOf
<1>2. Reply(f).packet = [f.packet EXCEPT !.src = f.packet.dst, !.dst = f.packet.src,
                                         !.sport = f.packet.dport, !.dport = f.packet.sport]
  BY DEF Reply
<1> QED BY <1>1, <1>2 DEF Packet

(* A packet and the answer to it: both are passed over, or they are          *)
(* assigned in opposite ways.                                                *)
LEMMA AssignedOpposite ==
    ASSUME NEW p, NEW q, p.src \in Addrs, p.dst \in Addrs, Ordinary(p),
           q.src = p.dst, q.dst = p.src,
           NEW d, NEW e, <<d, e>> \in {<<1, 0>>, <<0, 1>>, <<-1, -1>>}
    PROVE  /\ Assigned(p, d) = Junk <=> Assigned(q, e) = Junk
           /\ Assigned(p, d).flip \in BOOLEAN
           /\ Assigned(p, d) # Junk => Assigned(q, e).flip = ~Assigned(p, d).flip
<1>0. /\ Outgoing.flip = FALSE /\ Incoming.flip = TRUE
      /\ Transit.flip = FALSE /\ Junk.flip = FALSE
      /\ Outgoing # Junk /\ Incoming # Junk /\ Transit # Junk
  <2>1. Outgoing.direction # -1 /\ Incoming.direction # -1 /\ Transit.direction # -1
        /\ Junk.direction = -1
    BY DEF Outgoing, Incoming, Transit, Junk
  <2> QED BY <2>1 DEF Outgoing, Incoming, Transit, Junk
<1>1. CASE options.netfilter
  <2>1. CASE in_filter_net(p.src) /\ ~in_filter_net(p.dst)
    <3>1. Assigned(p, d) = Outgoing /\ Assigned(q, e) = Incoming
      BY <1>1, <2>1 DEF Assigned, Filtered
    <3> QED BY <1>0, <3>1
  <2>2. CASE in_filter_net(p.dst) /\ ~in_filter_net(p.src)
    <3>1. Assigned(p, d) = Incoming /\ Assigned(q, e) = Outgoing
      BY <1>1, <2>2 DEF Assigned, Filtered
    <3> QED BY <1>0, <3>1
  <2>3. CASE in_filter_net(p.src) <=> in_filter_net(p.dst)
    <3>1. Assigned(p, d) = Junk /\ Assigned(q, e) = Junk
      BY <1>1, <2>3 DEF Assigned, Filtered
    <3> QED BY <1>0, <3>1
  <2> QED BY <2>1, <2>2, <2>3
<1>2. CASE ~options.netfilter
  <2>1. CASE <<d, e>> \in {<<1, 0>>, <<0, 1>>}
    <3>1. \/ Assigned(p, d) = Outgoing /\ Assigned(q, e) = Incoming
          \/ Assigned(p, d) = Incoming /\ Assigned(q, e) = Outgoing
      BY <1>2, <2>1 DEF Assigned, Unfiltered
    <3> QED BY <1>0, <3>1
  <2>2. CASE <<d, e>> = <<-1, -1>>
    <3>1. Below(p.src, p.dst) <=> ~Below(q.src, q.dst)
      BY BelowOrder DEF Ordinary
    <3>2. d = -1 /\ e = -1
      BY <2>2
    <3>3. ~(Own(p.src) /\ Own(p.dst))
      BY DEF Own, Ordinary
    <3>4. Assigned(p, d) = Unfiltered(p, -1) /\ Assigned(q, e) = Unfiltered(q, -1)
      BY <1>2, <3>2 DEF Assigned
    <3>5. CASE Own(p.src)
      <4>1. Assigned(p, d) = Outgoing /\ Assigned(q, e) = Incoming
        BY <3>3, <3>4, <3>5 DEF Unfiltered
      <4> QED BY <1>0, <4>1
    <3>6. CASE Own(p.dst)
      <4>1. Assigned(p, d) = Incoming /\ Assigned(q, e) = Outgoing
        BY <3>3, <3>4, <3>6 DEF Unfiltered
      <4> QED BY <1>0, <4>1
    <3>7. CASE ~Own(p.src) /\ ~Own(p.dst)
      <4>1. \/ Assigned(p, d) = Junk /\ Assigned(q, e) = Junk
            \/ Assigned(p, d) = Incoming /\ Assigned(q, e) = Transit
            \/ Assigned(p, d) = Transit /\ Assigned(q, e) = Incoming
        BY <3>1, <3>4, <3>7 DEF Unfiltered, Ordinary
      <4> QED BY <1>0, <4>1
    <3> QED BY <3>5, <3>6, <3>7
  <2> QED BY <2>1, <2>2
<1> QED BY <1>1, <1>2

LEMMA PairOpposite ==
    ASSUME NEW p, NEW q, q.src = p.dst, q.dst = p.src, q.ip_p = p.ip_p,
           q.sport = p.dport, q.dport = p.sport, NEW b \in BOOLEAN
    PROVE  assign_addr_pair(q, ~b) = assign_addr_pair(p, b)
  BY DEF assign_addr_pair, HasPorts

LEMMA VerdictOf ==
    ASSUME NEW f, NEW i, NEW d, d = Direction(packet_handler, f.header, if_addr.hw),
           d # Unhandled
    PROVE  Verdict(f, i) = handle_ip_packet(f.packet, d, i)
  BY DEF Verdict

LEMMA NoneBlocked ==
    ASSUME options.block_protocols = <<>>, NEW p, NEW i \in Starts
    PROVE  ~Blocked(p, i)
  BY DEF Blocked, Starts

(* The two verdicts. *)
LEMMA Conversation ==
    ASSUME packet_handler \in Handlers, NEW f \in Frames[packet_handler],
           HasReply(packet_handler, f.header), ~SourceRouted(packet_handler, f.header),
           Ordinary(f.packet), NEW i \in Starts, NEW j \in Starts,
           NEW v, v = Verdict(f, i), NEW w, w = Verdict(Reply(f), j)
    PROVE  /\ options.block_protocols = <<>> => (v.counted <=> w.counted)
           /\ v.counted /\ w.counted => v.key = w.key /\ v.sent = ~w.sent
<1> DEFINE p == f.packet
           q == Reply(f).packet
           d == Direction(packet_handler, f.header, if_addr.hw)
           e == Direction(packet_handler, Reply(f).header, if_addr.hw)
           as == Assigned(p, d)
           bs == Assigned(q, e)
           ap == assign_addr_pair(p, as.flip)
           bp == assign_addr_pair(q, bs.flip)
<1>1. <<d, e>> \in {<<1, 0>>, <<0, 1>>, <<-1, -1>>, <<Unhandled, Unhandled>>}
  BY DirectionsFit
<1>2. CASE <<d, e>> = <<Unhandled, Unhandled>>
  <2>1. v = Ignored /\ w = Ignored
    BY <1>2 DEF Verdict
  <2> QED BY <2>1 DEF Ignored
<1>3. CASE <<d, e>> \in {<<1, 0>>, <<0, 1>>, <<-1, -1>>}
  <2>1. v = handle_ip_packet(p, d, i) /\ w = handle_ip_packet(q, e, j)
    BY <1>3, VerdictOf DEF Unhandled
  <2>2. /\ p.src \in Addrs /\ p.dst \in Addrs /\ q.src = p.dst /\ q.dst = p.src
        /\ q.ip_p = p.ip_p /\ q.sport = p.dport /\ q.dport = p.sport
    BY ReplyPacket
  <2>3. /\ as = Junk <=> bs = Junk
        /\ as.flip \in BOOLEAN
        /\ as # Junk => bs.flip = ~as.flip
    BY <1>3, <2>2, AssignedOpposite
  <2>4. CASE as = Junk
    <3>1. v = Ignored /\ w = Ignored
      BY <2>1, <2>3, <2>4 DEF handle_ip_packet
    <3> QED BY <3>1 DEF Ignored
  <2>5. CASE as # Junk
    <3>1. bs # Junk /\ bp = ap
      <4>1. bp = assign_addr_pair(q, ~as.flip)
        BY <2>3, <2>5
      <4> QED BY <2>2, <2>3, <2>5, <4>1, PairOpposite
    <3>2. /\ v.counted <=> ~(Blocked(p, i) \/ ap.src = ROUTER_ADDR \/ PortIgnored(ap))
          /\ w.counted <=> ~(Blocked(q, j) \/ ap.src = ROUTER_ADDR \/ PortIgnored(ap))
      BY <2>1, <2>5, <3>1 DEF handle_ip_packet, Ignored
    <3>3. v.counted /\ w.counted =>
            v.key = w.key /\ v.sent = (p.src = ap.src) /\ w.sent = (p.dst = ap.src)
      BY <2>1, <2>2, <2>5, <3>1 DEF handle_ip_packet, Ignored
    <3>4. (p.src = ap.src) = ~(p.dst = ap.src)
      BY DEF Ordinary, assign_addr_pair
    <3>5. options.block_protocols = <<>> => ~Blocked(p, i) /\ ~Blocked(q, j)
      BY NoneBlocked
    <3> QED BY <3>2, <3>3, <3>4, <3>5
  <2> QED BY <2>4, <2>5
<1> QED BY <1>1, <1>2, <1>3

(* Whatever the frames, the options and the addresses, and on every kind of  *)
(* link, the two directions of a conversation meet in one record             *)
(* (iftop.c:399-511, 551-765).                                               *)
THEOREM ConversationSafe == Spec => []ConversationIsOneRecord
<1>1. SeenInv => ConversationIsOneRecord
  <2> SUFFICES ASSUME SeenInv, Len(seen) = 2, Ordinary(seen[1].frame.packet),
                      ~SourceRouted(packet_handler, seen[1].frame.header)
               PROVE  LET v == seen[1].verdict  w == seen[2].verdict
                      IN  /\ options.block_protocols = <<>> => (v.counted <=> w.counted)
                          /\ v.counted /\ w.counted => v.key = w.key /\ v.sent = ~w.sent
    BY DEF ConversationIsOneRecord
  <2>1. packet_handler \in Handlers
    BY DEF SeenInv
  <2>2. PICK f \in Frames[packet_handler], i \in Starts, j \in Starts :
            HasReply(packet_handler, f.header) /\ seen = <<Made(f, i), Made(Reply(f), j)>>
    <3>1. \A f, i : seen # <<Made(f, i)>>
      OBVIOUS
    <3>2. seen # <<>>
      OBVIOUS
    <3> QED BY <3>1, <3>2 DEF SeenInv
  <2>3. /\ seen[1].frame = f
        /\ seen[1].verdict = Verdict(f, i) /\ seen[2].verdict = Verdict(Reply(f), j)
    BY <2>2 DEF Made
  <2> QED BY <2>1, <2>2, <2>3, Conversation
<1> QED BY <1>1, SeenInvariance, PTL

-----------------------------------------------------------------------------
(* An own frame is assigned as if its link layer said nothing. *)
LEMMA OwnDirection ==
    ASSUME packet_handler \in Handlers, NEW f, OwnFrame(f),
           NEW d, d = Direction(packet_handler, f.header, if_addr.hw), d # Unhandled
    PROVE  Assigned(f.packet, d) = Assigned(f.packet, -1)
<1>1. /\ d \in {1, 0, -1}
      /\ d = 1 => Own(f.packet.src)
      /\ d = 0 => Own(f.packet.dst)
  <2>1. CASE packet_handler = "eth"
    BY <2>1 DEF OwnFrame, Hosts, HasReply, Direction, handle_eth_packet
  <2>2. CASE packet_handler = "tokenring"
    <3> DEFINE h == f.header
               dir == IF if_addr.hw.have /\ h.shost = if_addr.hw.addr /\ ~h.routed THEN 1
                      ELSE IF (if_addr.hw.have /\ h.dhost = if_addr.hw.addr)
                              \/ h.dhost = Broadcast THEN 0
                      ELSE -1
    <3>1. d = dir
      BY <2>2 DEF Direction, handle_tokenring_packet, handle_llc_packet
    <3>2. /\ h.dhost # Broadcast
          /\ h.shost = if_addr.hw.addr => Own(f.packet.src)
          /\ h.dhost = if_addr.hw.addr => Own(f.packet.dst)
      BY <2>2 DEF OwnFrame, Hosts, HasReply
    <3> QED BY <3>1, <3>2
  <2>3. CASE packet_handler = "cooked"
    BY <2>3 DEF OwnFrame, Hosts, Direction, handle_cooked_packet
  <2>4. CASE packet_handler \notin {"eth", "tokenring", "cooked"}
    BY <2>4 DEF Direction, Handlers, handle_ppp_packet, handle_pflog_packet, handle_null_packet,
                handle_radiotap_packet, handle_raw_packet
  <2> QED BY <2>1, <2>2, <2>3, <2>4
<1>2. ~(Own(f.packet.src) /\ Own(f.packet.dst))
  BY DEF OwnFrame, Ordinary, Own
<1>3. CASE d = -1
  BY <1>3
<1>4. CASE d = 1
  BY <1>1, <1>4 DEF Assigned, Unfiltered
<1>5. CASE d = 0
  BY <1>1, <1>2, <1>5 DEF Assigned, Unfiltered
<1> QED BY <1>1, <1>3, <1>4, <1>5

(* Whatever the hardware address says of a frame of the machine's own, the   *)
(* IP addresses would have said (iftop.c:405-430, 603-675, 748-759).         *)
THEOREM LinkSafe == Spec => []LinkAgrees
<1>1. SeenInv => LinkAgrees
  <2> SUFFICES ASSUME SeenInv, NEW n \in 1..Len(seen), OwnFrame(seen[n].frame),
                      options.block_protocols = <<>>, seen[n].verdict.counted
               PROVE  seen[n].verdict = handle_ip_packet(seen[n].frame.packet, -1, 1)
    BY DEF LinkAgrees
  <2>1. packet_handler \in Handlers
    BY DEF SeenInv
  <2>0. PICK f : \E i \in Starts : seen[n] = Made(f, i)
    BY SeenMade
  <2>2. PICK i \in Starts : seen[n] = Made(f, i)
    BY <2>0
  <2>3. seen[n].frame = f /\ seen[n].verdict = Verdict(f, i)
    BY <2>2 DEF Made
  <2> DEFINE d == Direction(packet_handler, f.header, if_addr.hw)
  <2>4. d # Unhandled
    BY <2>3 DEF Verdict, Ignored
  <2>5. Verdict(f, i) = handle_ip_packet(f.packet, d, i)
    BY <2>4, VerdictOf
  <2>6. Assigned(f.packet, d) = Assigned(f.packet, -1)
    BY <2>1, <2>3, <2>4, OwnDirection
  <2>7. 1 \in Starts
    BY DEF Starts
  <2>8. ~Blocked(f.packet, i) /\ ~Blocked(f.packet, 1)
    BY <2>2, <2>7, NoneBlocked
  <2> HIDE DEF d
  <2>9. handle_ip_packet(f.packet, d, i) = handle_ip_packet(f.packet, -1, 1)
    BY <2>6, <2>8 DEF handle_ip_packet
  <2> QED BY <2>3, <2>5, <2>9
<1> QED BY <1>1, SeenInvariance, PTL

-----------------------------------------------------------------------------
(* The interface's addresses *)

(* What the walk of the list has found after each of its entries. *)
WalkStep(ifas, g, s) ==
    IF s = {} THEN [ip |-> NoAddr, ip6 |-> NoAddr] ELSE Entry(g[s \ {Max(s)}], ifas[Max(s)])

IsWalk(ifas, g) == g = [s \in SUBSET DOMAIN ifas |-> WalkStep(ifas, g, s)]

LEMMA FoundIsWalk ==
    ASSUME NEW ifas
    PROVE  Found(ifas) = (CHOOSE g : IsWalk(ifas, g))[DOMAIN ifas]
  BY DEF Found, FoldLeft, MapThenFoldSet, IsWalk, WalkStep

LEMMA WalkExists ==
    ASSUME NEW ifas, ifas \in Seq(Range(ifas))
    PROVE  \E g : IsWalk(ifas, g)
<1> DEFINE n == Len(ifas)
           FoundAddrs == {NoAddr, <<Garbage>>} \cup {ifas[j].addr : j \in 1..n}
           X == [ip : FoundAddrs, ip6 : FoundAddrs]
           a == [ip |-> NoAddr, ip6 |-> NoAddr]
           st == [p \in X \X (1..n) |-> Entry(p[1], ifas[p[2]])]
<1>1. n \in Nat /\ DOMAIN ifas = 1..n
  BY LenProperties
<1>2. a \in X
  OBVIOUS
<1>3. ASSUME NEW got \in X, NEW j \in 1..n PROVE Entry(got, ifas[j]) \in X
  <2>1. ifas[j].addr \in FoundAddrs /\ <<Garbage>> \in FoundAddrs
    OBVIOUS
  <2> HIDE DEF FoundAddrs
  <2> QED BY <2>1 DEF Entry
<1> HIDE DEF X
<1>4. st \in [X \X (1..n) -> X] /\ \A got \in X, j \in 1..n : st[<<got, j>>] = Entry(got, ifas[j])
  BY <1>3
<1> HIDE DEF st, a, n
<1>5. PICK g \in [SUBSET (1..n) -> X] : Upwards(g, n, a, st)
  BY <1>1, <1>2, <1>4, UpwardsExists
<1>6. ASSUME NEW s \in SUBSET (1..n) PROVE g[s] = WalkStep(ifas, g, s)
  <2>1. CASE s = {}
    BY <1>5, <2>1 DEF Upwards, WalkStep, a
  <2>2. CASE s # {}
    <3>1. Max(s) \in 1..n /\ g[s \ {Max(s)}] \in X
      BY <1>1, <2>2, MaxIs
    <3>2. g[s] = st[<<g[s \ {Max(s)}], Max(s)>>]
      BY <1>5, <2>2 DEF Upwards
    <3> QED BY <1>4, <2>2, <3>1, <3>2 DEF WalkStep
  <2> QED BY <2>1, <2>2
<1>7. g = [s \in SUBSET DOMAIN ifas |-> WalkStep(ifas, g, s)]
  BY <1>1, <1>6
<1> QED BY <1>7 DEF IsWalk

(* After i entries of the list of machine: the first IPv4 address, if there  *)
(* was one, and an IPv6 address, if it is not a second IPv4 address.         *)
FoundBy(got, i) ==
    /\ got.ip = NoAddr => \A j \in 1..i : j \notin Of("inet")
    /\ got.ip # NoAddr => \E j \in 1..i : /\ FirstInet(machine.ifas, interface.name, j)
                                         /\ got.ip = machine.ifas[j].addr
    /\ got.ip6 # NoAddr /\ (\A j, k \in Of("inet") : j = k) =>
          \E j \in Of("inet6") : /\ machine.ifas[j].addr = got.ip6
                                 /\ ~machine.ifas[j].local
    /\ got = [ip |-> got.ip, ip6 |-> got.ip6]

ListOK ==
    /\ machine.ifas \in Seq(Range(machine.ifas))
    /\ \A j \in DOMAIN machine.ifas :
          machine.ifas[j].family = "inet" => machine.ifas[j].addr \in Addrs

LEMMA NoAddrIsNone == NoAddr \notin Addrs
  BY OctetsAssumption DEF NoAddr

LEMMA EntryFinds ==
    ASSUME ListOK, NEW i \in 1..Len(machine.ifas), NEW got, FoundBy(got, i - 1)
    PROVE  FoundBy(Entry(got, machine.ifas[i]), i)
<1> DEFINE e == machine.ifas[i]
<1>1. DOMAIN machine.ifas = 1..Len(machine.ifas) /\ Len(machine.ifas) \in Nat
  BY LenProperties DEF ListOK
<1>2. got = [ip |-> got.ip, ip6 |-> got.ip6]
  BY DEF FoundBy
<1>3. /\ i \in Of("inet") <=> e.name = interface.name /\ e.family = "inet"
      /\ i \in Of("inet6") <=> e.name = interface.name /\ e.family = "inet6"
  BY <1>1 DEF Of
<1>4. \A j \in 1..i : j \in 1..i-1 \/ j = i
  OBVIOUS
<1>5. 1..i-1 \subseteq 1..i
  OBVIOUS
<1>6. CASE Entry(got, e) = got /\ (got.ip # NoAddr \/ i \notin Of("inet"))
  BY <1>4, <1>5, <1>6 DEF FoundBy
<1>7. CASE /\ e.name = interface.name /\ e.family = "inet" /\ got.ip = NoAddr
           /\ Entry(got, e) = [got EXCEPT !.ip = e.addr]
  <2>1. e.addr # NoAddr
    BY <1>1, <1>7, NoAddrIsNone DEF ListOK
  <2>2. FirstInet(machine.ifas, interface.name, i)
    <3>1. \A j \in 1..i-1 : j \notin Of("inet")
      BY <1>7 DEF FoundBy
    <3> QED BY <1>1, <1>7, <3>1 DEF FirstInet, Of
  <2>3. Entry(got, e) = [ip |-> e.addr, ip6 |-> got.ip6]
    BY <1>2, <1>7
  <2> QED BY <1>5, <2>1, <2>2, <2>3 DEF FoundBy
<1>8. CASE /\ e.name = interface.name /\ e.family = "inet6" /\ ~e.local
           /\ Entry(got, e) = [got EXCEPT !.ip6 = e.addr]
  <2>1. Entry(got, e) = [ip |-> got.ip, ip6 |-> e.addr]
    BY <1>2, <1>8
  <2>2. i \in Of("inet6") /\ i \notin Of("inet")
    BY <1>3, <1>8
  <2> QED BY <1>4, <1>5, <1>8, <2>1, <2>2 DEF FoundBy
<1>9. CASE /\ e.name = interface.name /\ e.family = "inet" /\ got.ip # NoAddr
           /\ Entry(got, e) = [got EXCEPT !.ip6 = <<Garbage>>]
  <2>1. Entry(got, e) = [ip |-> got.ip, ip6 |-> <<Garbage>>]
    BY <1>2, <1>9
  <2>2. PICK j \in 1..i-1 : FirstInet(machine.ifas, interface.name, j)
    BY <1>9 DEF FoundBy
  <2>3. j \in Of("inet") /\ i \in Of("inet") /\ j # i
    BY <1>1, <1>3, <1>9, <2>2 DEF FirstInet, Of
  <2> QED BY <1>5, <1>9, <2>1, <2>3 DEF FoundBy
<1>10. \/ Entry(got, e) = got /\ (got.ip # NoAddr \/ i \notin Of("inet"))
       \/ /\ e.name = interface.name /\ e.family = "inet" /\ got.ip = NoAddr
          /\ Entry(got, e) = [got EXCEPT !.ip = e.addr]
       \/ /\ e.name = interface.name /\ e.family = "inet6" /\ ~e.local
          /\ Entry(got, e) = [got EXCEPT !.ip6 = e.addr]
       \/ /\ e.name = interface.name /\ e.family = "inet" /\ got.ip # NoAddr
          /\ Entry(got, e) = [got EXCEPT !.ip6 = <<Garbage>>]
  BY <1>3 DEF Entry
<1> QED BY <1>6, <1>7, <1>8, <1>9, <1>10

LEMMA ListFound ==
    ASSUME ListOK PROVE FoundBy(Found(machine.ifas), Len(machine.ifas))
<1> DEFINE ifas == machine.ifas
           n == Len(ifas)
           g == CHOOSE g : IsWalk(ifas, g)
           T == {i \in Nat : i <= n => FoundBy(g[1..i], i)}
<1>1. n \in Nat /\ DOMAIN ifas = 1..n
  BY LenProperties DEF ListOK
<1>2. IsWalk(ifas, g)
  BY WalkExists DEF ListOK
<1>3. Found(ifas) = g[1..n]
  BY <1>1, FoundIsWalk
<1> HIDE DEF g
<1>4. \A s \in SUBSET (1..n) : g[s] = WalkStep(ifas, g, s)
  BY <1>1, <1>2 DEF IsWalk
<1>5. 0 \in T
  <2>0. 1..0 = {} /\ {} \in SUBSET (1..n)
    OBVIOUS
  <2>1. g[1..0] = [ip |-> NoAddr, ip6 |-> NoAddr]
    BY <1>4, <2>0 DEF WalkStep
  <2>2. FoundBy(g[1..0], 0)
    BY <2>1 DEF FoundBy
  <2> QED BY <2>2
<1>6. ASSUME NEW i \in Nat, i \in T PROVE i + 1 \in T
  <2> SUFFICES ASSUME i + 1 <= n PROVE FoundBy(g[1..(i + 1)], i + 1)
    OBVIOUS
  <2>1. i + 1 \in 1..n /\ i + 1 - 1 = i
    BY <1>1
  <2>2. FoundBy(g[1..i], i)
    BY <1>1, <1>6
  <2>3. Max(1..(i + 1)) = i + 1 /\ 1..(i + 1) # {} /\ (1..(i + 1)) \ {i + 1} = 1..i
    BY <1>1, <2>1, MaxUpto
  <2>4. g[1..(i + 1)] = Entry(g[1..i], ifas[i + 1])
    <3>1. 1..(i + 1) \in SUBSET (1..n)
      BY <2>1
    <3> QED BY <1>4, <2>3, <3>1 DEF WalkStep
  <2> QED BY <2>1, <2>2, <2>4, EntryFinds
<1> HIDE DEF T
<1>7. n \in T
  BY <1>1, <1>5, <1>6, NatInductive
<1> QED BY <1>1, <1>3, <1>7 DEF T

Chosen == interface \in Interfaces(machine)

OwnHw(h) == h = NoHw \/ (Chosen /\ h = [have |-> TRUE, addr |-> interface.hw])
OwnIp(ip) == ip = NoAddr \/ (Chosen /\ ip = interface.ip)

OwnIp6(ip6) ==
    ip6 # NoAddr /\ (\A j, k \in Of("inet") : j = k) =>
        \E j \in Of("inet6") : machine.ifas[j].addr = ip6 /\ ~machine.ifas[j].local

(* What has been found by then is the interface's own; nothing has before    *)
(* there is one.                                                             *)
OwnInv ==
    /\ \E w \in Worlds : machine = w.machine
    /\ phase = "names" => if_addr.hw = NoHw /\ if_addr.if_ip_addr = NoAddr
                          /\ hw = NoHw /\ if_ip6_addr = NoAddr
    /\ phase \notin {"names", "exit"} => Chosen
    /\ OwnHw(hw) /\ OwnHw(if_addr.hw) /\ OwnIp(if_addr.if_ip_addr)
    /\ if_addr.have_ip_addr => if_addr.if_ip_addr # NoAddr
    /\ OwnIp6(if_ip6_addr)

LEMMA OwnInit == Init => OwnInv
  BY DEF Init, OwnInv, OwnHw, OwnIp, OwnIp6

(* The first good interface, or eth0, is one of the machine's.               *)
LEMMA FirstIsOne ==
    ASSUME OwnInv, NEW blind
    PROVE  get_first_interface(machine.names, blind) \in Interfaces(machine)
<1> DEFINE Good == {j \in DOMAIN machine.names :
                        ~machine.names[j].bad /\ (j \in blind \/ machine.names[j].up)}
<1>1. machine.names \in Seq(Interfaces(machine))
  BY WorldsAssumption DEF OwnInv
<1>2. CASE Good = {}
  BY <1>2 DEF get_first_interface, Interfaces
<1>3. CASE Good # {}
  <2>1. Good \in SUBSET Nat
    BY <1>1
  <2>2. \E j \in Good : \A k \in Good : j <= k
    BY <1>3, <2>1, LeastNat
  <2>3. get_first_interface(machine.names, blind) =
            machine.names[CHOOSE j \in Good : \A k \in Good : j <= k]
    BY <1>3 DEF get_first_interface
  <2> HIDE DEF Good
  <2>4. (CHOOSE j \in Good : \A k \in Good : j <= k) \in Good
    BY <2>2
  <2> QED BY <2>3, <2>4 DEF Interfaces, Good
<1> QED BY <1>2, <1>3

(* The interface stays, and the addresses are those that were found. *)
LEMMA OwnKept ==
    ASSUME OwnInv, UNCHANGED <<machine, interface, if_addr, if_ip6_addr>>,
           phase # "names", phase' # "names", phase' # "exit" => phase # "exit",
           OwnHw(hw')
    PROVE  OwnInv'
<1>1. /\ \A h : OwnHw(h)' <=> OwnHw(h)
      /\ \A ip : OwnIp(ip)' <=> OwnIp(ip)
      /\ \A ip : OwnIp6(ip)' <=> OwnIp6(ip)
      /\ Chosen' <=> Chosen
  BY DEF OwnHw, OwnIp, OwnIp6, Of, Chosen
<1> QED BY <1>1 DEF OwnInv

LEMMA OwnFound ==
    ASSUME OwnInv, phase = "ip", IPAddress, UNCHANGED <<machine, interface>>
    PROVE  OwnInv'
<1>1. PICK w \in Worlds : machine = w.machine
  BY DEF OwnInv
<1>2. /\ ListOK /\ Chosen
      /\ \A j \in DOMAIN machine.ifas :
            FirstInet(machine.ifas, interface.name, j) => machine.ifas[j].addr = interface.ip
  BY <1>1, WorldsAssumption DEF ListOK, Chosen, OwnInv
<1> DEFINE none == [ip |-> NoAddr, ip6 |-> NoAddr]
           got == IF machine.build = "getifaddrs" THEN Found(machine.ifas)
                  ELSE [none EXCEPT !.ip = interface.ip]
<1>3. OwnIp(none.ip) /\ OwnIp6(none.ip6)
  BY DEF OwnIp, OwnIp6
<1>4. OwnIp(got.ip) /\ OwnIp6(got.ip6)
  <2>1. CASE machine.build = "getifaddrs"
    <3>1. FoundBy(Found(machine.ifas), Len(machine.ifas)) /\ got = Found(machine.ifas)
      BY <1>2, <2>1, ListFound
    <3>2. DOMAIN machine.ifas = 1..Len(machine.ifas)
      BY <1>2, LenProperties DEF ListOK
    <3> HIDE DEF got
    <3> QED BY <1>2, <3>1, <3>2 DEF FoundBy, OwnIp, OwnIp6
  <2>2. CASE machine.build # "getifaddrs"
    BY <1>2, <2>2 DEF OwnIp, OwnIp6
  <2> QED BY <2>1, <2>2
<1>5. PICK g \in {none, got} :
          /\ if_addr' = [have_ip_addr |-> g.ip # NoAddr, if_ip_addr |-> g.ip, hw |-> hw]
          /\ if_ip6_addr' = g.ip6
  BY DEF IPAddress
<1> HIDE DEF none, got
<1>6. OwnIp(g.ip) /\ OwnIp6(g.ip6) /\ OwnHw(hw)
  BY <1>3, <1>4, <1>5 DEF OwnInv
<1>7. /\ phase' = "pcap" /\ hw' = hw
      /\ if_addr'.have_ip_addr = (g.ip # NoAddr)
      /\ if_addr'.if_ip_addr = g.ip /\ if_addr'.hw = hw
  BY <1>5 DEF IPAddress
<1>8. /\ \A h : OwnHw(h)' <=> OwnHw(h)
      /\ \A ip : OwnIp(ip)' <=> OwnIp(ip)
      /\ \A ip : OwnIp6(ip)' <=> OwnIp6(ip)
      /\ Chosen' <=> Chosen
  BY DEF OwnHw, OwnIp, OwnIp6, Of, Chosen
<1> QED BY <1>1, <1>2, <1>5, <1>6, <1>7, <1>8 DEF OwnInv

LEMMA OwnNext == OwnInv /\ AlarmInv /\ [Next]_vars => OwnInv'
<1> SUFFICES ASSUME OwnInv, AlarmInv, [Next]_vars PROVE OwnInv'
  OBVIOUS
<1>0. ASSUME UNCHANGED <<machine, interface, if_addr, if_ip6_addr, hw, phase>> PROVE OwnInv'
  <2>1. /\ \A h : OwnHw(h)' <=> OwnHw(h)
        /\ \A ip : OwnIp(ip)' <=> OwnIp(ip)
        /\ \A ip : OwnIp6(ip)' <=> OwnIp6(ip)
        /\ Chosen' <=> Chosen
    BY <1>0 DEF OwnHw, OwnIp, OwnIp6, Of, Chosen
  <2> QED BY <1>0, <2>1 DEF OwnInv
<1>1. CASE UNCHANGED vars
  BY <1>0, <1>1 DEF vars, dlpiVars
<1>2. CASE phase = "loop" /\ packet_loop /\ UNCHANGED <<dlpiVars, machine, interface, if_ip6_addr>>
  BY <1>0, <1>2 DEF dlpiVars, packet_loop, Capture
<1>3. CASE Driver
  <2>1. phase \in Stages /\ UNCHANGED <<machine, interface, if_addr, if_ip6_addr>>
    BY <1>3 DEF Driver, GetmsgFails, dlokack, dlbindack, dlinfoack, Acknowledged, AlarmInv,
                Nothing
  <2>2. phase' \in {"bind", "info", "ip", "exit"}
    BY <1>3 DEF Driver, GetmsgFails, dlokack, dlbindack, dlinfoack, Acknowledged, exit
  <2>3. hw' = hw \/ hw' = [have |-> TRUE, addr |-> interface.hw]
    BY <1>3 DEF Driver, GetmsgFails, dlokack, dlbindack, dlinfoack
  <2>4. OwnHw(hw')
    BY <2>1, <2>3 DEF OwnHw, OwnInv, Stages
  <2> QED BY <2>1, <2>2, <2>4, OwnKept DEF Stages
<1>4. CASE Timer
  <2>1. phase \in Stages
    BY <1>4 DEF Timer, sigalrm, AlarmInv
  <2>2. phase' = "exit" /\ OwnHw(hw') /\ UNCHANGED <<machine, interface, if_addr, if_ip6_addr>>
    BY <1>4 DEF Timer, sigalrm, exit, OwnInv
  <2> QED BY <2>1, <2>2, OwnKept DEF Stages
<1>5. CASE options_set_defaults
  <2>1. phase = "names" /\ UNCHANGED <<machine, if_addr, if_ip6_addr, hw>>
    BY <1>5 DEF options_set_defaults
  <2>2. phase' \in {"open", "socket"}
    BY <1>5 DEF options_set_defaults
  <2>3. Chosen'
    <3>1. PICK blind : interface' = IF machine.asked = <<>>
                                    THEN get_first_interface(machine.names, blind)
                                    ELSE machine.asked[1]
      BY <1>5 DEF options_set_defaults
    <3>2. machine.asked \in Seq(Interfaces(machine))
      BY WorldsAssumption DEF OwnInv
    <3>3. machine.asked # <<>> => machine.asked[1] \in Interfaces(machine)
      BY <3>2
    <3> QED BY <2>1, <3>1, <3>3, FirstIsOne DEF Chosen
  <2> QED BY <2>1, <2>2, <2>3 DEF OwnInv, OwnHw, OwnIp, OwnIp6
<1>6. CASE /\ get_addrs_dlpi \/ HardwareAddress \/ dlattachreq \/ dlbindreq \/ dlinforeq
           /\ UNCHANGED <<options, packet_handler, if_addr, seen, machine, interface, if_ip6_addr>>
  <2>1. phase \in {"open", "socket"} \cup Stages
    BY <1>6 DEF get_addrs_dlpi, HardwareAddress, dlattachreq, dlbindreq, dlinforeq, Request, Stages
  <2>2. phase' \in {"exit", "attach", "ip"} \/ phase' = phase
    BY <1>6 DEF get_addrs_dlpi, HardwareAddress, dlattachreq, dlbindreq, dlinforeq, Request, exit,
                OpenDevice
  <2>3. hw' = hw \/ hw' \in {NoHw, [have |-> TRUE, addr |-> interface.hw]}
    BY <1>6 DEF get_addrs_dlpi, HardwareAddress, dlattachreq, dlbindreq, dlinforeq, Request
  <2>4. OwnHw(hw')
    BY <2>1, <2>3 DEF OwnHw, OwnInv, Stages
  <2> QED BY <1>6, <2>1, <2>2, <2>4, OwnKept DEF Stages
<1>7. CASE IPAddress /\ UNCHANGED <<options, packet_handler, seen, machine, interface>>
  BY <1>7, OwnFound DEF IPAddress
<1>8. CASE packet_init /\ UNCHANGED <<options, if_addr, seen, machine, interface, if_ip6_addr, hw>>
  <2>1. phase = "pcap" /\ phase' \in {"exit", "filter"}
    BY <1>8 DEF packet_init, exit
  <2> QED BY <1>8, <2>1, OwnKept DEF OwnInv
<1>9. CASE set_filter_code /\ UNCHANGED <<options, packet_handler, if_addr, seen, machine,
                                          interface, if_ip6_addr, hw>>
  <2>1. phase = "filter" /\ phase' \in {"exit", "loop"}
    BY <1>9 DEF set_filter_code, exit
  <2> QED BY <1>9, <2>1, OwnKept DEF OwnInv
<1> QED BY <1>1, <1>2, <1>3, <1>4, <1>5, <1>6, <1>7, <1>8, <1>9 DEF Next, SetUp

(* Whatever the machine's interfaces and addresses, the addresses that tell  *)
(* the direction of packets are those of the interface they are captured on  *)
(* (addrs_ioctl.c:55-168, options.c:102-138).                                *)
THEOREM AddressesOwn == Spec => []AddressIsOwn
<1>1. OwnInv => AddressIsOwn
  <2> SUFFICES ASSUME OwnInv, phase = "loop" PROVE AddressIsOwn
    BY DEF AddressIsOwn
  <2>1. if_addr.hw.have => if_addr.hw.addr = interface.hw
    BY DEF OwnInv, OwnHw, NoHw
  <2>2. if_addr.have_ip_addr => if_addr.if_ip_addr = interface.ip
    BY DEF OwnInv, OwnIp
  <2> QED BY <2>1, <2>2 DEF AddressIsOwn, OwnInv, OwnIp6
<1> QED BY <1>1, OwnInit, OwnNext, AlarmInit, AlarmNext, PTL DEF Spec

-----------------------------------------------------------------------------
(* Types *)

HwAddr == [have : BOOLEAN, addr : HwAddrs \cup {Nothing}]
IfAddr == [have_ip_addr : BOOLEAN, if_ip_addr : Addrs \cup {NoAddr}, hw : HwAddr]

PhasesInv ==
    /\ phase \in {"names", "open", "socket", "ip", "pcap", "filter", "loop", "exit"} \cup Stages
    /\ awaited \in Acks \cup {Nothing}
    /\ alarm \in BOOLEAN
    /\ if_addr \in IfAddr
    /\ packet_handler \in Handlers \cup {"none"}

LEMMA OwnTyped ==
    ASSUME OwnInv
    PROVE  /\ \A h : OwnHw(h) => h \in HwAddr
           /\ \A ip : OwnIp(ip) => ip \in Addrs \cup {NoAddr}
<1>1. Chosen => interface.hw \in HwAddrs /\ interface.ip \in Addrs \cup {NoAddr}
  BY WorldsAssumption DEF OwnInv, Chosen
<1>2. NoHw \in HwAddr /\ \A a \in HwAddrs : [have |-> TRUE, addr |-> a] \in HwAddr
  BY DEF NoHw, HwAddr
<1> QED BY <1>1, <1>2 DEF OwnHw, OwnIp

LEMMA PhasesInit == Init => PhasesInv
<1> SUFFICES ASSUME Init PROVE PhasesInv
  OBVIOUS
<1>1. NoHw \in HwAddr
  BY DEF NoHw, HwAddr
<1>2. if_addr \in IfAddr
  BY <1>1 DEF Init, IfAddr
<1> QED BY <1>2 DEF Init, PhasesInv

LEMMA PhasesNext == PhasesInv /\ OwnInv /\ [Next]_vars => PhasesInv'
<1> SUFFICES ASSUME PhasesInv, OwnInv, [Next]_vars PROVE PhasesInv'
  OBVIOUS
<1> USE DEF PhasesInv
<1>0. ASSUME exit, UNCHANGED <<if_addr, packet_handler>> PROVE PhasesInv'
  BY <1>0 DEF exit
<1>1. CASE UNCHANGED vars
  BY <1>1 DEF vars, dlpiVars
<1>2. CASE phase = "loop" /\ packet_loop /\ UNCHANGED <<dlpiVars, machine, interface, if_ip6_addr>>
  BY <1>2 DEF dlpiVars, packet_loop, Capture
<1>3. CASE Driver
  <2>1. ASSUME NEW ack, NEW m, NEW next \in {"bind", "info", "ip"}, Acknowledged(ack, m, next)
        PROVE  PhasesInv'
    <3>1. UNCHANGED <<if_addr, packet_handler>>
      BY <1>3 DEF Driver
    <3>2. exit \/ (Stop /\ awaited' = Nothing /\ phase' = next)
      BY <2>1 DEF Acknowledged
    <3> QED BY <1>0, <3>1, <3>2 DEF Stop, Stages
  <2>2. CASE GetmsgFails
    BY <1>0, <1>3, <2>2 DEF GetmsgFails, Driver
  <2> QED BY <1>3, <2>1, <2>2 DEF Driver, dlokack, dlbindack, dlinfoack
<1>4. CASE Timer
  BY <1>0, <1>4 DEF Timer, sigalrm
<1>5. CASE options_set_defaults
  BY <1>5 DEF options_set_defaults
<1>6. CASE /\ get_addrs_dlpi \/ HardwareAddress \/ dlattachreq \/ dlbindreq \/ dlinforeq
           /\ UNCHANGED <<options, packet_handler, if_addr, seen, machine, interface, if_ip6_addr>>
  <2>1. CASE get_addrs_dlpi \/ HardwareAddress
    BY <1>0, <1>6, <2>1 DEF get_addrs_dlpi, HardwareAddress, OpenDevice, Stages
  <2>2. ASSUME NEW stage, NEW ack \in Acks, Request(stage, ack) PROVE PhasesInv'
    BY <1>0, <1>6, <2>2 DEF Request, Wait
  <2> QED BY <1>6, <2>1, <2>2 DEF dlattachreq, dlbindreq, dlinforeq, Acks
<1>7. CASE IPAddress /\ UNCHANGED <<options, packet_handler, seen, machine, interface>>
  <2>1. OwnInv'
    BY <1>7, OwnFound DEF IPAddress
  <2>2. if_addr'.hw \in HwAddr /\ if_addr'.if_ip_addr \in Addrs \cup {NoAddr}
    <3>1. /\ \A h : OwnHw(h)' <=> OwnHw(h)
          /\ \A ip : OwnIp(ip)' <=> OwnIp(ip)
      BY <1>7 DEF OwnHw, OwnIp, Chosen
    <3>2. OwnHw(if_addr'.hw) /\ OwnIp(if_addr'.if_ip_addr)
      BY <2>1, <3>1 DEF OwnInv
    <3> QED BY <3>2, OwnTyped
  <2>3. PICK ip : if_addr' = [have_ip_addr |-> ip # NoAddr, if_ip_addr |-> ip, hw |-> hw]
    BY <1>7 DEF IPAddress
  <2>4. (ip # NoAddr) \in BOOLEAN /\ ip \in Addrs \cup {NoAddr} /\ hw \in HwAddr
    BY <2>2, <2>3
  <2>5. if_addr' \in IfAddr
    BY <2>3, <2>4 DEF IfAddr
  <2> QED BY <1>7, <2>5 DEF IPAddress
<1>8. CASE packet_init /\ UNCHANGED <<options, if_addr, seen, machine, interface, if_ip6_addr, hw>>
  BY <1>0, <1>8 DEF packet_init
<1>9. CASE set_filter_code /\ UNCHANGED <<options, packet_handler, if_addr, seen, machine,
                                          interface, if_ip6_addr, hw>>
  BY <1>0, <1>9 DEF set_filter_code
<1> QED BY <1>1, <1>2, <1>3, <1>4, <1>5, <1>6, <1>7, <1>8, <1>9 DEF Next, SetUp

(* What a handler says of a header *)
LEMMA DirectionIs ==
    ASSUME packet_handler \in Handlers, NEW h
    PROVE  Direction(packet_handler, h, if_addr.hw) \in {1, 0, -1, Unhandled}
<1>1. CASE packet_handler = "eth"
  BY <1>1 DEF Direction, handle_eth_packet
<1>2. CASE packet_handler = "tokenring"
  BY <1>2 DEF Direction, handle_tokenring_packet, handle_llc_packet
<1>3. CASE packet_handler = "ppp"
  BY <1>3 DEF Direction, handle_ppp_packet
<1>4. CASE packet_handler = "cooked"
  BY <1>4 DEF Direction, handle_cooked_packet
<1>5. CASE packet_handler \in {"pflog", "raw", "null", "radiotap"}
  BY <1>5 DEF Direction, handle_pflog_packet, handle_raw_packet, handle_null_packet,
              handle_radiotap_packet
<1> QED BY <1>1, <1>2, <1>3, <1>4, <1>5 DEF Handlers

(* A reply is a frame like the others. *)
LEMMA ReplyFits ==
    ASSUME packet_handler \in Handlers, NEW f \in FrameOf(packet_handler),
           HasReply(packet_handler, f.header)
    PROVE  Reply(f) \in FrameOf(packet_handler)
<1> DEFINE p == f.packet
           h == f.header
           q == [p EXCEPT !.src = p.dst, !.dst = p.src, !.sport = p.dport, !.dport = p.sport]
<1>1. p \in Packet /\ h \in HeaderOf(packet_handler)
  BY DEF FrameOf
<1>2. q \in Packet
  <2>1. CASE p \in [src : Addrs, dst : Addrs, ip_p : {TCP, UDP}, sport : Ports, dport : Ports]
    BY <2>1 DEF Packet
  <2>2. CASE p \in [src : Addrs, dst : Addrs, ip_p : {ICMP}, sport : {0}, dport : {0}]
    BY <2>2 DEF Packet
  <2> QED BY <1>1, <2>1, <2>2 DEF Packet
<1>3. ReplyHeader(packet_handler, h) \in HeaderOf(packet_handler)
  <2>1. CASE packet_handler = "eth"
    <3>1. h \in EthHeader /\ h.dhost \in HwAddrs
      BY <1>1, <2>1 DEF HeaderOf, HasReply, Hosts, EthHeader
    <3>2. ReplyHeader(packet_handler, h) = [h EXCEPT !.shost = h.dhost, !.dhost = h.shost]
      BY <2>1 DEF ReplyHeader, Hosts
    <3> QED BY <2>1, <3>1, <3>2 DEF HeaderOf, EthHeader
  <2>2. CASE packet_handler = "tokenring"
    <3>1. h \in TokenHeader /\ h.dhost \in HwAddrs
      BY <1>1, <2>2 DEF HeaderOf, HasReply, Hosts, TokenHeader
    <3>2. ReplyHeader(packet_handler, h) = [h EXCEPT !.shost = h.dhost, !.dhost = h.shost]
      BY <2>2 DEF ReplyHeader, Hosts
    <3> QED BY <2>2, <3>1, <3>2 DEF HeaderOf, TokenHeader
  <2>3. CASE packet_handler = "cooked"
    <3>1. h \in CookedHeader
      BY <1>1, <2>3 DEF HeaderOf
    <3>2. ReplyHeader(packet_handler, h) \in CookedHeader
      <4>1. CASE h.pkttype = "HOST"
        BY <2>3, <3>1, <4>1 DEF ReplyHeader, Hosts, CookedHeader
      <4>2. CASE h.pkttype = "OUTGOING"
        BY <2>3, <3>1, <4>2 DEF ReplyHeader, Hosts, CookedHeader
      <4>3. CASE h.pkttype \notin {"HOST", "OUTGOING"}
        BY <2>3, <3>1, <4>3 DEF ReplyHeader, Hosts, CookedHeader
      <4> QED BY <4>1, <4>2, <4>3
    <3> QED BY <2>3, <3>2 DEF HeaderOf
  <2>4. CASE packet_handler \notin {"eth", "tokenring", "cooked"}
    BY <1>1, <2>4 DEF ReplyHeader, Hosts
  <2> QED BY <2>1, <2>2, <2>3, <2>4
<1>4. Reply(f) = [packet |-> q, header |-> ReplyHeader(packet_handler, h)]
  BY DEF Reply
<1> QED BY <1>2, <1>3, <1>4 DEF FrameOf

(* The record and the side of a packet that is counted *)
LEMMA VerdictTyped ==
    ASSUME packet_handler \in Handlers, NEW f \in FrameOf(packet_handler), NEW i,
           Verdict(f, i).counted
    PROVE  LET v == Verdict(f, i)
           IN  /\ v.key \in [src : Addrs, src_port : Ports \cup {0},
                             dst : Addrs, dst_port : Ports \cup {0},
                             protocol : {TCP, UDP, ICMP}]
               /\ v.direction \in {0, 1}
<1> DEFINE p == f.packet
           d == Direction(packet_handler, f.header, if_addr.hw)
           as == Assigned(p, d)
           ap == assign_addr_pair(p, as.flip)
           Key == [src : Addrs, src_port : Ports \cup {0}, dst : Addrs,
                   dst_port : Ports \cup {0}, protocol : {TCP, UDP, ICMP}]
<1>1. d # Unhandled /\ Verdict(f, i) = handle_ip_packet(p, d, i)
  BY DEF Verdict, Ignored
<1>2. d \in {1, 0, -1}
  BY <1>1, DirectionIs
<1>3. as \in {Outgoing, Incoming, Transit, Junk}
  BY <1>2 DEF Assigned, Filtered, Unfiltered
<1> DEFINE port == IF Dynamic(ap.dst_port) THEN 0 ELSE ap.dst_port
<1>4. /\ as # Junk
      /\ Verdict(f, i).key = [ap EXCEPT !.dst_port = port]
      /\ Verdict(f, i).direction = as.direction
  BY <1>1 DEF handle_ip_packet, Ignored
<1>5. p.src \in Addrs /\ p.dst \in Addrs /\ p.ip_p \in {TCP, UDP, ICMP}
      /\ p.sport \in Ports \cup {0} /\ p.dport \in Ports \cup {0}
  BY DEF FrameOf, Packet
<1>6. ap \in Key
  BY <1>5 DEF assign_addr_pair
<1>7. [ap EXCEPT !.dst_port = port] \in Key
  BY <1>6
<1>8. as.direction \in {0, 1}
  BY <1>3, <1>4 DEF Outgoing, Incoming, Transit
<1> QED BY <1>4, <1>7, <1>8

LEMMA SeenTyped == ASSUME SeenInv PROVE SeenOK
<1>1. CASE seen = <<>>
  BY <1>1 DEF SeenOK
<1>2. ASSUME seen # <<>>
      PROVE  /\ packet_handler \in Handlers
             /\ \A f \in Frames[packet_handler] : f \in FrameOf(packet_handler)
  BY <1>2, FramesAssumption DEF SeenInv
<1>3. ASSUME seen # <<>>, NEW n \in 1..Len(seen)
      PROVE  \E f \in FrameOf(packet_handler) : \E i \in Starts : seen[n] = Made(f, i)
  <2>1. ASSUME NEW f \in Frames[packet_handler], NEW i \in Starts, seen = <<Made(f, i)>>
        PROVE  \E g \in FrameOf(packet_handler) : \E j \in Starts : seen[n] = Made(g, j)
    BY <1>2, <1>3, <2>1
  <2>2. ASSUME NEW f \in Frames[packet_handler], NEW i \in Starts, NEW j \in Starts,
               HasReply(packet_handler, f.header),
               seen = <<Made(f, i), Made(Reply(f), j)>>
        PROVE  \E g \in FrameOf(packet_handler) : \E k \in Starts : seen[n] = Made(g, k)
    BY <1>2, <1>3, <2>2, ReplyFits
  <2> QED BY <1>3, <2>1, <2>2 DEF SeenInv
<1>4. Len(seen) <= 2
  <2>1. CASE seen = <<>>
    BY <2>1
  <2>2. CASE \E a : seen = <<a>>
    BY <2>2
  <2>3. CASE \E a, b : seen = <<a, b>>
    BY <2>3
  <2> QED BY <2>1, <2>2, <2>3 DEF SeenInv
<1>5. CASE seen # <<>>
  <2> SUFFICES ASSUME NEW n \in 1..Len(seen)
               PROVE  /\ seen[n].frame \in FrameOf(packet_handler)
                      /\ seen[n].verdict.counted =>
                            /\ seen[n].verdict.key \in
                                  [src : Addrs, src_port : Ports \cup {0},
                                   dst : Addrs, dst_port : Ports \cup {0},
                                   protocol : {TCP, UDP, ICMP}]
                            /\ seen[n].verdict.direction \in {0, 1}
    BY <1>4 DEF SeenOK
  <2>1. PICK f \in FrameOf(packet_handler), i \in Starts : seen[n] = Made(f, i)
    BY <1>3, <1>5
  <2>2. seen[n].frame = f /\ seen[n].verdict = Verdict(f, i)
    BY <2>1 DEF Made
  <2> QED BY <1>2, <1>5, <2>2, VerdictTyped
<1> QED BY <1>1, <1>5

(* The set-up is at one of its stages with addresses that are addresses, and *)
(* what has been captured has the records of such frames (iftop.c:392-534,   *)
(* dlcommon.c:466-505).                                                      *)
THEOREM CaptureTyped == Spec => []TypeOK
<1>1. PhasesInv /\ OwnInv /\ SeenInv => TypeOK
  <2> SUFFICES ASSUME PhasesInv, OwnInv, SeenInv PROVE TypeOK
    OBVIOUS
  <2>1. hw \in HwAddr
    BY OwnTyped DEF OwnInv
  <2>2. phase = "loop" => packet_handler # "none"
    BY DEF SeenInv, Handlers
  <2> QED BY <2>1, <2>2, SeenTyped DEF PhasesInv, TypeOK, HwAddr, IfAddr
<1>2. Spec => [](OwnInv /\ AlarmInv)
  BY OwnInit, OwnNext, AlarmInit, AlarmNext, PTL DEF Spec
<1> QED BY <1>1, <1>2, PhasesInit, PhasesNext, SeenInvariance, PTL DEF Spec
=============================================================================
