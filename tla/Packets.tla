------------------------------ MODULE Packets ------------------------------
(***************************************************************************)
(* What the capture thread makes of a frame: the link layer's handler      *)
(* (Links), then handle_ip_packet() (iftop.c), which says whether the      *)
(* packet is counted, for which connection (the addr_pair that is the key  *)
(* of the history table), and on which side of the record and the totals.  *)
(*                                                                         *)
(* An address is its four octets as they stand in the packet; s_addr is    *)
(* read by a little-endian machine, so the last octet is its highest byte. *)
(*                                                                         *)
(* A definition that stands right above another, has its parameters and is *)
(* used by nothing is a slip the code could have had (see Publisher).      *)
(***************************************************************************)
EXTENDS Links

CONSTANTS
    Addrs,    \* addresses of the packets
    Ports,    \* port numbers of the packets
    Frames    \* the frames that a handler may get, see FrameOf

ASSUME OctetsAssumption == Addrs \subseteq [1..4 -> 0..255]

TCP == 6
UDP == 17
ICMP == 1

VARIABLES
    options,         \* the options, which do not change
    packet_handler,  \* the handler for the interface's kind of link
    if_addr,         \* the addresses found: have_ip_addr, if_ip_addr and hw
    seen             \* the frames captured so far, each with what became of it

(* The fields of the IP header are read as those of IPv4.  An ICMP packet    *)
(* has no ports.                                                             *)
Packet ==
    [src : Addrs, dst : Addrs, ip_p : {TCP, UDP}, sport : Ports, dport : Ports]
    \cup [src : Addrs, dst : Addrs, ip_p : {ICMP}, sport : {0}, dport : {0}]

FrameOf(handler) == [packet : Packet, header : HeaderOf(handler)]

ROUTER_ADDR == <<172, 16, 64, 31>>

Ignored == [counted |-> FALSE]

-----------------------------------------------------------------------------
(* s_addr of a is below that of b. *)
Below(a, b) == \E i \in 1..4 : a[i] < b[i] /\ \A j \in i+1..4 : a[j] = b[j]

(* The macro is meant for host byte order and is given s_addr as it is.      *)
IN_MULTICAST(a) == a[4] \in 224..239

(* Masks of whole octets. *)
in_filter_net(a) ==
    \A i \in 1..4 : (IF options.netfiltermask[i] = 255 THEN a[i] ELSE 0)
                        = options.netfilternet[i]

HasPorts(p) == p.ip_p \in {TCP, UDP}

assign_addr_pair_same_ports(p, flip) ==
    [src |-> IF flip THEN p.dst ELSE p.src, src_port |-> p.sport,
     dst |-> IF flip THEN p.src ELSE p.dst, dst_port |-> p.dport,
     protocol |-> p.ip_p]

(* The addr_pair, with the protocol that is added to it at the end.          *)
assign_addr_pair(p, flip) ==
    LET sport == IF HasPorts(p) THEN p.sport ELSE 0
        dport == IF HasPorts(p) THEN p.dport ELSE 0
    IN  IF flip THEN [src |-> p.dst, src_port |-> dport,
                      dst |-> p.src, dst_port |-> sport, protocol |-> p.ip_p]
                ELSE [src |-> p.src, src_port |-> sport,
                      dst |-> p.dst, dst_port |-> dport, protocol |-> p.ip_p]

(* The loop over block_protocols starts from an i nobody has initialised:    *)
(* any entry of the array may be the first one looked at.                    *)
Blocked(p, i) ==
    \E j \in i..Len(options.block_protocols) :
        options.block_protocols[j] = p.ip_p

(* How a packet is assigned: flipped or not, leaving (1) or entering (0).    *)
Outgoing == [flip |-> FALSE, direction |-> 1]
IncomingUnset == [flip |-> TRUE, direction |-> -1]
Incoming == [flip |-> TRUE, direction |-> 0]
Transit  == [flip |-> FALSE, direction |-> 0]
Junk     == [flip |-> FALSE, direction |-> -1]

Own(a) == if_addr.have_ip_addr /\ a = if_addr.if_ip_addr

Unfiltered(p, hw_dir) ==
    CASE hw_dir = 1 -> Outgoing
      [] hw_dir = 0 -> Incoming
      [] hw_dir = -1 ->
            CASE Own(p.src) -> Outgoing
              [] ~Own(p.src) /\ (Own(p.dst) \/ IN_MULTICAST(p.dst)) -> Incoming
              [] OTHER -> IF options.promiscuous_but_choosy THEN Junk
                          ELSE IF Below(p.src, p.dst) THEN Incoming
                          ELSE Transit

FilteredUnflipped(p) ==
    CASE in_filter_net(p.src) # in_filter_net(p.dst) -> Outgoing
      [] OTHER -> Junk

Filtered(p) ==
    CASE in_filter_net(p.src) /\ ~in_filter_net(p.dst) -> Outgoing
      [] in_filter_net(p.dst) /\ ~in_filter_net(p.src) -> Incoming
      [] OTHER -> Junk

Assigned(p, hw_dir) == IF options.netfilter THEN Filtered(p) ELSE Unfiltered(p, hw_dir)

Dynamic(port) == port \in 49152..65535

in_port_list(port) == port # 0 /\ port \in options.port_list

(* The listed ports are only looked for when dst_port is not dynamic.        *)
PortIgnored(ap) ==
    /\ ~Dynamic(ap.dst_port)
    /\ in_port_list(ap.src_port) \/ in_port_list(ap.dst_port)

(* What becomes of packet p when the loop over block_protocols starts at i.  *)
handle_ip_packet(p, hw_dir, i) ==
    LET as == Assigned(p, hw_dir)
        ap == assign_addr_pair(p, as.flip)
        port == IF Dynamic(ap.dst_port) THEN 0 ELSE ap.dst_port
    IN  IF Blocked(p, i) \/ as = Junk \/ ap.src = ROUTER_ADDR \/ PortIgnored(ap)
        THEN Ignored
        ELSE [counted   |-> TRUE,
              key       |-> [ap EXCEPT !.dst_port = port],
              sent      |-> p.src = ap.src,
              direction |-> as.direction]

-----------------------------------------------------------------------------
(* The packet handler, with the loop of handle_ip_packet() starting at i. *)
Verdict(f, i) ==
    LET hw_dir == Direction(packet_handler, f.header, if_addr.hw)
    IN  IF hw_dir = Unhandled THEN Ignored ELSE handle_ip_packet(f.packet, hw_dir, i)

(* What the other end sends back. *)
Reply(f) ==
    LET p == f.packet
    IN  [packet |-> [p EXCEPT !.src = p.dst, !.dst = p.src,
                              !.sport = p.dport, !.dport = p.sport],
         header |-> ReplyHeader(packet_handler, f.header)]

Capture(f) ==
    /\ \E i \in 1..Len(options.block_protocols) + 1 :
          seen' = Append(seen, [frame |-> f, verdict |-> Verdict(f, i)])
    /\ UNCHANGED <<options, packet_handler, if_addr>>

(* A frame, and perhaps the answer to it. *)
packet_loop ==
    \/ seen = <<>> /\ \E f \in Frames[packet_handler] : Capture(f)
    \/ /\ Len(seen) = 1
       /\ HasReply(packet_handler, seen[1].frame.header)
       /\ Capture(Reply(seen[1].frame))

-----------------------------------------------------------------------------
(* Properties *)

SeenOK ==
    /\ Len(seen) <= 2
    /\ \A n \in 1..Len(seen) :
          LET v == seen[n].verdict
          IN  /\ seen[n].frame \in FrameOf(packet_handler)
              /\ v.counted =>
                    /\ v.key \in [src : Addrs, src_port : Ports \cup {0},
                                  dst : Addrs, dst_port : Ports \cup {0},
                                  protocol : {TCP, UDP, ICMP}]
                    /\ v.direction \in {0, 1}

(* The two addresses of a packet differ and neither is taken for multicast. *)
Ordinary(p) == p.src # p.dst /\ ~IN_MULTICAST(p.src) /\ ~IN_MULTICAST(p.dst)

(* A conversation is counted in both directions or in none, but for the      *)
(* start of the loop over block_protocols, and when it is, in the same       *)
(* record and on opposite sides of it: the ports and the router are looked   *)
(* up in the assigned pair, not in the packet.  It fails for frames source   *)
(* routed, of which only those to the interface are told from the hardware   *)
(* addresses (iftop.c:399-511, 609-621).                                     *)
ConversationIsOneRecord ==
    LET v == seen[1].verdict
        w == seen[2].verdict
        p == seen[1].frame
    IN  Len(seen) = 2 /\ Ordinary(p.packet) /\ ~SourceRouted(packet_handler, p.header) =>
            /\ options.block_protocols = <<>> => (v.counted <=> w.counted)
            /\ v.counted /\ w.counted => v.key = w.key /\ v.sent = ~w.sent

(* With a net filter every record is of a host in the net with one outside,  *)
(* and what the record says was sent is what the totals say went out         *)
(* (iftop.c:462-481, 529-547).                                               *)
FilterSeparates ==
    \A n \in 1..Len(seen) :
        LET v == seen[n].verdict
        IN  options.netfilter /\ v.counted =>
                /\ in_filter_net(v.key.src) /\ ~in_filter_net(v.key.dst)
                /\ v.sent <=> (v.direction = 1)

(* Frames of the machine's own conversations, not broadcast, whose hardware  *)
(* addresses agree with their IP addresses are taken, if at all, the way     *)
(* they would be were the link layer silent: it decides nothing the IP       *)
(* addresses do not (iftop.c:405-430, 603-675, 748-759).                     *)
OwnFrame(f) ==
    /\ Ordinary(f.packet) /\ HasReply(packet_handler, f.header)
    /\ CASE packet_handler \in Hosts ->
              /\ f.header.shost = if_addr.hw.addr <=> Own(f.packet.src)
              /\ f.header.dhost = if_addr.hw.addr <=> Own(f.packet.dst)
         [] packet_handler = "cooked" ->
              /\ f.header.pkttype = "OUTGOING" => Own(f.packet.src)
              /\ f.header.pkttype = "HOST" => Own(f.packet.dst)
         [] OTHER -> TRUE
    /\ Own(f.packet.src) \/ Own(f.packet.dst)

LinkAgrees ==
    \A n \in 1..Len(seen) :
        LET f == seen[n].frame
            v == seen[n].verdict
        IN  OwnFrame(f) /\ options.block_protocols = <<>> /\ v.counted
            => v = handle_ip_packet(f.packet, -1, 1)
=============================================================================
