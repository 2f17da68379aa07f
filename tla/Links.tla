------------------------------- MODULE Links -------------------------------
(***************************************************************************)
(* What the link-layer handlers of iftop.c make of a frame's header:       *)
(* whether the rest goes to handle_ip_packet(), and in which direction it  *)
(* travels as far as the link layer says, 1 leaving, 0 entering, -1 when   *)
(* it cannot tell.  The address of the interface is a record [have, addr]. *)
(*                                                                         *)
(* A header has the fields a handler looks at.  The filter lets only IP    *)
(* through, with the frames of a VLAN when the user's filter adds them; a  *)
(* frame captured before it was installed may be any.                      *)
(***************************************************************************)
EXTENDS Integers, Sequences

CONSTANT HwAddrs  \* the hardware addresses on the link

Broadcast == "ff:ff:ff:ff:ff:ff"
ASSUME HwAddrAssumption == Broadcast \notin HwAddrs

Unhandled == 2

-----------------------------------------------------------------------------
EtherTypes == {<<"ip">>, <<"ip6">>, <<"8021q", "ip">>, <<"8021q", "ip6">>,
               <<"8021q", "8021q">>}
EthHeader == [shost : HwAddrs, dhost : HwAddrs \cup {Broadcast}, types : EtherTypes]

(* The type inside the tag of a VLAN; a second tag is not looked into. *)
EtherType(h) == IF h.types[1] = "8021q" THEN h.types[2] ELSE h.types[1]

handle_eth_packet(h, hw) ==
    IF EtherType(h) # "ip" THEN Unhandled
    ELSE IF hw.have /\ h.shost = hw.addr THEN 1
    ELSE IF (hw.have /\ h.dhost = hw.addr) \/ h.dhost = Broadcast THEN 0
    ELSE -1

-----------------------------------------------------------------------------
LlcHeader == [snap : BOOLEAN, orgcode : {"ether", "cisco 90", "appletalk", "other"},
              et : {"ip", "atalk"}]

handle_llc_packet(llc, dir) ==
    IF /\ llc.snap
       /\ \/ llc.orgcode \in {"ether", "cisco 90"}
          \/ llc.orgcode = "appletalk" /\ llc.et = "atalk"
    THEN dir ELSE Unhandled

(* In a frame that is source routed the bit that says so is part of the      *)
(* source address, which then is nobody's.                                   *)
TokenHeader == [shost : HwAddrs, dhost : HwAddrs \cup {Broadcast},
                routed : BOOLEAN, frame_type : {"llc", "mac"}, llc : LlcHeader]

(* Whether the interface's address was found is not asked: an address that   *)
(* was not is all zeroes and matches nobody's.                               *)
handle_tokenring_packet(h, hw) ==
    LET dir == IF hw.have /\ h.shost = hw.addr /\ ~h.routed THEN 1
               ELSE IF (hw.have /\ h.dhost = hw.addr) \/ h.dhost = Broadcast THEN 0
               ELSE -1
    IN  IF h.frame_type = "llc" THEN handle_llc_packet(h.llc, dir) ELSE Unhandled

-----------------------------------------------------------------------------
PPP_ADDRESS == 255
PPPHeader == [caplen : {1, 3, 72}, address : {PPP_ADDRESS, 0},
              proto : {"PPP_IP", "ETHERTYPE_IP", "ETHERTYPE_IPV6", "other"}]

(* A frame without its address byte is not looked into, and PPP's own number *)
(* for IPv6 is not known.                                                    *)
handle_ppp_packet(h) ==
    IF /\ h.address = PPP_ADDRESS /\ h.caplen >= 4
       /\ h.proto \in {"PPP_IP", "ETHERTYPE_IP", "ETHERTYPE_IPV6"}
    THEN -1 ELSE Unhandled

-----------------------------------------------------------------------------
CookedHeader == [pkttype : {"HOST", "BROADCAST", "MULTICAST", "OTHERHOST", "OUTGOING"}]

handle_cooked_packet_swapped(h) ==
    CASE h.pkttype = "HOST" -> 1
      [] h.pkttype = "OUTGOING" -> 0
      [] OTHER -> -1

handle_cooked_packet(h) ==
    CASE h.pkttype = "HOST" -> 0
      [] h.pkttype = "OUTGOING" -> 1
      [] OTHER -> -1

-----------------------------------------------------------------------------
(* The handlers that step over a header of some length. *)
BareHeader == [pkttype : {"none"}]
handle_raw_packet(h) == -1
handle_pflog_packet(h) == -1
handle_null_packet(h) == -1
handle_radiotap_packet(h) == -1

(* What packet_handler, the handler chosen at start-up, says of header h. *)
Direction(handler, h, hw) ==
    CASE handler = "eth" -> handle_eth_packet(h, hw)
      [] handler = "tokenring" -> handle_tokenring_packet(h, hw)
      [] handler = "ppp" -> handle_ppp_packet(h)
      [] handler = "cooked" -> handle_cooked_packet(h)
      [] handler = "pflog" -> handle_pflog_packet(h)
      [] handler = "null" -> handle_null_packet(h)
      [] handler = "radiotap" -> handle_radiotap_packet(h)
      [] handler = "raw" -> handle_raw_packet(h)

HeaderOf(handler) ==
    CASE handler = "eth" -> EthHeader
      [] handler = "tokenring" -> TokenHeader
      [] handler = "ppp" -> PPPHeader
      [] handler = "cooked" -> CookedHeader
      [] OTHER -> BareHeader

Hosts == {"eth", "tokenring"}  \* the handlers of headers with hardware addresses

(* The header of the frame that answers the one with header h. *)
ReplyHeader(handler, h) ==
    CASE handler \in Hosts -> [h EXCEPT !.shost = h.dhost, !.dhost = h.shost]
      [] handler = "cooked" /\ h.pkttype = "HOST" -> [h EXCEPT !.pkttype = "OUTGOING"]
      [] handler = "cooked" /\ h.pkttype = "OUTGOING" -> [h EXCEPT !.pkttype = "HOST"]
      [] OTHER -> h

SourceRouted(handler, h) == handler = "tokenring" /\ h.routed

HasReply(handler, h) ==
    CASE handler \in Hosts -> h.dhost # Broadcast
      [] handler = "cooked" -> h.pkttype # "BROADCAST"
      [] OTHER -> TRUE
=============================================================================
