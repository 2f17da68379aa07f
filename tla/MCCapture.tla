------------------------------ MODULE MCCapture ------------------------------
(* An instance of Capture for TLC: plain machines, one for each kind of link, *)
(* with many options, and with the default options machines of every build    *)
(* with several interfaces.                                                   *)
EXTENDS Capture

Self  == <<10, 0, 0, 5>>
Near  == <<10, 0, 0, 9>>
Far   == <<192, 168, 1, 7>>
High  == <<10, 0, 0, 230>>   \* its last octet is one a multicast address starts with

SomeAddrs == {Self, Near, Far, ROUTER_ADDR, High}
SomePorts == {80, 50000, 60000}
SomeHwAddrs == {"hw0", "hw1", "peer"}

(* Every packet with its own frame's plainest header, and a few packets with *)
(* every header.                                                             *)
FewPackets == {p \in Packet : p.ip_p # UDP /\ p.sport \in {0, 80} /\ p.dport = p.sport
                              /\ ROUTER_ADDR \notin {p.src, p.dst}}
SomeHosts(h) == h.shost # "hw1" /\ h.dhost # h.shost
PlainLlc == [snap |-> TRUE, orgcode |-> "ether", et |-> "ip"]

SomeFrames ==
    [handler \in Handlers |->
        CASE handler = "eth" ->
                 [packet : Packet, header : {h \in EthHeader : SomeHosts(h) /\ h.types = <<"ip">>}]
                 \cup [packet : FewPackets, header : {h \in EthHeader : SomeHosts(h)}]
          [] handler = "tokenring" ->
                 [packet : FewPackets,
                  header : {h \in TokenHeader :
                               /\ SomeHosts(h)
                               /\ \/ h.llc = PlainLlc /\ h.frame_type = "llc"
                                  \/ h.dhost = "hw0" /\ ~h.routed}]
          [] OTHER -> [packet : FewPackets, header : HeaderOf(handler)]]

Defaults ==
    [netfilter |-> FALSE, netfilternet |-> <<10, 0, 0, 0>>,
     netfiltermask |-> <<255, 0, 0, 0>>, promiscuous_but_choosy |-> FALSE,
     block_protocols |-> <<>>, port_list |-> {}]

ManyOptions ==
    {[Defaults EXCEPT !.netfilter = nf, !.promiscuous_but_choosy = pc,
                      !.port_list = pl, !.block_protocols = bp] :
        nf \in BOOLEAN, pc \in BOOLEAN, pl \in {{}, {80}, {60000}},
        bp \in {<<>>, <<UDP>>}}

-----------------------------------------------------------------------------
Nic(name) == [name |-> name, bad |-> FALSE, up |-> TRUE, unit |-> TRUE,
              qualified |-> FALSE, long |-> FALSE, hw |-> "hw0", ip |-> Self]
Eth0 == Nic("eth0")
Eth1 == [Nic("eth1") EXCEPT !.hw = "hw1", !.ip = Near]
Lo   == [Nic("lo") EXCEPT !.bad = TRUE, !.unit = FALSE]
Down == [Nic("eth2") EXCEPT !.up = FALSE]
Dev  == [Nic("/dev/eth0") EXCEPT !.qualified = TRUE]
Long == [Nic("a very long name") EXCEPT !.long = TRUE]

V4(name, a) == [name |-> name, family |-> "inet", addr |-> a, local |-> FALSE]
V6(name, a, local) == [name |-> name, family |-> "inet6", addr |-> a, local |-> local]
Link(name) == [name |-> name, family |-> "packet", addr |-> <<>>, local |-> FALSE]

Plain(dlt) ==
    [names |-> <<Lo, Eth0>>, asked |-> <<>>, eth0 |-> Eth0, build |-> "ioctl",
     dlt |-> dlt, ifas |-> <<V4("eth0", Self), V4("eth1", Near)>>]

NameLists == {<<>>, <<Lo, Eth0>>, <<Lo, Down, Eth0, Eth1>>, <<Eth1, Eth0>>}
AskedFor == {<<>>, <<Eth0>>, <<Dev>>, <<Long>>, <<Lo>>}
IfaLists ==
    {<<Link("eth0"), V4("eth1", Near), V4("eth0", Self), V6("eth1", <<1>>, FALSE),
       V6("eth0", <<2>>, TRUE), V6("eth0", <<3>>, FALSE)>>,
     <<V4("eth1", Near), V4("eth0", Self), V4("eth0", Near), V6("eth0", <<3>>, FALSE)>>,
     <<V6("eth0", <<3>>, FALSE), V6("eth0", <<4>>, FALSE), V4("eth0", Self), V4("eth1", Near)>>}

SetUps ==
    {[Plain("raw") EXCEPT !.names = n, !.asked = a, !.build = b, !.ifas = l, !.dlt = d] :
        n \in NameLists, a \in AskedFor, b \in Builds, l \in IfaLists, d \in {"raw", "unknown"}}

SomeWorlds ==
    [machine : {Plain(d) : d \in Handlers}, options : ManyOptions]
    \cup [machine : SetUps, options : {Defaults}]

Ack(prim) == [prim |-> prim, whole |-> TRUE, hipri |-> TRUE, more |-> FALSE,
              addr_length |-> 8, sap_length |-> -2]
SomeMessages ==
    {Ack(p) : p \in Acks} \cup {[Ack("DL_INFO_ACK") EXCEPT !.addr_length = 4]}
    \cup {[Ack("DL_OK_ACK") EXCEPT !.whole = FALSE], [Ack("DL_BIND_ACK") EXCEPT !.hipri = FALSE],
          [Ack("DL_INFO_ACK") EXCEPT !.more = TRUE], Ack("DL_ERROR_ACK"), Ack("unknown")}
=============================================================================
