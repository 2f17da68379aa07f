------------------------------ MODULE Capture ------------------------------
(***************************************************************************)
(* From the start of the program to its packets: the interface is chosen,  *)
(* its addresses are looked up (through DLPI, or by ioctl()s, or by        *)
(* getifaddrs(), as the program was built), the capture is opened, and the *)
(* handler for the interface's kind of link gets the frames (options.c,    *)
(* addrs_dlpi.c, addrs_ioctl.c and packet_init() of iftop.c, then Packets).*)
(*                                                                         *)
(* The machine is a record: its interfaces in order, each with its         *)
(* hardware address and its first IPv4 address, the option -i, the list    *)
(* getifaddrs() returns, the kind of link, and how the program was built.  *)
(***************************************************************************)
EXTENDS Packets, DLPI, SequencesExt

CONSTANT Worlds   \* the machines and options, as records [machine, options]

VARIABLES
    machine,      \* does not change
    interface,    \* options.interface
    if_ip6_addr   \* NoAddr unless have_ip6_addr

vars == <<dlpiVars, options, packet_handler, if_addr, seen, machine, interface,
          if_ip6_addr>>

NoAddr == <<>>
Garbage == "the bytes of another structure"

Builds == {"dlpi", "ioctl", "getifaddrs"}
Handlers == {"eth", "pflog", "raw", "null", "radiotap", "tokenring", "ppp", "cooked"}

(* Nobody sends a frame to itself. *)
ASSUME FramesAssumption ==
    \A handler \in Handlers : \A f \in Frames[handler] :
        /\ f \in FrameOf(handler)
        /\ handler \in Hosts => f.header.shost # f.header.dhost

(* An interface's address is the first that getifaddrs() lists for it. *)
Interfaces(m) ==
    {m.eth0} \cup {m.names[j] : j \in DOMAIN m.names} \cup {m.asked[j] : j \in DOMAIN m.asked}

FirstInet(ifas, name, j) ==
    /\ ifas[j].name = name /\ ifas[j].family = "inet"
    /\ \A k \in DOMAIN ifas : ifas[k].name = name /\ ifas[k].family = "inet" => j <= k

ASSUME WorldsAssumption ==
    \A w \in Worlds :
        LET m == w.machine
        IN  /\ m.build \in Builds
            /\ m.names \in Seq(Interfaces(m)) /\ m.asked \in Seq(Interfaces(m))
            /\ \A c \in Interfaces(m) :
                  /\ c.hw \in HwAddrs /\ c.ip \in Addrs \cup {NoAddr}
                  /\ \A j \in DOMAIN m.ifas :
                        FirstInet(m.ifas, c.name, j) => m.ifas[j].addr = c.ip
            /\ m.ifas \in Seq(Range(m.ifas))
            /\ \A j \in DOMAIN m.ifas : /\ m.ifas[j].family = "inet" => m.ifas[j].addr \in Addrs
                                        /\ m.ifas[j].family = "inet6" => m.ifas[j].addr # NoAddr

-----------------------------------------------------------------------------
(* The interface *)

(* The first that is up, for all one can tell, and has no bad name; those in *)
(* blind are the ones whose flags cannot be read.                            *)
get_first_interface(names, blind) ==
    LET Good == {j \in DOMAIN names :
                    ~names[j].bad /\ (j \in blind \/ names[j].up)}
    IN  IF Good = {} THEN machine.eth0
        ELSE names[CHOOSE j \in Good : \A k \in Good : j <= k]

options_set_defaults ==
    /\ phase = "names"
    /\ \E blind \in SUBSET DOMAIN machine.names :
          interface' = IF machine.asked = <<>>
                       THEN get_first_interface(machine.names, blind)
                       ELSE machine.asked[1]
    /\ phase' = IF machine.build = "dlpi" THEN "open" ELSE "socket"
    /\ UNCHANGED <<options, packet_handler, if_addr, seen, machine, if_ip6_addr,
                   awaited, alarm, hw>>

-----------------------------------------------------------------------------
(* Its addresses *)

(* get_addrs_dlpi() up to the first request; a name that does not fit, or a  *)
(* device that is not there.                                                 *)
get_addrs_dlpi ==
    /\ phase = "open"
    /\ IF interface.long THEN exit
       ELSE \E opens \in BOOLEAN : /\ phase' = OpenDevice(interface, opens)
                                   /\ UNCHANGED <<awaited, alarm>>
    /\ UNCHANGED hw

(* get_addrs_ioctl() up to the hardware address. *)
HardwareAddress ==
    /\ phase = "socket"
    /\ \/ exit /\ UNCHANGED hw
       \/ /\ phase' = "ip"
          /\ hw' \in {NoHw, [have |-> TRUE, addr |-> interface.hw]}
          /\ UNCHANGED <<awaited, alarm>>

(* One entry of the list: got is what has been found in those before it.     *)
(* What is neither the first IPv4 address nor another interface's is read as *)
(* an IPv6 address.                                                          *)
EntryOfAny(got, e) ==
    IF got.ip = NoAddr /\ e.family = "inet" THEN [got EXCEPT !.ip = e.addr] ELSE got

Entry(got, e) ==
    IF \/ got.ip # NoAddr /\ got.ip6 # NoAddr
       \/ e.name # interface.name \/ e.family \notin {"inet", "inet6"}
    THEN got
    ELSE IF e.family = "inet" /\ got.ip = NoAddr THEN [got EXCEPT !.ip = e.addr]
    ELSE IF e.family = "inet6" /\ e.local THEN got
    ELSE [got EXCEPT !.ip6 = IF e.family = "inet6" THEN e.addr ELSE <<Garbage>>]

Found(ifas) == FoldLeft(Entry, [ip |-> NoAddr, ip6 |-> NoAddr], ifas)

(* The rest of either function: the address may not be had. *)
IPAddress ==
    /\ phase = "ip"
    /\ LET none == [ip |-> NoAddr, ip6 |-> NoAddr]
           got == IF machine.build = "getifaddrs" THEN Found(machine.ifas)
                  ELSE [none EXCEPT !.ip = interface.ip]
       IN  \E g \in {none, got} :
              /\ if_addr' = [have_ip_addr |-> g.ip # NoAddr, if_ip_addr |-> g.ip,
                             hw |-> hw]
              /\ if_ip6_addr' = g.ip6
    /\ phase' = "pcap"
    /\ UNCHANGED <<awaited, alarm, hw>>

-----------------------------------------------------------------------------
(* The capture *)

(* pcap_open_live(), the handler, the filter: each may end the program.      *)
packet_init ==
    /\ phase = "pcap"
    /\ \/ exit /\ UNCHANGED packet_handler
       \/ /\ machine.dlt \in Handlers
          /\ packet_handler' = machine.dlt
          /\ phase' = "filter"
          /\ UNCHANGED <<awaited, alarm>>

set_filter_code ==
    /\ phase = "filter"
    /\ exit \/ (phase' = "loop" /\ UNCHANGED <<awaited, alarm>>)

-----------------------------------------------------------------------------
Init ==
    /\ \E w \in Worlds : machine = w.machine /\ options = w.options
    /\ phase = "names" /\ awaited = Nothing /\ alarm = FALSE /\ hw = NoHw
    /\ interface = <<>>
    /\ if_addr = [have_ip_addr |-> FALSE, if_ip_addr |-> NoAddr, hw |-> NoHw]
    /\ if_ip6_addr = NoAddr
    /\ packet_handler = "none"
    /\ seen = <<>>

(* What the driver does. *)
Driver ==
    /\ \/ GetmsgFails
       \/ \E m \in Messages : \/ dlokack(m) \/ dlbindack(m)
                              \/ dlinfoack(m, interface.hw)
    /\ UNCHANGED <<options, packet_handler, if_addr, seen, machine, interface, if_ip6_addr>>

SetUp ==
    \/ options_set_defaults
    \/ /\ get_addrs_dlpi \/ HardwareAddress \/ dlattachreq \/ dlbindreq \/ dlinforeq
       /\ UNCHANGED <<options, packet_handler, if_addr, seen, machine, interface, if_ip6_addr>>
    \/ IPAddress /\ UNCHANGED <<options, packet_handler, seen, machine, interface>>
    \/ packet_init /\ UNCHANGED <<options, if_addr, seen, machine, interface, if_ip6_addr, hw>>
    \/ set_filter_code /\ UNCHANGED <<options, packet_handler, if_addr, seen, machine,
                                      interface, if_ip6_addr, hw>>

Timer ==
    /\ sigalrm
    /\ UNCHANGED <<options, packet_handler, if_addr, seen, machine, interface, if_ip6_addr>>

Next ==
    \/ SetUp \/ Driver \/ Timer
    \/ phase = "loop" /\ packet_loop /\ UNCHANGED <<dlpiVars, machine, interface, if_ip6_addr>>

(* The program goes on and its timer fires; the driver may keep silent.      *)
Spec == Init /\ [][Next]_vars /\ WF_vars(SetUp) /\ WF_vars(Timer)

-----------------------------------------------------------------------------
(* Properties *)

TypeOK ==
    /\ phase \in {"names", "open", "socket", "ip", "pcap", "filter", "loop", "exit"} \cup Stages
    /\ awaited \in Acks \cup {Nothing}
    /\ alarm \in BOOLEAN
    /\ hw \in [have : BOOLEAN, addr : HwAddrs \cup {Nothing}]
    /\ if_addr \in [have_ip_addr : BOOLEAN, if_ip_addr : Addrs \cup {NoAddr},
                    hw : [have : BOOLEAN, addr : HwAddrs \cup {Nothing}]]
    /\ packet_handler \in Handlers \cup {"none"}
    /\ phase = "loop" => packet_handler # "none"
    /\ SeenOK

(* The addresses by which a packet's direction is told are those of the      *)
(* interface it was captured on: the IPv4 address is its first, the IPv6     *)
(* address one of its useful ones, unless it has a second IPv4 address,      *)
(* which the list's walk takes for IPv6 (addrs_ioctl.c:123-155).             *)
Of(family) ==
    {j \in DOMAIN machine.ifas : /\ machine.ifas[j].name = interface.name
                                 /\ machine.ifas[j].family = family}

AddressIsOwn ==
    phase = "loop" =>
        /\ if_addr.hw.have => if_addr.hw.addr = interface.hw
        /\ if_addr.have_ip_addr => if_addr.if_ip_addr = interface.ip
        /\ if_ip6_addr # NoAddr /\ (\A j, k \in Of("inet") : j = k) =>
              \E j \in Of("inet6") : /\ machine.ifas[j].addr = if_ip6_addr
                                     /\ ~machine.ifas[j].local

(* A capture that has begun is not ended by a timer of the set-up            *)
(* (dlcommon.c:484-505).                                                     *)
NoLateAlarm == [][phase = "loop" => phase' = "loop"]_vars

(* The set-up ends, whatever the driver answers and even when it does not    *)
(* (dlcommon.c:466-497, iftop.c:810-911).                                    *)
SetUpEnds == <>(phase \in {"loop", "exit"})
=============================================================================
