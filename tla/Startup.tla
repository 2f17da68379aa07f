------------------------------ MODULE Startup ------------------------------
(***************************************************************************)
(* How the options come about before any thread runs (options.c,           *)
(* cfgfile.c, main() in iftop.c): the defaults, three settings nobody can  *)
(* change, the switches, the configuration file, and options_make(), which *)
(* turns the settings collected into the options.  The switches are those  *)
(* of options_args.txt or, when there is no such file, of the command      *)
(* line: never of both.                                                    *)
(*                                                                         *)
(* An address or a mask is the set of its bits that are 1, bit 1 being the *)
(* highest.  What a text says is given by constants; texts are not taken   *)
(* apart.                                                                  *)
(*                                                                         *)
(* A definition that stands right above another, has its parameters and is *)
(* used by nothing is a slip the code could have had (see Publisher).      *)
(***************************************************************************)
EXTENDS Integers, StringMap

CONSTANTS
    Texts,         \* directive -> what may be written for it
    Number,        \* text -> the number strtol() reads at its start
    Nets,          \* text of a net filter -> its address and mask
    FirstInterface,\* what get_first_interface() finds
    Ports,         \* port numbers that may be listed
    Protocols,     \* protocol numbers that may be blocked
    Numbers,       \* numbers given to -t, -T, -d and -M
    Brokers,       \* what may be given to -B
    Octet,         \* bits in an octet
    PORT_LIST_LEN, BLOCK_LIST_LEN,  \* lengths of the two arrays
    MaxSwitches, MaxLines           \* bounds on the input

(* The directives of which the module knows the values: of those of          *)
(* config_directives[] max-bandwidth, a rate for the bars of the screen, is  *)
(* left out; screen-filter is only known to options_make().                  *)
ASSUME TextsAssumption ==
    /\ {"dns-resolution", "port-resolution", "no-curses"} \subseteq DOMAIN Texts
    /\ DOMAIN Texts \subseteq
          {"interface", "dns-resolution", "port-resolution", "filter-code",
           "show-bars", "promiscuous", "hide-source", "hide-destination",
           "use-bytes", "sort", "line-display", "show-totals", "log-scale",
           "net-filter", "net-filter6", "link-local", "port-display",
           "timed-output", "no-curses", "num-lines", "screen-filter"}
ASSUME AlphabetAssumption == DOMAIN Texts = {Alphabet[n] : n \in DOMAIN Alphabet}
(* What the text of a net filter says: whether it has a slash and an address *)
(* before it, the address, and the mask as a length, as bits, or neither.    *)
ASSUME NetsAssumption ==
    /\ Octet \in Nat \ {0}
    /\ \A d \in DOMAIN Texts \cap {"net-filter", "net-filter6"} :
          \A t \in Texts[d] :
              Nets[t] \in [slash : BOOLEAN, valid : BOOLEAN, n : Nat,
                          net : SUBSET (1..16 * Octet), bits : SUBSET (1..16 * Octet),
                          mask : {"length", "address", "bad"}]
(* 0 and -1 stand for no port in port_list. *)
ASSUME PortsAssumption == Ports \subseteq Nat \ {0} /\ PORT_LIST_LEN \in Nat
ASSUME BoundsAssumption == MaxSwitches \in Nat /\ MaxLines \in Nat

VARIABLES
    stage,      \* "forced", "switches", "file", "make", "made", "exited", "overrun"
    config,     \* the stringmap
    option,     \* directive -> its value in options
    promiscuous_but_choosy,
    netfilter,  \* "net-filter", "net-filter6" -> [on, net, mask]
    port_list,
    block_protocols,
    numbers,    \* -t, -T, -d, -M -> its number in options
    mqtt_addr,
    asked,      \* history: switch or directive -> what was given for it last
    written,    \* history: directive -> what the file's first line for it said
    read        \* switches or lines read at this stage

made == <<option, promiscuous_but_choosy, netfilter>>
direct == <<port_list, block_protocols, numbers, mqtt_addr>>
vars == <<stage, config, made, direct, asked, written, read>>

Directives == DOMAIN Texts

NetFilters == {"net-filter", "net-filter6"}

Strings == {"interface", "filter-code", "screen-filter"}
Integral == {"num-lines", "timed-output"}

Enumeration ==
    [d \in {"sort", "line-display", "port-display"} |->
        CASE d = "sort" -> {"2s", "10s", "40s", "source", "destination"}
          [] d = "line-display" -> {"two-line", "one-line-both",
                                    "one-line-sent", "one-line-received"}
          [] d = "port-display" -> {"off", "source-only", "destination-only",
                                    "on"}]

(* The file may not say screen-filter, which options_make() looks for.       *)
is_cfgdirective_valid(d) == d # "screen-filter"

(* The directives that are off unless something turns them on.               *)
Off == {"promiscuous", "hide-source", "hide-destination", "link-local",
        "log-scale", "no-curses"}

Default(d) ==
    CASE d = "interface" -> FirstInterface
      [] d \in Strings \ {"interface"} -> "NULL"
      [] d = "num-lines" -> 10
      [] d = "timed-output" -> 0
      [] d = "sort" -> "10s"
      [] d = "line-display" -> "two-line"
      [] d = "port-display" -> "on"
      [] OTHER -> d \notin Off

DefaultOptions(promiscuous) ==
    [d \in Directives \ NetFilters |->
        IF d = "promiscuous" THEN promiscuous ELSE Default(d)]

(* 10.0.1.0/24 and fe80::/ffff::. *)
DefaultFilters ==
    [d \in NetFilters |->
        IF d = "net-filter"
        THEN [on |-> FALSE, net |-> {3 * Octet}, mask |-> 1..3 * Octet]
        ELSE [on |-> FALSE, net |-> {1}, mask |-> 1..2 * Octet]]

DefaultBroker == "tcp://test.mosquitto.org:1883"

Put(f, k, v) == [x \in DOMAIN f \cup {k} |-> IF x = k THEN v ELSE f[x]]

Nothing == [x \in {} |-> {}]

(* config_init() and options_set_defaults(); promiscuous mode is the default *)
(* where outgoing packets cannot be seen without it.                         *)
Init ==
    /\ stage = "forced"
    /\ config = stringmap_new
    /\ \E needed \in BOOLEAN :
          /\ option = DefaultOptions(needed)
          /\ promiscuous_but_choosy = needed
    /\ netfilter = DefaultFilters
    /\ port_list = [n \in 1..PORT_LIST_LEN |-> 0]
    /\ block_protocols = [n \in 1..BLOCK_LIST_LEN |-> -1]
    /\ numbers = [c \in {"t", "T", "d", "M"} |-> 0]
    /\ mqtt_addr = DefaultBroker
    /\ asked = Nothing
    /\ written = Nothing
    /\ read = 0

-----------------------------------------------------------------------------
(* options_read_args() *)

(* Its first three statements. *)
ForcedSettings ==
    /\ stage = "forced"
    /\ stage' = "switches"
    /\ config' = config_set_string(config_set_string(config_set_string(config,
                     "dns-resolution", "false"), "port-resolution", "false"),
                     "no-curses", "true")
    /\ asked' = [d \in {"dns-resolution", "port-resolution", "no-curses"} |->
                    IF d = "no-curses" THEN "true" ELSE "false"]
    /\ UNCHANGED <<made, direct, written, read>>

(* Another switch is there to be read. *)
Switch ==
    /\ stage = "switches"
    /\ read < MaxSwitches
    /\ read' = read + 1
    /\ UNCHANGED <<made, written>>

(* -i, -f, -p and -F *)
Setting(d, text) ==
    /\ Switch
    /\ d \in {"interface", "filter-code", "promiscuous", "net-filter"}
    /\ d = "promiscuous" => text = "true"
    /\ config' = config_set_string(config, d, text)
    /\ asked' = Put(asked, d, text)
    /\ UNCHANGED <<stage, direct>>

PortsAdded(list) ==
    /\ Switch
    /\ Len(list) <= PORT_LIST_LEN
    /\ port_list' = [n \in 1..PORT_LIST_LEN |->
                        IF n \in DOMAIN list THEN list[n] ELSE port_list[n]]
    /\ asked' = Put(asked, "P", list)
    /\ UNCHANGED <<stage, config, block_protocols, numbers, mqtt_addr>>

(* -P: the list is cleared and filled. *)
ListPorts(list) ==
    /\ Switch
    /\ Len(list) <= PORT_LIST_LEN
    /\ port_list' = [n \in 1..PORT_LIST_LEN |->
                        IF n \in DOMAIN list THEN list[n] ELSE -1]
    /\ asked' = Put(asked, "P", list)
    /\ UNCHANGED <<stage, config, block_protocols, numbers, mqtt_addr>>

(* -Z: filled, and not cleared. *)
Block(list) ==
    /\ Switch
    /\ Len(list) <= BLOCK_LIST_LEN
    /\ block_protocols' = [n \in 1..BLOCK_LIST_LEN |->
                              IF n \in DOMAIN list THEN list[n]
                              ELSE block_protocols[n]]
    /\ asked' = Put(asked, "Z", list)
    /\ UNCHANGED <<stage, config, port_list, numbers, mqtt_addr>>

(* -P or -Z with more entries than the array has, which are written after    *)
(* it, or with none, when atoi() reads from NULL.                            *)
WriteBeyond ==
    /\ Switch
    /\ stage' = "overrun"
    /\ UNCHANGED <<config, direct, asked>>

(* -t, -T and -d *)
SetNumber(c, n) ==
    /\ Switch
    /\ c # "M"
    /\ numbers' = [numbers EXCEPT ![c] = n]
    /\ asked' = Put(asked, c, n)
    /\ UNCHANGED <<stage, config, port_list, block_protocols, mqtt_addr>>

(* -M has no break: its minutes are copied to the broker's address as well.  *)
Minutes(n) ==
    /\ Switch
    /\ numbers' = [numbers EXCEPT !["M"] = 60 * n]
    /\ mqtt_addr' = "minutes"
    /\ asked' = Put(asked, "M", n)
    /\ UNCHANGED <<stage, config, port_list, block_protocols>>

(* -B *)
Broker(b) ==
    /\ Switch
    /\ mqtt_addr' = b
    /\ asked' = Put(asked, "B", b)
    /\ UNCHANGED <<stage, config, port_list, block_protocols, numbers>>

(* -h, an unknown switch, a missing argument, words after the switches. *)
Usage ==
    /\ stage = "switches"
    /\ stage' = "exited"
    /\ UNCHANGED <<config, made, direct, asked, written, read>>

NoMoreSwitches ==
    /\ stage = "switches"
    /\ stage' = "file"
    /\ read' = 0
    /\ UNCHANGED <<config, made, direct, asked, written>>

-----------------------------------------------------------------------------
(* read_config_file() *)

LineOverrides(d, text) ==
    /\ stage = "file"
    /\ read < MaxLines
    /\ read' = read + 1
    /\ is_cfgdirective_valid(d)
    /\ config' = config_set_string(config, d, text)
    /\ written' = IF d \in DOMAIN written THEN written ELSE Put(written, d, text)
    /\ UNCHANGED <<stage, made, direct, asked>>

(* A line with a directive: an earlier setting, from a switch or a line,     *)
(* stays.                                                                    *)
Line(d, text) ==
    /\ stage = "file"
    /\ read < MaxLines
    /\ read' = read + 1
    /\ is_cfgdirective_valid(d)
    /\ config' = stringmap_insert(config, d, text)
    /\ written' = IF d \in DOMAIN written THEN written ELSE Put(written, d, text)
    /\ UNCHANGED <<stage, made, direct, asked>>

(* No file, or the end of it. *)
EndOfFile ==
    /\ stage = "file"
    /\ stage' = "make"
    /\ UNCHANGED <<config, made, direct, asked, written, read>>

-----------------------------------------------------------------------------
(* options_make() *)

(* The value of directive d for a text, old being its value so far.  The     *)
(* verdicts of config_get_int() and of an enumeration that lacks the text    *)
(* are not looked at.                                                        *)
Value(d, text, old) ==
    CASE d \in Strings -> text
      [] d \in Integral -> IF text \in DOMAIN Number THEN Number[text] ELSE old
      [] d \in DOMAIN Enumeration -> IF text \in Enumeration[d] THEN text ELSE old
      [] OTHER -> text \in {"yes", "true"}

(* A prefix length for IPv4: 0xffffffff shifted, and 32 apart from it.  One  *)
(* above 32 is reported and leaves the mask as it is.                        *)
Prefix(old, n) == IF n > 4 * Octet THEN old ELSE 1..n

(* For IPv6 whole octets are set and the next one assigned; those after it   *)
(* stay as they are.                                                         *)
Prefix6(old, n) ==
    LET bl == n \div Octet
        assigned == IF n % Octet > 0 THEN bl + 1 ELSE bl
    IN  1..n \cup {b \in old : b > assigned * Octet}

options_config_get_net_filter_unmasked(f, t) ==
    IF ~t.slash \/ ~t.valid THEN [f EXCEPT !.on = FALSE]
    ELSE IF t.mask = "bad" THEN [f EXCEPT !.on = FALSE, !.net = t.net]
    ELSE LET m == IF t.mask = "length" THEN Prefix(f.mask, t.n) ELSE t.bits
         IN  [on |-> TRUE, net |-> t.net, mask |-> m]

(* The filter of f after text t has been read. *)
options_config_get_net_filter(f, t) ==
    IF ~t.slash \/ ~t.valid THEN [f EXCEPT !.on = FALSE]
    ELSE IF t.mask = "bad" THEN [f EXCEPT !.on = FALSE, !.net = t.net]
    ELSE LET m == IF t.mask = "length" THEN Prefix(f.mask, t.n) ELSE t.bits
         IN  [on |-> TRUE, net |-> t.net \cap m, mask |-> m]

options_config_get_net_filter6_any_length(f, t) ==
    IF ~t.slash \/ ~t.valid THEN [f EXCEPT !.on = FALSE]
    ELSE IF t.mask = "bad" THEN [f EXCEPT !.on = FALSE, !.net = t.net]
    ELSE LET m == IF t.mask = "address" THEN t.bits ELSE Prefix6(f.mask, t.n)
         IN  [on |-> TRUE, net |-> t.net \cap m, mask |-> m]

(* A length below 1 or above 128 is refused, the filter masked all the same. *)
options_config_get_net_filter6(f, t) ==
    IF ~t.slash \/ ~t.valid THEN [f EXCEPT !.on = FALSE]
    ELSE IF t.mask = "bad" THEN [f EXCEPT !.on = FALSE, !.net = t.net]
    ELSE LET ok == t.mask = "address" \/ t.n \in 1..16 * Octet
             m == CASE t.mask = "address" -> t.bits
                    [] ok /\ t.mask = "length" -> Prefix6(f.mask, t.n)
                    [] OTHER -> f.mask
         IN  [on |-> ok, net |-> t.net \cap m, mask |-> m]

(* What options_make() makes of the settings s, directive -> text. *)
Options(old, s) ==
    [d \in DOMAIN old |->
        IF d \in DOMAIN s THEN Value(d, s[d], old[d]) ELSE old[d]]

Filters(old, s) ==
    [d \in NetFilters |->
        CASE d \notin DOMAIN s -> old[d]
          [] d \in DOMAIN s /\ d = "net-filter" ->
                options_config_get_net_filter(old[d], Nets[s[d]])
          [] d \in DOMAIN s /\ d = "net-filter6" ->
                options_config_get_net_filter6(old[d], Nets[s[d]])]

(* Whether promiscuous mode is wanted for outgoing packets only.             *)
Choosy(needed, s) ==
    needed /\ ~("promiscuous" \in DOMAIN s /\ Value("promiscuous", s["promiscuous"], needed))

config_get_string(d) == stringmap_find(config, d).d

(* The code cuts a filter's text at its '/' where it hangs in the tree; it   *)
(* is not read again.                                                        *)
Make ==
    LET s == [d \in {d \in Directives : Has(config, d)} |-> config_get_string(d)]
    IN  /\ stage = "make"
        /\ stage' = "made"
        /\ option' = Options(option, s)
        /\ promiscuous_but_choosy' = Choosy(promiscuous_but_choosy, s)
        /\ netfilter' = Filters(netfilter, s)
        /\ UNCHANGED <<config, direct, asked, written, read>>

-----------------------------------------------------------------------------
Lists(S, len) == UNION {[1..n -> S] : n \in 1..len}

Next ==
    \/ ForcedSettings
    \/ \E d \in Directives : \E text \in Texts[d] : Setting(d, text) \/ Line(d, text)
    \/ \E list \in Lists(Ports, PORT_LIST_LEN) : ListPorts(list)
    \/ \E list \in Lists(Protocols, BLOCK_LIST_LEN) : Block(list)
    \/ \E c \in DOMAIN numbers, n \in Numbers : SetNumber(c, n)
    \/ \E n \in Numbers : Minutes(n)
    \/ \E b \in Brokers : Broker(b)
    \/ WriteBeyond \/ Usage \/ NoMoreSwitches \/ EndOfFile \/ Make

Spec == Init /\ [][Next]_vars

-----------------------------------------------------------------------------
(* Properties *)

Bits == 1..16 * Octet

TypeOK ==
    /\ stage \in {"forced", "switches", "file", "make", "made", "exited", "overrun"}
    /\ \A w \in DOMAIN config : /\ config[w].key \in Directives
                               /\ config[w].d \in Texts[config[w].key]
                                       \cup {"true", "false"}
    /\ DOMAIN option = Directives \ NetFilters
    /\ promiscuous_but_choosy \in BOOLEAN
    /\ netfilter \in [NetFilters -> [on : BOOLEAN, net : SUBSET Bits,
                                     mask : SUBSET Bits]]
    /\ port_list \in [1..PORT_LIST_LEN -> Ports \cup {-1, 0}]
    /\ block_protocols \in [1..BLOCK_LIST_LEN -> Protocols \cup {-1}]
    /\ mqtt_addr \in Brokers \cup {DefaultBroker, "minutes"}
    /\ read \in 0..MaxSwitches \cup 0..MaxLines

(* Whatever the order in which settings came, what was set is found, and a   *)
(* node is found where it hangs, so that no directive is in the tree twice   *)
(* (stringmap.c:59-111).                                                     *)
EveryKeyFound ==
    /\ \A d \in Directives \cap (DOMAIN asked \cup DOMAIN written) : Has(config, d)
    /\ \A w \in DOMAIN config : WayTo(config, config[w].key) = w

(* "Any command line options specified will override settings in the config  *)
(* file" (iftop.8:196), the last of several switches and the first of        *)
(* several lines counting, the three forced settings as well; and the user   *)
(* who asks for promiscuous mode gets all of it (options.c:518).             *)
Precedence ==
    LET s == [d \in Directives \cap (DOMAIN asked \cup DOMAIN written) |->
                 IF d \in DOMAIN asked THEN asked[d] ELSE written[d]]
    IN  stage = "made" =>
          \E needed \in BOOLEAN :
            /\ option = Options(DefaultOptions(needed), s)
            /\ promiscuous_but_choosy = Choosy(needed, s)
            /\ netfilter = Filters(DefaultFilters, s)

(* A filter that is on has no bit outside its mask: a packet's address is    *)
(* masked before it is compared with it (in_filter_net, iftop.c:280-283),    *)
(* so that otherwise no address would be inside.                             *)
NetIsMasked ==
    \A d \in NetFilters : netfilter[d].on => netfilter[d].net \subseteq netfilter[d].mask

in_port_list(port) ==
    /\ port # 0
    /\ \E n \in DOMAIN port_list : /\ port_list[n] = port
                                   /\ \A m \in 1..n-1 : port_list[m] # -1

(* The ports ignored are those of the last -P, whatever lists came before.   *)
PortsAsAsked ==
    \A port \in Ports :
        in_port_list(port) <=>
            "P" \in DOMAIN asked /\ \E n \in DOMAIN asked["P"] : asked["P"][n] = port
=============================================================================
