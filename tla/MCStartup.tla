---------------------------- MODULE MCStartup ----------------------------
(* An instance of Startup for TLC: ten directives that cover every kind of   *)
(* value, octets of two bits, arrays of two entries.                         *)
EXTENDS Startup

Alphabetical ==
    <<"dns-resolution", "interface", "net-filter", "net-filter6", "no-curses",
      "num-lines", "port-resolution", "promiscuous", "screen-filter", "sort">>

SomeTexts ==
    [d \in {Alphabetical[n] : n \in DOMAIN Alphabetical} |->
        CASE d = "interface" -> {"eth1", "wlan0"}
          [] d = "net-filter" -> {"net/3", "net/9", "net/mask", "net/x", "net"}
          [] d = "net-filter6" -> {"net/3", "net/99"}
          [] d = "num-lines" -> {"5x", ""}
          [] d = "sort" -> {"2s", "bogus"}
          [] d = "promiscuous" -> {"true", "no"}
          [] OTHER -> {"yes"}]

FiveOrNothing == [t \in {"5x"} |-> 5]

SomeNets ==
    [t \in SomeTexts["net-filter"] \cup SomeTexts["net-filter6"] |->
        [slash |-> t # "net", valid |-> TRUE, net |-> {1, 4},
         mask |-> CASE t = "net/mask" -> "address"
                    [] t = "net/x" -> "bad"
                    [] OTHER -> "length",
         n |-> CASE t = "net/9" -> 9 [] t = "net/99" -> 99 [] OTHER -> 3,
         bits |-> {1, 2}]]

TwoPorts == {22, 80}
TwoProtocols == {1, 2}
OneNumber == {1}
OneBroker == {"tcp://broker:1883"}
==========================================================================
