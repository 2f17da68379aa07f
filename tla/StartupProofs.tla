--------------------------- MODULE StartupProofs ---------------------------
(***************************************************************************)
(* What holds of Startup for any settings, any order of switches and lines *)
(* and any tree that keeps them: the tree finds the text that was set last *)
(* for each key, switches take precedence over the file, a net filter that *)
(* is on fits its mask, and the ports ignored are those of the last -P.    *)
(***************************************************************************)
EXTENDS Startup, SequenceTheorems, Induction

(* The filters are the default ones until the options are made.              *)
FiltersInv == stage # "made" => netfilter = DefaultFilters

LEMMA DefaultsMasked ==
    ASSUME netfilter = DefaultFilters PROVE NetIsMasked
  BY DEF NetIsMasked, DefaultFilters

(* Either text of a filter leaves it off, or masked.                         *)
LEMMA FilterMasked ==
    ASSUME NEW d \in NetFilters, NEW t
    PROVE  LET f == options_config_get_net_filter(DefaultFilters[d], t)
           IN  f.on => f.net \subseteq f.mask
  BY DEF options_config_get_net_filter, DefaultFilters

LEMMA Filter6Masked ==
    ASSUME NEW d \in NetFilters, NEW t
    PROVE  LET f == options_config_get_net_filter6(DefaultFilters[d], t)
           IN  f.on => f.net \subseteq f.mask
<1>1. CASE ~t.slash \/ ~t.valid
  BY <1>1 DEF options_config_get_net_filter6, DefaultFilters
<1>2. CASE t.slash /\ t.valid /\ t.mask = "bad"
  BY <1>2 DEF options_config_get_net_filter6, DefaultFilters
<1>3. CASE t.slash /\ t.valid /\ t.mask # "bad"
  BY <1>3 DEF options_config_get_net_filter6
<1> QED BY <1>1, <1>2, <1>3

LEMMA FiltersMasked ==
    ASSUME NEW s, netfilter' = Filters(DefaultFilters, s) PROVE NetIsMasked'
<1> SUFFICES ASSUME NEW d \in NetFilters, netfilter'[d].on
             PROVE  netfilter'[d].net \subseteq netfilter'[d].mask
  BY DEF NetIsMasked
<1>1. CASE d \notin DOMAIN s
  BY <1>1 DEF Filters, DefaultFilters, NetFilters
<1>2. CASE d \in DOMAIN s /\ d = "net-filter"
  <2>1. netfilter'[d] = options_config_get_net_filter(DefaultFilters[d], Nets[s[d]])
    BY <1>2 DEF Filters
  <2> QED BY <2>1, FilterMasked
<1>3. CASE d \in DOMAIN s /\ d = "net-filter6"
  <2>1. netfilter'[d] = options_config_get_net_filter6(DefaultFilters[d], Nets[s[d]])
    BY <1>3 DEF Filters
  <2> QED BY <2>1, Filter6Masked
<1> QED BY <1>1, <1>2, <1>3 DEF NetFilters

(* All but options_make() leaves the filters alone.                          *)
LEMMA OthersKeepFilters ==
    ASSUME [Next]_vars, ~Make
    PROVE  netfilter' = netfilter /\ (stage = "made" => stage' = "made")
<1> USE DEF made
<1>1. CASE UNCHANGED vars
  BY <1>1 DEF vars
<1>2. ASSUME NEW d \in Directives, NEW text \in Texts[d], Setting(d, text) \/ Line(d, text)
      PROVE  netfilter' = netfilter /\ (stage = "made" => stage' = "made")
  BY <1>2 DEF Setting, Line, Switch
<1>3. ASSUME NEW list, ListPorts(list) \/ Block(list)
      PROVE  netfilter' = netfilter /\ (stage = "made" => stage' = "made")
  BY <1>3 DEF ListPorts, Block, Switch
<1>4. ASSUME NEW n, NEW c, SetNumber(c, n) \/ Minutes(n) \/ Broker(n)
      PROVE  netfilter' = netfilter /\ (stage = "made" => stage' = "made")
  BY <1>4 DEF SetNumber, Minutes, Broker, Switch
<1>5. CASE ForcedSettings \/ WriteBeyond \/ Usage \/ NoMoreSwitches \/ EndOfFile
  BY <1>5 DEF ForcedSettings, WriteBeyond, Usage, NoMoreSwitches, EndOfFile, Switch
<1> QED BY <1>1, <1>2, <1>3, <1>4, <1>5 DEF Next

(* A filter that is on has no bit outside its mask, so that a masked address *)
(* can be inside (options.c:572-692, in_filter_net at iftop.c:280-283).      *)
THEOREM FilterFitsMask == Spec => []NetIsMasked
<1>1. Init => FiltersInv /\ NetIsMasked
  BY DefaultsMasked DEF Init, FiltersInv
<1>2. FiltersInv /\ NetIsMasked /\ [Next]_vars => (FiltersInv /\ NetIsMasked)'
  <2> SUFFICES ASSUME FiltersInv, NetIsMasked, [Next]_vars
               PROVE  FiltersInv' /\ NetIsMasked'
    OBVIOUS
  <2>1. CASE Make
    <3>1. stage' = "made" /\ netfilter = DefaultFilters
      BY <2>1 DEF Make, FiltersInv
    <3>2. \E s : netfilter' = Filters(DefaultFilters, s)
      BY <2>1, <3>1 DEF Make
    <3> QED BY <3>1, <3>2, FiltersMasked DEF FiltersInv
  <2>2. CASE ~Make
    BY <2>2, OthersKeepFilters DEF FiltersInv, NetIsMasked
  <2> QED BY <2>1, <2>2
<1> QED BY <1>1, <1>2, PTL DEF Spec

-----------------------------------------------------------------------------
(* A -P was not among the forced settings, which alone come before it.       *)
PortsInv ==
    /\ port_list \in [1..PORT_LIST_LEN -> Int]
    /\ "P" \in DOMAIN asked => stage # "forced"
    /\ DOMAIN numbers = {"t", "T", "d", "M"}
    /\ PortsAsAsked

LEMMA PortsInit == Init => PortsInv
<1> SUFFICES ASSUME Init PROVE PortsInv
  OBVIOUS
<1>1. port_list = [n \in 1..PORT_LIST_LEN |-> 0] /\ "P" \notin DOMAIN asked
  BY DEF Init, Nothing
<1>2. \A port \in Ports : ~in_port_list(port)
  BY <1>1 DEF in_port_list
<1>3. DOMAIN numbers = {"t", "T", "d", "M"}
  BY DEF Init
<1> QED BY <1>1, <1>2, <1>3 DEF PortsInv, PortsAsAsked

(* Only -P itself touches what it asked for and the list.                    *)
LEMMA PortsKept ==
    ASSUME PortsInv, UNCHANGED <<port_list, stage>>, DOMAIN numbers' = DOMAIN numbers,
           asked' = asked \/ \E k, v : k # "P" /\ asked' = Put(asked, k, v)
    PROVE  PortsInv'
<1>1. /\ "P" \in DOMAIN asked' <=> "P" \in DOMAIN asked
      /\ "P" \in DOMAIN asked => asked'["P"] = asked["P"]
  BY DEF Put
<1>2. \A port : in_port_list(port)' <=> in_port_list(port)
  BY DEF in_port_list
<1> QED BY <1>1, <1>2 DEF PortsInv, PortsAsAsked

LEMMA PortsListed ==
    ASSUME PortsInv, NEW list \in Lists(Ports, PORT_LIST_LEN), ListPorts(list)
    PROVE  PortsInv'
<1>1. PICK k \in 1..PORT_LIST_LEN : list \in [1..k -> Ports]
  BY DEF Lists
<1>2. /\ port_list' = [n \in 1..PORT_LIST_LEN |-> IF n \in 1..k THEN list[n] ELSE -1]
      /\ asked' = Put(asked, "P", list)
      /\ stage' = stage /\ stage = "switches" /\ numbers' = numbers
  BY <1>1 DEF ListPorts, Switch
<1>3. "P" \in DOMAIN asked' /\ asked'["P"] = list
  BY <1>2 DEF Put
<1>4. port_list' \in [1..PORT_LIST_LEN -> Int]
  <2>1. Ports \subseteq Int
    BY PortsAssumption
  <2>2. \A n \in 1..k : list[n] \in Int
    BY <1>1, <2>1
  <2> QED BY <1>2, <2>2
<1>5. ASSUME NEW port \in Ports
      PROVE  in_port_list(port)' <=> \E n \in 1..k : list[n] = port
  <2>1. port \in Nat \ {0} /\ \A n \in 1..k : list[n] # -1
    BY <1>1, PortsAssumption
  <2>2. DOMAIN port_list' = 1..PORT_LIST_LEN /\ 1..k \subseteq 1..PORT_LIST_LEN
    BY <1>2, PortsAssumption
  <2>3. \A n \in 1..k : port_list'[n] = list[n]
    BY <1>2, <2>2
  <2>4. \A n \in 1..PORT_LIST_LEN : n \notin 1..k => port_list'[n] = -1
    BY <1>2
  <2>5. ASSUME NEW n \in 1..k, list[n] = port PROVE in_port_list(port)'
    <3>1. \A m \in 1..n-1 : m \in 1..k
      OBVIOUS
    <3> QED BY <2>1, <2>2, <2>3, <2>5, <3>1 DEF in_port_list
  <2>6. ASSUME in_port_list(port)' PROVE \E n \in 1..k : list[n] = port
    BY <2>1, <2>2, <2>3, <2>4, <2>6 DEF in_port_list
  <2> QED BY <2>5, <2>6
<1> QED BY <1>1, <1>2, <1>3, <1>4, <1>5 DEF PortsInv, PortsAsAsked

LEMMA PortsNext == PortsInv /\ [Next]_vars => PortsInv'
<1> SUFFICES ASSUME PortsInv, [Next]_vars PROVE PortsInv'
  OBVIOUS
<1> USE DEF direct
<1>1. ASSUME UNCHANGED port_list, DOMAIN numbers' = DOMAIN numbers, asked' = asked,
             stage = "forced" \/ stage' # "forced" \/ UNCHANGED stage
      PROVE  PortsInv'
  BY <1>1 DEF PortsInv, PortsAsAsked, in_port_list
<1>2. CASE ForcedSettings
  <2>1. "P" \notin DOMAIN asked /\ "P" \notin DOMAIN asked'
    BY <1>2 DEF ForcedSettings, PortsInv
  <2> QED BY <1>2, <2>1 DEF ForcedSettings, PortsInv, PortsAsAsked, in_port_list
<1>3. ASSUME NEW d, NEW text, Setting(d, text) PROVE PortsInv'
  BY <1>3, PortsKept DEF Setting
<1>4. ASSUME NEW d, NEW text, Line(d, text) PROVE PortsInv'
  BY <1>1, <1>4 DEF Line
<1>5. ASSUME NEW list \in Lists(Ports, PORT_LIST_LEN), ListPorts(list) PROVE PortsInv'
  BY <1>5, PortsListed
<1>6. ASSUME NEW list, Block(list) PROVE PortsInv'
  BY <1>6, PortsKept DEF Block
<1>7. ASSUME NEW c \in DOMAIN numbers, NEW n, SetNumber(c, n) PROVE PortsInv'
  <2>1. c # "P"
    BY DEF PortsInv
  <2> QED BY <1>7, <2>1, PortsKept DEF SetNumber
<1>8. ASSUME NEW n, Minutes(n) \/ Broker(n) PROVE PortsInv'
  BY <1>8, PortsKept DEF Minutes, Broker
<1>9. CASE WriteBeyond \/ Usage \/ NoMoreSwitches \/ EndOfFile \/ Make
  BY <1>1, <1>9 DEF WriteBeyond, Usage, NoMoreSwitches, EndOfFile, Make
<1>10. CASE UNCHANGED vars
  BY <1>1, <1>10 DEF vars
<1> QED BY <1>2, <1>3, <1>4, <1>5, <1>6, <1>7, <1>8, <1>9, <1>10 DEF Next

(* The ports ignored are those of the last -P, and none without one, however *)
(* many lists came before it and however long (options.c:391-406,            *)
(* iftop_api.c:97-120).                                                      *)
THEOREM PortsOfLastList == Spec => []PortsAsAsked
<1>1. PortsInv => PortsAsAsked
  BY DEF PortsInv
<1> QED BY <1>1, PortsInit, PortsNext, PTL DEF Spec

-----------------------------------------------------------------------------
(* The tree *)

(* A way for key k ends where there is no node or the one with the key, and  *)
(* otherwise goes on to one side.                                            *)
EndsAt(S, k, w) == w \notin DOMAIN S \/ S[w].key = k
Side(S, k, w) == IF Rank(k) < Rank(S[w].key) THEN "l" ELSE "g"
Onward(S, k, w) == Append(w, Side(S, k, w))

WayStep(S, k, g, w) == IF EndsAt(S, k, w) THEN w ELSE g[Onward(S, k, w)]
IsWay(S, k, g) == g = [w \in Way |-> WayStep(S, k, g, w)]

(* The first i turns of w. *)
Turns(w, i) == [j \in 1..i |-> w[j]]

(* Every turn of w is the one for key k, at a node with another. *)
OnWay(S, k, w) ==
    \A i \in 1..Len(w) :
        /\ ~EndsAt(S, k, Turns(w, i - 1))
        /\ w[i] = Side(S, k, Turns(w, i - 1))

(* Nodes hang less than D deep. *)
Within(S, D) == \A w \in DOMAIN S : w \in Way /\ Len(w) < D

(* Each node is where the way for its key leads. *)
IsNode(S, w) == S[w] = [key |-> S[w].key, d |-> S[w].d]
IsTree(S, D) ==
    Within(S, D) /\ \A w \in DOMAIN S : IsNode(S, w) /\ OnWay(S, S[w].key, w)

LEMMA WayIsChosen ==
    ASSUME NEW S, NEW k
    PROVE  WayTo(S, k) = (CHOOSE g : IsWay(S, k, g))[<<>>]
  BY DEF WayTo, IsWay, WayStep, EndsAt, Onward, Side

LEMMA OnwardIsWay ==
    ASSUME NEW S, NEW k, NEW w \in Way
    PROVE  Onward(S, k, w) \in Way /\ Len(Onward(S, k, w)) = Len(w) + 1
  BY DEF Onward, Side, Way

(* The function inside WayTo() exists, the tree being finite. *)
LEMMA WayExists ==
    ASSUME NEW S, NEW k, NEW D \in Nat, Within(S, D)
    PROVE  \E g : IsWay(S, k, g)
<1> DEFINE Deep(g, j) == \A w \in Way : Len(w) >= D - j => g[w] = WayStep(S, k, g, w)
           T == {j \in Nat : \E g \in [Way -> Way] : Deep(g, j)}
<1>1. 0 \in T
  <2>1. [w \in Way |-> w] \in [Way -> Way]
    OBVIOUS
  <2>2. \A w \in Way : Len(w) >= D => w \notin DOMAIN S
    <3> SUFFICES ASSUME NEW w \in Way, Len(w) >= D, w \in DOMAIN S PROVE FALSE
      OBVIOUS
    <3>1. Len(w) < D /\ Len(w) \in Nat
      BY DEF Within, Way
    <3> QED BY <3>1
  <2>3. Deep([w \in Way |-> w], 0)
    BY <2>2 DEF WayStep, EndsAt
  <2> QED BY <2>1, <2>3
<1>2. ASSUME NEW j \in Nat, j \in T PROVE j + 1 \in T
  <2>1. PICK g \in [Way -> Way] : Deep(g, j)
    BY <1>2
  <2> DEFINE h == [w \in Way |-> WayStep(S, k, g, w)]
  <2>2. h \in [Way -> Way] /\ \A w \in Way : h[w] = WayStep(S, k, g, w)
    BY OnwardIsWay DEF WayStep
  <2> HIDE DEF h
  <2>3. ASSUME NEW w \in Way, Len(w) >= D - (j + 1)
        PROVE  WayStep(S, k, g, w) = WayStep(S, k, h, w)
    <3> DEFINE v == Onward(S, k, w)
    <3>1. v \in Way /\ Len(v) >= D - j
      <4>1. Len(w) \in Nat
        BY DEF Way
      <4> QED BY <4>1, <2>3, OnwardIsWay
    <3>2. g[v] = h[v]
      BY <2>1, <2>2, <3>1
    <3> QED BY <3>2 DEF WayStep
  <2>4. Deep(h, j + 1)
    BY <2>2, <2>3
  <2> QED BY <2>2, <2>4
<1> HIDE DEF T
<1>3. D \in T
  BY <1>1, <1>2, NatInductive
<1>4. PICK g \in [Way -> Way] : Deep(g, D)
  BY <1>3 DEF T
<1>5. \A w \in Way : Len(w) >= D - D
  BY DEF Way
<1>6. IsWay(S, k, g)
  BY <1>4, <1>5 DEF IsWay
<1> QED BY <1>6

LEMMA TurnsAre ==
    ASSUME NEW w \in Way
    PROVE  /\ Turns(w, Len(w)) = w
           /\ Turns(w, 0) = <<>>
           /\ \A i \in 1..Len(w) : /\ Turns(w, i - 1) \in Way
                                   /\ Turns(w, i) = Append(Turns(w, i - 1), w[i])
<1> DEFINE n == Len(w)
<1>1. n \in Nat /\ DOMAIN w = 1..n /\ \A j \in 1..n : w[j] \in {"l", "g"}
  BY LenProperties, ElementOfSeq DEF Way
<1>2. Turns(w, n) = w
  BY <1>1 DEF Turns, Way
<1>3. Turns(w, 0) = <<>>
  BY DEF Turns
<1>4. ASSUME NEW i \in 0..n PROVE Turns(w, i) \in Way /\ Len(Turns(w, i)) = i
  <2>1. Turns(w, i) \in [1..i -> {"l", "g"}]
    BY <1>1 DEF Turns
  <2> QED BY <2>1 DEF Way
<1>5. ASSUME NEW i \in 1..n
      PROVE  Turns(w, i - 1) \in Way /\ Turns(w, i) = Append(Turns(w, i - 1), w[i])
  <2> DEFINE u == Turns(w, i - 1)
  <2>1. u \in Way /\ Len(u) = i - 1 /\ i - 1 \in Nat
    BY <1>1, <1>4
  <2>2. u \in Seq({"l", "g"}) /\ w[i] \in {"l", "g"}
    BY <1>1, <2>1 DEF Way
  <2>3. \A j \in 1..i-1 : u[j] = w[j]
    BY DEF Turns
  <2> HIDE DEF u
  <2>4. Append(u, w[i]) = [j \in 1..i |-> IF j = i THEN w[i] ELSE u[j]]
    BY <2>1, <2>2
  <2>5. Turns(w, i) = [j \in 1..i |-> IF j = i THEN w[i] ELSE u[j]]
    BY <2>1, <2>3 DEF Turns
  <2> QED BY <2>1, <2>4, <2>5 DEF u
<1> QED BY <1>2, <1>3, <1>5

LEMMA TurnsOfLonger ==
    ASSUME NEW w \in Way, NEW x \in {"l", "g"}
    PROVE  /\ \A i \in 0..Len(w) : Turns(Append(w, x), i) = Turns(w, i)
           /\ \A i \in 1..Len(w) : Append(w, x)[i] = w[i]
           /\ Append(w, x)[Len(w) + 1] = x
           /\ Append(w, x) \in Way /\ Len(Append(w, x)) = Len(w) + 1
<1>1. \A i \in 1..Len(w) : Append(w, x)[i] = w[i]
  BY DEF Way
<1>2. Append(w, x)[Len(w) + 1] = x /\ Append(w, x) \in Way /\ Len(Append(w, x)) = Len(w) + 1
  BY DEF Way
<1>3. \A i \in 0..Len(w) : \A j \in 1..i : Append(w, x)[j] = w[j]
  BY <1>1 DEF Way
<1>4. \A i \in 0..Len(w) : Turns(Append(w, x), i) = Turns(w, i)
  BY <1>3 DEF Turns
<1> QED BY <1>1, <1>2, <1>4

LEMMA OnwardOnWay ==
    ASSUME NEW S, NEW k, NEW w \in Way, OnWay(S, k, w), ~EndsAt(S, k, w)
    PROVE  OnWay(S, k, Onward(S, k, w))
<1> DEFINE u == Onward(S, k, w)
<1>1. Side(S, k, w) \in {"l", "g"} /\ Len(w) \in Nat
  BY DEF Side, Way
<1>2. Turns(w, Len(w)) = w
  BY TurnsAre
<1>3. /\ \A i \in 0..Len(w) : Turns(u, i) = Turns(w, i)
      /\ \A i \in 1..Len(w) : u[i] = w[i]
      /\ u[Len(w) + 1] = Side(S, k, w)
      /\ Len(u) = Len(w) + 1
  BY <1>1, TurnsOfLonger DEF Onward
<1> HIDE DEF u
<1> SUFFICES ASSUME NEW i \in 1..Len(u)
             PROVE  /\ ~EndsAt(S, k, Turns(u, i - 1))
                    /\ u[i] = Side(S, k, Turns(u, i - 1))
  BY DEF OnWay, u
<1>4. i - 1 \in 0..Len(w) /\ Turns(u, i - 1) = Turns(w, i - 1)
  BY <1>1, <1>3
<1>5. CASE i \in 1..Len(w)
  BY <1>3, <1>4, <1>5 DEF OnWay
<1>6. CASE i = Len(w) + 1
  BY <1>1, <1>2, <1>3, <1>4, <1>6
<1> QED BY <1>1, <1>3, <1>5, <1>6

(* Where the way for a key ends it was led by the key, and it ends somewhere. *)
LEMMA WayToEnds ==
    ASSUME NEW S, NEW k, NEW D \in Nat, Within(S, D)
    PROVE  /\ WayTo(S, k) \in Way
           /\ OnWay(S, k, WayTo(S, k))
           /\ EndsAt(S, k, WayTo(S, k))
<1> DEFINE from == CHOOSE g : IsWay(S, k, g)
           Good(w) == from[w] \in Way /\ OnWay(S, k, from[w]) /\ EndsAt(S, k, from[w])
           T == {j \in Nat : \A w \in Way : Len(w) >= D - j /\ OnWay(S, k, w) => Good(w)}
<1>1. IsWay(S, k, from)
  BY WayExists
<1>2. WayTo(S, k) = from[<<>>]
  BY WayIsChosen
<1>3. \A w \in Way : from[w] = IF EndsAt(S, k, w) THEN w ELSE from[Onward(S, k, w)]
  BY <1>1 DEF IsWay, WayStep
<1> HIDE DEF from
<1>4. \A w \in Way : Len(w) \in Nat /\ (Len(w) >= D => EndsAt(S, k, w))
  <2> SUFFICES ASSUME NEW w \in Way, Len(w) >= D, ~EndsAt(S, k, w) PROVE FALSE
    BY DEF Way
  <2>1. Len(w) < D /\ Len(w) \in Nat
    BY DEF Within, Way, EndsAt
  <2> QED BY <2>1
<1>5. 0 \in T
  <2> SUFFICES ASSUME NEW w \in Way, Len(w) >= D, OnWay(S, k, w) PROVE Good(w)
    OBVIOUS
  <2> QED BY <1>3, <1>4
<1>6. ASSUME NEW j \in Nat, j \in T PROVE j + 1 \in T
  <2> SUFFICES ASSUME NEW w \in Way, Len(w) >= D - (j + 1), OnWay(S, k, w) PROVE Good(w)
    OBVIOUS
  <2>1. CASE EndsAt(S, k, w)
    BY <1>3, <2>1
  <2>2. CASE ~EndsAt(S, k, w)
    <3>1. Onward(S, k, w) \in Way /\ Len(Onward(S, k, w)) = Len(w) + 1
      BY OnwardIsWay
    <3>2. OnWay(S, k, Onward(S, k, w))
      BY <2>2, OnwardOnWay
    <3>3. Len(Onward(S, k, w)) >= D - j
      BY <1>4, <3>1
    <3>4. Good(Onward(S, k, w))
      BY <1>6, <3>1, <3>2, <3>3
    <3> QED BY <1>3, <2>2, <3>4
  <2> QED BY <2>1, <2>2
<1> HIDE DEF T
<1>7. D \in T
  BY <1>5, <1>6, NatInductive
<1>8. <<>> \in Way /\ Len(<<>>) = 0 /\ OnWay(S, k, <<>>)
  BY DEF Way, OnWay
<1>9. Good(<<>>)
  BY <1>7, <1>8 DEF T
<1> QED BY <1>2, <1>9

(* A key's way leads where it is on the way and must end. *)
LEMMA WayToFinds ==
    ASSUME NEW S, NEW k, NEW D \in Nat, Within(S, D),
           NEW w \in Way, OnWay(S, k, w), EndsAt(S, k, w)
    PROVE  WayTo(S, k) = w
<1> DEFINE from == CHOOSE g : IsWay(S, k, g)
           T == {i \in Nat : i <= Len(w) => from[Turns(w, i)] = from[<<>>]}
<1>1. IsWay(S, k, from)
  BY WayExists
<1>2. WayTo(S, k) = from[<<>>]
  BY WayIsChosen
<1>3. \A v \in Way : from[v] = IF EndsAt(S, k, v) THEN v ELSE from[Onward(S, k, v)]
  BY <1>1 DEF IsWay, WayStep
<1> HIDE DEF from
<1>4. Len(w) \in Nat
  BY DEF Way
<1>5. 0 \in T
  BY TurnsAre
<1>6. ASSUME NEW i \in Nat, i \in T PROVE i + 1 \in T
  <2> SUFFICES ASSUME i + 1 <= Len(w) PROVE from[Turns(w, i + 1)] = from[<<>>]
    OBVIOUS
  <2>1. i + 1 \in 1..Len(w) /\ i + 1 - 1 = i
    BY <1>4
  <2>2. Turns(w, i) \in Way /\ Turns(w, i + 1) = Append(Turns(w, i), w[i + 1])
    BY <2>1, TurnsAre
  <2>3. ~EndsAt(S, k, Turns(w, i)) /\ w[i + 1] = Side(S, k, Turns(w, i))
    BY <2>1 DEF OnWay
  <2>4. from[Turns(w, i)] = from[Turns(w, i + 1)]
    BY <1>3, <2>2, <2>3 DEF Onward
  <2>5. from[Turns(w, i)] = from[<<>>]
    BY <1>4, <1>6
  <2> QED BY <2>4, <2>5
<1> HIDE DEF T
<1>7. Len(w) \in T
  BY <1>4, <1>5, <1>6, NatInductive
<1>8. from[w] = from[<<>>]
  BY <1>4, <1>7, TurnsAre DEF T
<1> QED BY <1>2, <1>3, <1>8

(* A node is found where it hangs, and what is found has the key. *)
LEMMA TreeFinds ==
    ASSUME NEW S, NEW D \in Nat, IsTree(S, D), NEW k
    PROVE  /\ \A w \in DOMAIN S : S[w].key = k => WayTo(S, k) = w
           /\ Has(S, k) => S[WayTo(S, k)].key = k
<1> USE DEF IsTree
<1>1. ASSUME NEW w \in DOMAIN S, S[w].key = k PROVE WayTo(S, k) = w
  <2>1. w \in Way /\ OnWay(S, k, w) /\ EndsAt(S, k, w)
    BY <1>1 DEF Within, EndsAt
  <2> QED BY <2>1, WayToFinds
<1>2. Has(S, k) => S[WayTo(S, k)].key = k
  BY WayToEnds DEF Has, EndsAt
<1> QED BY <1>1, <1>2

(* A tree R has the nodes of S, with their keys. *)
Grown(S, R) == \A w \in DOMAIN S : w \in DOMAIN R /\ R[w].key = S[w].key

LEMMA WayStays ==
    ASSUME NEW S, NEW R, Grown(S, R), NEW k, NEW w, OnWay(S, k, w)
    PROVE  OnWay(R, k, w)
  BY DEF Grown, OnWay, EndsAt, Side

(* What a tree keeps is the function m. *)
Meaning(S, m) ==
    \A d : /\ Has(S, d) <=> d \in DOMAIN m
           /\ d \in DOMAIN m => stringmap_find(S, d).d = m[d]

Tree(S, m) == (\E D \in Nat : IsTree(S, D)) /\ Meaning(S, m)

(* Setting what is there *)
LEMMA TreeChanged ==
    ASSUME NEW S, NEW m, Tree(S, m), NEW k, k \in DOMAIN m, NEW s
    PROVE  Tree([S EXCEPT ![WayTo(S, k)].d = s], Put(m, k, s))
<1> DEFINE u == WayTo(S, k)
           R == [S EXCEPT ![u].d = s]
<1>1. PICK D \in Nat : IsTree(S, D)
  BY DEF Tree
<1>2. Has(S, k) /\ u \in DOMAIN S /\ S[u].key = k
  BY <1>1, TreeFinds DEF Tree, Meaning, Has
<1>3. S[u] = [key |-> k, d |-> S[u].d]
  BY <1>1, <1>2 DEF IsTree, IsNode
<1>4. DOMAIN R = DOMAIN S /\ R[u] = [key |-> k, d |-> s] /\ \A w \in DOMAIN S : w # u => R[w] = S[w]
  BY <1>2, <1>3
<1> HIDE DEF R, u
<1>5. Grown(S, R)
  BY <1>2, <1>4 DEF Grown
<1>6. IsTree(R, D)
  <2>1. Within(R, D)
    BY <1>1, <1>4 DEF IsTree, Within
  <2>2. ASSUME NEW w \in DOMAIN R PROVE IsNode(R, w) /\ OnWay(R, R[w].key, w)
    <3>1. OnWay(R, S[w].key, w) /\ R[w].key = S[w].key
      BY <1>1, <1>4, <1>5, WayStays DEF IsTree, Grown
    <3>2. IsNode(R, w)
      BY <1>1, <1>4 DEF IsTree, IsNode
    <3> QED BY <3>1, <3>2
  <2> QED BY <2>1, <2>2 DEF IsTree
<1>7. Meaning(R, Put(m, k, s))
  <2> SUFFICES ASSUME NEW d
               PROVE  /\ Has(R, d) <=> d \in DOMAIN m
                      /\ d \in DOMAIN m => stringmap_find(R, d).d = IF d = k THEN s ELSE m[d]
    BY DEF Meaning, Put
  <2>1. Has(R, d) <=> d \in DOMAIN m
    <3>1. Has(R, d) <=> \E w \in DOMAIN R : R[w].key = d
      BY <1>6, TreeFinds DEF Has
    <3>2. Has(S, d) <=> \E w \in DOMAIN S : S[w].key = d
      BY <1>1, TreeFinds DEF Has
    <3> QED BY <1>4, <1>5, <3>1, <3>2 DEF Grown, Tree, Meaning
  <2>2. ASSUME d \in DOMAIN m PROVE stringmap_find(R, d).d = IF d = k THEN s ELSE m[d]
    <3> DEFINE w == WayTo(S, d)
    <3>1. w \in DOMAIN S /\ S[w].key = d /\ S[w].d = m[d]
      BY <1>1, <2>2, TreeFinds DEF Tree, Meaning, Has, stringmap_find
    <3>2. w \in DOMAIN R /\ R[w].key = d
      BY <1>5, <3>1 DEF Grown
    <3>3. WayTo(R, d) = w
      BY <1>6, <3>2, TreeFinds
    <3>4. d = k <=> w = u
      BY <1>2, <3>1 DEF u
    <3> QED BY <1>4, <3>1, <3>3, <3>4 DEF stringmap_find
  <2> QED BY <2>1, <2>2
<1> QED BY <1>6, <1>7 DEF Tree, R, u

(* and inserting what is not. *)
LEMMA TreeInserted ==
    ASSUME NEW S, NEW m, Tree(S, m), NEW k, k \notin DOMAIN m, NEW s
    PROVE  Tree(stringmap_insert(S, k, s), Put(m, k, s))
<1> DEFINE u == WayTo(S, k)
           R == stringmap_insert(S, k, s)
<1>1. PICK D \in Nat : IsTree(S, D)
  BY DEF Tree
<1>2. ~Has(S, k) /\ u \notin DOMAIN S
  BY DEF Tree, Meaning, Has
<1>3. u \in Way /\ OnWay(S, k, u)
  BY <1>1, WayToEnds DEF IsTree
<1>4. /\ DOMAIN R = DOMAIN S \cup {u}
      /\ R[u] = [key |-> k, d |-> s]
      /\ \A w \in DOMAIN S : R[w] = S[w]
  BY <1>2 DEF stringmap_insert
<1> HIDE DEF R, u
<1>5. Grown(S, R)
  BY <1>4 DEF Grown
<1> DEFINE E == D + Len(u) + 1
<1>6. E \in Nat /\ E > Len(u) /\ E > D
  BY <1>3 DEF Way
<1> HIDE DEF E
<1>7. IsTree(R, E)
  <2>1. Within(R, E)
    <3> SUFFICES ASSUME NEW w \in DOMAIN R PROVE w \in Way /\ Len(w) < E
      BY DEF Within
    <3>1. CASE w = u
      BY <1>3, <1>6, <3>1
    <3>2. CASE w \in DOMAIN S
      <4>1. w \in Way /\ Len(w) < D /\ Len(w) \in Nat
        BY <1>1, <3>2 DEF IsTree, Within, Way
      <4> QED BY <1>6, <4>1
    <3> QED BY <1>4, <3>1, <3>2
  <2>2. ASSUME NEW w \in DOMAIN R PROVE IsNode(R, w) /\ OnWay(R, R[w].key, w)
    <3>1. CASE w = u
      BY <1>3, <1>4, <1>5, <3>1, WayStays DEF IsNode
    <3>2. CASE w \in DOMAIN S
      <4>1. OnWay(R, S[w].key, w) /\ R[w].key = S[w].key
        BY <1>1, <1>4, <1>5, <3>2, WayStays DEF IsTree, Grown
      <4>2. IsNode(R, w)
        BY <1>1, <1>4, <3>2 DEF IsTree, IsNode
      <4> QED BY <4>1, <4>2
    <3> QED BY <1>4, <3>1, <3>2
  <2> QED BY <2>1, <2>2 DEF IsTree
<1>8. Meaning(R, Put(m, k, s))
  <2> SUFFICES ASSUME NEW d
               PROVE  /\ Has(R, d) <=> d \in DOMAIN m \cup {k}
                      /\ d \in DOMAIN m \cup {k} =>
                            stringmap_find(R, d).d = IF d = k THEN s ELSE m[d]
    BY DEF Meaning, Put
  <2>1. Has(R, d) <=> d \in DOMAIN m \cup {k}
    <3>1. Has(R, d) <=> \E w \in DOMAIN R : R[w].key = d
      BY <1>6, <1>7, TreeFinds DEF Has
    <3>2. Has(S, d) <=> \E w \in DOMAIN S : S[w].key = d
      BY <1>1, TreeFinds DEF Has
    <3> QED BY <1>4, <3>1, <3>2 DEF Tree, Meaning
  <2>2. ASSUME d = k PROVE stringmap_find(R, d).d = s
    <3>1. WayTo(R, d) = u
      BY <1>4, <1>6, <1>7, <2>2, TreeFinds
    <3> QED BY <1>4, <2>2, <3>1 DEF stringmap_find
  <2>3. ASSUME d \in DOMAIN m, d # k PROVE stringmap_find(R, d).d = m[d]
    <3> DEFINE w == WayTo(S, d)
    <3>1. w \in DOMAIN S /\ S[w].key = d /\ S[w].d = m[d]
      BY <1>1, <2>3, TreeFinds DEF Tree, Meaning, Has, stringmap_find
    <3>2. WayTo(R, d) = w
      BY <1>4, <1>6, <1>7, <3>1, TreeFinds
    <3> QED BY <1>4, <3>1, <3>2 DEF stringmap_find
  <2> QED BY <2>1, <2>2, <2>3
<1> QED BY <1>6, <1>7, <1>8 DEF Tree, R

-----------------------------------------------------------------------------
(* What was set *)

Given == Directives \cap (DOMAIN asked \cup DOMAIN written)

Settings ==
    [d \in Given |-> IF d \in DOMAIN asked THEN asked[d] ELSE written[d]]

Untouched ==
    \E needed \in BOOLEAN :
        /\ option = DefaultOptions(needed)
        /\ promiscuous_but_choosy = needed
        /\ netfilter = DefaultFilters

AsSet ==
    \E needed \in BOOLEAN :
        /\ option = Options(DefaultOptions(needed), Settings)
        /\ promiscuous_but_choosy = Choosy(needed, Settings)
        /\ netfilter = Filters(DefaultFilters, Settings)

(* The tree is one and means what was set, by switches before lines; the     *)
(* options are made of that once.                                            *)
SettingsInv ==
    /\ Tree(config, Settings)
    /\ DOMAIN numbers = {"t", "T", "d", "M"}
    /\ stage = "forced" => config = stringmap_new /\ asked = Nothing /\ written = Nothing
    /\ stage # "made" => Untouched
    /\ stage = "made" => AsSet

LEMMA NoTree == Tree(stringmap_new, Nothing)
<1>1. IsTree(stringmap_new, 0)
  BY DEF IsTree, Within, stringmap_new
<1>2. \A d : ~Has(stringmap_new, d)
  BY DEF Has, stringmap_new
<1> QED BY <1>1, <1>2 DEF Tree, Meaning, Nothing

(* config_set_string(), and stringmap_insert() as a line uses it *)
LEMMA SetIsPut ==
    ASSUME NEW S, NEW m, Tree(S, m), NEW k, NEW s
    PROVE  Tree(config_set_string(S, k, s), Put(m, k, s))
<1>1. Has(S, k) <=> k \in DOMAIN m
  BY DEF Tree, Meaning
<1> QED BY <1>1, TreeChanged, TreeInserted DEF config_set_string

LEMMA InsertIsPut ==
    ASSUME NEW S, NEW m, Tree(S, m), NEW k, NEW s
    PROVE  Tree(stringmap_insert(S, k, s), IF k \in DOMAIN m THEN m ELSE Put(m, k, s))
<1>1. Has(S, k) <=> k \in DOMAIN m
  BY DEF Tree, Meaning
<1> QED BY <1>1, TreeInserted DEF stringmap_insert

LEMMA SettingsInit == Init => SettingsInv
<1> SUFFICES ASSUME Init PROVE SettingsInv
  OBVIOUS
<1>1. Settings = Nothing
  BY DEF Init, Settings, Given, Nothing
<1>2. Untouched
  BY DEF Init, Untouched
<1>3. /\ config = stringmap_new /\ asked = Nothing /\ written = Nothing
      /\ stage = "forced" /\ DOMAIN numbers = {"t", "T", "d", "M"}
  BY DEF Init
<1> QED BY <1>1, <1>2, <1>3, NoTree DEF SettingsInv

(* A step before the options are made, that makes no option. *)
LEMMA SettingsKept ==
    ASSUME SettingsInv, UNCHANGED made, DOMAIN numbers' = DOMAIN numbers,
           stage # "made", stage' \notin {"forced", "made"},
           Tree(config', Settings')
    PROVE  SettingsInv'
<1>1. Untouched'
  BY DEF SettingsInv, Untouched, made
<1> QED BY <1>1 DEF SettingsInv

LEMMA SettingsOfForced ==
    ASSUME SettingsInv, ForcedSettings PROVE SettingsInv'
<1>1. config = stringmap_new /\ written = Nothing
  BY DEF ForcedSettings, SettingsInv
<1> DEFINE one == Put(Nothing, "dns-resolution", "false")
           two == Put(one, "port-resolution", "false")
           three == Put(two, "no-curses", "true")
<1>2. Tree(config', three)
  BY <1>1, NoTree, SetIsPut DEF ForcedSettings
<1>3. Settings' = three
  <2>1. Given' = {"dns-resolution", "port-resolution", "no-curses"}
    BY <1>1, TextsAssumption DEF ForcedSettings, Given, Directives, Nothing
  <2> QED BY <1>1, <2>1 DEF ForcedSettings, Settings, Put, Nothing
<1> HIDE DEF three
<1> QED BY <1>2, <1>3, SettingsKept DEF ForcedSettings, direct

LEMMA SettingsOfSwitch ==
    ASSUME SettingsInv, NEW d \in Directives, NEW text, Setting(d, text) PROVE SettingsInv'
<1>1. Tree(config', Put(Settings, d, text))
  BY SetIsPut DEF SettingsInv, Setting
<1>2. Settings' = Put(Settings, d, text)
  <2>1. asked' = Put(asked, d, text) /\ written' = written
    BY DEF Setting, Switch
  <2>2. Given' = Given \cup {d}
    BY <2>1 DEF Given, Put, Directives
  <2> QED BY <2>1, <2>2 DEF Settings, Put, Given
<1> QED BY <1>1, <1>2, SettingsKept DEF Setting, Switch, direct

LEMMA SettingsOfLine ==
    ASSUME SettingsInv, NEW d \in Directives, NEW text, Line(d, text) PROVE SettingsInv'
<1>1. Tree(config', IF d \in DOMAIN Settings THEN Settings ELSE Put(Settings, d, text))
  BY InsertIsPut DEF SettingsInv, Line
<1>2. Settings' = IF d \in DOMAIN Settings THEN Settings ELSE Put(Settings, d, text)
  <2>1. /\ asked' = asked
        /\ written' = IF d \in DOMAIN written THEN written ELSE Put(written, d, text)
    BY DEF Line
  <2>2. DOMAIN Settings = Given
    BY DEF Settings
  <2>3. Given' = Given \cup {d}
    BY <2>1 DEF Given, Put, Directives
  <2>4. CASE d \in Given
    <3>1. d \in DOMAIN asked \/ written' = written
      BY <2>1, <2>4 DEF Given
    <3>2. Given' = Given
      BY <2>3, <2>4
    <3>3. \A x \in Given : x \notin DOMAIN asked => written'[x] = written[x]
      BY <2>1, <3>1 DEF Put, Given
    <3> QED BY <2>1, <2>2, <2>4, <3>2, <3>3 DEF Settings
  <2>5. CASE d \notin Given
    <3>1. d \notin DOMAIN asked /\ written' = Put(written, d, text)
      BY <2>1, <2>5 DEF Given
    <3> QED BY <2>1, <2>2, <2>3, <2>5, <3>1 DEF Settings, Put, Given
  <2> QED BY <2>4, <2>5
<1> QED BY <1>1, <1>2, SettingsKept DEF Line, direct

(* A switch that sets no directive *)
LEMMA SettingsOfOthers ==
    ASSUME SettingsInv, UNCHANGED <<made, config, written>>,
           DOMAIN numbers' = DOMAIN numbers,
           stage # "made", stage' \notin {"forced", "made"},
           asked' = asked \/ \E c, v : c \notin Directives /\ asked' = Put(asked, c, v)
    PROVE  SettingsInv'
<1>1. CASE asked' = asked
  <2>1. Settings' = Settings
    BY <1>1 DEF Settings, Given, Directives
  <2> QED BY <2>1, SettingsKept DEF SettingsInv
<1>2. ASSUME NEW c, NEW v, c \notin Directives, asked' = Put(asked, c, v)
      PROVE  SettingsInv'
  <2>1. Given' = Given
    BY <1>2 DEF Given, Put, Directives
  <2>2. \A x \in Given : /\ x \in DOMAIN asked' <=> x \in DOMAIN asked
                         /\ x \in DOMAIN asked => asked'[x] = asked[x]
    BY <1>2 DEF Given, Put
  <2>3. Settings' = Settings
    BY <2>1, <2>2 DEF Settings
  <2> QED BY <2>3, SettingsKept DEF SettingsInv
<1> QED BY <1>1, <1>2

(* options_make() finds what was set. *)
LEMMA SettingsOfMake ==
    ASSUME SettingsInv, Make PROVE SettingsInv'
<1> DEFINE s == [d \in {d \in Directives : Has(config, d)} |-> config_get_string(d)]
<1>1. s = Settings
  <2>1. /\ \A d : Has(config, d) <=> d \in Given
        /\ \A d \in Given : config_get_string(d) = Settings[d]
    BY DEF SettingsInv, Tree, Meaning, Settings, config_get_string
  <2>2. {d \in Directives : Has(config, d)} = Given
    BY <2>1 DEF Given
  <2>3. Settings = [d \in Given |-> Settings[d]]
    BY DEF Settings
  <2> QED BY <2>1, <2>2, <2>3
<1>2. /\ stage = "make" /\ stage' = "made"
      /\ option' = Options(option, s)
      /\ promiscuous_but_choosy' = Choosy(promiscuous_but_choosy, s)
      /\ netfilter' = Filters(netfilter, s)
      /\ UNCHANGED <<config, direct, asked, written, read>>
  BY DEF Make
<1> HIDE DEF s
<1>3. Settings' = Settings
  BY <1>2 DEF Settings, Given, Directives
<1>4. AsSet'
  <2>1. PICK needed \in BOOLEAN : /\ option = DefaultOptions(needed)
                                  /\ promiscuous_but_choosy = needed
                                  /\ netfilter = DefaultFilters
    BY <1>2 DEF SettingsInv, Untouched
  <2> QED BY <1>1, <1>2, <1>3, <2>1 DEF AsSet
<1> QED BY <1>2, <1>3, <1>4 DEF SettingsInv, direct

LEMMA SettingsNext == SettingsInv /\ [Next]_vars => SettingsInv'
<1> SUFFICES ASSUME SettingsInv, [Next]_vars PROVE SettingsInv'
  OBVIOUS
<1> USE DEF direct
<1>1. {"P", "Z", "t", "T", "d", "M", "B"} \cap Directives = {}
  BY TextsAssumption DEF Directives
<1>2. CASE ForcedSettings
  BY <1>2, SettingsOfForced
<1>3. ASSUME NEW d \in Directives, NEW text \in Texts[d], Setting(d, text) \/ Line(d, text)
      PROVE  SettingsInv'
  BY <1>3, SettingsOfSwitch, SettingsOfLine
<1>4. ASSUME NEW list, ListPorts(list) PROVE SettingsInv'
  BY <1>1, <1>4, SettingsOfOthers DEF ListPorts, Switch
<1>5. ASSUME NEW list, Block(list) PROVE SettingsInv'
  BY <1>1, <1>5, SettingsOfOthers DEF Block, Switch
<1>6. ASSUME NEW c \in DOMAIN numbers, NEW n, SetNumber(c, n) PROVE SettingsInv'
  <2>1. c \notin Directives
    BY <1>1 DEF SettingsInv
  <2>2. asked' = Put(asked, c, n) /\ UNCHANGED <<made, config, written, stage>> /\ stage = "switches"
    BY <1>6 DEF SetNumber, Switch
  <2>3. DOMAIN numbers' = DOMAIN numbers
    BY <1>6 DEF SetNumber
  <2> QED BY <2>1, <2>2, <2>3, SettingsOfOthers
<1>7. ASSUME NEW n, Minutes(n) PROVE SettingsInv'
  BY <1>1, <1>7, SettingsOfOthers DEF Minutes, Switch
<1>8. ASSUME NEW b, Broker(b) PROVE SettingsInv'
  BY <1>1, <1>8, SettingsOfOthers DEF Broker, Switch
<1>9. CASE WriteBeyond \/ Usage \/ NoMoreSwitches \/ EndOfFile
  BY <1>9, SettingsOfOthers DEF WriteBeyond, Switch, Usage, NoMoreSwitches, EndOfFile
<1>10. CASE Make
  BY <1>10, SettingsOfMake
<1>11. CASE UNCHANGED vars
  <2>1. Settings' = Settings
    BY <1>11 DEF vars, Settings, Given, Directives
  <2> QED BY <1>11, <2>1 DEF vars, made, SettingsInv, Untouched, AsSet
<1> QED BY <1>2, <1>3, <1>4, <1>5, <1>6, <1>7, <1>8, <1>9, <1>10, <1>11 DEF Next

LEMMA SettingsHold == Spec => []SettingsInv
  BY SettingsInit, SettingsNext, PTL DEF Spec

(* In whatever order settings come, the tree is one in which each node is    *)
(* where the way for its key leads, so that everything set is found and      *)
(* nothing is there twice (stringmap.c:59-111).                              *)
THEOREM KeysFound == Spec => []EveryKeyFound
<1>1. SettingsInv => EveryKeyFound
  <2> SUFFICES ASSUME SettingsInv PROVE EveryKeyFound
    OBVIOUS
  <2>1. PICK D \in Nat : IsTree(config, D)
    BY DEF SettingsInv, Tree
  <2>2. \A d \in Given : Has(config, d)
    BY DEF SettingsInv, Tree, Meaning, Settings
  <2> QED BY <2>1, <2>2, TreeFinds DEF EveryKeyFound, Given
<1> QED BY <1>1, SettingsHold, PTL

(* The options are the defaults with what was set over them: a switch before *)
(* a line, the last of several switches, the first of several lines, however *)
(* many there are (iftop.8:196, cfgfile.c:85-143, options.c:694-741).       *)
THEOREM SwitchesPrecede == Spec => []Precedence
<1>1. SettingsInv => Precedence
  BY DEF SettingsInv, AsSet, Precedence, Settings, Given
<1> QED BY <1>1, SettingsHold, PTL

-----------------------------------------------------------------------------
(* Types *)

(* What may be set for directive d: only the forced settings are more than   *)
(* what may be written.                                                      *)
Settable(d) ==
    Texts[d] \cup IF d \in {"dns-resolution", "port-resolution", "no-curses"}
                  THEN {"true", "false"} ELSE {}

TextsInv ==
    /\ \A d \in Directives \cap DOMAIN asked : asked[d] \in Settable(d)
    /\ \A d \in Directives \cap DOMAIN written : written[d] \in Settable(d)

DirectInv ==
    /\ stage \in {"forced", "switches", "file", "make", "made", "exited", "overrun"}
    /\ port_list \in [1..PORT_LIST_LEN -> Ports \cup {-1, 0}]
    /\ block_protocols \in [1..BLOCK_LIST_LEN -> Protocols \cup {-1}]
    /\ mqtt_addr \in Brokers \cup {DefaultBroker, "minutes"}
    /\ read \in 0..MaxSwitches \cup 0..MaxLines

LEMMA TextsNext ==
    ASSUME SettingsInv, TextsInv, [Next]_vars PROVE TextsInv'
<1> USE DEF direct
<1>1. {"P", "Z", "t", "T", "d", "M", "B"} \cap Directives = {}
  BY TextsAssumption DEF Directives
<1>2. CASE ForcedSettings
  BY <1>2 DEF ForcedSettings, TextsInv, Settable, Directives
<1>3. ASSUME NEW d \in Directives, NEW text \in Texts[d], Setting(d, text) PROVE TextsInv'
  BY <1>3 DEF Setting, Switch, TextsInv, Put, Settable, Directives
<1>4. ASSUME NEW d \in Directives, NEW text \in Texts[d], Line(d, text) PROVE TextsInv'
  BY <1>4 DEF Line, TextsInv, Put, Settable, Directives
<1>5. ASSUME NEW c, NEW v, c \notin Directives, asked' = Put(asked, c, v), written' = written
      PROVE  TextsInv'
  BY <1>5 DEF TextsInv, Put, Settable, Directives
<1>6. ASSUME NEW list, ListPorts(list) \/ Block(list) PROVE TextsInv'
  BY <1>1, <1>5, <1>6 DEF ListPorts, Block, Switch
<1>7. ASSUME NEW c \in DOMAIN numbers, NEW n, SetNumber(c, n) PROVE TextsInv'
  BY <1>1, <1>5, <1>7 DEF SetNumber, Switch, SettingsInv
<1>8. ASSUME NEW n, Minutes(n) \/ Broker(n) PROVE TextsInv'
  BY <1>1, <1>5, <1>8 DEF Minutes, Broker, Switch
<1>9. CASE WriteBeyond \/ Usage \/ NoMoreSwitches \/ EndOfFile \/ Make \/ UNCHANGED vars
  <2>1. UNCHANGED <<asked, written>>
    BY <1>9 DEF WriteBeyond, Switch, Usage, NoMoreSwitches, EndOfFile, Make, vars
  <2> QED BY <2>1 DEF TextsInv, Settable, Directives
<1> QED BY <1>2, <1>3, <1>4, <1>6, <1>7, <1>8, <1>9 DEF Next

LEMMA ListIs ==
    ASSUME NEW S, NEW len, NEW list \in Lists(S, len)
    PROVE  \A n \in DOMAIN list : list[n] \in S
  BY DEF Lists

LEMMA DirectNext ==
    ASSUME DirectInv, [Next]_vars PROVE DirectInv'
<1> USE DEF direct
<1>1. ASSUME Switch PROVE read' \in 0..MaxSwitches /\ stage = "switches"
  BY <1>1, BoundsAssumption DEF Switch, DirectInv
<1>2. ASSUME NEW d, NEW text, Setting(d, text) PROVE DirectInv'
  BY <1>1, <1>2 DEF Setting, DirectInv
<1>3. ASSUME NEW d, NEW text, Line(d, text) PROVE DirectInv'
  <2>1. read' \in 0..MaxLines
    BY <1>3, BoundsAssumption DEF Line, DirectInv
  <2> QED BY <1>3, <2>1 DEF Line, DirectInv
<1>4. ASSUME NEW list \in Lists(Ports, PORT_LIST_LEN), ListPorts(list) PROVE DirectInv'
  BY <1>1, <1>4, ListIs DEF ListPorts, DirectInv
<1>5. ASSUME NEW list \in Lists(Protocols, BLOCK_LIST_LEN), Block(list) PROVE DirectInv'
  BY <1>1, <1>5, ListIs DEF Block, DirectInv
<1>6. ASSUME NEW c, NEW n, SetNumber(c, n) \/ Minutes(n) PROVE DirectInv'
  BY <1>1, <1>6 DEF SetNumber, Minutes, DirectInv
<1>7. ASSUME NEW b \in Brokers, Broker(b) PROVE DirectInv'
  BY <1>1, <1>7 DEF Broker, DirectInv
<1>8. CASE WriteBeyond
  BY <1>1, <1>8 DEF WriteBeyond, DirectInv
<1>9. CASE ForcedSettings \/ Usage \/ NoMoreSwitches \/ EndOfFile \/ Make \/ UNCHANGED vars
  BY <1>9, BoundsAssumption DEF ForcedSettings, Usage, NoMoreSwitches, EndOfFile, Make, vars, DirectInv
<1> QED BY <1>2, <1>3, <1>4, <1>5, <1>6, <1>7, <1>8, <1>9 DEF Next

(* Either text of a filter leaves an address and a mask of as many bits. *)
LEMMA FilterTyped ==
    ASSUME NEW d \in NetFilters \cap Directives, NEW t \in Texts[d]
    PROVE  LET F == [on : BOOLEAN, net : SUBSET Bits, mask : SUBSET Bits]
               f == DefaultFilters[d]
           IN  /\ f \in F
               /\ options_config_get_net_filter(f, Nets[t]) \in F
               /\ options_config_get_net_filter6(f, Nets[t]) \in F
<1> DEFINE f == DefaultFilters[d]
           n == Nets[t]
           F == [on : BOOLEAN, net : SUBSET Bits, mask : SUBSET Bits]
<1>1. /\ n \in [slash : BOOLEAN, valid : BOOLEAN, n : Nat, net : SUBSET Bits,
                bits : SUBSET Bits, mask : {"length", "address", "bad"}]
      /\ Octet \in Nat \ {0}
  BY NetsAssumption DEF Bits, NetFilters, Directives
<1>2. f \in F
  BY <1>1 DEF DefaultFilters, Bits
<1> HIDE DEF f, n
<1>3. 1..(n.n) \subseteq Bits \/ n.n > 16 * Octet
  BY <1>1 DEF Bits
<1>4. Prefix(f.mask, n.n) \in SUBSET Bits
  BY <1>1, <1>2, <1>3 DEF Prefix
<1>5. n.n \in 1..16 * Octet => Prefix6(f.mask, n.n) \in SUBSET Bits
  BY <1>1, <1>2, <1>3 DEF Prefix6
<1>6. options_config_get_net_filter(f, n) \in F
  BY <1>1, <1>2, <1>4 DEF options_config_get_net_filter
<1>7. options_config_get_net_filter6(f, n) \in F
  BY <1>1, <1>2, <1>5 DEF options_config_get_net_filter6
<1> QED BY <1>2, <1>6, <1>7 DEF f, n

LEMMA TypesFollow == SettingsInv /\ TextsInv /\ DirectInv => TypeOK
<1> SUFFICES ASSUME SettingsInv, TextsInv, DirectInv PROVE TypeOK
  OBVIOUS
<1> DEFINE F == [on : BOOLEAN, net : SUBSET Bits, mask : SUBSET Bits]
<1>1. /\ DOMAIN Settings = Given
      /\ \A d \in Given : d \in Directives /\ Settings[d] \in Settable(d)
  BY DEF Settings, Given, TextsInv
<1>2. ASSUME NEW w \in DOMAIN config
      PROVE  /\ config[w].key \in Directives
             /\ config[w].d \in Texts[config[w].key] \cup {"true", "false"}
  <2>1. PICK D \in Nat : IsTree(config, D)
    BY DEF SettingsInv, Tree
  <2>2. WayTo(config, config[w].key) = w
    BY <2>1, TreeFinds
  <2>3. config[w].key \in Given /\ config[w].d = Settings[config[w].key]
    BY <1>1, <2>2 DEF SettingsInv, Tree, Meaning, Has, stringmap_find
  <2> QED BY <1>1, <2>3 DEF Settable
<1>3. DefaultFilters \in [NetFilters -> F]
  <2>1. Octet \in Nat \ {0}
    BY NetsAssumption
  <2>2. {3 * Octet} \subseteq Bits /\ 1..3 * Octet \subseteq Bits /\ {1} \subseteq Bits
        /\ 1..2 * Octet \subseteq Bits
    BY <2>1 DEF Bits
  <2> QED BY <2>2 DEF DefaultFilters
<1>4. Filters(DefaultFilters, Settings) \in [NetFilters -> F]
  <2> SUFFICES ASSUME NEW d \in NetFilters
               PROVE  Filters(DefaultFilters, Settings)[d] \in F
    BY DEF Filters
  <2>1. CASE d \notin Given
    BY <1>1, <1>3, <2>1 DEF Filters
  <2>2. CASE d \in Given
    <3>1. d \in NetFilters \cap Directives /\ Settings[d] \in Texts[d]
      BY <1>1, <2>2 DEF Settable, NetFilters
    <3>2. CASE d = "net-filter"
      BY <1>1, <2>2, <3>1, <3>2, FilterTyped DEF Filters
    <3>3. CASE d = "net-filter6"
      BY <1>1, <2>2, <3>1, <3>3, FilterTyped DEF Filters
    <3> QED BY <3>2, <3>3 DEF NetFilters
  <2> QED BY <2>1, <2>2
<1>5. DOMAIN option = Directives \ NetFilters
  BY DEF SettingsInv, Untouched, AsSet, Options, DefaultOptions
<1>6. promiscuous_but_choosy \in BOOLEAN
  BY DEF SettingsInv, Untouched, AsSet, Choosy
<1>7. netfilter \in [NetFilters -> F]
  BY <1>3, <1>4 DEF SettingsInv, Untouched, AsSet
<1> QED BY <1>2, <1>5, <1>6, <1>7 DEF TypeOK, DirectInv

(* Every setting in the tree is one its directive may have, the options have *)
(* a value for each directive that is not a net filter, and addresses and    *)
(* masks their bits (cfgfile.c:234-245, options.c:694-741).                  *)
THEOREM StartupTyped == Spec => []TypeOK
<1>1. Init => TextsInv /\ DirectInv
  BY BoundsAssumption DEF Init, TextsInv, DirectInv, Nothing
<1>2. SettingsInv /\ TextsInv /\ DirectInv /\ [Next]_vars => (TextsInv /\ DirectInv)'
  BY TextsNext, DirectNext
<1> QED BY <1>1, <1>2, TypesFollow, SettingsHold, PTL DEF Spec
=============================================================================
