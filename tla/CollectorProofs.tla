-------------------------- MODULE CollectorProofs --------------------------
(***************************************************************************)
(* What holds of Collector for any boxes, connections and settings, any    *)
(* number of reports and keys: the receiving thread ends only of a report  *)
(* that cannot be read or of a table cleared under its hands, an outer     *)
(* address has one line for each inner one, the table is what the reports  *)
(* brought, and what is printed is in the order of what was sorted, with   *)
(* the places that belong to the addresses.                                *)
(***************************************************************************)
EXTENDS Collector, SequenceTheorems, Induction

(* The steps that touch neither the table nor what the receiving thread      *)
(* holds of it.                                                              *)
Apart == UNCHANGED <<options, table, loop>>

(* The thread idles or has a message at hand.                                *)
LoopInv ==
    /\ "at" \in DOMAIN loop
    /\ loop.at # "idle" =>
          /\ "msg" \in DOMAIN loop /\ "next" \in DOMAIN loop
          /\ "old" \in DOMAIN loop /\ "across" \in DOMAIN loop
          /\ "entry" \in DOMAIN loop

Printing == {"print", "weigh", "weigh_send", "lines", "line"}

(* Printing changes nothing but what is printed.                             *)
LEMMA OutputApart ==
    ASSUME Output
    PROVE  /\ UNCHANGED <<options, clock, counted, reports, inbox, handled, table, stat,
                          received, loop, pressed, across>>
           /\ main.at \in Printing
           /\ "at" \in DOMAIN main' /\ main'.at \in Printing \cup {"idle"}
<1> USE DEF MainElsewhere, box_vars, Printing, IdleMain
<1>1. CASE PrintHost \/ Weigh \/ WeighSend \/ Sort
  BY <1>1 DEF PrintHost, Weigh, WeighSend, Sort
<1>2. CASE PrintSend \/ PrintRest \/ NextHost \/ Printed
  BY <1>2 DEF PrintSend, PrintRest, NextHost, Printed
<1> QED BY <1>1, <1>2 DEF Output

LEMMA MainApart == ASSUME Main, ~Clear PROVE Apart
<1> USE DEF Apart, MainElsewhere
<1>1. CASE Ask \/ Publish \/ PrintKey \/ Quit
  BY <1>1 DEF Ask, Publish, PrintKey, Quit
<1>2. CASE Grown \/ Processed \/ Output
  BY <1>2, OutputApart DEF Grown, Processed
<1>3. CASE \E k \in DOMAIN table : Process(k)
  BY <1>3 DEF Process
<1> QED BY <1>1, <1>2, <1>3 DEF Main

LEMMA Steps ==
    ASSUME [Next]_vars PROVE Apart \/ Clear \/ Loop
<1>1. CASE UNCHANGED vars
  BY <1>1 DEF vars, collector_vars, Apart
<1>2. CASE \E c \in Conns, inward \in BOOLEAN : Traffic(c, inward)
  BY <1>2 DEF Traffic, collector_vars, Apart
<1>3. CASE (\E b \in Boxes : Report(b)) \/ Lose
  BY <1>3 DEF Report, Lose, collector_vars, Apart
<1>4. CASE Main /\ ~Clear
  BY <1>4, MainApart
<1> QED BY <1>1, <1>2, <1>3, <1>4 DEF Next

(* The steps that branch, branch by branch.                                  *)
LEMMA TestStep ==
    ASSUME Test
    PROVE  /\ loop.at = "test" /\ UNCHANGED <<options, table>>
           /\ \/ loop' = NextRecord
              \/ KeyOf(record) \notin DOMAIN table /\ loop' = At("create")
              \/ KeyOf(record) \in DOMAIN table /\ options.port /\ loop' = At("append")
              \/ KeyOf(record) \in DOMAIN table /\ ~options.port /\ loop' = At("find")
<1>1. CASE options.port
  BY <1>1 DEF Test, At, NextRecord, Elsewhere
<1>2. CASE ~options.port
  BY <1>2 DEF Test, At, NextRecord, Elsewhere
<1> QED BY <1>1, <1>2

LEMMA CreateStep ==
    ASSUME Create
    PROVE  /\ loop.at = "create" /\ UNCHANGED options /\ table' = Put(table, KeyOf(record), Empty)
           /\ \/ options.port /\ loop' = At("append")
              \/ ~options.port /\ loop' = At("find")
<1>1. CASE options.port
  BY <1>1 DEF Create, At, Elsewhere
<1>2. CASE ~options.port
  BY <1>2 DEF Create, At, Elsewhere
<1> QED BY <1>1, <1>2

LEMMA CountStep ==
    ASSUME Count
    PROVE  /\ loop.at = "count" /\ UNCHANGED <<options, table>>
           /\ \/ loop.msg.cut /\ loop' = At("dead")
              \/ loop' = At("test")
<1>1. CASE loop.msg.cut
  BY <1>1 DEF Count, At, Elsewhere
<1>2. CASE ~loop.msg.cut
  BY <1>2 DEF Count, At, Elsewhere
<1> QED BY <1>1, <1>2

Found(n) == loop' = [loop EXCEPT !.at = "merge", !.old = FALSE, !.entry = n]

OfOuter(list) == {n \in DOMAIN list : list[n].outer = record.outer}

LEMMA FindStep ==
    ASSUME Find
    PROVE  /\ loop.at = "find" /\ UNCHANGED <<options, table>>
           /\ \/ OfOuter(table[KeyOf(record)]) = {} /\ loop' = At("append")
              \/ \E n : Found(n)
<1> DEFINE list == table[KeyOf(record)]
           same == OfOuter(list)
<1>1. CASE same = {}
  BY <1>1 DEF Find, OfOuter, At, Elsewhere
<1>2. CASE same # {}
  BY <1>2 DEF Find, Found, OfOuter, Elsewhere
<1> QED BY <1>1, <1>2

(* Going on to another place leaves the rest of what the thread holds.       *)
LEMMA GoOn ==
    ASSUME LoopInv, loop.at # "idle", NEW label, loop' = At(label)
    PROVE  /\ LoopInv' /\ loop'.at = label /\ loop'.msg = loop.msg
           /\ loop'.across = loop.across /\ loop'.old = loop.old
           /\ loop'.entry = loop.entry /\ record' = record
  BY DEF LoopInv, At, record

LEMMA GoOnFound ==
    ASSUME LoopInv, loop.at # "idle", NEW n, Found(n)
    PROVE  /\ LoopInv' /\ loop'.at = "merge" /\ loop'.msg = loop.msg
           /\ loop'.across = loop.across /\ ~loop'.old
           /\ loop'.entry = n /\ record' = record
  BY DEF LoopInv, Found, record

LEMMA GoOnPut ==
    ASSUME LoopInv, loop.at # "idle",
           loop' = [loop EXCEPT !.at = "put", !.old = FALSE]
    PROVE  /\ LoopInv' /\ loop'.at = "put" /\ loop'.msg = loop.msg
           /\ loop'.across = loop.across /\ ~loop'.old
           /\ record' = record
  BY DEF LoopInv, record

LEMMA GoOnNext ==
    ASSUME LoopInv, loop.at # "idle", loop' = NextRecord
    PROVE  LoopInv' /\ loop'.at = "test"
  BY DEF LoopInv, NextRecord

LEMMA GoOnOld ==
    ASSUME LoopInv, Clear
    PROVE  /\ LoopInv' /\ loop'.at = loop.at /\ table' = Nothing
           /\ UNCHANGED options
           /\ loop.at # "idle" => loop'.old /\ loop'.across /\ loop'.msg = loop.msg
  BY DEF LoopInv, Clear

LEMMA LoopNext == LoopInv /\ [Next]_vars => LoopInv'
<1> SUFFICES ASSUME LoopInv, [Next]_vars PROVE LoopInv'
  OBVIOUS
<1>1. CASE Apart
  BY <1>1 DEF Apart, LoopInv
<1>2. CASE Clear
  BY <1>2, GoOnOld
<1>3. CASE Arrive
  BY <1>3 DEF Arrive, LoopInv
<1>4. CASE Saved
  BY <1>4 DEF Saved, IdleLoop, LoopInv
<1>5. CASE Count
  BY <1>5, CountStep, GoOn
<1>6. CASE Missing
  BY <1>6, GoOn DEF Missing
<1>7. CASE Lookup
  BY <1>7, GoOnPut DEF Lookup
<1>8. CASE Test \/ Create
  BY <1>8, TestStep, CreateStep, GoOn, GoOnNext
<1>9. CASE Find
  BY <1>9, FindStep, GoOn, GoOnFound
<1>10. CASE Merge \/ MergeRest \/ AppendEntry
  BY <1>10, GoOn, GoOnNext DEF Merge, MergeRest, AppendEntry
<1> QED BY <1>1, <1>2, <1>3, <1>4, <1>5, <1>6, <1>7, <1>8, <1>9, <1>10, Steps DEF Loop

-----------------------------------------------------------------------------
(* While the table is not cleared, a record that is being saved has its list.*)
ListThere ==
    loop.at \in {"find", "append"} /\ ~loop.across => KeyOf(record) \in DOMAIN table

LEMMA ThereNext ==
    LoopInv /\ ListThere /\ DiesOfClearing /\ [Next]_vars
        => ListThere' /\ DiesOfClearing'
<1> SUFFICES ASSUME LoopInv, ListThere, DiesOfClearing, [Next]_vars
             PROVE  ListThere' /\ DiesOfClearing'
  OBVIOUS
<1> USE DEF ListThere, DiesOfClearing
<1>1. CASE Apart
  BY <1>1 DEF Apart, record, KeyOf
<1>2. CASE Clear
  BY <1>2, GoOnOld
<1>3. CASE Arrive \/ Saved
  BY <1>3 DEF Arrive, Saved, IdleLoop
<1>4. CASE Count
  BY <1>4, CountStep, GoOn
<1>5. CASE Test
  BY <1>5, TestStep, GoOn, GoOnNext DEF KeyOf
<1>6. CASE Create
  <2>1. KeyOf(record) \in DOMAIN table'
    BY <1>6, CreateStep DEF Put
  <2> QED BY <1>6, <2>1, CreateStep, GoOn DEF KeyOf
<1>7. CASE Missing
  BY <1>7, GoOn DEF Missing
<1>8. CASE Find
  <2>1. KeyOf(record) \in DOMAIN table
    BY <1>8 DEF Find
  <2> QED BY <1>8, <2>1, FindStep, GoOn, GoOnFound DEF KeyOf
<1>9. CASE Lookup
  BY <1>9, GoOnPut DEF Lookup
<1>10. CASE Merge \/ MergeRest \/ AppendEntry
  BY <1>10, GoOn, GoOnNext DEF Merge, MergeRest, AppendEntry
<1> QED BY <1>1, <1>2, <1>3, <1>4, <1>5, <1>6, <1>7, <1>8, <1>9, <1>10, Steps DEF Loop

(* No exception of save_data() ends the receiving thread, but for a report   *)
(* that cannot be read or a table cleared under its hands                    *)
(* (mqtt_client.py:183-222).                                                 *)
THEOREM EndsOfClearing == Spec => []DiesOfClearing
<1>1. Init => LoopInv /\ ListThere /\ DiesOfClearing
  BY DEF Init, LoopInv, ListThere, DiesOfClearing, IdleLoop
<1> QED BY <1>1, LoopNext, ThereNext, PTL DEF Spec

-----------------------------------------------------------------------------
ListOK(list) ==
    /\ list \in Seq(Range(list))
    /\ \A n \in DOMAIN list : "outer" \in DOMAIN list[n]

OneEach(list) == \A m, n \in DOMAIN list : list[m].outer = list[n].outer => m = n

New(list, r) == \A n \in DOMAIN list : list[n].outer # r.outer

(* The record at hand goes to the end of its list only if its outer address  *)
(* is not in it yet.                                                         *)
OneInv ==
    /\ \A k \in DOMAIN table : ListOK(table[k])
    /\ ~options.port =>
          /\ \A k \in DOMAIN table : OneEach(table[k])
          /\ loop.at = "append" /\ KeyOf(record) \in DOMAIN table
                => New(table[KeyOf(record)], record)
          /\ loop.at = "put" /\ ~loop.old /\ KeyOf(record) \in DOMAIN table
                => New(table[KeyOf(record)], record)

LEMMA EmptyList == ListOK(Empty) /\ OneEach(Empty)
  BY DEF ListOK, OneEach, Empty

LEMMA ListAppended ==
    ASSUME NEW list, ListOK(list), NEW e, "outer" \in DOMAIN e
    PROVE  /\ ListOK(Append(list, e))
           /\ OneEach(list) /\ New(list, e) => OneEach(Append(list, e))
<1> DEFINE S == Range(list) \cup {e}
           longer == Append(list, e)
<1>1. list \in Seq(S) /\ e \in S
  BY DEF ListOK
<1>2. Len(list) \in Nat /\ DOMAIN list = 1..Len(list)
  BY <1>1
<1>3. /\ longer \in Seq(S)
      /\ DOMAIN longer = 1..Len(list) + 1
      /\ \A n \in 1..Len(list) : longer[n] = list[n]
      /\ longer[Len(list) + 1] = e
  BY <1>1, <1>2, AppendProperties
<1>4. longer \in Seq(Range(longer))
  <2>1. \A n \in 1..Len(longer) : longer[n] \in Range(longer)
    BY <1>3 DEF Range
  <2> QED BY <1>3, <2>1
<1>5. \A n \in DOMAIN longer : n \in DOMAIN list \/ n = Len(list) + 1
  BY <1>2, <1>3
<1>6. ListOK(longer)
  BY <1>2, <1>3, <1>4, <1>5 DEF ListOK
<1>7. ASSUME OneEach(list), New(list, e) PROVE OneEach(longer)
  BY <1>2, <1>3, <1>5, <1>7 DEF OneEach, New
<1> QED BY <1>6, <1>7

(* Merging a record into an entry keeps the entry's outer address.           *)
LEMMA MergedOuter ==
    ASSUME NEW e, "outer" \in DOMAIN e, NEW r
    PROVE  /\ "outer" \in DOMAIN MergedRecv(e, r) /\ MergedRecv(e, r).outer = e.outer
           /\ "outer" \in DOMAIN MergedRest(e, r) /\ MergedRest(e, r).outer = e.outer
  BY DEF MergedRecv, MergedRest

LEMMA ListMerged ==
    ASSUME NEW list, ListOK(list), NEW i, NEW e,
           i \in DOMAIN list => "outer" \in DOMAIN e /\ e.outer = list[i].outer,
           NEW merged, merged = [list EXCEPT ![i] = e]
    PROVE  /\ ListOK(merged)
           /\ OneEach(list) => OneEach(merged)
<1>1. DOMAIN merged = DOMAIN list /\ Len(list) \in Nat /\ DOMAIN list = 1..Len(list)
  BY DEF ListOK
<1>2. ASSUME NEW n \in DOMAIN list
      PROVE  "outer" \in DOMAIN merged[n] /\ merged[n].outer = list[n].outer
  BY <1>2 DEF ListOK
<1>3. merged \in Seq(Range(merged))
  <2>1. merged = [n \in 1..Len(list) |-> merged[n]]
    BY <1>1
  <2>2. \A n \in 1..Len(list) : merged[n] \in Range(merged)
    BY <1>1 DEF Range
  <2>3. merged \in [1..Len(list) -> Range(merged)]
    BY <1>1, <2>1, <2>2
  <2>4. merged \in UNION {[1..n -> Range(merged)] : n \in Nat}
    BY <1>1, <2>3
  <2> QED BY <2>4, SeqDef, Zenon
<1> QED BY <1>1, <1>2, <1>3 DEF ListOK, OneEach

LEMMA OneNext == LoopInv /\ OneInv /\ [Next]_vars => OneInv'
<1> SUFFICES ASSUME LoopInv, OneInv, [Next]_vars PROVE OneInv'
  OBVIOUS
<1>0. ASSUME UNCHANGED <<options, table>>, loop'.at \notin {"append", "put"} PROVE OneInv'
  BY <1>0 DEF OneInv
<1>1. CASE Apart
  BY <1>1 DEF Apart, OneInv, record, KeyOf
<1>2. CASE Clear
  BY <1>2, GoOnOld DEF OneInv, Nothing
<1>3. CASE Arrive \/ Saved
  BY <1>0, <1>3 DEF Arrive, Saved, Elsewhere, IdleLoop
<1>4. CASE Count
  BY <1>0, <1>4, CountStep, GoOn
<1>5. CASE Test
  <2>1. CASE options.port
    BY <1>5, <2>1, TestStep DEF OneInv
  <2>2. CASE ~options.port
    BY <1>0, <1>5, <2>2, TestStep, GoOn, GoOnNext
  <2> QED BY <2>1, <2>2
<1>6. CASE Create
  <2>1. /\ \A k \in DOMAIN table' : k \in DOMAIN table \/ table'[k] = Empty
        /\ \A k \in DOMAIN table' : table'[k] = table[k] \/ table'[k] = Empty
    BY <1>6, CreateStep DEF Put
  <2>2. \A k \in DOMAIN table' : /\ ListOK(table'[k])
                                 /\ ~options.port => OneEach(table'[k])
    BY <2>1, EmptyList DEF OneInv
  <2>3. ~options.port => loop'.at = "find"
    BY <1>6, CreateStep, GoOn
  <2>4. options' = options
    BY <1>6, CreateStep
  <2> QED BY <2>2, <2>3, <2>4 DEF OneInv
<1>7. CASE Missing
  BY <1>0, <1>7, GoOn DEF Missing, Elsewhere
<1>8. CASE Find
  <2>1. CASE \E n : Found(n)
    BY <1>0, <1>8, <2>1, FindStep, GoOnFound
  <2>2. CASE OfOuter(table[KeyOf(record)]) = {} /\ loop' = At("append")
    <3>1. New(table[KeyOf(record)], record)
      BY <2>2 DEF OfOuter, New
    <3> QED BY <1>8, <2>2, <3>1, FindStep, GoOn DEF OneInv, KeyOf
  <2> QED BY <1>8, <2>1, <2>2, FindStep
<1>9. CASE Lookup
  BY <1>9, GoOnPut DEF Lookup, OneInv, Elsewhere, KeyOf
<1>10. CASE Merge \/ MergeRest
  <2> DEFINE old == table[KeyOf(record)][loop.entry]
             Changed(e) == table' = [table EXCEPT ![KeyOf(record)][loop.entry] = e]
  <2>1. loop'.at \in {"test", "merge_rest"} /\ UNCHANGED options
    BY <1>10, GoOn, GoOnNext DEF Merge, MergeRest, Elsewhere
  <2>2. CASE UNCHANGED table
    BY <1>0, <2>1, <2>2
  <2>3. ASSUME NEW e, Changed(e), e = MergedRecv(old, record) \/ e = MergedRest(old, record)
        PROVE  OneInv'
    <3>1. ASSUME NEW k \in DOMAIN table'
          PROVE  ListOK(table'[k]) /\ (~options.port => OneEach(table'[k]))
      <4>1. CASE k # KeyOf(record)
        BY <2>3, <3>1, <4>1 DEF OneInv
      <4>2. CASE k = KeyOf(record)
        <5>1. table'[k] = [table[k] EXCEPT ![loop.entry] = e] /\ k \in DOMAIN table
          BY <2>3, <3>1, <4>2
        <5>2. ListOK(table[k]) /\ (~options.port => OneEach(table[k]))
          BY <5>1 DEF OneInv
        <5>3. loop.entry \in DOMAIN table[k] =>
                  "outer" \in DOMAIN e /\ e.outer = table[k][loop.entry].outer
          <6> SUFFICES ASSUME loop.entry \in DOMAIN table[k]
                       PROVE  "outer" \in DOMAIN e /\ e.outer = old.outer
            BY <4>2
          <6>1. "outer" \in DOMAIN old
            BY <4>2, <5>2 DEF ListOK
          <6> HIDE DEF old
          <6> QED BY <2>3, <6>1, MergedOuter
        <5> QED BY <5>1, <5>2, <5>3, ListMerged
      <4> QED BY <4>1, <4>2
    <3> QED BY <2>1, <3>1 DEF OneInv
  <2>4. CASE Changed(MergedRecv(old, record)) \/ Changed(MergedRest(old, record))
    BY <2>3, <2>4
  <2> QED BY <1>10, <2>2, <2>4 DEF Merge, MergeRest
<1>11. CASE AppendEntry
  <2>1. loop.at = "put" /\ loop'.at = "test" /\ UNCHANGED options
    BY <1>11, GoOnNext DEF AppendEntry, Elsewhere
  <2>2. CASE UNCHANGED table
    BY <1>0, <2>1, <2>2
  <2>3. CASE ~loop.old /\ table' = [table EXCEPT ![KeyOf(record)] =
                                       Append(@, Entry(record))]
    <3> DEFINE e == Entry(record)
    <3>1. "outer" \in DOMAIN e /\ e.outer = record.outer
      BY DEF Entry
    <3>2. ASSUME NEW k \in DOMAIN table'
          PROVE  ListOK(table'[k]) /\ (~options.port => OneEach(table'[k]))
      <4>1. CASE k # KeyOf(record)
        BY <2>3, <3>2, <4>1 DEF OneInv
      <4>2. CASE k = KeyOf(record)
        <5>1. k \in DOMAIN table /\ table'[k] = Append(table[k], e)
          BY <2>3, <3>2, <4>2
        <5>2. ~options.port => New(table[k], e)
          BY <2>1, <2>3, <3>1, <4>2, <5>1 DEF OneInv, New
        <5> QED BY <3>1, <5>1, <5>2, ListAppended DEF OneInv
      <4> QED BY <4>1, <4>2
    <3> QED BY <2>1, <3>2 DEF OneInv
  <2> QED BY <1>11, <2>2, <2>3 DEF AppendEntry
<1> QED BY <1>1, <1>2, <1>3, <1>4, <1>5, <1>6, <1>7, <1>8, <1>9, <1>10, <1>11, Steps
        DEF Loop

(* Unless ports are told apart, an outer address has one line for each inner *)
(* one, with a clearing between any two steps of the search and the merge    *)
(* (mqtt_client.py:207-222).                                                 *)
THEOREM OneLineEach == Spec => []OneEntryEach
<1>1. Init => LoopInv /\ OneInv
  BY DEF Init, LoopInv, OneInv, IdleLoop, Nothing
<1>2. OneInv => OneEntryEach
  BY DEF OneInv, OneEntryEach, OneEach
<1> QED BY <1>1, <1>2, LoopNext, OneNext, PTL DEF Spec

-----------------------------------------------------------------------------
(* Types *)

Figures == [recv : Nat, send : Nat, create : Nat, end : Nat]

(* What a box has counted, a report's record and a table's entry by time t.  *)
CountedOK(c, d, t) ==
    /\ c \in Conns /\ d \in Figures
    /\ d.recv + d.send \in 1..t
    /\ d.create <= d.end /\ d.end < t

Records(t) ==
    {r \in [box : Boxes, outer : Nat, port : Nat, inner : Nat, protocol : Nat,
            recv : Nat, send : Nat, create : Nat, end : Nat] :
        KeyOf(r) \in Keys /\ r.create <= r.end /\ r.end < t}

Messages(t) == [cut : BOOLEAN, records : Seq(Records(t))]

Entries(t) ==
    {e \in [outer : Nat, port : Nat, protocols : SUBSET Nat,
            recv : Nat, send : Nat, create : Nat, end : Nat] :
        e.create <= e.end /\ e.end < t}

CountedInv ==
    /\ clock \in Start..MaxClock
    /\ IsFiniteSet(DOMAIN counted)
    /\ \A c \in DOMAIN counted : CountedOK(c, counted[c], clock)

LEMMA OneMore ==
    ASSUME NEW d \in Figures, NEW t \in Nat, d.recv + d.send \in 0..t, d.create <= t,
           NEW c \in Conns
    PROVE  /\ CountedOK(c, [d EXCEPT !.recv = @ + 1, !.end = t], t + 1)
           /\ CountedOK(c, [d EXCEPT !.send = @ + 1, !.end = t], t + 1)
<1>1. d.recv \in Nat /\ d.send \in Nat /\ d.create \in Nat
  BY DEF Figures
<1>2. ASSUME NEW n \in Nat, n = d.recv + 1
      PROVE  CountedOK(c, [d EXCEPT !.recv = n, !.end = t], t + 1)
  <2> DEFINE e == [d EXCEPT !.recv = n, !.end = t]
  <2>1. /\ e \in Figures
        /\ e.recv = n /\ e.send = d.send /\ e.create = d.create /\ e.end = t
    BY DEF Figures
  <2> HIDE DEF e
  <2>2. CountedOK(c, e, t + 1)
    BY <1>1, <1>2, <2>1 DEF CountedOK
  <2> QED BY <2>2 DEF e
<1>3. ASSUME NEW n \in Nat, n = d.send + 1
      PROVE  CountedOK(c, [d EXCEPT !.send = n, !.end = t], t + 1)
  <2> DEFINE e == [d EXCEPT !.send = n, !.end = t]
  <2>1. /\ e \in Figures
        /\ e.recv = d.recv /\ e.send = n /\ e.create = d.create /\ e.end = t
    BY DEF Figures
  <2> HIDE DEF e
  <2>2. CountedOK(c, e, t + 1)
    BY <1>1, <1>3, <2>1 DEF CountedOK
  <2> QED BY <2>2 DEF e
<1>4. d.recv + 1 \in Nat /\ d.send + 1 \in Nat
  BY <1>1
<1> QED BY <1>2, <1>3, <1>4, Zenon

LEMMA TrafficCounted ==
    ASSUME CountedInv, NEW c \in Conns, NEW inward \in BOOLEAN, Traffic(c, inward)
    PROVE  CountedInv'
<1> DEFINE d == IF c \in DOMAIN counted THEN counted[c]
                ELSE [recv |-> 0, send |-> 0, create |-> clock, end |-> clock]
           e == IF inward THEN [d EXCEPT !.recv = @ + 1, !.end = clock]
                ELSE [d EXCEPT !.send = @ + 1, !.end = clock]
<1>1. /\ clock' = clock + 1 /\ clock < MaxClock
      /\ counted' = Put(counted, c, e)
  BY DEF Traffic
<1>2. clock \in Nat /\ clock' \in Start..MaxClock
  BY <1>1, BoundsAssumption DEF CountedInv
<1>3. d \in Figures /\ d.recv + d.send \in 0..clock /\ d.create <= clock
  BY <1>2 DEF CountedInv, CountedOK, Figures
<1>4. CountedOK(c, e, clock')
  <2> HIDE DEF d
  <2> QED BY <1>1, <1>2, <1>3, OneMore
<1> HIDE DEF d, e
<1>5. /\ DOMAIN counted' = DOMAIN counted \cup {c}
      /\ \A x \in DOMAIN counted' : counted'[x] = IF x = c THEN e ELSE counted[x]
  BY <1>1 DEF Put
<1>6. \A x \in DOMAIN counted' : CountedOK(x, counted'[x], clock')
  <2> SUFFICES ASSUME NEW x \in DOMAIN counted', x # c
               PROVE  CountedOK(x, counted[x], clock')
    BY <1>4, <1>5
  <2>1. CountedOK(x, counted[x], clock)
    BY <1>5 DEF CountedInv
  <2> QED BY <1>1, <1>2, <2>1 DEF CountedOK, Figures
<1>7. IsFiniteSet(DOMAIN counted')
  BY <1>5, FS_AddElement DEF CountedInv
<1> QED BY <1>2, <1>6, <1>7 DEF CountedInv

(* Only packets change what the boxes have.                                  *)
LEMMA BoxSteps ==
    ASSUME [Next]_vars
    PROVE  \/ \E c \in Conns, inward \in BOOLEAN : Traffic(c, inward)
           \/ UNCHANGED box_vars
<1>1. CASE UNCHANGED vars
  BY <1>1 DEF vars
<1>2. CASE (\E b \in Boxes : Report(b)) \/ Lose
  BY <1>2 DEF Report, Lose
<1>3. CASE Loop
  BY <1>3 DEF Loop, Arrive, Count, Test, Create, Missing, Find, Lookup, Merge, MergeRest,
              AppendEntry, Saved, Elsewhere
<1>4. CASE Main
  <2>1. CASE Ask \/ Clear \/ Publish \/ PrintKey \/ Grown
    BY <2>1 DEF Ask, Clear, Publish, PrintKey, Grown, MainElsewhere
  <2>2. CASE Processed \/ Output \/ Quit \/ \E k \in DOMAIN table : Process(k)
    BY <2>2, OutputApart DEF Processed, Quit, Process, MainElsewhere, box_vars
  <2> QED BY <1>4, <2>1, <2>2 DEF Main
<1> QED BY <1>1, <1>2, <1>3, <1>4 DEF Next

LEMMA CountedNext ==
    CountedInv /\ [Next]_vars => CountedInv' /\ clock <= clock' /\ clock \in Nat
<1> SUFFICES ASSUME CountedInv, [Next]_vars
             PROVE  CountedInv' /\ clock <= clock' /\ clock \in Nat
  OBVIOUS
<1>1. clock \in Nat
  BY BoundsAssumption DEF CountedInv
<1>2. CASE \E c \in Conns, inward \in BOOLEAN : Traffic(c, inward)
  <2>1. clock' = clock + 1
    BY <1>2 DEF Traffic
  <2> QED BY <1>1, <1>2, <2>1, TrafficCounted
<1>3. CASE UNCHANGED box_vars
  BY <1>1, <1>3 DEF box_vars, CountedInv
<1> QED BY <1>2, <1>3, BoxSteps

(* What the receiving thread holds while it has a message at hand.           *)
Busy(t) ==
    [at : {"count", "test", "create", "find", "append", "merge", "merge_rest", "put", "dead"},
     msg : Messages(t), next : Nat \ {0}, old : BOOLEAN, seen : Nat,
     across : BOOLEAN, entry : Nat]

Saving == {"create", "find", "append", "merge", "merge_rest", "put"}

LoopTyped ==
    \/ loop = IdleLoop
    \/ /\ loop \in Busy(clock)
       /\ loop.at \in Saving => loop.next <= Len(loop.msg.records)

TableTyped ==
    \A k \in DOMAIN table : k \in Keys /\ table[k] \in Seq(Entries(clock))

HeldInv ==
    /\ CountedInv /\ LoopTyped /\ TableTyped
    /\ inbox \in Seq(Messages(clock)) /\ received \in Nat

LEMMA SeqLarger ==
    ASSUME NEW S, NEW T, S \subseteq T, NEW s \in Seq(S)
    PROVE  s \in Seq(T)
<1>1. Len(s) \in Nat /\ s \in [1..Len(s) -> S]
  OBVIOUS
<1>2. s \in [1..Len(s) -> T]
  BY <1>1
<1> QED BY <1>1, <1>2

LEMMA Later ==
    ASSUME NEW t \in Nat, NEW u \in Nat, t <= u
    PROVE  /\ Messages(t) \subseteq Messages(u)
           /\ Entries(t) \subseteq Entries(u)
           /\ Busy(t) \subseteq Busy(u)
<1>1. Records(t) \subseteq Records(u) /\ Entries(t) \subseteq Entries(u)
  BY DEF Records, Entries
<1>2. \A s \in Seq(Records(t)) : s \in Seq(Records(u))
  BY <1>1, SeqLarger
<1>3. Messages(t) \subseteq Messages(u)
  BY <1>2 DEF Messages
<1>4. Busy(t) \subseteq Busy(u)
  BY <1>3 DEF Busy
<1> QED BY <1>1, <1>3, <1>4

LEMMA HeldKept ==
    ASSUME HeldInv, CountedInv', clock <= clock', clock \in Nat, received' \in Nat,
           UNCHANGED <<inbox, loop, table>>
    PROVE  HeldInv'
<1>0. clock' \in Nat
  BY BoundsAssumption DEF CountedInv
<1>1. /\ Messages(clock) \subseteq Messages(clock')
      /\ Entries(clock) \subseteq Entries(clock')
      /\ Busy(clock) \subseteq Busy(clock')
  BY <1>0, Later
<1>2. inbox' \in Seq(Messages(clock'))
  BY <1>1, SeqLarger DEF HeldInv
<1>3. TableTyped'
  BY <1>1, SeqLarger DEF HeldInv, TableTyped
<1>4. LoopTyped'
  BY <1>1 DEF HeldInv, LoopTyped
<1> QED BY <1>2, <1>3, <1>4 DEF HeldInv

(* The record at hand.                                                       *)
LEMMA AtHand ==
    ASSUME HeldInv, loop \in Busy(clock), loop.next <= Len(loop.msg.records)
    PROVE  record \in Records(clock) /\ loop.next \in 1..Len(loop.msg.records)
<1>1. loop.msg.records \in Seq(Records(clock)) /\ loop.next \in Nat \ {0}
  BY DEF Busy, Messages
<1> QED BY <1>1 DEF record

LEMMA IsBusy ==
    ASSUME HeldInv, loop.at # "idle"
    PROVE  /\ loop \in Busy(clock)
           /\ loop.at \in Saving =>
                 /\ loop.next <= Len(loop.msg.records)
                 /\ record \in Records(clock)
                 /\ loop.next \in 1..Len(loop.msg.records)
<1>1. loop # IdleLoop
  BY DEF IdleLoop
<1> QED BY <1>1, AtHand DEF HeldInv, LoopTyped

(* The moves of the thread, field by field.                                  *)
Moved(label, next) ==
    /\ loop' \in Busy(clock)
    /\ loop'.at = label /\ loop'.next = next
    /\ loop'.msg = loop.msg /\ loop'.across = loop.across

LEMMA MovedAt ==
    ASSUME loop \in Busy(clock), NEW label \in Saving \cup {"test", "dead"},
           loop' = At(label)
    PROVE  Moved(label, loop.next) /\ loop'.old = loop.old /\ loop'.entry = loop.entry
  BY DEF Busy, At, Moved, Saving

LEMMA MovedFound ==
    ASSUME loop \in Busy(clock), NEW n \in Nat, Found(n)
    PROVE  Moved("merge", loop.next) /\ ~loop'.old /\ loop'.entry = n
  BY DEF Busy, Found, Moved

LEMMA MovedPut ==
    ASSUME loop \in Busy(clock), loop' = [loop EXCEPT !.at = "put", !.old = FALSE]
    PROVE  Moved("put", loop.next) /\ ~loop'.old
  BY DEF Busy, Moved

LEMMA MovedNext ==
    ASSUME loop \in Busy(clock), loop' = NextRecord
    PROVE  Moved("test", loop.next + 1) /\ loop'.old = loop.old
<1>1. loop.next + 1 \in Nat \ {0}
  BY DEF Busy
<1>2. \A n \in Nat \ {0} : loop' = [loop EXCEPT !.at = "test", !.next = n] =>
          Moved("test", n) /\ loop'.old = loop.old
  BY DEF Busy, Moved
<1>3. loop' = [loop EXCEPT !.at = "test", !.next = loop.next + 1]
  BY Zenon DEF NextRecord
<1> QED BY <1>1, <1>2, <1>3, Zenon

LEMMA SeqChanged ==
    ASSUME NEW S, NEW s \in Seq(S), NEW i, NEW e, i \in DOMAIN s => e \in S,
           NEW changed, changed = [s EXCEPT ![i] = e]
    PROVE  changed \in Seq(S) /\ DOMAIN changed = DOMAIN s /\ Len(changed) = Len(s)
<1> DEFINE n == Len(s)
<1>1. n \in Nat /\ DOMAIN s = 1..n /\ DOMAIN changed = 1..n
  OBVIOUS
<1>2. \A m \in 1..n : changed[m] \in S
  <2> SUFFICES ASSUME NEW m \in 1..n PROVE changed[m] \in S
    OBVIOUS
  <2>1. CASE m = i
    BY <1>1, <2>1
  <2>2. CASE m # i
    BY <1>1, <2>2
  <2> QED BY <2>1, <2>2
<1>3. changed = [m \in 1..n |-> changed[m]]
  BY <1>1
<1> HIDE DEF n
<1>4. changed \in [1..n -> S]
  BY <1>2, <1>3
<1>5. changed \in Seq(S)
  BY <1>1, <1>4
<1>6. Len(changed) = n
  BY <1>1, <1>5
<1> QED BY <1>1, <1>5, <1>6 DEF n

(* What merging a record and making an entry of it give.                     *)
LEMMA RecvTyped ==
    ASSUME NEW t \in Nat, NEW e \in Entries(t), NEW r \in Records(t)
    PROVE  /\ MergedRecv(e, r) \in Entries(t)
           /\ MergedRecv(e, r).outer = e.outer
           /\ MergedRecv(e, r).recv = e.recv + r.recv
           /\ MergedRecv(e, r).send = e.send
<1>1. PICK p, x : p = e.protocols \cup {r.protocol} /\ x = e.recv + r.recv
  OBVIOUS
<1>2. p \in SUBSET Nat /\ x \in Nat
  BY <1>1 DEF Entries, Records
<1>3. MergedRecv(e, r) = [e EXCEPT !.protocols = p, !.recv = x]
  BY <1>1, Zenon DEF MergedRecv
<1> QED BY <1>1, <1>2, <1>3 DEF Entries

LEMMA RestTyped ==
    ASSUME NEW t \in Nat, NEW e \in Entries(t), NEW r \in Records(t)
    PROVE  /\ MergedRest(e, r) \in Entries(t)
           /\ MergedRest(e, r).outer = e.outer
           /\ MergedRest(e, r).recv = e.recv
           /\ MergedRest(e, r).send = e.send + r.send
<1>1. PICK y, c, d :
          /\ y = e.send + r.send
          /\ c = IF r.create < e.create THEN r.create ELSE e.create
          /\ d = IF r.end > e.end THEN r.end ELSE e.end
  OBVIOUS
<1>2. y \in Nat /\ c \in Nat /\ d \in Nat /\ c <= d /\ d < t
  BY <1>1 DEF Entries, Records
<1>3. MergedRest(e, r) = [e EXCEPT !.send = y, !.create = c, !.end = d]
  BY <1>1, Zenon DEF MergedRest
<1> QED BY <1>1, <1>2, <1>3 DEF Entries

LEMMA EntryTyped ==
    ASSUME NEW t \in Nat, NEW r \in Records(t)
    PROVE  /\ Entry(r) \in Entries(t)
           /\ Entry(r).outer = r.outer
           /\ Bytes(Entry(r)) = Bytes(r)
  BY DEF Entry, Entries, Records, Bytes

(* An entry of the outer address is found where there is one.                *)
LEMMA FindTyped ==
    ASSUME HeldInv, Find, KeyOf(record) \in DOMAIN table
    PROVE  \/ /\ OfOuter(table[KeyOf(record)]) = {}
              /\ loop' = At("append")
           \/ \E n \in OfOuter(table[KeyOf(record)]) : n \in Nat /\ Found(n)
<1> DEFINE list == table[KeyOf(record)]
           same == OfOuter(list)
           least == CHOOSE n \in same : \A m \in same : n <= m
<1>1. CASE same = {}
  BY <1>1 DEF Find, OfOuter
<1>2. CASE same # {}
  <2>1. list \in Seq(Entries(clock))
    BY DEF HeldInv, TableTyped
  <2>2. same \in SUBSET Nat
    BY <2>1 DEF OfOuter
  <2>3. least \in same
    BY <1>2, <2>2, LeastNat
  <2>4. Found(least)
    BY <1>2 DEF Find, Found, OfOuter
  <2> QED BY <2>2, <2>3, <2>4
<1> QED BY <1>1, <1>2

LEMMA HeldLoop ==
    ASSUME HeldInv, Loop, CountedInv', clock' = clock, clock \in Nat
    PROVE  HeldInv'
<1>0. ASSUME UNCHANGED <<inbox, table>>, received' \in Nat, loop' \in Busy(clock),
             loop'.at \in Saving => loop'.next <= Len(loop'.msg.records)
      PROVE  HeldInv'
  BY <1>0 DEF HeldInv, LoopTyped, TableTyped
<1> USE DEF Moved
<1>1. CASE Arrive
  <2>1. Head(inbox) \in Messages(clock) /\ Tail(inbox) \in Seq(Messages(clock))
    BY <1>1 DEF HeldInv, Arrive, Empty
  <2> DEFINE l == [at |-> "count", msg |-> Head(inbox), next |-> 1, old |-> FALSE,
                   seen |-> received, across |-> FALSE, entry |-> 0]
  <2>2. l \in Busy(clock) /\ l.at = "count"
    BY <2>1 DEF Busy, HeldInv
  <2>3. loop' = l /\ inbox' = Tail(inbox) /\ UNCHANGED <<table, received>>
    BY <1>1 DEF Arrive
  <2> HIDE DEF l
  <2> QED BY <2>1, <2>2, <2>3 DEF HeldInv, LoopTyped, TableTyped, Saving
<1>2. CASE Saved
  BY <1>2 DEF Saved, HeldInv, LoopTyped, TableTyped
<1>3. CASE Count
  <2>1. UNCHANGED <<inbox, table>> /\ loop \in Busy(clock)
    BY <1>3, IsBusy DEF Count
  <2>2. loop' \in Busy(clock) /\ loop'.at \in {"dead", "test"}
    BY <1>3, <2>1, CountStep, MovedAt
  <2>3. received' \in Nat
    BY <1>3, <2>1 DEF Count, Busy
  <2> QED BY <1>0, <2>1, <2>2, <2>3 DEF Saving
<1>4. CASE Test
  <2>1. UNCHANGED <<inbox, table>> /\ received' \in Nat /\ loop \in Busy(clock)
        /\ loop.next <= Len(loop.msg.records)
    BY <1>4, IsBusy DEF Test, HeldInv
  <2>2. CASE loop' = NextRecord
    BY <1>0, <2>1, <2>2, MovedNext DEF Saving
  <2>3. CASE loop' = At("create") \/ loop' = At("append") \/ loop' = At("find")
    BY <1>0, <2>1, <2>3, MovedAt DEF Saving
  <2> QED BY <1>4, <2>2, <2>3, TestStep
<1>5. ASSUME loop.at \in Saving, UNCHANGED <<inbox, received>>, TableTyped',
             loop' = NextRecord
      PROVE  HeldInv'
  <2>1. loop \in Busy(clock)
    BY <1>5, IsBusy DEF Saving
  <2>2. loop' \in Busy(clock) /\ loop'.at = "test"
    BY <1>5, <2>1, MovedNext
  <2> QED BY <1>5, <2>2 DEF HeldInv, LoopTyped, Saving
<1>6. ASSUME loop.at \in Saving, UNCHANGED <<inbox, received>>, TableTyped',
             loop.next <= Len(loop.msg.records) => Moved(loop'.at, loop.next)
      PROVE  HeldInv'
  <2>1. loop.next <= Len(loop.msg.records)
    BY <1>6, IsBusy DEF Saving
  <2>2. /\ loop' \in Busy(clock)
        /\ loop'.next <= Len(loop'.msg.records)
    BY <1>6, <2>1
  <2> QED BY <1>6, <2>2 DEF HeldInv, LoopTyped
<1>7. ASSUME UNCHANGED table PROVE TableTyped'
  BY <1>7 DEF HeldInv, TableTyped
<1>8. CASE Create
  <2>1. KeyOf(record) \in Keys
    BY <1>8, IsBusy DEF Create, Saving, Records
  <2>2. Empty \in Seq(Entries(clock))
    BY DEF Empty
  <2>3. TableTyped'
    BY <1>8, <2>1, <2>2, CreateStep DEF Put, TableTyped, HeldInv
  <2>4. Moved(loop'.at, loop.next)
    BY <1>8, CreateStep, IsBusy, MovedAt DEF Saving
  <2> QED BY <1>6, <1>8, <2>3, <2>4 DEF Create, Saving
<1>9. CASE Missing
  <2>1. Moved("dead", loop.next)
    BY <1>9, IsBusy, MovedAt DEF Missing
  <2> QED BY <1>6, <1>7, <1>9, <2>1 DEF Missing, Saving
<1>10. CASE Find
  <2>1. Moved(loop'.at, loop.next)
    <3>1. loop \in Busy(clock) /\ KeyOf(record) \in DOMAIN table
      BY <1>10, IsBusy DEF Find
    <3> QED BY <1>10, <3>1, FindTyped, MovedAt, MovedFound DEF Saving
  <2> QED BY <1>6, <1>7, <1>10, <2>1 DEF Find, Saving
<1>11. CASE Lookup
  <2>1. Moved("put", loop.next)
    BY <1>11, IsBusy, MovedPut DEF Lookup
  <2> QED BY <1>6, <1>7, <1>11, <2>1 DEF Lookup, Saving
<1>12. CASE Merge \/ MergeRest
  <2> DEFINE old == table[KeyOf(record)][loop.entry]
             Changed(e) == table' = [table EXCEPT ![KeyOf(record)][loop.entry] = e]
  <2>1. record \in Records(clock)
    BY <1>12, IsBusy DEF Merge, MergeRest, Saving
  <2>2. ASSUME NEW e, Changed(e), e = MergedRecv(old, record) \/ e = MergedRest(old, record)
        PROVE  TableTyped'
    <3> SUFFICES ASSUME NEW k \in DOMAIN table
                 PROVE  k \in Keys /\ table'[k] \in Seq(Entries(clock))
      BY <1>12, <2>2 DEF TableTyped
    <3>1. table[k] \in Seq(Entries(clock)) /\ k \in Keys
      BY DEF TableTyped, HeldInv
    <3>2. CASE k # KeyOf(record)
      BY <2>2, <3>1, <3>2
    <3>3. CASE k = KeyOf(record)
      <4>1. table'[k] = [table[k] EXCEPT ![loop.entry] = e]
        BY <2>2, <3>3
      <4>2. loop.entry \in DOMAIN table[k] => e \in Entries(clock)
        <5> SUFFICES ASSUME loop.entry \in DOMAIN table[k] PROVE e \in Entries(clock)
          OBVIOUS
        <5>1. old \in Entries(clock)
          BY <3>1, <3>3
        <5> HIDE DEF old
        <5> QED BY <2>1, <2>2, <5>1, RecvTyped, RestTyped
      <4> QED BY <3>1, <4>1, <4>2, SeqChanged
    <3> QED BY <3>2, <3>3
  <2>3. TableTyped'
    <3>1. CASE UNCHANGED table
      BY <1>7, <3>1
    <3>2. CASE Changed(MergedRecv(old, record)) \/ Changed(MergedRest(old, record))
      BY <2>2, <3>2
    <3> QED BY <1>12, <3>1, <3>2 DEF Merge, MergeRest
  <2>4. CASE Merge
    <3>1. Moved("merge_rest", loop.next)
      BY <2>4, IsBusy, MovedAt DEF Merge, Saving
    <3> QED BY <1>6, <2>3, <2>4, <3>1 DEF Merge, Saving
  <2>5. CASE MergeRest
    BY <1>5, <2>3, <2>5 DEF MergeRest, Saving
  <2> QED BY <1>12, <2>4, <2>5
<1>13. CASE AppendEntry
  <2>1. TableTyped'
    <3>1. CASE UNCHANGED table
      BY <1>7, <3>1
    <3>2. CASE table' = [table EXCEPT ![KeyOf(record)] = Append(@, Entry(record))]
      <4>1. Entry(record) \in Entries(clock)
        BY <1>13, IsBusy, EntryTyped DEF AppendEntry, Saving
      <4> QED BY <3>2, <4>1 DEF TableTyped, HeldInv
    <3> QED BY <1>13, <3>1, <3>2 DEF AppendEntry
  <2> QED BY <1>5, <1>13, <2>1 DEF AppendEntry, Saving
<1> QED BY <1>1, <1>2, <1>3, <1>4, <1>8, <1>9, <1>10, <1>11, <1>12, <1>13 DEF Loop

(* A report has the records of what its box has counted.                     *)
LEMMA WrittenTyped ==
    ASSUME NEW c \in DOMAIN counted, CountedInv
    PROVE  Written(c) \in Records(clock)
<1>1. c \in [box : Boxes, outer : Nat, port : Nat, inner : Nat, protocol : Nat] /\ c \in Conns
  BY ConnsAssumption DEF CountedInv, CountedOK
<1>2. counted[c] \in Figures /\ counted[c].create <= counted[c].end /\ counted[c].end < clock
  BY DEF CountedInv, CountedOK
<1>3. <<c.box, c.inner>> \in Keys
  BY <1>1 DEF Keys
<1> QED BY <1>1, <1>2, <1>3 DEF Records, Figures, KeyOf, Written

LEMMA ReportTyped ==
    ASSUME HeldInv, NEW b \in Boxes, Report(b)
    PROVE  \E m \in Messages(clock) : inbox' = Append(inbox, m)
<1> DEFINE own == {c \in DOMAIN counted : c.box = b}
<1>1. IsFiniteSet(own) /\ Cardinality(own) \in Nat
  BY FS_Subset, FS_CardinalityType DEF HeldInv, CountedInv
<1>2. CASE inbox' = Append(inbox, [cut |-> TRUE, records |-> Empty])
  <2>1. [cut |-> TRUE, records |-> Empty] \in Messages(clock)
    BY DEF Messages, Empty
  <2> QED BY <1>2, <2>1
<1>3. ASSUME NEW order \in SetToSeqs(own),
             inbox' = Append(inbox, [cut |-> FALSE,
                              records |-> [n \in DOMAIN order |-> Written(order[n])]])
      PROVE  \E m \in Messages(clock) : inbox' = Append(inbox, m)
  <2>1. order \in [1..Cardinality(own) -> own]
    BY DEF SetToSeqs
  <2>2. \A c \in own : Written(c) \in Records(clock)
    BY WrittenTyped DEF HeldInv
  <2> DEFINE rs == [n \in DOMAIN order |-> Written(order[n])]
  <2> HIDE DEF own
  <2>3. rs \in [1..Cardinality(own) -> Records(clock)]
    BY <2>1, <2>2
  <2>4. rs \in Seq(Records(clock))
    BY <1>1, <2>3
  <2> QED BY <1>3, <2>4 DEF Messages
<1> QED BY <1>2, <1>3 DEF Report

(* A step is the network's, the receiving thread's, the clearing, or leaves  *)
(* what they work on.                                                        *)
LEMMA HeldSteps ==
    ASSUME [Next]_vars, received \in Nat
    PROVE  \/ \E b \in Boxes : Report(b)
           \/ Lose \/ Loop \/ Clear
           \/ UNCHANGED <<inbox, loop, table>> /\ received' \in Nat
<1>1. CASE UNCHANGED vars
  BY <1>1 DEF vars, net_vars, collector_vars
<1>2. CASE \E c \in Conns, inward \in BOOLEAN : Traffic(c, inward)
  BY <1>2 DEF Traffic, net_vars, collector_vars
<1>3. CASE Main /\ ~Clear
  <2>1. CASE Ask \/ Publish \/ PrintKey \/ Grown
    BY <2>1 DEF Ask, Publish, PrintKey, Grown, MainElsewhere
  <2>2. CASE Processed \/ Output \/ Quit \/ \E k \in DOMAIN table : Process(k)
    BY <2>2, OutputApart DEF Processed, Quit, Process, MainElsewhere, box_vars
  <2> QED BY <1>3, <2>1, <2>2 DEF Main
<1> QED BY <1>1, <1>2, <1>3 DEF Next

LEMMA ClearTyped ==
    ASSUME HeldInv, Clear
    PROVE  /\ HeldInv'
           /\ loop.at = "idle" => loop' = loop
           /\ loop.at # "idle" =>
                 /\ loop' \in Busy(clock)
                 /\ loop'.at = loop.at /\ loop'.next = loop.next /\ loop'.msg = loop.msg
                 /\ loop'.seen = loop.seen /\ loop'.old /\ loop'.across
<1>1. UNCHANGED <<box_vars, inbox, received>> /\ table' = Nothing
  BY DEF Clear, net_vars
<1>2. CASE loop.at = "idle"
  BY <1>1, <1>2 DEF Clear, HeldInv, CountedInv, box_vars, TableTyped, Nothing, LoopTyped
<1>3. CASE loop.at # "idle"
  <2>1. /\ loop' \in Busy(clock)
        /\ loop'.at = loop.at /\ loop'.next = loop.next /\ loop'.msg = loop.msg
        /\ loop'.seen = loop.seen /\ loop'.old /\ loop'.across
    BY <1>3, IsBusy DEF Clear, Busy
  <2> QED BY <1>1, <1>3, <2>1, IsBusy
          DEF HeldInv, CountedInv, box_vars, TableTyped, Nothing, LoopTyped
<1> QED BY <1>2, <1>3

LEMMA HeldNext == HeldInv /\ [Next]_vars => HeldInv'
<1> SUFFICES ASSUME HeldInv, [Next]_vars PROVE HeldInv'
  OBVIOUS
<1>1. CountedInv' /\ clock <= clock' /\ clock \in Nat /\ received \in Nat
  BY CountedNext DEF HeldInv
<1>2. CASE \E b \in Boxes : Report(b)
  <2>1. UNCHANGED <<box_vars, loop, table, received>>
    BY <1>2 DEF Report, collector_vars
  <2>2. inbox' \in Seq(Messages(clock))
    BY <1>2, ReportTyped DEF HeldInv
  <2> QED BY <1>1, <2>1, <2>2 DEF HeldInv, box_vars, LoopTyped, TableTyped
<1>3. CASE Lose
  <2>1. UNCHANGED <<box_vars, loop, table, received>>
    BY <1>3 DEF Lose, collector_vars
  <2>2. inbox' \in Seq(Messages(clock))
    BY <1>3 DEF HeldInv, Lose, Empty
  <2> QED BY <1>1, <2>1, <2>2 DEF HeldInv, box_vars, LoopTyped, TableTyped
<1>4. CASE Loop
  <2>1. clock' = clock
    BY <1>4 DEF Loop, Arrive, Count, Test, Create, Missing, Find, Lookup, Merge, MergeRest,
                AppendEntry, Saved, Elsewhere, box_vars
  <2> QED BY <1>1, <1>4, <2>1, HeldLoop
<1>5. CASE Clear
  BY <1>5, ClearTyped
<1>6. CASE UNCHANGED <<inbox, loop, table>> /\ received' \in Nat
  BY <1>1, <1>6, HeldKept
<1> QED BY <1>1, <1>2, <1>3, <1>4, <1>5, <1>6, HeldSteps

(* What is counted has been sent, and the rest of the state.                 *)
NumbersInv ==
    /\ reports \in 0..MaxReports /\ received \in Nat
    /\ IF loop.at = "count"
       THEN /\ received + 1 + Len(inbox) <= reports
            /\ loop.seen + 1 + Len(inbox) <= reports
       ELSE received + Len(inbox) <= reports

MainInv ==
    /\ options \in Settings
    /\ pressed \in 0..MaxKeys
    /\ DOMAIN stat \subseteq Keys
    /\ "at" \in DOMAIN main
    /\ main.at \in {"idle", "clear", "publish", "process", "ended"} \cup Printing

LEMMA NumbersNext == HeldInv /\ NumbersInv /\ [Next]_vars => NumbersInv'
<1> SUFFICES ASSUME HeldInv, NumbersInv, [Next]_vars PROVE NumbersInv'
  OBVIOUS
<1>0. /\ received \in Nat /\ reports \in Nat /\ Len(inbox) \in Nat
      /\ MaxReports \in Nat /\ reports <= MaxReports
  BY BoundsAssumption DEF HeldInv, NumbersInv
<1>1. CASE \E b \in Boxes : Report(b)
  <2>1. /\ reports < MaxReports /\ reports' = reports + 1
        /\ UNCHANGED <<received, loop>>
    BY <1>1 DEF Report, collector_vars
  <2>2. Len(inbox') = Len(inbox) + 1
    BY <1>1, ReportTyped DEF HeldInv
  <2>3. loop.at = "count" => loop.seen \in Nat
    BY IsBusy DEF Busy
  <2> QED BY <1>0, <2>1, <2>2, <2>3 DEF NumbersInv
<1>2. CASE Lose
  <2>1. UNCHANGED <<reports, received, loop>> /\ inbox # <<>> /\ inbox' = Tail(inbox)
    BY <1>2 DEF Lose, collector_vars, Empty
  <2>2. Len(inbox') = Len(inbox) - 1
    BY <2>1 DEF HeldInv
  <2>3. loop.at = "count" => loop.seen \in Nat
    BY IsBusy DEF Busy
  <2> QED BY <1>0, <2>1, <2>2, <2>3 DEF NumbersInv
<1>3. CASE Clear
  <2>1. UNCHANGED <<reports, received, inbox>>
    BY <1>3 DEF Clear, net_vars
  <2>2. loop'.at = loop.at /\ (loop.at = "count" => loop'.seen = loop.seen)
    BY <1>3, ClearTyped
  <2> QED BY <2>1, <2>2 DEF NumbersInv
<1>4. CASE Arrive
  <2>1. /\ UNCHANGED <<reports, received>> /\ inbox # <<>> /\ inbox' = Tail(inbox)
        /\ loop.at # "count" /\ loop'.at = "count" /\ loop'.seen = received
    BY <1>4 DEF Arrive, Elsewhere, Empty
  <2>2. Len(inbox') = Len(inbox) - 1
    BY <2>1 DEF HeldInv
  <2> QED BY <1>0, <2>1, <2>2 DEF NumbersInv
<1>5. CASE Count
  <2>1. /\ UNCHANGED <<reports, inbox>> /\ received' = loop.seen + 1
        /\ loop.at = "count" /\ loop \in Busy(clock)
    BY <1>5, IsBusy DEF Count, Elsewhere
  <2>2. loop'.at # "count" /\ loop.seen \in Nat
    BY <1>5, <2>1, CountStep, MovedAt DEF Moved, Busy
  <2> QED BY <1>0, <2>1, <2>2 DEF NumbersInv
<1>6. ASSUME UNCHANGED <<reports, inbox, received>>, loop.at # "count", loop'.at # "count"
      PROVE  NumbersInv'
  BY <1>6 DEF NumbersInv
<1>7. CASE Saved
  BY <1>6, <1>7 DEF Saved, Elsewhere, IdleLoop
<1>8. CASE Test
  <2>1. loop.at = "test" /\ loop \in Busy(clock) /\ UNCHANGED <<reports, inbox, received>>
    BY <1>8, IsBusy DEF Test, Elsewhere
  <2>2. loop'.at # "count"
    <3>1. CASE loop' = NextRecord
      BY <2>1, <3>1, MovedNext DEF Moved
    <3>2. CASE loop' = At("create") \/ loop' = At("append") \/ loop' = At("find")
      BY <2>1, <3>2, MovedAt DEF Moved, Saving
    <3> QED BY <1>8, <3>1, <3>2, TestStep
  <2> QED BY <1>6, <2>1, <2>2
<1>9. ASSUME Create \/ Missing \/ Find \/ Lookup \/ Merge \/ MergeRest \/ AppendEntry
      PROVE  NumbersInv'
  <2>1. loop.at \in Saving /\ UNCHANGED <<reports, inbox, received>>
    BY <1>9 DEF Create, Missing, Find, Lookup, Merge, MergeRest, AppendEntry, Elsewhere, Saving
  <2>2. loop \in Busy(clock)
    BY <2>1, IsBusy DEF Saving
  <2> SUFFICES loop'.at # "count"
    BY <1>6, <2>1 DEF Saving
  <2>3. ASSUME NEW label \in Saving \cup {"test", "dead"}, loop' = At(label)
        PROVE  loop'.at # "count"
    BY <2>2, <2>3, MovedAt DEF Moved, Saving
  <2>4. CASE Create
    BY <2>3, <2>4, CreateStep DEF Saving
  <2>5. CASE Missing
    BY <2>3, <2>5 DEF Missing, Saving
  <2>6. CASE Find
    <3>1. KeyOf(record) \in DOMAIN table
      BY <2>6 DEF Find
    <3> QED BY <2>2, <2>3, <2>6, <3>1, FindTyped, MovedFound DEF Moved, Saving
  <2>7. CASE Lookup
    BY <2>2, <2>7, MovedPut DEF Lookup, Moved
  <2>8. CASE MergeRest \/ AppendEntry
    BY <2>2, <2>8, MovedNext DEF MergeRest, AppendEntry, Moved
  <2>9. CASE Merge
    BY <2>3, <2>9 DEF Merge, Saving
  <2> QED BY <1>9, <2>4, <2>5, <2>6, <2>7, <2>8, <2>9
<1>10. ASSUME UNCHANGED <<inbox, loop, reports>>, received' = received \/ received' = 0
       PROVE  NumbersInv'
  BY <1>0, <1>10 DEF NumbersInv
<1>11. CASE UNCHANGED vars
  BY <1>10, <1>11 DEF vars, net_vars, collector_vars
<1>12. CASE \E c \in Conns, inward \in BOOLEAN : Traffic(c, inward)
  BY <1>10, <1>12 DEF Traffic, net_vars, collector_vars
<1>13. CASE Main /\ ~Clear
  <2>1. CASE Ask \/ Publish \/ PrintKey \/ Grown
    BY <1>10, <2>1 DEF Ask, Publish, PrintKey, Grown, MainElsewhere
  <2>2. CASE Processed \/ Output \/ Quit \/ \E k \in DOMAIN table : Process(k)
    BY <1>10, <2>2, OutputApart DEF Processed, Quit, Process, MainElsewhere
  <2> QED BY <1>13, <2>1, <2>2 DEF Main
<1> QED BY <1>1, <1>2, <1>3, <1>4, <1>5, <1>7, <1>8, <1>9, <1>11, <1>12, <1>13
        DEF Next, Loop

LEMMA MainNext == HeldInv /\ MainInv /\ [Next]_vars => MainInv'
<1> SUFFICES ASSUME HeldInv, MainInv, [Next]_vars PROVE MainInv'
  OBVIOUS
<1> DEFINE others == <<options, pressed, stat, main>>
<1>0. ASSUME UNCHANGED others PROVE MainInv'
  BY <1>0 DEF MainInv
<1>1. CASE UNCHANGED vars
  BY <1>0, <1>1 DEF vars, collector_vars
<1>2. CASE \E c \in Conns, inward \in BOOLEAN : Traffic(c, inward)
  BY <1>0, <1>2 DEF Traffic, collector_vars
<1>3. CASE (\E b \in Boxes : Report(b)) \/ Lose
  BY <1>0, <1>3 DEF Report, Lose, collector_vars
<1>4. CASE Loop
  BY <1>0, <1>4 DEF Loop, Arrive, Count, Test, Create, Missing, Find, Lookup, Merge, MergeRest,
                    AppendEntry, Saved, Elsewhere
<1>5. ASSUME Press PROVE pressed' \in 0..MaxKeys
  BY <1>5, BoundsAssumption DEF Press, MainInv
<1>6. CASE Ask \/ PrintKey \/ Quit
  BY <1>5, <1>6 DEF Ask, PrintKey, Quit, MainElsewhere, MainInv
<1>7. CASE Clear \/ Publish
  BY <1>7 DEF Clear, Publish, MainElsewhere, MainInv, Nothing, IdleMain
<1>8. CASE Grown \/ Processed
  <2>1. UNCHANGED <<options, pressed, stat>>
    BY <1>8 DEF Grown, Processed, MainElsewhere
  <2>2. CASE Grown
    BY <2>1, <2>2 DEF Grown, MainInv
  <2>3. CASE Processed
    BY <2>1, <2>3 DEF Processed, MainInv, Printing
  <2> QED BY <1>8, <2>2, <2>3
<1>10. CASE Output
  BY <1>10, OutputApart DEF MainInv
<1>9. ASSUME NEW k \in DOMAIN table, Process(k) PROVE MainInv'
  <2>1. k \in Keys
    BY DEF HeldInv, TableTyped
  <2> QED BY <1>9, <2>1 DEF Process, MainElsewhere, MainInv, Put
<1> QED BY <1>1, <1>2, <1>3, <1>4, <1>6, <1>7, <1>8, <1>9, <1>10 DEF Next, Main

LEMMA HeldInit == Init => HeldInv /\ NumbersInv /\ MainInv
<1> SUFFICES ASSUME Init PROVE HeldInv /\ NumbersInv /\ MainInv
  OBVIOUS
<1>1. CountedInv
  BY BoundsAssumption, BegunAssumption DEF Init, CountedInv, CountedOK, Figures
<1>2. LoopTyped /\ TableTyped /\ inbox \in Seq(Messages(clock)) /\ Len(inbox) = 0
  BY DEF Init, LoopTyped, TableTyped, Nothing, Empty
<1>3. NumbersInv
  BY <1>2, BoundsAssumption DEF Init, NumbersInv, IdleLoop
<1>4. MainInv
  BY BoundsAssumption DEF Init, MainInv, IdleMain, Nothing
<1> QED BY <1>1, <1>2, <1>3, <1>4 DEF HeldInv, Init

(* The reports, the table and the two threads are what the boxes' figures and *)
(* the keys can make them: no entry ends before it began, no more reports are *)
(* counted than were sent (mqtt_client.py:171-222, 376-414).                  *)
THEOREM CollectorTyped == Spec => []TypeOK
<1>1. HeldInv /\ NumbersInv /\ MainInv => TypeOK
  <2> SUFFICES ASSUME HeldInv, NumbersInv, MainInv PROVE TypeOK
    OBVIOUS
  <2>1. /\ clock \in Start..MaxClock
        /\ \A c \in DOMAIN counted :
              /\ c \in Conns
              /\ counted[c].recv + counted[c].send \in 1..clock
              /\ 0 <= counted[c].create /\ counted[c].create <= counted[c].end
              /\ counted[c].end < clock
    BY DEF HeldInv, CountedInv, CountedOK, Figures
  <2>2. \A k \in DOMAIN table : \A n \in DOMAIN table[k] :
            LET e == table[k][n]
            IN  0 <= e.create /\ e.create <= e.end /\ e.end < clock
    <3> SUFFICES ASSUME NEW k \in DOMAIN table, NEW n \in DOMAIN table[k]
                 PROVE  LET e == table[k][n]
                        IN  0 <= e.create /\ e.create <= e.end /\ e.end < clock
      OBVIOUS
    <3>1. table[k][n] \in Entries(clock)
      BY DEF HeldInv, TableTyped
    <3> QED BY <3>1 DEF Entries
  <2>3. DOMAIN table \subseteq Keys
    BY DEF HeldInv, TableTyped
  <2>4. received \in 0..MaxReports
    <3>1. Len(inbox) \in Nat
      BY DEF HeldInv
    <3> QED BY <3>1, BoundsAssumption DEF NumbersInv
  <2>5. loop.at \in {"idle", "count", "test", "create", "find", "append", "merge",
                     "merge_rest", "put", "dead"}
    BY DEF HeldInv, LoopTyped, IdleLoop, Busy
  <2> QED BY <2>1, <2>2, <2>3, <2>4, <2>5 DEF NumbersInv, MainInv, TypeOK, Printing
<1> QED BY <1>1, HeldInit, HeldNext, NumbersNext, MainNext, PTL DEF Spec

-----------------------------------------------------------------------------
(* What the table holds of the reports *)

Going == Saving \cup {"count", "test"}

Outers == {c.outer : c \in Conns}

(* What the records of the message at hand that are done have of k and o.    *)
Part(k, o) ==
    SumFunction([n \in 1..loop.next - 1 |-> Share(k, o, loop.msg.records[n])])

(* Where the receiving thread is, and what it holds of the table.            *)
PlaceInv ==
    /\ loop.at \in Going => loop.next <= Len(loop.msg.records) + 1
    /\ loop.at = "count" => loop.next = 1
    /\ loop.at \in Saving => InNet(record)
    /\ loop.at \in Going /\ ~loop.across => ~loop.old
    /\ loop.at = "create" => KeyOf(record) \notin DOMAIN table
    /\ loop.at = "put" /\ ~loop.old => KeyOf(record) \in DOMAIN table
    /\ loop.at \in {"merge", "merge_rest"} /\ ~loop.old =>
          /\ KeyOf(record) \in DOMAIN table
          /\ loop.entry \in OfOuter(table[KeyOf(record)])

(* Of a record that is being merged, what it received is done first.         *)
Got(k, o, r) == IF KeyOf(r) = k /\ r.outer = o /\ InNet(r) THEN r.recv ELSE 0
Gave(k, o, r) == IF KeyOf(r) = k /\ r.outer = o /\ InNet(r) THEN r.send ELSE 0

Half(k, o) == IF loop.at = "merge_rest" THEN Got(k, o, record) ELSE 0

(* The table has the messages handled and what is done of the one at hand,   *)
(* unless it has been cleared since that one came.                           *)
Balanced(k, o) ==
    /\ loop.at = "idle" =>
          /\ Reported(k, o, handled) <= Listed(k, o)
          /\ Listed(k, o) <= Reported(k, o, handled) + Reported(k, o, across)
    /\ loop.at \in Going =>
          /\ ~loop.across =>
                Reported(k, o, handled) + Part(k, o) + Half(k, o) <= Listed(k, o)
          /\ Listed(k, o) <= Reported(k, o, handled) + Reported(k, o, across)
                                + Part(k, o) + Half(k, o)

SumsInv ==
    /\ loop.at \in Going /\ loop.across => handled = Empty /\ across = Empty
    /\ \A k \in Keys : \A o \in Outers : Balanced(k, o)

HistoryTyped == handled \in Seq(Messages(clock)) /\ across \in Seq(Messages(clock))

LEMMA ShareNat ==
    ASSUME NEW t, NEW r \in Records(t), NEW k, NEW o
    PROVE  /\ Share(k, o, r) \in Nat /\ Got(k, o, r) \in Nat /\ Gave(k, o, r) \in Nat
           /\ Share(k, o, r) = Got(k, o, r) + Gave(k, o, r)
<1>1. r.recv \in Nat /\ r.send \in Nat
  BY DEF Records
<1> QED BY <1>1 DEF Share, Got, Gave, Bytes

LEMMA BroughtNat ==
    ASSUME NEW t, NEW m \in Messages(t), NEW k, NEW o
    PROVE  Brought(k, o, m) \in Nat
<1> DEFINE f == [n \in DOMAIN m.records |-> Share(k, o, m.records[n])]
<1>1. m.records \in Seq(Records(t))
  BY DEF Messages
<1>2. DOMAIN m.records = 1..Len(m.records) /\ Len(m.records) \in Nat
  BY <1>1
<1>3. \A n \in DOMAIN m.records : Share(k, o, m.records[n]) \in Nat
  BY <1>1, ShareNat
<1>4. f \in [DOMAIN m.records -> Nat] /\ IsFiniteSet(DOMAIN m.records)
  BY <1>2, <1>3, FS_Interval
<1> HIDE DEF f
<1>5. SumFunction(f) \in Nat
  BY <1>4, SumParts
<1> QED BY <1>5 DEF Brought, f

LEMMA ReportedMore ==
    ASSUME NEW t, NEW ms \in Seq(Messages(t)), NEW k, NEW o
    PROVE  /\ Reported(k, o, ms) \in Nat
           /\ \A m \in Messages(t) :
                 Reported(k, o, Append(ms, m)) = Reported(k, o, ms) + Brought(k, o, m)
<1> DEFINE f == [n \in DOMAIN ms |-> Brought(k, o, ms[n])]
<1>1. DOMAIN ms = 1..Len(ms) /\ Len(ms) \in Nat
  OBVIOUS
<1>2. \A n \in DOMAIN ms : Brought(k, o, ms[n]) \in Nat
  BY BroughtNat
<1>3. f \in [1..Len(ms) -> Nat] /\ IsFiniteSet(1..Len(ms))
  BY <1>1, <1>2, FS_Interval
<1>4. SumFunction(f) \in Nat
  <2> HIDE DEF f
  <2> QED BY <1>3, SumParts
<1>5. ASSUME NEW m \in Messages(t)
      PROVE  Reported(k, o, Append(ms, m)) = Reported(k, o, ms) + Brought(k, o, m)
  <2> DEFINE g == [n \in DOMAIN Append(ms, m) |-> Brought(k, o, Append(ms, m)[n])]
  <2>1. /\ DOMAIN Append(ms, m) = 1..Len(ms) + 1
        /\ \A n \in 1..Len(ms) : Append(ms, m)[n] = ms[n]
        /\ Append(ms, m)[Len(ms) + 1] = m
    BY <1>1
  <2>2. /\ \A n \in 1..Len(ms) : g[n] = f[n]
        /\ g[Len(ms) + 1] = Brought(k, o, m)
    BY <1>1, <2>1
  <2>3. \A n \in 1..Len(ms) + 1 : g[n] \in Nat
    <3>1. Brought(k, o, m) \in Nat
      BY BroughtNat
    <3>2. \A n \in 1..Len(ms) : f[n] \in Nat
      BY <1>3
    <3> HIDE DEF f, g
    <3> QED BY <1>1, <2>2, <3>1, <3>2
  <2>4. g \in [1..Len(ms) + 1 -> Nat]
    <3>1. g = [n \in 1..Len(ms) + 1 |-> g[n]]
      BY <2>1
    <3> HIDE DEF g
    <3> QED BY <2>3, <3>1
  <2> HIDE DEF f, g
  <2>5. SumFunction(g) = SumFunction(f) + g[Len(ms) + 1]
    BY <1>1, <1>3, <2>2, <2>4, SumLonger
  <2> QED BY <2>2, <2>5 DEF Reported, f, g
<1> QED BY <1>4, <1>5 DEF Reported, f

LEMMA ReportedNone ==
    ASSUME NEW k, NEW o
    PROVE  Reported(k, o, Empty) = 0
<1>1. DOMAIN [n \in DOMAIN Empty |-> Brought(k, o, Empty[n])] = {}
  BY DEF Empty
<1> QED BY <1>1, SumNone DEF Reported

(* What a list has of an outer address, and what an entry gives it.          *)
Of(o, e) == IF e.outer = o THEN Bytes(e) ELSE 0

Weights(o, list) == [n \in DOMAIN list |-> Of(o, list[n])]

LEMMA EntryNat ==
    ASSUME NEW t, NEW e \in Entries(t), NEW o
    PROVE  e.recv \in Nat /\ e.send \in Nat /\ Bytes(e) \in Nat /\ Of(o, e) \in Nat
<1>1. e.recv \in Nat /\ e.send \in Nat
  BY DEF Entries
<1> QED BY <1>1 DEF Of, Bytes

LEMMA WeightsNat ==
    ASSUME NEW t, NEW list \in Seq(Entries(t)), NEW o
    PROVE  /\ Weights(o, list) \in [1..Len(list) -> Nat]
           /\ Len(list) \in Nat /\ IsFiniteSet(1..Len(list))
           /\ SumFunction(Weights(o, list)) \in Nat
<1>1. DOMAIN list = 1..Len(list) /\ Len(list) \in Nat /\ IsFiniteSet(1..Len(list))
  BY FS_Interval
<1>2. \A n \in DOMAIN list : Of(o, list[n]) \in Nat
  BY EntryNat
<1>3. Weights(o, list) \in [1..Len(list) -> Nat]
  BY <1>1, <1>2 DEF Weights
<1>4. SumFunction(Weights(o, list)) \in Nat
  BY <1>1, <1>3, SumParts
<1> QED BY <1>1, <1>3, <1>4

LEMMA ListedNat ==
    ASSUME HeldInv, NEW k, NEW o
    PROVE  Listed(k, o) \in Nat
<1>1. CASE k \notin DOMAIN table
  BY <1>1 DEF Listed
<1>2. CASE k \in DOMAIN table
  <2>1. table[k] \in Seq(Entries(clock))
    BY <1>2 DEF HeldInv, TableTyped
  <2>2. Listed(k, o) = SumFunction(Weights(o, table[k]))
    BY <1>2 DEF Listed, Weights, Of
  <2> QED BY <2>1, <2>2, WeightsNat
<1> QED BY <1>1, <1>2

LEMMA ListedNext == HeldInv /\ [Next]_vars => (\A k, o : Listed(k, o) \in Nat)'
<1>1. HeldInv => \A k, o : Listed(k, o) \in Nat
  BY ListedNat
<1> QED BY <1>1, HeldNext, PTL

LEMMA ListLonger ==
    ASSUME NEW t, NEW list \in Seq(Entries(t)), NEW e \in Entries(t), NEW o
    PROVE  SumFunction(Weights(o, Append(list, e)))
              = SumFunction(Weights(o, list)) + Of(o, e)
<1> DEFINE longer == Append(list, e)
<1>1. /\ Len(list) \in Nat /\ DOMAIN longer = 1..Len(list) + 1
      /\ \A n \in 1..Len(list) : longer[n] = list[n] /\ n \in DOMAIN list
      /\ longer[Len(list) + 1] = e
  OBVIOUS
<1>2. longer \in Seq(Entries(t)) /\ Len(longer) = Len(list) + 1
  OBVIOUS
<1> HIDE DEF longer
<1>3. Weights(o, list) \in [1..Len(list) -> Nat]
  BY WeightsNat
<1>4. Weights(o, longer) \in [1..Len(list) + 1 -> Nat]
  BY <1>2, WeightsNat
<1>5. /\ \A n \in 1..Len(list) : Weights(o, longer)[n] = Weights(o, list)[n]
      /\ Weights(o, longer)[Len(list) + 1] = Of(o, e)
  BY <1>1 DEF Weights
<1>6. SumFunction(Weights(o, longer))
          = SumFunction(Weights(o, list)) + Weights(o, longer)[Len(list) + 1]
  BY <1>1, <1>3, <1>4, <1>5, SumLonger
<1> QED BY <1>5, <1>6 DEF longer

GrewBy(more, o, list, changed) ==
    SumFunction(Weights(o, changed)) = SumFunction(Weights(o, list)) + more

LEMMA Differ == \A a, b, c, d, m \in Nat : a + c = b + d /\ d = c + m => a = b + m
  OBVIOUS

LEMMA ListChanged ==
    ASSUME NEW t \in Nat, NEW list \in Seq(Entries(t)), NEW i \in DOMAIN list,
           NEW e \in Entries(t), NEW o, NEW more \in Nat,
           Of(o, e) = Of(o, list[i]) + more,
           NEW changed, changed = [list EXCEPT ![i] = e]
    PROVE  GrewBy(more, o, list, changed)
<1>1. /\ list[i] \in Entries(t) /\ DOMAIN list = 1..Len(list) /\ Len(list) \in Nat
      /\ i \in 1..Len(list)
  OBVIOUS
<1>2. /\ DOMAIN changed = 1..Len(list)
      /\ \A n \in 1..Len(list) : n # i => changed[n] = list[n]
      /\ changed[i] = e
  BY <1>1
<1>5. Of(o, changed[i]) = Of(o, list[i]) + more /\ Of(o, list[i]) \in Nat
      /\ Of(o, changed[i]) \in Nat
  BY <1>1, <1>2, EntryNat
<1>6. Weights(o, list) \in [1..Len(list) -> Nat] /\ IsFiniteSet(1..Len(list))
      /\ SumFunction(Weights(o, list)) \in Nat
  BY WeightsNat
<1>7. /\ \A n \in 1..Len(list) \ {i} : Weights(o, changed)[n] = Weights(o, list)[n]
      /\ Weights(o, changed)[i] = Of(o, changed[i])
      /\ Weights(o, list)[i] = Of(o, list[i])
      /\ Weights(o, changed) = [n \in 1..Len(list) |-> Weights(o, changed)[n]]
  BY <1>1, <1>2 DEF Weights
<1>8. Weights(o, changed) \in [1..Len(list) -> Nat]
  <2>1. \A n \in 1..Len(list) : Weights(o, changed)[n] \in Nat
    <3>1. Weights(o, changed)[i] \in Nat
      BY <1>5, <1>7
    <3>2. \A n \in 1..Len(list) : Weights(o, list)[n] \in Nat
      BY <1>6
    <3> QED BY <1>7, <3>1, <3>2
  <2> QED BY <1>7, <2>1
<1>9. /\ SumFunction(Weights(o, changed)) + Weights(o, list)[i]
            = SumFunction(Weights(o, list)) + Weights(o, changed)[i]
      /\ SumFunction(Weights(o, changed)) \in Nat
  <2> DEFINE S == 1..Len(list)
             f == Weights(o, list)
             g == Weights(o, changed)
  <2>1. /\ IsFiniteSet(S) /\ f \in [S -> Nat] /\ g \in [S -> Nat] /\ i \in S
        /\ \A x \in S \ {i} : g[x] = f[x]
    BY <1>1, <1>6, <1>7, <1>8
  <2> HIDE DEF S, f, g
  <2>2. DifferBy(f, g, i)
    BY <2>1, SumChanged
  <2>3. SumFunction(g) + f[i] = SumFunction(f) + g[i] /\ SumFunction(g) \in Nat
    BY <2>2 DEF DifferBy
  <2> QED BY <2>3 DEF f, g
<1>10. /\ SumFunction(Weights(o, changed)) + Of(o, list[i])
             = SumFunction(Weights(o, list)) + Of(o, changed[i])
  BY <1>7, <1>9
<1> DEFINE A == SumFunction(Weights(o, changed))
           B == SumFunction(Weights(o, list))
           C == Of(o, list[i])
           D == Of(o, changed[i])
<1>11. /\ A \in Nat /\ B \in Nat /\ C \in Nat /\ D \in Nat /\ more \in Nat
       /\ A + C = B + D /\ D = C + more
  BY <1>5, <1>6, <1>9, <1>10
<1> HIDE DEF A, B, C, D
<1>12. A = B + more
  BY <1>11, Differ
<1> QED BY <1>12 DEF A, B, GrewBy

-----------------------------------------------------------------------------
LEMMA HalfNat ==
    ASSUME HeldInv, NEW k, NEW o
    PROVE  /\ Half(k, o) \in Nat
           /\ loop.at # "merge_rest" => Half(k, o) = 0
  BY IsBusy, ShareNat DEF Half, Saving

LEMMA PartSum ==
    ASSUME HeldInv, loop \in Busy(clock), loop.next <= Len(loop.msg.records) + 1,
           NEW k, NEW o
    PROVE  /\ Part(k, o) \in Nat
           /\ loop.next = 1 => Part(k, o) = 0
           /\ loop.next > Len(loop.msg.records) => Part(k, o) = Brought(k, o, loop.msg)
<1> DEFINE rs == loop.msg.records
           n == loop.next - 1
           f == [i \in 1..n |-> Share(k, o, rs[i])]
<1>1. /\ rs \in Seq(Records(clock)) /\ DOMAIN rs = 1..Len(rs) /\ Len(rs) \in Nat
      /\ n \in Nat /\ n <= Len(rs) /\ loop.next = n + 1
  BY DEF Busy, Messages
<1> HIDE DEF rs, n
<1>2. \A i \in 1..n : rs[i] \in Records(clock)
  BY <1>1
<1>3. \A i \in 1..n : Share(k, o, rs[i]) \in Nat
  BY <1>2, ShareNat
<1>4. f \in [1..n -> Nat] /\ IsFiniteSet(1..n)
  <2>1. IsFiniteSet(1..n)
    BY <1>1, FS_Interval
  <2> QED BY <1>3, <2>1
<1>5. Part(k, o) = SumFunction(f)
  BY DEF Part, rs, n
<1>6. Part(k, o) \in Nat
  <2> HIDE DEF f
  <2> QED BY <1>4, <1>5, SumParts
<1>7. ASSUME loop.next = 1 PROVE Part(k, o) = 0
  <2>0. 1..n = {}
    BY <1>1, <1>7
  <2>1. DOMAIN f = {}
    BY <2>0
  <2> HIDE DEF f
  <2> QED BY <1>5, <2>1, SumNone
<1>8. ASSUME loop.next > Len(rs) PROVE Part(k, o) = Brought(k, o, loop.msg)
  <2>1. n = Len(rs)
    <3> HIDE DEF f
    <3>1. n + 1 > Len(rs) /\ n \in Nat /\ Len(rs) \in Nat /\ n <= Len(rs)
      BY <1>1, <1>8
    <3>2. \A x, y \in Nat : y + 1 > x /\ y <= x => y = x
      OBVIOUS
    <3> QED BY <3>1, <3>2
  <2>2. f = [i \in DOMAIN rs |-> Share(k, o, rs[i])]
    BY <1>1, <2>1
  <2> QED BY <1>5, <2>2 DEF Brought, rs
<1> QED BY <1>6, <1>7, <1>8 DEF rs

(* One record more is done.                                                  *)
LEMMA PartNext ==
    ASSUME HeldInv, loop \in Busy(clock), loop.next <= Len(loop.msg.records),
           loop' = NextRecord, NEW k, NEW o
    PROVE  /\ Part(k, o)' = Part(k, o) + Share(k, o, record)
           /\ Share(k, o, record) \in Nat /\ Half(k, o)' = 0
<1> DEFINE rs == loop.msg.records
           n == loop.next - 1
           f == [i \in 1..n |-> Share(k, o, rs[i])]
           g == [i \in 1..n + 1 |-> Share(k, o, rs[i])]
<1>1. /\ rs \in Seq(Records(clock)) /\ DOMAIN rs = 1..Len(rs) /\ Len(rs) \in Nat
      /\ n \in Nat /\ n + 1 <= Len(rs) /\ n + 1 = loop.next
  BY DEF Busy, Messages
<1> HIDE DEF rs, n
<1>2. \A i \in 1..n + 1 : rs[i] \in Records(clock)
  BY <1>1
<1>3. \A i \in 1..n + 1 : Share(k, o, rs[i]) \in Nat
  BY <1>2, ShareNat
<1>4. /\ f \in [1..n -> Nat] /\ g \in [1..n + 1 -> Nat]
      /\ \A i \in 1..n : g[i] = f[i]
      /\ g[n + 1] = Share(k, o, rs[n + 1])
  BY <1>1, <1>3
<1>5. Part(k, o) = SumFunction(f)
  BY DEF Part, rs, n
<1>6. Part(k, o)' = SumFunction(g)
  <2>1. loop'.next - 1 = n + 1 /\ loop'.msg = loop.msg
    BY <1>1, MovedNext DEF Moved, rs
  <2>2. Part(k, o)' = SumFunction([i \in 1..loop'.next - 1 |->
                                       Share(k, o, loop'.msg.records[i])])
    BY DEF Part
  <2> QED BY <2>1, <2>2 DEF rs
<1> HIDE DEF f, g
<1>7. SumFunction(g) = SumFunction(f) + g[n + 1]
  BY <1>1, <1>4, SumLonger
<1>8. rs[n + 1] = record
  BY <1>1 DEF record, rs
<1>9. Half(k, o)' = 0
  BY MovedNext DEF Moved, Half
<1> QED BY <1>1, <1>3, <1>4, <1>5, <1>6, <1>7, <1>8, <1>9

(* Merging a record, in its two parts, or making an entry of it brings the   *)
(* table what it has.                                                        *)
LEMMA Brings ==
    ASSUME HeldInv, PlaceInv, Merge \/ MergeRest \/ AppendEntry, ~loop.old, NEW k, NEW o
    PROVE  /\ Merge => Listed(k, o)' = Listed(k, o) + Got(k, o, record)
           /\ MergeRest => Listed(k, o)' = Listed(k, o) + Gave(k, o, record)
           /\ AppendEntry => Listed(k, o)' = Listed(k, o) + Share(k, o, record)
<1> DEFINE K == KeyOf(record)
           More(x) == IF K = k /\ record.outer = o THEN x ELSE 0
<1>1. /\ record \in Records(clock) /\ InNet(record) /\ K \in DOMAIN table
      /\ clock \in Nat /\ loop.at \in Saving
  BY IsBusy, BoundsAssumption
     DEF Merge, MergeRest, AppendEntry, Saving, PlaceInv, HeldInv, CountedInv
<1>2. table[K] \in Seq(Entries(clock))
  BY <1>1 DEF HeldInv, TableTyped
<1>3. /\ Got(k, o, record) = More(record.recv) /\ Gave(k, o, record) = More(record.send)
      /\ Share(k, o, record) = More(Bytes(record))
      /\ record.recv \in Nat /\ record.send \in Nat
  BY <1>1 DEF Got, Gave, Share, Records
<1>4. /\ DOMAIN table' = DOMAIN table
      /\ \A x \in DOMAIN table : x # K => table'[x] = table[x]
  BY DEF Merge, MergeRest, AppendEntry
<1>5. ASSUME NEW x \in Nat, NEW y, y = IF record.outer = o THEN x ELSE 0,
             SumFunction(Weights(o, table'[K])) = SumFunction(Weights(o, table[K])) + y
      PROVE  Listed(k, o)' = Listed(k, o) + More(x)
  <2>1. \A z \in DOMAIN table : /\ Listed(z, o) = SumFunction(Weights(o, table[z]))
                                /\ Listed(z, o)' = SumFunction(Weights(o, table'[z]))
    BY <1>4 DEF Listed, Weights, Of
  <2>2. CASE k = K
    BY <1>1, <1>5, <2>1, <2>2
  <2>3. CASE k # K
    <3>1. Listed(k, o)' = Listed(k, o)
      BY <1>4, <2>1, <2>3 DEF Listed
    <3>2. Listed(k, o) \in Nat
      BY ListedNat
    <3> QED BY <2>3, <3>1, <3>2
  <2> QED BY <2>2, <2>3
<1>6. ASSUME NEW e \in Entries(clock), NEW x \in Nat, Merge \/ MergeRest,
             table' = [table EXCEPT ![K][loop.entry] = e],
             e.outer = table[K][loop.entry].outer,
             Bytes(e) = Bytes(table[K][loop.entry]) + x
      PROVE  Listed(k, o)' = Listed(k, o) + More(x)
  <2>1. loop.entry \in DOMAIN table[K] /\ table[K][loop.entry].outer = record.outer
    BY <1>6 DEF Merge, MergeRest, PlaceInv, OfOuter
  <2>2. table'[K] = [table[K] EXCEPT ![loop.entry] = e]
    BY <1>1, <1>6
  <2>3. PICK y : y = IF record.outer = o THEN x ELSE 0
    OBVIOUS
  <2>4. SumFunction(Weights(o, table'[K])) = SumFunction(Weights(o, table[K])) + y
    <3> DEFINE list == table[K]
               changed == table'[K]
    <3>1. /\ list \in Seq(Entries(clock)) /\ loop.entry \in DOMAIN list
          /\ changed = [list EXCEPT ![loop.entry] = e] /\ clock \in Nat
      BY <1>1, <1>2, <1>6, <2>1, <2>2
    <3> HIDE DEF list, changed
    <3>2. GrewBy(y, o, list, changed)
      <4>1. Of(o, e) = Of(o, list[loop.entry]) + y /\ y \in Nat
        <5>1. /\ e.outer = record.outer /\ list[loop.entry].outer = record.outer
              /\ Bytes(e) = Bytes(list[loop.entry]) + x
          BY <1>6, <2>1 DEF list
        <5> QED BY <2>3, <5>1 DEF Of
      <4> QED BY <3>1, <4>1, ListChanged
    <3> QED BY <3>2 DEF list, changed, GrewBy
  <2> QED BY <1>5, <2>3, <2>4
<1> HIDE DEF More
<1>7. CASE Merge \/ MergeRest
  <2> DEFINE old == table[K][loop.entry]
  <2>1. loop.entry \in DOMAIN table[K]
    BY <1>7 DEF Merge, MergeRest, PlaceInv, OfOuter
  <2>2. old \in Entries(clock)
    BY <1>2, <2>1
  <2>3. /\ Merge => table' = [table EXCEPT ![K][loop.entry] = MergedRecv(old, record)]
        /\ MergeRest => table' = [table EXCEPT ![K][loop.entry] = MergedRest(old, record)]
    BY DEF Merge, MergeRest
  <2> HIDE DEF old
  <2>4. /\ MergedRecv(old, record) \in Entries(clock)
        /\ MergedRecv(old, record).outer = old.outer
        /\ Bytes(MergedRecv(old, record)) = Bytes(old) + record.recv
    <3>1. old.recv \in Nat /\ old.send \in Nat
      BY <2>2, EntryNat
    <3> QED BY <1>1, <1>3, <2>2, <3>1, RecvTyped DEF Bytes
  <2>5. /\ MergedRest(old, record) \in Entries(clock)
        /\ MergedRest(old, record).outer = old.outer
        /\ Bytes(MergedRest(old, record)) = Bytes(old) + record.send
    <3>1. old.recv \in Nat /\ old.send \in Nat
      BY <2>2, EntryNat
    <3> QED BY <1>1, <1>3, <2>2, <3>1, RestTyped DEF Bytes
  <2>6. Merge => Listed(k, o)' = Listed(k, o) + Got(k, o, record)
    BY <1>3, <1>6, <2>3, <2>4 DEF old
  <2>7. MergeRest => Listed(k, o)' = Listed(k, o) + Gave(k, o, record)
    BY <1>3, <1>6, <2>3, <2>5 DEF old
  <2>8. ~AppendEntry
    BY <1>7 DEF Merge, MergeRest, AppendEntry
  <2> QED BY <2>6, <2>7, <2>8
<1>8. CASE AppendEntry
  <2>1. table'[K] = Append(table[K], Entry(record))
    BY <1>1, <1>8 DEF AppendEntry
  <2>2. /\ Entry(record) \in Entries(clock)
        /\ Of(o, Entry(record)) = IF record.outer = o THEN Bytes(record) ELSE 0
    BY <1>1, EntryTyped DEF Of
  <2>3. SumFunction(Weights(o, table'[K])) = SumFunction(Weights(o, table[K]))
                                                + Of(o, Entry(record))
    BY <1>2, <2>1, <2>2, ListLonger
  <2>4. Bytes(record) \in Nat
    BY <1>3 DEF Bytes
  <2>5. ~Merge /\ ~MergeRest
    BY <1>8 DEF Merge, MergeRest, AppendEntry
  <2> QED BY <1>3, <1>5, <2>2, <2>3, <2>4, <2>5
<1> QED BY <1>7, <1>8

LEMMA PlaceInit == Init => PlaceInv
  BY DEF Init, PlaceInv, IdleLoop, Going, Saving

LEMMA PlaceNext == HeldInv /\ PlaceInv /\ [Next]_vars => PlaceInv'
<1> SUFFICES ASSUME HeldInv, PlaceInv, [Next]_vars PROVE PlaceInv'
  OBVIOUS
<1> USE DEF Going, Saving
<1>1. CASE Apart
  BY <1>1 DEF Apart, PlaceInv, record, KeyOf, OfOuter
<1>2. CASE Clear
  <2>1. CASE loop.at = "idle"
    BY <1>2, <2>1, ClearTyped DEF PlaceInv
  <2>2. CASE loop.at # "idle"
    <3>1. record' = record
      BY <1>2, <2>2, ClearTyped DEF record
    <3>2. /\ table' = Nothing /\ loop'.at = loop.at /\ loop'.next = loop.next
          /\ loop'.msg = loop.msg /\ loop'.old /\ loop'.across
      BY <1>2, <2>2, ClearTyped DEF Clear
    <3> QED BY <3>1, <3>2 DEF PlaceInv, Nothing, InNet
  <2> QED BY <2>1, <2>2
<1>3. CASE Arrive
  <2>1. loop' = [at |-> "count", msg |-> Head(inbox), next |-> 1, old |-> FALSE,
                 seen |-> received, across |-> FALSE, entry |-> 0]
    BY <1>3 DEF Arrive
  <2>2. Head(inbox) \in Messages(clock)
    BY <1>3 DEF Arrive, Empty, HeldInv
  <2>3. Len(Head(inbox).records) \in Nat
    BY <2>2 DEF Messages
  <2>4. /\ loop'.at = "count" /\ loop'.next = 1 /\ ~loop'.old
        /\ loop'.msg = Head(inbox)
    BY <2>1
  <2> QED BY <2>3, <2>4 DEF PlaceInv
<1>4. CASE Saved
  BY <1>4 DEF Saved, PlaceInv, IdleLoop
<1>5. ASSUME loop.at \in Going, loop' = NextRecord,
             loop.next <= Len(loop.msg.records)
      PROVE  PlaceInv'
  <2>1. /\ loop \in Busy(clock)
    BY <1>5, IsBusy
  <2>2. /\ loop'.at = "test" /\ loop'.next = loop.next + 1 /\ loop'.msg = loop.msg
        /\ loop'.across = loop.across /\ loop'.old = loop.old
    BY <1>5, <2>1, MovedNext DEF Moved
  <2>3. loop.next \in Nat /\ Len(loop.msg.records) \in Nat
    BY <2>1 DEF Busy, Messages
  <2> QED BY <1>5, <2>2, <2>3 DEF PlaceInv
<1>6. ASSUME NEW label \in {"create", "find", "append"}, loop' = At(label),
             loop.at \in Going, InNet(record), loop.next <= Len(loop.msg.records),
             label = "create" => KeyOf(record) \notin DOMAIN table'
      PROVE  PlaceInv'
  <2>1. loop \in Busy(clock)
    BY <1>6, IsBusy
  <2>2. /\ loop'.at = label /\ loop'.next = loop.next /\ loop'.msg = loop.msg
        /\ loop'.across = loop.across /\ loop'.old = loop.old
    BY <1>6, <2>1, MovedAt DEF Moved
  <2>3. record' = record
    BY <2>2 DEF record
  <2>4. loop.next \in Nat /\ Len(loop.msg.records) \in Nat
    BY <2>1 DEF Busy, Messages
  <2> QED BY <1>6, <2>2, <2>3, <2>4 DEF PlaceInv, InNet, KeyOf
<1>7. CASE Count
  <2>1. loop \in Busy(clock) /\ loop.at = "count"
    BY <1>7, IsBusy DEF Count
  <2>2. /\ loop'.at \in {"dead", "test"} /\ loop'.next = loop.next /\ loop'.msg = loop.msg
        /\ loop'.across = loop.across /\ loop'.old = loop.old
    BY <1>7, <2>1, CountStep, MovedAt DEF Moved
  <2> QED BY <2>1, <2>2 DEF PlaceInv
<1>8. CASE Test
  <2>1. loop.at = "test" /\ loop.next <= Len(loop.msg.records) /\ UNCHANGED table
    BY <1>8 DEF Test, Elsewhere
  <2>2. \/ loop' = NextRecord
        \/ /\ InNet(record)
           /\ \/ KeyOf(record) \notin DOMAIN table /\ loop' = At("create")
              \/ loop' = At("append")
              \/ loop' = At("find")
    <3>1. CASE options.port
      BY <1>8, <3>1 DEF Test
    <3>2. CASE ~options.port
      BY <1>8, <3>2 DEF Test
    <3> QED BY <3>1, <3>2
  <2> QED BY <1>5, <1>6, <2>1, <2>2
<1>9. CASE Create
  <2>1. InNet(record) /\ loop.next <= Len(loop.msg.records) /\ loop.at \in Going
    BY <1>9, IsBusy DEF Create, PlaceInv
  <2> QED BY <1>6, <1>9, <2>1, CreateStep
<1>10. CASE Missing
  <2>1. loop \in Busy(clock)
    BY <1>10, IsBusy DEF Missing
  <2>2. loop'.at = "dead"
    BY <1>10, <2>1, MovedAt DEF Missing, Moved
  <2> QED BY <2>2 DEF PlaceInv
<1>11. CASE Find
  <2>1. /\ InNet(record) /\ loop.next <= Len(loop.msg.records) /\ loop.at \in Going
        /\ loop \in Busy(clock) /\ KeyOf(record) \in DOMAIN table /\ UNCHANGED table
    BY <1>11, IsBusy DEF Find, PlaceInv, Elsewhere
  <2>2. CASE loop' = At("append")
    BY <1>6, <2>1, <2>2
  <2>3. ASSUME NEW n \in OfOuter(table[KeyOf(record)]), n \in Nat, Found(n)
        PROVE  PlaceInv'
    <3>1. /\ loop'.at = "merge" /\ loop'.next = loop.next /\ loop'.msg = loop.msg
          /\ loop'.across = loop.across /\ ~loop'.old /\ loop'.entry = n
      BY <2>1, <2>3, MovedFound DEF Moved
    <3>2. record' = record
      BY <3>1 DEF record
    <3>3. OfOuter(table[KeyOf(record)])' = OfOuter(table[KeyOf(record)])
      BY <2>1, <3>2 DEF OfOuter, KeyOf
    <3>4. loop.next \in Nat /\ Len(loop.msg.records) \in Nat
      BY <2>1 DEF Busy, Messages
    <3> QED BY <2>1, <2>3, <3>1, <3>2, <3>3, <3>4 DEF PlaceInv, InNet, KeyOf
  <2> QED BY <1>11, <2>1, <2>2, <2>3, FindTyped
<1>12. CASE Lookup
  <2>1. /\ InNet(record) /\ loop.next <= Len(loop.msg.records)
        /\ loop \in Busy(clock) /\ KeyOf(record) \in DOMAIN table /\ UNCHANGED table
    BY <1>12, IsBusy DEF Lookup, PlaceInv, Elsewhere
  <2>2. /\ loop'.at = "put" /\ loop'.next = loop.next /\ loop'.msg = loop.msg
        /\ loop'.across = loop.across /\ ~loop'.old
    BY <1>12, <2>1, MovedPut DEF Moved, Lookup
  <2>3. record' = record
    BY <2>2 DEF record
  <2>4. loop.next \in Nat /\ Len(loop.msg.records) \in Nat
    BY <2>1 DEF Busy, Messages
  <2> QED BY <2>1, <2>2, <2>3, <2>4 DEF PlaceInv, InNet, KeyOf
<1>13. CASE MergeRest \/ AppendEntry
  <2>1. loop.at \in Going /\ loop.next <= Len(loop.msg.records) /\ loop' = NextRecord
    BY <1>13, IsBusy DEF MergeRest, AppendEntry
  <2> QED BY <1>5, <2>1
<1>14. CASE Merge
  <2> DEFINE K == KeyOf(record)
  <2>1. /\ InNet(record) /\ loop.next <= Len(loop.msg.records)
        /\ loop \in Busy(clock) /\ loop.at = "merge"
    BY <1>14, IsBusy DEF Merge, PlaceInv
  <2>2. /\ loop'.at = "merge_rest" /\ loop'.next = loop.next /\ loop'.msg = loop.msg
        /\ loop'.across = loop.across /\ loop'.old = loop.old /\ loop'.entry = loop.entry
    BY <1>14, <2>1, MovedAt DEF Moved, Merge
  <2>3. record' = record
    BY <2>2 DEF record
  <2>4. loop.next \in Nat /\ Len(loop.msg.records) \in Nat
    BY <2>1 DEF Busy, Messages
  <2>5. ASSUME ~loop.old
        PROVE  K \in DOMAIN table' /\ loop.entry \in OfOuter(table[K])'
    <3>1. K \in DOMAIN table /\ loop.entry \in OfOuter(table[K])
      BY <2>1, <2>5 DEF PlaceInv
    <3>2. /\ table[K] \in Seq(Entries(clock)) /\ loop.entry \in DOMAIN table[K]
          /\ table[K][loop.entry].outer = record.outer
      BY <3>1 DEF HeldInv, TableTyped, OfOuter
    <3>3. DOMAIN table' = DOMAIN table
          /\ table'[K] = [table[K] EXCEPT ![loop.entry] =
                              MergedRecv(table[K][loop.entry], record)]
      BY <1>14, <2>5, <3>1 DEF Merge
    <3>4. "outer" \in DOMAIN table[K][loop.entry]
      <4>1. \A e \in Entries(clock) : "outer" \in DOMAIN e
        BY DEF Entries
      <4> QED BY <3>2, <4>1
    <3>5. DOMAIN table'[K] = DOMAIN table[K] /\ table'[K][loop.entry].outer = record.outer
      BY <3>2, <3>3, <3>4, MergedOuter
    <3>6. K' = K
      BY <2>3 DEF KeyOf
    <3> HIDE DEF K
    <3>7. OfOuter(table[K])' = {n \in DOMAIN table'[K] : table'[K][n].outer = record.outer}
      BY <2>3, <3>6 DEF OfOuter
    <3> QED BY <3>1, <3>2, <3>3, <3>5, <3>7
  <2>6. K' = K
    BY <2>3 DEF KeyOf
  <2> HIDE DEF K
  <2> QED BY <2>1, <2>2, <2>3, <2>4, <2>5, <2>6 DEF PlaceInv, InNet, K
<1> QED BY <1>1, <1>2, <1>3, <1>4, <1>7, <1>8, <1>9, <1>10, <1>11, <1>12, <1>13, <1>14, Steps
        DEF Loop

(* The steps that leave the table, the thread and the histories alone.       *)
LEMMA SumsSteps ==
    ASSUME [Next]_vars
    PROVE  UNCHANGED <<table, loop, handled, across>> \/ Clear \/ Loop
<1>1. CASE UNCHANGED vars
  BY <1>1 DEF vars, collector_vars, history_vars
<1>2. CASE \E c \in Conns, inward \in BOOLEAN : Traffic(c, inward)
  BY <1>2 DEF Traffic, collector_vars, history_vars
<1>3. CASE (\E b \in Boxes : Report(b)) \/ Lose
  BY <1>3 DEF Report, Lose, collector_vars, history_vars
<1>4. CASE Main /\ ~Clear
  <2>1. CASE Ask \/ Publish \/ PrintKey \/ Grown
    BY <2>1 DEF Ask, Publish, PrintKey, Grown, MainElsewhere
  <2>2. CASE Processed \/ Output \/ Quit \/ \E k \in DOMAIN table : Process(k)
    BY <2>2, OutputApart DEF Processed, Quit, Process, MainElsewhere, box_vars
  <2> QED BY <1>4, <2>1, <2>2 DEF Main
<1> QED BY <1>1, <1>2, <1>3, <1>4 DEF Next

LEMMA HistoryNext == HeldInv /\ HistoryTyped /\ [Next]_vars => HistoryTyped'
<1> SUFFICES ASSUME HeldInv, HistoryTyped, [Next]_vars PROVE HistoryTyped'
  OBVIOUS
<1>1. clock \in Nat /\ clock' \in Nat /\ clock <= clock'
  BY CountedNext, BoundsAssumption DEF HeldInv, CountedInv
<1>2. Messages(clock) \subseteq Messages(clock')
  BY <1>1, Later
<1>3. handled \in Seq(Messages(clock')) /\ across \in Seq(Messages(clock'))
  BY <1>2, SeqLarger DEF HistoryTyped
<1>4. CASE Clear
  BY <1>4 DEF Clear, Empty, HistoryTyped
<1>5. CASE Saved
  <2>1. loop.msg \in Messages(clock')
    BY <1>2, <1>5, IsBusy DEF Saved, Busy
  <2>2. CASE loop.across
    <3>1. <<loop.msg>> \in Seq(Messages(clock'))
      BY <2>1
    <3>2. across' = <<loop.msg>> /\ handled' = handled
      BY <1>5, <2>2 DEF Saved
    <3> QED BY <1>3, <3>1, <3>2 DEF HistoryTyped
  <2>3. CASE ~loop.across
    BY <1>3, <1>5, <2>1, <2>3 DEF Saved, HistoryTyped
  <2> QED BY <2>2, <2>3
<1>6. CASE UNCHANGED <<handled, across>>
  BY <1>3, <1>6 DEF HistoryTyped
<1>7. CASE Loop /\ ~Saved
  BY <1>6, <1>7 DEF Loop, Arrive, Count, Test, Create, Missing, Find, Lookup, Merge, MergeRest,
                    AppendEntry, history_vars
<1> QED BY <1>4, <1>5, <1>6, <1>7, SumsSteps

LEMMA SumsInit == Init => SumsInv /\ HistoryTyped
<1> SUFFICES ASSUME Init PROVE SumsInv /\ HistoryTyped
  OBVIOUS
<1>1. /\ handled = Empty /\ across = Empty /\ table = Nothing /\ loop.at = "idle"
  BY DEF Init, IdleLoop
<1>2. HistoryTyped
  BY <1>1 DEF HistoryTyped, Empty
<1>3. \A k, o : Listed(k, o) = 0 /\ Reported(k, o, handled) = 0 /\ Reported(k, o, across) = 0
  BY <1>1, ReportedNone DEF Listed, Nothing
<1> QED BY <1>1, <1>2, <1>3 DEF SumsInv, Balanced, Going, Saving

(* The thread moves on with its record, or ends.                             *)
LEMMA SumsMoved ==
    ASSUME HeldInv, SumsInv, UNCHANGED <<handled, across>>,
           \A k, o : Listed(k, o)' = Listed(k, o),
           loop.at \in Going \ {"merge_rest"},
           loop'.at \in (Going \cup {"dead"}) \ {"merge_rest"},
           loop'.next = loop.next, loop'.msg = loop.msg, loop'.across = loop.across
    PROVE  SumsInv'
<1>1. \A k, o : Part(k, o)' = Part(k, o)
  BY DEF Part
<1>2. \A k, o : /\ Reported(k, o, handled)' = Reported(k, o, handled)
                /\ Reported(k, o, across)' = Reported(k, o, across)
  BY DEF Reported
<1>3. ASSUME NEW k \in Keys, NEW o \in Outers PROVE Balanced(k, o)'
  <2>1. Balanced(k, o)
    BY DEF SumsInv
  <2>2. Half(k, o) = 0 /\ Half(k, o)' = 0
    BY DEF Half
  <2> QED BY <1>1, <1>2, <2>1, <2>2 DEF Balanced, Going, Saving
<1>4. loop.at \in Going /\ loop.across => handled' = Empty /\ across' = Empty
  BY DEF SumsInv
<1> QED BY <1>3, <1>4 DEF SumsInv

LEMMA SumsNext ==
    HeldInv /\ PlaceInv /\ HistoryTyped /\ SumsInv /\ [Next]_vars => SumsInv'
<1> SUFFICES ASSUME HeldInv, PlaceInv, HistoryTyped, SumsInv, [Next]_vars
             PROVE  SumsInv'
  OBVIOUS
<1>0. \A k, o : /\ Listed(k, o) \in Nat
                /\ Reported(k, o, handled) \in Nat /\ Reported(k, o, across) \in Nat
  BY ListedNat, ReportedMore DEF HistoryTyped
<1>1. CASE UNCHANGED <<table, loop, handled, across>>
  BY <1>1 DEF SumsInv, Balanced, Listed, Reported, Part, Half, Got, KeyOf, InNet, record
<1>2. CASE Clear
  <2>1. /\ handled' = Empty /\ across' = Empty /\ table' = Nothing
        /\ loop.at = "idle" => loop' = loop
        /\ loop.at # "idle" =>
              /\ loop'.at = loop.at /\ loop'.next = loop.next /\ loop'.msg = loop.msg
              /\ loop'.across
    BY <1>2, ClearTyped DEF Clear
  <2>2. \A k, o : /\ Listed(k, o)' = 0
                  /\ Reported(k, o, handled)' = 0 /\ Reported(k, o, across)' = 0
    <3>1. \A k, o : Listed(k, o)' = 0
      BY <2>1 DEF Listed, Nothing
    <3>2. \A k, o : /\ Reported(k, o, handled)' = Reported(k, o, handled')
                    /\ Reported(k, o, across)' = Reported(k, o, across')
      BY DEF Reported
    <3> QED BY <2>1, <3>1, <3>2, ReportedNone
  <2>3. loop'.at \in Going => \A k, o : Part(k, o)' \in Nat /\ Half(k, o)' \in Nat
    <3>1. \A k, o : loop.at # "idle" => /\ Part(k, o)' = Part(k, o)
                                       /\ Half(k, o)' = Half(k, o)
      BY <2>1 DEF Part, Half, Got, KeyOf, InNet, record
    <3>2. loop'.at \in Going => loop.at \in Going
      BY <2>1 DEF Going, Saving
    <3>3. loop.at \in Going => \A k, o : Part(k, o) \in Nat /\ Half(k, o) \in Nat
      BY IsBusy, PartSum, HalfNat DEF PlaceInv, Going, Saving
    <3> QED BY <3>1, <3>2, <3>3 DEF Going, Saving
  <2>4. loop'.at \in Going => loop'.across
    BY <2>1 DEF Going, Saving
  <2> QED BY <2>1, <2>2, <2>3, <2>4 DEF SumsInv, Balanced
<1>3. CASE Arrive
  <2>1. /\ UNCHANGED <<table, handled, across>> /\ loop.at = "idle"
        /\ loop'.at = "count" /\ loop'.next = 1 /\ ~loop'.across
    BY <1>3 DEF Arrive, Elsewhere, history_vars
  <2>2. \A k, o : Part(k, o)' = 0
    <3>1. \A k, o : Part(k, o)' = SumFunction([n \in 1..loop'.next - 1 |->
                                       Share(k, o, loop'.msg.records[n])])
      BY DEF Part
    <3>2. \A k, o : DOMAIN [n \in 1..loop'.next - 1 |->
                                       Share(k, o, loop'.msg.records[n])] = {}
      BY <2>1
    <3> QED BY <3>1, <3>2, SumNone
  <2>3. \A k, o : /\ Listed(k, o)' = Listed(k, o) /\ Half(k, o)' = 0
                  /\ Reported(k, o, handled)' = Reported(k, o, handled)
                  /\ Reported(k, o, across)' = Reported(k, o, across)
    BY <2>1 DEF Listed, Reported, Half
  <2>4. ASSUME NEW k \in Keys, NEW o \in Outers PROVE Balanced(k, o)'
    <3>1. Balanced(k, o)
      BY DEF SumsInv
    <3> QED BY <1>0, <2>1, <2>2, <2>3, <3>1 DEF Balanced, Going, Saving
  <2> QED BY <2>1, <2>4 DEF SumsInv
<1>4. CASE Saved
  <2> DEFINE msg == loop.msg
  <2>1. /\ UNCHANGED table /\ loop.at = "test" /\ loop.next > Len(msg.records)
        /\ loop'.at = "idle"
    BY <1>4 DEF Saved, Elsewhere, IdleLoop
  <2>2. loop \in Busy(clock) /\ loop.next <= Len(msg.records) + 1 /\ msg \in Messages(clock)
    BY <2>1, IsBusy DEF PlaceInv, Going, Busy
  <2>3. \A k, o : Part(k, o) = Brought(k, o, msg) /\ Part(k, o) \in Nat /\ Half(k, o) = 0
    BY <2>1, <2>2, PartSum, HalfNat
  <2>4. \A k, o : Listed(k, o)' = Listed(k, o)
    BY <2>1 DEF Listed
  <2>5. \A k, o : /\ Reported(k, o, handled)' = Reported(k, o, handled')
                  /\ Reported(k, o, across)' = Reported(k, o, across')
    BY DEF Reported
  <2>6. CASE loop.across
    <3>1. /\ handled = Empty /\ across = Empty
          /\ handled' = handled /\ across' = <<msg>>
      BY <1>4, <2>1, <2>6 DEF Saved, SumsInv, Going
    <3>2. across' = Append(Empty, msg) /\ Empty \in Seq(Messages(clock))
      BY <3>1 DEF Empty
    <3>3. \A k, o : Reported(k, o, across') = Part(k, o)
      BY <2>2, <2>3, <3>2, ReportedMore, ReportedNone
    <3>4. ASSUME NEW k \in Keys, NEW o \in Outers PROVE Balanced(k, o)'
      <4>1. Balanced(k, o)
        BY DEF SumsInv
      <4>2. Listed(k, o) <= Part(k, o)
        BY <2>1, <2>3, <3>1, <4>1, ReportedNone DEF Balanced, Going
      <4>3. Reported(k, o, handled') = 0
        BY <3>1, ReportedNone
      <4> QED BY <1>0, <2>1, <2>3, <2>4, <2>5, <3>3, <4>2, <4>3 DEF Balanced, Going, Saving
    <3> QED BY <2>1, <3>4 DEF SumsInv, Going, Saving
  <2>7. CASE ~loop.across
    <3>1. across' = across /\ handled' = Append(handled, msg)
      BY <1>4, <2>7 DEF Saved
    <3>2. \A k, o : Reported(k, o, handled') = Reported(k, o, handled) + Part(k, o)
      BY <2>2, <2>3, <3>1, ReportedMore DEF HistoryTyped
    <3>3. ASSUME NEW k \in Keys, NEW o \in Outers PROVE Balanced(k, o)'
      <4>1. Balanced(k, o)
        BY DEF SumsInv
      <4>2. /\ Reported(k, o, handled) + Part(k, o) <= Listed(k, o)
            /\ Listed(k, o) <= Reported(k, o, handled) + Reported(k, o, across) + Part(k, o)
        BY <1>0, <2>1, <2>3, <2>7, <4>1 DEF Balanced, Going
      <4>3. Reported(k, o, across') = Reported(k, o, across)
        BY <3>1
      <4> QED BY <1>0, <2>1, <2>3, <2>4, <2>5, <3>2, <4>2, <4>3 DEF Balanced, Going, Saving
    <3> QED BY <2>1, <3>3 DEF SumsInv, Going, Saving
  <2> QED BY <2>6, <2>7
(* A record is done: the table has had what it has of k and o, or is another  *)
(* one than when the record's message came.                                  *)
<1>5. ASSUME loop.at \in {"test"} \cup Saving, loop' = NextRecord,
             loop.next <= Len(loop.msg.records), UNCHANGED <<handled, across>>,
             \A k, o : \/ Listed(k, o)' + Half(k, o) = Listed(k, o) + Share(k, o, record)
                       \/ Listed(k, o)' = Listed(k, o) /\ loop.across
      PROVE  SumsInv'
  <2>1. loop \in Busy(clock) /\ loop.at \in Going
    BY <1>5, IsBusy DEF Saving, Going
  <2>2. loop'.at = "test" /\ loop'.across = loop.across
    BY <1>5, <2>1, MovedNext DEF Moved
  <2>3. \A k, o : /\ Part(k, o)' = Part(k, o) + Share(k, o, record) /\ Half(k, o)' = 0
                  /\ Share(k, o, record) \in Nat
    BY <1>5, <2>1, PartNext
  <2>4. \A k, o : Part(k, o) \in Nat /\ Half(k, o) \in Nat /\ Half(k, o) <= Share(k, o, record)
    <3>1. ASSUME NEW k, NEW o PROVE Half(k, o) <= Share(k, o, record)
      <4>1. CASE loop.at = "merge_rest"
        <5>1. record \in Records(clock)
          BY <4>1, <2>1, IsBusy DEF Saving
        <5> QED BY <4>1, <5>1, ShareNat DEF Half
      <4>2. CASE loop.at # "merge_rest"
        BY <2>3, <4>2 DEF Half
      <4> QED BY <4>1, <4>2
    <3> QED BY <2>1, <3>1, PartSum, HalfNat DEF PlaceInv
  <2>7. \A k, o : Listed(k, o)' \in Nat
    BY ListedNext
  <2>5. \A k, o : /\ Reported(k, o, handled)' = Reported(k, o, handled)
                  /\ Reported(k, o, across)' = Reported(k, o, across)
    BY <1>5 DEF Reported
  <2>6. ASSUME NEW k \in Keys, NEW o \in Outers PROVE Balanced(k, o)'
    <3>1. Balanced(k, o)
      BY DEF SumsInv
    <3>2. \/ Listed(k, o)' + Half(k, o) = Listed(k, o) + Share(k, o, record)
          \/ Listed(k, o)' = Listed(k, o) /\ loop.across
      BY <1>5
    <3>3. /\ Listed(k, o) \in Nat /\ Part(k, o) \in Nat /\ Share(k, o, record) \in Nat
          /\ Reported(k, o, handled) \in Nat /\ Reported(k, o, across) \in Nat
          /\ Half(k, o) \in Nat /\ Half(k, o) <= Share(k, o, record) /\ Listed(k, o)' \in Nat
      BY <1>0, <2>3, <2>4, <2>7
    <3>4. /\ ~loop.across => Reported(k, o, handled) + Part(k, o) + Half(k, o) <= Listed(k, o)
          /\ Listed(k, o) <= Reported(k, o, handled) + Reported(k, o, across)
                                + Part(k, o) + Half(k, o)
      BY <2>1, <3>1 DEF Balanced
    <3>5. Part(k, o)' = Part(k, o) + Share(k, o, record)
      BY <2>3
    <3>6. ~loop.across => Reported(k, o, handled) + Part(k, o)' <= Listed(k, o)'
      BY <3>2, <3>3, <3>4, <3>5
    <3>7. Listed(k, o)' <= Reported(k, o, handled) + Reported(k, o, across) + Part(k, o)'
      BY <3>2, <3>3, <3>4, <3>5
    <3>8. (Part(k, o) + Half(k, o))' = Part(k, o)' /\ Part(k, o)' \in Nat
      BY <2>3, <3>3
    <3> QED BY <1>0, <2>2, <2>3, <2>5, <3>3, <3>6, <3>7, <3>8 DEF Balanced
  <2> QED BY <1>5, <2>1, <2>2, <2>6 DEF SumsInv
<1>6. ASSUME UNCHANGED table PROVE \A k, o : Listed(k, o)' = Listed(k, o)
  BY <1>6 DEF Listed
<1>7. CASE Count
  <2>1. /\ loop \in Busy(clock) /\ loop.at \in Going \ {"merge_rest"}
        /\ UNCHANGED <<table, handled, across>>
    BY <1>7, IsBusy DEF Count, Going, Elsewhere, history_vars
  <2>2. /\ loop'.at \in {"dead", "test"} /\ loop'.next = loop.next /\ loop'.msg = loop.msg
        /\ loop'.across = loop.across
    BY <1>7, <2>1, CountStep, MovedAt DEF Moved
  <2> QED BY <1>6, <2>1, <2>2, SumsMoved DEF Going
<1>8. CASE Test
  <2>1. /\ loop \in Busy(clock) /\ loop.at = "test" /\ loop.at \in Going
        /\ loop.next <= Len(loop.msg.records) /\ UNCHANGED <<table, handled, across>>
    BY <1>8, IsBusy DEF Test, Going, Elsewhere, history_vars
  <2>2. \/ loop' = NextRecord /\ ~InNet(record)
        \/ loop' = At("create") \/ loop' = At("append") \/ loop' = At("find")
    <3>1. CASE options.port
      BY <1>8, <3>1 DEF Test
    <3>2. CASE ~options.port
      BY <1>8, <3>2 DEF Test
    <3> QED BY <3>1, <3>2
  <2>3. CASE loop' = NextRecord /\ ~InNet(record)
    <3>1. \A k, o : Share(k, o, record) = 0
      BY <2>3 DEF Share
    <3>2. \A k, o : Listed(k, o)' + Half(k, o) = Listed(k, o) + Share(k, o, record)
      BY <1>0, <1>6, <2>1, <3>1, HalfNat
    <3> QED BY <1>5, <2>1, <2>3, <3>2
  <2>4. ASSUME NEW label \in {"create", "append", "find"}, loop' = At(label)
        PROVE  SumsInv'
    <3>1. /\ loop'.at = label /\ loop'.next = loop.next /\ loop'.msg = loop.msg
          /\ loop'.across = loop.across
      BY <2>1, <2>4, MovedAt DEF Moved, Saving
    <3> QED BY <1>6, <2>1, <3>1, SumsMoved DEF Going, Saving
  <2> QED BY <2>2, <2>3, <2>4
<1>9. CASE Create
  <2>1. /\ loop \in Busy(clock) /\ loop.at \in Going \ {"merge_rest"}
        /\ UNCHANGED <<handled, across>> /\ KeyOf(record) \notin DOMAIN table
    BY <1>9, IsBusy DEF Create, Going, Saving, PlaceInv, history_vars
  <2>2. /\ loop'.at \in {"append", "find"} /\ loop'.next = loop.next
        /\ loop'.msg = loop.msg /\ loop'.across = loop.across
    BY <1>9, <2>1, CreateStep, MovedAt DEF Moved, Saving
  <2>3. ASSUME NEW k, NEW o PROVE Listed(k, o)' = Listed(k, o)
    <3>1. /\ DOMAIN table' = DOMAIN table \cup {KeyOf(record)}
          /\ table'[KeyOf(record)] = Empty
          /\ \A x \in DOMAIN table : table'[x] = table[x]
      BY <1>9, <2>1 DEF Create, Put
    <3>2. CASE k = KeyOf(record)
      <4>1. Listed(k, o) = 0
        BY <2>1, <3>2 DEF Listed
      <4>2. Listed(k, o)' = SumFunction([n \in DOMAIN Empty |->
                                IF Empty[n].outer = o THEN Bytes(Empty[n]) ELSE 0])
        BY <3>1, <3>2 DEF Listed
      <4>3. DOMAIN [n \in DOMAIN Empty |->
                        IF Empty[n].outer = o THEN Bytes(Empty[n]) ELSE 0] = {}
        BY DEF Empty
      <4> QED BY <4>1, <4>2, <4>3, SumNone
    <3>3. CASE k # KeyOf(record)
      BY <3>1, <3>3 DEF Listed
    <3> QED BY <3>2, <3>3
  <2> QED BY <2>1, <2>2, <2>3, SumsMoved DEF Going, Saving
<1>10. CASE Missing
  <2>1. /\ loop \in Busy(clock) /\ loop.at \in Going \ {"merge_rest"}
        /\ UNCHANGED <<table, handled, across>>
    BY <1>10, IsBusy DEF Missing, Going, Saving, Elsewhere, history_vars
  <2>2. /\ loop'.at = "dead" /\ loop'.next = loop.next /\ loop'.msg = loop.msg
        /\ loop'.across = loop.across
    BY <1>10, <2>1, MovedAt DEF Missing, Moved
  <2> QED BY <1>6, <2>1, <2>2, SumsMoved
<1>11. CASE Find
  <2>1. /\ loop \in Busy(clock) /\ loop.at \in Going \ {"merge_rest"}
        /\ UNCHANGED <<table, handled, across>> /\ KeyOf(record) \in DOMAIN table
    BY <1>11, IsBusy DEF Find, Going, Saving, Elsewhere, history_vars
  <2>2. /\ loop'.at \in {"append", "merge"} /\ loop'.next = loop.next
        /\ loop'.msg = loop.msg /\ loop'.across = loop.across
    BY <1>11, <2>1, FindTyped, MovedAt, MovedFound DEF Moved, Saving
  <2> QED BY <1>6, <2>1, <2>2, SumsMoved DEF Going, Saving
<1>12. CASE Lookup
  <2>1. /\ loop \in Busy(clock) /\ loop.at \in Going \ {"merge_rest"}
        /\ UNCHANGED <<table, handled, across>>
    BY <1>12, IsBusy DEF Lookup, Going, Saving, Elsewhere, history_vars
  <2>2. /\ loop'.at = "put" /\ loop'.next = loop.next /\ loop'.msg = loop.msg
        /\ loop'.across = loop.across
    BY <1>12, <2>1, MovedPut DEF Moved, Lookup
  <2> QED BY <1>6, <2>1, <2>2, SumsMoved DEF Going, Saving
<1>13. CASE MergeRest \/ AppendEntry
  <2>1. /\ loop.at \in Saving /\ loop' = NextRecord /\ UNCHANGED <<handled, across>>
        /\ loop.next <= Len(loop.msg.records) /\ record \in Records(clock)
    BY <1>13, IsBusy DEF MergeRest, AppendEntry, Saving, history_vars
  <2>2. CASE ~loop.old
    <3>1. ASSUME NEW k, NEW o
          PROVE  Listed(k, o)' + Half(k, o) = Listed(k, o) + Share(k, o, record)
      <4>1. /\ Share(k, o, record) = Got(k, o, record) + Gave(k, o, record)
            /\ Got(k, o, record) \in Nat /\ Gave(k, o, record) \in Nat /\ Listed(k, o) \in Nat
        BY <1>0, <2>1, ShareNat
      <4>2. CASE MergeRest
        BY <2>2, <4>1, <4>2, Brings DEF MergeRest, Half
      <4>3. CASE AppendEntry
        BY <2>2, <4>1, <4>3, Brings DEF AppendEntry, Half
      <4> QED BY <1>13, <4>2, <4>3
    <3> QED BY <1>5, <2>1, <3>1
  <2>3. CASE loop.old
    <3>1. UNCHANGED table
      BY <1>13, <2>3 DEF MergeRest, AppendEntry
    <3>2. loop.across
      BY <2>1, <2>3 DEF PlaceInv, Going
    <3> QED BY <1>5, <1>6, <2>1, <3>1, <3>2
  <2> QED BY <2>2, <2>3
(* A record is half done. *)
<1>14. CASE Merge
  <2>1. /\ loop \in Busy(clock) /\ loop.at = "merge" /\ loop.at \in Going
        /\ UNCHANGED <<handled, across>> /\ record \in Records(clock)
    BY <1>14, IsBusy DEF Merge, Going, Saving, history_vars
  <2>2. /\ loop'.at = "merge_rest" /\ loop'.next = loop.next /\ loop'.msg = loop.msg
        /\ loop'.across = loop.across /\ loop'.at \in Going
    BY <1>14, <2>1, MovedAt DEF Moved, Merge, Saving, Going
  <2>3. \A k, o : /\ Part(k, o)' = Part(k, o)
                  /\ Half(k, o) = 0 /\ Half(k, o)' = Got(k, o, record)
    BY <2>1, <2>2 DEF Part, Half, Got, KeyOf, InNet, record
  <2>4. \A k, o : /\ Reported(k, o, handled)' = Reported(k, o, handled)
                  /\ Reported(k, o, across)' = Reported(k, o, across)
    BY <2>1 DEF Reported
  <2>5. ASSUME NEW k \in Keys, NEW o \in Outers PROVE Balanced(k, o)'
    <3>1. /\ ~loop.across => Reported(k, o, handled) + Part(k, o) + 0 <= Listed(k, o)
          /\ Listed(k, o) <= Reported(k, o, handled) + Reported(k, o, across) + Part(k, o) + 0
      BY <2>1, <2>3 DEF Balanced, SumsInv
    <3>2. /\ Listed(k, o) \in Nat /\ Part(k, o) \in Nat /\ Got(k, o, record) \in Nat
          /\ Reported(k, o, handled) \in Nat /\ Reported(k, o, across) \in Nat
      BY <1>0, <2>1, PartSum, ShareNat DEF PlaceInv
    <3>3. \/ Listed(k, o)' = Listed(k, o) + Got(k, o, record)
          \/ Listed(k, o)' = Listed(k, o) /\ loop.across
      <4>1. CASE ~loop.old
        BY <1>14, <4>1, Brings
      <4>2. CASE loop.old
        BY <1>6, <1>14, <2>1, <4>2 DEF Merge, PlaceInv
      <4> QED BY <4>1, <4>2
    <3>4. /\ ~loop'.across => Reported(k, o, handled) + Part(k, o) + Got(k, o, record)
                                 <= Listed(k, o)'
          /\ Listed(k, o)' <= Reported(k, o, handled) + Reported(k, o, across)
                                 + Part(k, o) + Got(k, o, record)
      BY <2>2, <3>1, <3>2, <3>3
    <3> QED BY <2>2, <2>3, <2>4, <3>4 DEF Balanced
  <2> QED BY <2>1, <2>2, <2>5 DEF SumsInv
<1> QED BY <1>1, <1>2, <1>3, <1>4, <1>7, <1>8, <1>9, <1>10, <1>11, <1>12, <1>13, <1>14,
           SumsSteps DEF Loop

(* Between two messages the table holds every report handled since it was    *)
(* last cleared, whole, and nothing else but what a report that was being    *)
(* handled at that moment has still brought (mqtt_client.py:183-222,         *)
(* 387-405).                                                                 *)
THEOREM TableHoldsReports == Spec => []TableIsReports
<1>1. SumsInv => TableIsReports
  BY DEF SumsInv, Balanced, TableIsReports, Outers
<1> QED BY <1>1, HeldInit, HeldNext, PlaceInit, PlaceNext, SumsInit, SumsNext,
           HistoryNext, PTL DEF Spec

-----------------------------------------------------------------------------
(* The search in the places' database *)

(* A step of the search's recursion.                                         *)
Numbers(ranges) == 0..Len(ranges) - 1
Middle(p) == (p[1] + p[2]) \div 2
Narrow(ranges, ip, f, p) ==
    LET L == p[1]
        R == p[2]
        M == (L + R) \div 2
        start == RangeAt(ranges, M).start
    IN  IF L >= R - 1 THEN p
        ELSE IF ip = start THEN <<M, R>>
        ELSE IF ip > start THEN f[<<M, R>>]
        ELSE f[<<L, M>>]

IsSearch(ranges, ip, f) ==
    f = [p \in Numbers(ranges) \X Numbers(ranges) |-> Narrow(ranges, ip, f, p)]

LEMMA HalfWay ==
    ASSUME NEW L \in Nat, NEW R \in Nat, L < R - 1
    PROVE  (L + R) \div 2 \in L + 1..R - 1
  OBVIOUS

LEMMA SearchExists ==
    ASSUME NEW ranges, NEW ip, Len(ranges) \in Nat
    PROVE  \E f : IsSearch(ranges, ip, f)
<1> DEFINE P == Numbers(ranges) \X Numbers(ranges)
           T == {k \in Nat : \E f \in [P -> P] : \A p \in P :
                    p[2] - p[1] <= k => f[p] = Narrow(ranges, ip, f, p)}
<1>0. \A p \in P : p[1] \in Nat /\ p[2] \in Nat /\ p[1] < Len(ranges) /\ p[2] < Len(ranges)
                   /\ p = <<p[1], p[2]>>
  BY DEF Numbers
<1>1. \A p \in P : p[1] < p[2] - 1 =>
          /\ Middle(p) \in p[1] + 1..p[2] - 1
          /\ <<Middle(p), p[2]>> \in P /\ <<p[1], Middle(p)>> \in P
  <2> SUFFICES ASSUME NEW p \in P, p[1] < p[2] - 1
               PROVE  /\ Middle(p) \in p[1] + 1..p[2] - 1
                      /\ <<Middle(p), p[2]>> \in P /\ <<p[1], Middle(p)>> \in P
    OBVIOUS
  <2>1. Middle(p) \in p[1] + 1..p[2] - 1
    BY <1>0, HalfWay DEF Middle
  <2>2. Middle(p) \in Numbers(ranges) /\ p[1] \in Numbers(ranges) /\ p[2] \in Numbers(ranges)
    BY <1>0, <2>1 DEF Numbers
  <2> QED BY <2>1, <2>2
<1>2. ASSUME NEW f, NEW p \in P, p[1] >= p[2] - 1
      PROVE  Narrow(ranges, ip, f, p) = p
  BY <1>2 DEF Narrow
<1>3. ASSUME NEW f, NEW g, NEW p \in P,
             p[1] < p[2] - 1 => /\ f[<<Middle(p), p[2]>>] = g[<<Middle(p), p[2]>>]
                                /\ f[<<p[1], Middle(p)>>] = g[<<p[1], Middle(p)>>]
      PROVE  Narrow(ranges, ip, f, p) = Narrow(ranges, ip, g, p)
  BY <1>0, <1>3 DEF Narrow, Middle
<1>4. ASSUME NEW f \in [P -> P], NEW p \in P PROVE Narrow(ranges, ip, f, p) \in P
  <2>1. CASE p[1] >= p[2] - 1
    BY <1>2, <2>1
  <2>2. CASE p[1] < p[2] - 1
    <3>1. <<Middle(p), p[2]>> \in P /\ <<p[1], Middle(p)>> \in P
      BY <1>1, <2>2
    <3>2. f[<<Middle(p), p[2]>>] \in P /\ f[<<p[1], Middle(p)>>] \in P
      BY <3>1
    <3> HIDE DEF P
    <3> QED BY <3>1, <3>2, <1>4 DEF Narrow, Middle
  <2> QED BY <1>0, <2>1, <2>2
<1> HIDE DEF P
<1>5. 0 \in T
  <2>1. [p \in P |-> p] \in [P -> P]
    OBVIOUS
  <2>2. ASSUME NEW p \in P, p[2] - p[1] <= 0
        PROVE  [q \in P |-> q][p] = Narrow(ranges, ip, [q \in P |-> q], p)
    <3>1. p[1] >= p[2] - 1
      BY <1>0, <2>2
    <3> QED BY <1>2, <3>1
  <2> QED BY <2>1, <2>2
<1>6. ASSUME NEW k \in Nat, k \in T PROVE k + 1 \in T
  <2>1. PICK f \in [P -> P] : \A p \in P :
            p[2] - p[1] <= k => f[p] = Narrow(ranges, ip, f, p)
    BY <1>6
  <2> DEFINE g == [p \in P |-> Narrow(ranges, ip, f, p)]
  <2>2. g \in [P -> P] /\ \A p \in P : g[p] = Narrow(ranges, ip, f, p)
    BY <1>4, <2>1
  <2> HIDE DEF g
  <2>3. \A p \in P : p[2] - p[1] <= k => f[p] = g[p]
    BY <2>1, <2>2
  <2>4. ASSUME NEW p \in P, p[2] - p[1] <= k + 1
        PROVE  g[p] = Narrow(ranges, ip, g, p)
    <3>1. ASSUME p[1] < p[2] - 1
          PROVE  /\ f[<<Middle(p), p[2]>>] = g[<<Middle(p), p[2]>>]
                 /\ f[<<p[1], Middle(p)>>] = g[<<p[1], Middle(p)>>]
      <4>1. /\ Middle(p) \in p[1] + 1..p[2] - 1
            /\ <<Middle(p), p[2]>> \in P /\ <<p[1], Middle(p)>> \in P
        BY <1>1, <3>1
      <4>2. p[2] - Middle(p) <= k /\ Middle(p) - p[1] <= k
        BY <1>0, <2>4, <4>1
      <4> QED BY <2>3, <4>1, <4>2
    <3>2. Narrow(ranges, ip, f, p) = Narrow(ranges, ip, g, p)
      BY <1>3, <3>1
    <3> QED BY <2>2, <3>2
  <2> QED BY <2>2, <2>4
<1>7. Len(ranges) \in T
  <2> HIDE DEF T
  <2>1. \A k \in Nat : k \in T
    BY <1>5, <1>6, NatInductive
  <2> QED BY <2>1
<1>8. PICK f \in [P -> P] : \A p \in P :
          p[2] - p[1] <= Len(ranges) => f[p] = Narrow(ranges, ip, f, p)
  BY <1>7
<1>9. \A p \in P : f[p] = Narrow(ranges, ip, f, p)
  BY <1>0, <1>8
<1>10. f = [p \in P |-> Narrow(ranges, ip, f, p)]
  BY <1>9
<1> QED BY <1>10 DEF IsSearch, P

(* What the search keeps true of what is left of the database.               *)
Bracket(ranges, ip, q) ==
    /\ q[1] \in Numbers(ranges) /\ q[2] \in Numbers(ranges) /\ q[1] <= q[2]
    /\ q[1] = 0 \/ RangeAt(ranges, q[1]).start <= ip
    /\ q[2] = Len(ranges) - 1 \/ ip < RangeAt(ranges, q[2]).start

LEMMA SearchBrackets ==
    ASSUME NEW ranges, IsDatabase(ranges), NEW ip \in Nat, NEW f,
           IsSearch(ranges, ip, f),
           NEW p0 \in Numbers(ranges) \X Numbers(ranges), Bracket(ranges, ip, p0)
    PROVE  /\ Bracket(ranges, ip, f[p0])
           /\ f[p0][1] >= f[p0][2] - 1 \/ ip = RangeAt(ranges, f[p0][1]).start
<1> DEFINE P == Numbers(ranges) \X Numbers(ranges)
           Done(q) == q[1] >= q[2] - 1 \/ ip = RangeAt(ranges, q[1]).start
           T == {k \in Nat : \A p \in P : p[2] - p[1] <= k /\ Bracket(ranges, ip, p) =>
                    Bracket(ranges, ip, f[p]) /\ Done(f[p])}
<1>0. \A p \in P : /\ p[1] \in Nat /\ p[2] \in Nat /\ p = <<p[1], p[2]>>
                   /\ p[1] \in Numbers(ranges) /\ p[2] \in Numbers(ranges)
  BY DEF Numbers
<1>1. \A p \in P : f[p] = Narrow(ranges, ip, f, p)
  BY DEF IsSearch
<1>2. ASSUME NEW n \in Numbers(ranges)
      PROVE  RangeAt(ranges, n).start \in Nat
  BY <1>2 DEF Numbers, RangeAt, IsDatabase
<1>3. 0 \in T
  <2> SUFFICES ASSUME NEW p \in P, p[2] - p[1] <= 0, Bracket(ranges, ip, p)
               PROVE  Bracket(ranges, ip, f[p]) /\ Done(f[p])
    OBVIOUS
  <2>1. p[1] >= p[2] - 1
    BY <1>0
  <2>2. f[p] = p
    BY <1>1, <2>1 DEF Narrow
  <2> QED BY <2>1, <2>2
<1>4. ASSUME NEW k \in Nat, k \in T PROVE k + 1 \in T
  <2> SUFFICES ASSUME NEW p \in P, p[2] - p[1] <= k + 1, Bracket(ranges, ip, p)
               PROVE  Bracket(ranges, ip, f[p]) /\ Done(f[p])
    OBVIOUS
  <2>1. CASE p[1] >= p[2] - 1
    <3>1. f[p] = p
      BY <1>1, <2>1 DEF Narrow
    <3> QED BY <2>1, <3>1
  <2>2. CASE p[1] < p[2] - 1
    <3> DEFINE M == Middle(p)
               start == RangeAt(ranges, M).start
    <3>1. M \in p[1] + 1..p[2] - 1
      BY <1>0, <2>2, HalfWay DEF Middle
    <3>2. M \in Numbers(ranges) /\ M \in Nat
      BY <1>0, <3>1 DEF Numbers
    <3>3. start \in Nat
      BY <1>2, <3>2
    <3>4. f[p] = IF ip = start THEN <<M, p[2]>>
                 ELSE IF ip > start THEN f[<<M, p[2]>>] ELSE f[<<p[1], M>>]
      BY <1>0, <1>1, <2>2 DEF Narrow, Middle
    <3>5. <<M, p[2]>> \in P /\ <<p[1], M>> \in P
      BY <1>0, <3>2
    <3>6. p[2] - M <= k /\ M - p[1] <= k
      BY <1>0, <3>1
    <3> HIDE DEF M
    <3>7. ip >= start => Bracket(ranges, ip, <<M, p[2]>>)
      BY <1>0, <3>1, <3>2, <3>3 DEF Bracket
    <3>8. ip < start => Bracket(ranges, ip, <<p[1], M>>)
      BY <1>0, <3>1, <3>2, <3>3 DEF Bracket
    <3>9. CASE ip = start
      BY <3>3, <3>4, <3>7, <3>9
    <3>10. CASE ip > start
      <4>1. <<M, p[2]>>[2] - <<M, p[2]>>[1] <= k /\ Bracket(ranges, ip, <<M, p[2]>>)
        BY <3>3, <3>6, <3>7, <3>10
      <4>2. f[p] = f[<<M, p[2]>>]
        BY <3>3, <3>4, <3>10
      <4> QED BY <1>4, <3>5, <4>1, <4>2
    <3>11. CASE ip < start
      <4>1. <<p[1], M>>[2] - <<p[1], M>>[1] <= k /\ Bracket(ranges, ip, <<p[1], M>>)
        BY <3>3, <3>6, <3>8, <3>11
      <4>2. f[p] = f[<<p[1], M>>]
        BY <3>3, <3>4, <3>11
      <4> QED BY <1>4, <3>5, <4>1, <4>2
    <3> QED BY <3>3, <3>9, <3>10, <3>11
  <2> QED BY <1>0, <2>1, <2>2
<1>5. \A k \in Nat : k \in T
  <2> HIDE DEF T
  <2> QED BY <1>3, <1>4, NatInductive
<1>6. p0[2] - p0[1] \in Nat
  BY DEF Bracket, Numbers
<1> QED BY <1>5, <1>6

LEMMA Located ==
    ASSUME NEW ranges, IsDatabase(ranges), NEW ip \in Nat
    PROVE  LET q == Narrowed(ranges, ip)
           IN  /\ Bracket(ranges, ip, q)
               /\ q[1] >= q[2] - 1 \/ ip = RangeAt(ranges, q[1]).start
<1> DEFINE f == CHOOSE g : IsSearch(ranges, ip, g)
           p0 == <<0, Len(ranges) - 1>>
<1>1. Len(ranges) \in Nat \ {0}
  BY DEF IsDatabase
<1>2. IsSearch(ranges, ip, f)
  BY <1>1, SearchExists
<1>3. p0 \in Numbers(ranges) \X Numbers(ranges) /\ Bracket(ranges, ip, p0)
  BY <1>1 DEF Numbers, Bracket
<1>4. Narrowed(ranges, ip) = f[p0]
  BY DEF Narrowed, IsSearch, Narrow, Numbers
<1> HIDE DEF f, p0
<1> QED BY <1>2, <1>3, <1>4, SearchBrackets

(* The range that is looked at is the only one that may hold the address.    *)
LEMMA OnlyRange ==
    ASSUME NEW ranges, IsDatabase(ranges), NEW ip \in Nat,
           NEW m \in DOMAIN ranges, ip \in ranges[m].start..ranges[m].end
    PROVE  LET q == Narrowed(ranges, ip)
           IN  m = (IF ip \in VersionAddresses THEN q[2] ELSE q[1]) + 1
<1> DEFINE q == Narrowed(ranges, ip)
           last == Len(ranges)
           From(n) == ranges[n].start
           Upto(n) == ranges[n].end
<1>1. /\ last \in Nat \ {0} /\ m \in 1..last
      /\ \A n \in 1..last : From(n) \in Nat /\ Upto(n) \in Nat /\ From(n) <= Upto(n)
      /\ \A i, j \in 1..last : i < j => Upto(i) < From(j)
      /\ From(m) <= ip /\ ip <= Upto(m)
  BY DEF IsDatabase
<1>2. /\ ip \in VersionAddresses => From(last) <= ip
      /\ m = last => ip \in VersionAddresses
  <2>1. ip \in VersionAddresses => From(last) <= ip
    BY DEF IsDatabase
  <2>2. m = last => ip \in VersionAddresses
    BY DEF IsDatabase
  <2> QED BY <2>1, <2>2
<1>3. /\ q[1] \in 0..last - 1 /\ q[2] \in 0..last - 1 /\ q[1] <= q[2]
      /\ q[1] = 0 \/ From(q[1] + 1) <= ip
      /\ q[2] = last - 1 \/ ip < From(q[2] + 1)
      /\ q[1] >= q[2] - 1 \/ ip = From(q[1] + 1)
  BY Located DEF Bracket, Numbers, RangeAt
<1> HIDE DEF q, From, Upto, last
<1>4. CASE ip \in VersionAddresses
  <2>1. q[2] = last - 1
    <3> SUFFICES ASSUME q[2] # last - 1 PROVE FALSE
      OBVIOUS
    <3>1. q[2] + 1 \in 1..last /\ q[2] + 1 < last /\ last \in 1..last
      BY <1>1, <1>3
    <3>2. From(q[2] + 1) <= Upto(q[2] + 1) /\ Upto(q[2] + 1) < From(last)
      BY <1>1, <3>1
    <3>3. From(last) <= ip /\ ip < From(q[2] + 1)
      BY <1>2, <1>3, <1>4
    <3>4. From(q[2] + 1) \in Nat /\ Upto(q[2] + 1) \in Nat /\ From(last) \in Nat
      BY <1>1, <3>1
    <3> QED BY <3>2, <3>3, <3>4
  <2>2. m = last
    <3> SUFFICES ASSUME m < last PROVE FALSE
      BY <1>1
    <3>1. Upto(m) < From(last) /\ From(last) <= ip /\ ip <= Upto(m)
      BY <1>1, <1>2, <1>4
    <3>2. Upto(m) \in Nat /\ From(last) \in Nat
      BY <1>1
    <3> QED BY <3>1, <3>2
  <2>3. m = q[2] + 1
    BY <1>1, <2>1, <2>2
  <2> QED BY <1>4, <2>3 DEF q
<1>5. CASE ip \notin VersionAddresses
  <2> DEFINE c == q[1] + 1
  <2>1. c \in 1..last /\ m # last /\ m < last
    BY <1>1, <1>2, <1>3, <1>5
  <2>2. From(c) \in Nat /\ Upto(c) \in Nat /\ From(m) \in Nat /\ Upto(m) \in Nat
        /\ From(c) <= Upto(c)
    BY <1>1, <2>1
  <2>3. ASSUME m < c PROVE FALSE
    <3>1. q[1] # 0
      BY <1>1, <1>3, <2>3
    <3>2. From(c) <= ip
      BY <1>3, <3>1
    <3>3. Upto(m) < From(c)
      BY <1>1, <2>1, <2>3
    <3> HIDE DEF c
    <3> QED BY <1>1, <2>2, <3>2, <3>3
  <2>4. ASSUME c < m PROVE FALSE
    <3>1. CASE ip = From(c)
      <4>1. Upto(c) < From(m)
        BY <1>1, <2>1, <2>4
      <4> HIDE DEF c
      <4> QED BY <1>1, <2>2, <3>1, <4>1
    <3>2. CASE q[1] >= q[2] - 1
      <4>1. q[2] + 1 <= m /\ q[2] # last - 1 /\ q[2] + 1 \in 1..last
        BY <1>1, <1>3, <2>1, <2>4, <3>2
      <4>2. ip < From(q[2] + 1)
        BY <1>3, <4>1
      <4>3. From(q[2] + 1) <= From(m)
        <5>1. CASE q[2] + 1 = m
          BY <2>2, <5>1
        <5>2. CASE q[2] + 1 < m
          <6>1. From(q[2] + 1) <= Upto(q[2] + 1) /\ Upto(q[2] + 1) < From(m)
                /\ From(q[2] + 1) \in Nat /\ Upto(q[2] + 1) \in Nat
            BY <1>1, <4>1, <5>2
          <6> QED BY <2>2, <6>1
        <5>3. q[2] + 1 = m \/ q[2] + 1 < m
          BY <1>1, <1>3, <4>1
        <5> QED BY <5>1, <5>2, <5>3
      <4>4. From(q[2] + 1) \in Nat
        BY <1>1, <4>1
      <4> QED BY <1>1, <2>2, <4>2, <4>3, <4>4
    <3> QED BY <1>3, <3>1, <3>2
  <2>5. m = q[1] + 1
    BY <1>1, <2>1, <2>3, <2>4
  <2> QED BY <1>5, <2>5 DEF q
<1> QED BY <1>4, <1>5

(* Of any database and any address, the search finds the place that the range *)
(* with the address has, and none where there is no such range               *)
(* (mqtt_client.py:91-114).                                                  *)
THEOREM PlaceFound ==
    ASSUME NEW ranges, IsDatabase(ranges), NEW ip \in Nat
    PROVE  getIpAddr(ranges, ip) = PlaceOf(ranges, ip)
<1> DEFINE q == Narrowed(ranges, ip)
           c == (IF ip \in VersionAddresses THEN q[2] ELSE q[1]) + 1
           Holds(n) == ip \in ranges[n].start..ranges[n].end
<1>1. \A m \in DOMAIN ranges : Holds(m) => m = c
  BY OnlyRange
<1>2. c \in DOMAIN ranges
  <2>1. q[1] \in Numbers(ranges) /\ q[2] \in Numbers(ranges)
    BY Located DEF Bracket
  <2>2. DOMAIN ranges = 1..Len(ranges) /\ Len(ranges) \in Nat
    BY DEF IsDatabase
  <2> HIDE DEF q
  <2> QED BY <2>1, <2>2 DEF Numbers
<1>3. getIpAddr(ranges, ip) = IF Holds(c) THEN ranges[c].place ELSE NotFound
  BY DEF getIpAddr, RangeAt
<1>4. PlaceOf(ranges, ip) =
          IF \E n \in DOMAIN ranges : Holds(n)
          THEN ranges[CHOOSE n \in DOMAIN ranges : Holds(n)].place ELSE NotFound
  BY DEF PlaceOf
<1> HIDE DEF c, Holds
<1>5. CASE Holds(c)
  <2>1. (CHOOSE n \in DOMAIN ranges : Holds(n)) = c
    BY <1>1, <1>2, <1>5
  <2> QED BY <1>2, <1>3, <1>4, <1>5, <2>1
<1>6. CASE ~Holds(c)
  <2>1. ~\E n \in DOMAIN ranges : Holds(n)
    BY <1>1, <1>6
  <2> QED BY <1>3, <1>4, <1>6, <2>1
<1> QED BY <1>5, <1>6

-----------------------------------------------------------------------------
(* What is printed *)

Below(x, y) == x[1] < y[1] \/ (x[1] = y[1] /\ x[2] < y[2])

NetKeys == {k \in Keys : k[2] \in Net * Hosts..Net * Hosts + Hosts - 1}

LEMMA KeysTyped == \A k \in Keys : k[1] \in Nat /\ k[2] \in Nat /\ k = <<k[1], k[2]>>
  BY ConnsAssumption, NumbersAssumption DEF Keys

(* Of addresses in the net the comparison tells the order.                   *)
LEMMA Weighed ==
    ASSUME NEW a \in Int, NEW b \in Int, NEW h \in Nat \ {0}, b < h, -h < b
    PROVE  a * h + b < 0 <=> a < 0 \/ (a = 0 /\ b < 0)
<1>1. CASE a = 0
  BY <1>1
<1>2. CASE a >= 1
  <2>1. (a - 1) * h >= 0
    BY <1>2
  <2>2. a * h = (a - 1) * h + h
    OBVIOUS
  <2>3. a * h >= h
    BY <2>1, <2>2
  <2>4. a * h \in Int
    OBVIOUS
  <2> QED BY <1>2, <2>3, <2>4
<1>3. CASE a <= -1
  <2>1. (-1 - a) * h >= 0
    BY <1>3
  <2>2. a * h = -((-1 - a) * h) - h
    OBVIOUS
  <2>3. a * h <= -h
    BY <2>1, <2>2
  <2>4. a * h \in Int
    OBVIOUS
  <2> QED BY <1>3, <2>3, <2>4
<1> QED BY <1>1, <1>2, <1>3

LEMMA Compared ==
    ASSUME NEW x \in NetKeys, NEW y \in NetKeys
    PROVE  key_compare(x, y) < 0 <=> Below(x, y)
<1> DEFINE a == x[1] - y[1]
           b == x[2] - y[2]
<1>1. /\ x[1] \in Nat /\ x[2] \in Nat /\ y[1] \in Nat /\ y[2] \in Nat
      /\ Hosts \in Nat \ {0}
  BY KeysTyped, NumbersAssumption DEF NetKeys
<1>2. PICK n \in Int : n = Net * Hosts
  BY NumbersAssumption
<1>3. x[2] \in n..n + Hosts - 1 /\ y[2] \in n..n + Hosts - 1
  BY <1>2 DEF NetKeys
<1>4. a \in Int /\ b \in Int /\ b < Hosts /\ -Hosts < b
  BY <1>1, <1>3
<1>5. /\ a < 0 <=> x[1] < y[1]
      /\ a = 0 <=> x[1] = y[1]
      /\ b < 0 <=> x[2] < y[2]
  BY <1>1
<1>6. key_compare(x, y) = a * Hosts + b
  BY DEF key_compare
<1> HIDE DEF a, b
<1>7. a * Hosts + b < 0 <=> a < 0 \/ (a = 0 /\ b < 0)
  BY <1>1, <1>4, Weighed
<1> QED BY <1>5, <1>6, <1>7 DEF Below

LEMMA BelowCompares ==
    ASSUME NEW S \in SUBSET Keys
    PROVE  Compares({p \in S \X S : Below(p[1], p[2])}, S)
<1> DEFINE R == {p \in S \X S : Below(p[1], p[2])}
<1>1. \A x, y \in S : <<x, y>> \in R <=> Below(x, y)
  OBVIOUS
<1> HIDE DEF R
<1>2. \A x, y \in S : x # y => Below(x, y) \/ Below(y, x)
  BY KeysTyped DEF Below
<1>3. \A x, y, z \in S : Below(x, y) /\ Below(y, z) => Below(x, z)
  BY KeysTyped DEF Below
<1>4. Compares(R, S)
  BY <1>1, <1>2, <1>3 DEF Compares
<1> QED BY <1>4 DEF R

Ascending(s) == \A i, j \in DOMAIN s : i < j => Below(s[i], s[j])

(* sorted() on the keys of stat.                                             *)
LEMMA KeysSorted ==
    ASSUME NEW S \in SUBSET NetKeys, IsFiniteSet(S)
    PROVE  LET s == InOrder(S, LAMBDA x, y : key_compare(x, y) < 0)
           IN  s \in Seq(S) /\ Ascending(s)
<1> DEFINE R == {p \in S \X S : Below(p[1], p[2])}
           Good(s) == \A i, j \in DOMAIN s : i < j => key_compare(s[i], s[j]) < 0
<1>0. Cardinality(S) \in Nat /\ S \in SUBSET Keys
  BY FS_CardinalityType DEF NetKeys
<1>1. PICK f \in [1..Cardinality(S) -> S] : InOrderOf(f, R, Cardinality(S))
  <2>1. Compares(R, S)
    BY <1>0, BelowCompares
  <2> HIDE DEF R
  <2> QED BY <2>1, OrderExists
<1>2. \A i, j \in 1..Cardinality(S) : i < j => f[i] # f[j] /\ Below(f[i], f[j])
  BY <1>1 DEF InOrderOf
<1>3. \A i, j \in 1..Cardinality(S) : i # j => f[i] # f[j]
  BY <1>0, <1>2
<1>4. f \in SetToSeqs(S)
  BY <1>3 DEF SetToSeqs
<1>5. Good(f)
  BY <1>2, Compared
<1> DEFINE s == CHOOSE s \in SetToSeqs(S) : Good(s)
<1>6. s \in SetToSeqs(S) /\ Good(s)
  BY <1>4, <1>5
<1>7. s = InOrder(S, LAMBDA x, y : key_compare(x, y) < 0)
  BY DEF InOrder
<1> HIDE DEF s, Good
<1>8. s \in [1..Cardinality(S) -> S]
  BY <1>6 DEF SetToSeqs
<1>9. s \in Seq(S)
  BY <1>0, <1>8
<1>10. Ascending(s)
  BY <1>6, <1>8, Compared DEF Ascending, Good
<1> QED BY <1>7, <1>9, <1>10

(* sorted() on what it saw of the connections.                               *)
Ranked(order, seen) ==
    /\ order \in [1..Len(seen) -> 1..Len(seen)]
    /\ \A i, j \in 1..Len(seen) : i < j => seen[order[i]] >= seen[order[j]]
    /\ \A n \in 1..Len(seen) : \E i \in 1..Len(seen) : order[i] = n

LEMMA SeenSorted == ASSUME NEW seen \in Seq(Nat) PROVE Ranked(Sorted(seen), seen)
<1> DEFINE D == DOMAIN seen
           First(i, j) == seen[i] > seen[j] \/ (seen[i] = seen[j] /\ i < j)
           R == {p \in D \X D : First(p[1], p[2])}
           Good(s) == \A i, j \in DOMAIN s : i < j => First(s[i], s[j])
           sorted == Sorted(seen)
<1>1. D = 1..Len(seen) /\ Len(seen) \in Nat /\ IsFiniteSet(D) /\ Cardinality(D) = Len(seen)
  <2>1. D = 1..Len(seen) /\ Len(seen) \in Nat /\ 1 \in Int /\ Len(seen) \in Int
    OBVIOUS
  <2> HIDE DEF D
  <2>2. IsFiniteSet(D) /\ Cardinality(D) = IF 1 > Len(seen) THEN 0 ELSE Len(seen) - 1 + 1
    BY <2>1, FS_Interval
  <2> QED BY <2>1, <2>2
<1>2. \A i \in D : i \in Nat /\ seen[i] \in Nat
  OBVIOUS
<1>3. \A i, j \in D : <<i, j>> \in R <=> First(i, j)
  OBVIOUS
<1>4. \A i, j \in D : i # j => First(i, j) \/ First(j, i)
  BY <1>2
<1>5. \A i, j, k \in D : First(i, j) /\ First(j, k) => First(i, k)
  BY <1>2
<1>6. \A i, j \in D : First(i, j) => seen[i] >= seen[j]
  BY <1>2
<1>7. sorted = CHOOSE s \in SetToSeqs(D) : Good(s)
  BY DEF Sorted, InOrder
<1> HIDE DEF D, First, R, sorted
<1>8. Compares(R, D)
  BY <1>3, <1>4, <1>5 DEF Compares
<1>9. PICK f \in [1..Len(seen) -> D] : InOrderOf(f, R, Len(seen))
  BY <1>1, <1>8, OrderExists
<1>10. \A i, j \in 1..Len(seen) : i < j => f[i] # f[j] /\ First(f[i], f[j])
  BY <1>3, <1>9 DEF InOrderOf
<1>11. \A i, j \in 1..Len(seen) : i # j => f[i] # f[j]
  BY <1>1, <1>10
<1>12. f \in SetToSeqs(D)
  BY <1>1, <1>11 DEF SetToSeqs
<1>13. Good(f)
  BY <1>10
<1>14. sorted \in SetToSeqs(D) /\ Good(sorted)
  BY <1>7, <1>12, <1>13
<1>15. /\ sorted \in [1..Len(seen) -> D]
       /\ \A i, j \in 1..Len(seen) : i # j => sorted[i] # sorted[j]
  BY <1>1, <1>14 DEF SetToSeqs
<1>16. \A i, j \in 1..Len(seen) : i < j => First(sorted[i], sorted[j])
  BY <1>14, <1>15
<1>17. sorted \in Surjection(D, D)
  <2>1. sorted \in Injection(D, D)
    BY <1>1, <1>15 DEF Injection, IsInjective
  <2> QED BY <1>1, <2>1, FS_Injection
<1>18. \A n \in D : \E i \in D : sorted[i] = n
  BY <1>17 DEF Surjection
<1> QED BY <1>1, <1>6, <1>15, <1>16, <1>18 DEF Ranked, sorted

(* A line shows no less than sorted() saw of those not printed before it, and *)
(* has its place.                                                             *)
LineWell(IPL, seen, before, line) ==
    /\ \A n \in DOMAIN seen \ before : line.recv + line.send >= seen[n]
    /\ IPL # Empty => line.place = PlaceOf(IPL, line.outer)

WellLined(IPL, seen, lines) ==
    \A i \in DOMAIN lines : LineWell(IPL, seen, {lines[j].conn : j \in 1..i - 1}, lines[i])

WellPrinted(IPL, h) ==
    /\ h = [key |-> h.key, seen |-> h.seen, lines |-> h.lines]
    /\ h.seen \in Seq(Nat)
    /\ \E S : h.lines \in Seq(S)
    /\ WellLined(IPL, h.seen, h.lines)

InTurn(order, lines) == \A i \in DOMAIN lines : lines[i].conn = order[i]

LEMMA SeenNat ==
    ASSUME NEW seen \in Seq(Nat)
    PROVE  /\ Len(seen) \in Nat /\ DOMAIN seen = 1..Len(seen)
           /\ \A i \in 1..Len(seen) : seen[i] \in Nat
  OBVIOUS

LEMMA LineAdded ==
    ASSUME NEW IPL, NEW S, NEW lines \in Seq(S), NEW seen \in Seq(Nat), NEW order,
           Ranked(order, seen), InTurn(order, lines), WellLined(IPL, seen, lines),
           Len(lines) < Len(seen),
           NEW line, line.conn = order[Len(lines) + 1],
           line.recv + line.send \in Nat,
           line.recv + line.send >= seen[order[Len(lines) + 1]],
           IPL # Empty => line.place = PlaceOf(IPL, line.outer),
           NEW longer, longer = Append(lines, line)
    PROVE  /\ longer \in Seq(S \cup {line}) /\ Len(longer) = Len(lines) + 1
           /\ InTurn(order, longer) /\ WellLined(IPL, seen, longer)
<1> DEFINE m == Len(lines)
           Before(s, i) == {s[j].conn : j \in 1..i - 1}
<1>1. /\ m \in Nat /\ DOMAIN lines = 1..m /\ m < Len(seen)
      /\ Len(seen) \in Nat /\ DOMAIN seen = 1..Len(seen)
      /\ \A i \in 1..Len(seen) : seen[i] \in Nat
  <2>1. m \in Nat /\ DOMAIN lines = 1..m /\ m < Len(seen)
    OBVIOUS
  <2> QED BY <2>1, SeenNat
<1>2. /\ longer \in Seq(S \cup {line}) /\ Len(longer) = m + 1 /\ DOMAIN longer = 1..m + 1
      /\ \A i \in 1..m : longer[i] = lines[i]
      /\ longer[m + 1] = line
  OBVIOUS
<1>3. InTurn(order, longer)
  BY <1>1, <1>2 DEF InTurn
<1> HIDE DEF m
<1>4. ASSUME NEW i \in 1..m
      PROVE  LineWell(IPL, seen, Before(longer, i), longer[i])
  <2>1. \A j \in 1..i - 1 : longer[j] = lines[j]
    BY <1>1, <1>2, <1>4
  <2>2. Before(longer, i) = Before(lines, i)
    BY <2>1
  <2>3. LineWell(IPL, seen, Before(lines, i), lines[i])
    BY <1>1, <1>4 DEF WellLined
  <2> QED BY <1>2, <1>4, <2>2, <2>3
<1>5. LineWell(IPL, seen, Before(longer, m + 1), line)
  <2>1. ASSUME NEW n \in DOMAIN seen, n \notin Before(longer, m + 1)
        PROVE  line.recv + line.send >= seen[n]
    <3>1. PICK i \in 1..Len(seen) : order[i] = n
      BY <1>1 DEF Ranked
    <3>2. \A j \in 1..m : longer[j].conn = order[j] /\ j \in 1..(m + 1) - 1
      <4> SUFFICES ASSUME NEW j \in 1..m
                   PROVE  longer[j].conn = order[j] /\ j \in 1..(m + 1) - 1
        OBVIOUS
      <4>1. j \in 1..(m + 1) - 1 /\ j \in 1..m + 1
        BY <1>1
      <4>2. j \in DOMAIN longer
        BY <1>2, <4>1
      <4> QED BY <1>3, <4>1, <4>2 DEF InTurn
    <3>3. i \notin 1..m
      BY <2>1, <3>1, <3>2
    <3>4. m + 1 \in 1..Len(seen) /\ (i = m + 1 \/ m + 1 < i)
      <4>1. i \in Nat /\ i >= 1 /\ ~(i <= m)
        BY <1>1, <3>3
      <4>2. \A a, b, c \in Nat : a < b /\ ~(c <= a) => a + 1 \in 1..b /\ (c = a + 1 \/ a + 1 < c)
        OBVIOUS
      <4> QED BY <1>1, <4>1, <4>2, Zenon
    <3>5. seen[order[m + 1]] >= seen[n]
      <4>1. seen[n] \in Nat
        BY <1>1
      <4>2. CASE i = m + 1
        BY <3>1, <4>1, <4>2
      <4>3. CASE m + 1 < i
        BY <3>1, <3>4, <4>3 DEF Ranked
      <4> QED BY <3>4, <4>2, <4>3
    <3>6. seen[order[m + 1]] \in Nat /\ seen[n] \in Nat
      <4>1. order[m + 1] \in 1..Len(seen)
        BY <3>4 DEF Ranked
      <4> QED BY <1>1, <4>1
    <3> QED BY <3>5, <3>6 DEF m
  <2> QED BY <2>1 DEF LineWell
<1>6. WellLined(IPL, seen, longer)
  <2>1. \A i \in 1..m + 1 : i \in 1..m \/ i = m + 1
    BY <1>1
  <2> QED BY <1>2, <1>4, <1>5, <2>1 DEF WellLined
<1> QED BY <1>2, <1>3, <1>6 DEF m

-----------------------------------------------------------------------------
(* What sorted() saw is not more than there is: lists and bytes only grow.   *)
SeenOf(seen, list) ==
    /\ Len(seen) <= Len(list)
    /\ \A n \in 1..Len(seen) : seen[n] <= Bytes(list[n])

GrownFrom(list, more) ==
    /\ Len(list) <= Len(more)
    /\ \A n \in 1..Len(list) : list[n].recv <= more[n].recv /\ list[n].send <= more[n].send

LEMMA GrownSame ==
    ASSUME NEW t, NEW list \in Seq(Entries(t)) PROVE GrownFrom(list, list)
<1>1. \A n \in 1..Len(list) : list[n].recv \in Nat /\ list[n].send \in Nat
  BY EntryNat
<1>2. Len(list) \in Nat
  OBVIOUS
<1> QED BY <1>1, <1>2 DEF GrownFrom

LEMMA GrownChanged ==
    ASSUME NEW t, NEW list \in Seq(Entries(t)), NEW i, NEW e,
           i \in DOMAIN list => list[i].recv <= e.recv /\ list[i].send <= e.send,
           NEW changed, changed = [list EXCEPT ![i] = e]
    PROVE  GrownFrom(list, changed)
<1>1. \A n \in 1..Len(list) : list[n].recv \in Nat /\ list[n].send \in Nat
  BY EntryNat
<1>2. /\ Len(list) \in Nat /\ DOMAIN list = 1..Len(list)
      /\ Len(changed) = Len(list)
      /\ \A n \in DOMAIN list : changed[n] = IF n = i THEN e ELSE list[n]
  OBVIOUS
<1>3. ASSUME NEW n \in 1..Len(list)
      PROVE  list[n].recv <= changed[n].recv /\ list[n].send <= changed[n].send
  <2>1. CASE n = i
    BY <1>2, <2>1
  <2>2. CASE n # i
    BY <1>1, <1>2, <2>2
  <2> QED BY <2>1, <2>2
<1> QED BY <1>2, <1>3 DEF GrownFrom

LEMMA GrownLonger ==
    ASSUME NEW t, NEW list \in Seq(Entries(t)), NEW e
    PROVE  GrownFrom(list, Append(list, e))
<1>1. \A n \in 1..Len(list) : list[n].recv \in Nat /\ list[n].send \in Nat
  BY EntryNat
<1>2. /\ Len(list) \in Nat /\ Len(Append(list, e)) = Len(list) + 1
      /\ \A n \in 1..Len(list) : Append(list, e)[n] = list[n]
  OBVIOUS
<1> QED BY <1>1, <1>2 DEF GrownFrom

TableGrown == \A k \in DOMAIN table : k \in DOMAIN table' /\ GrownFrom(table[k], table'[k])

LEMMA TableGrows ==
    ASSUME HeldInv, PlaceInv, Loop, DOMAIN table \subseteq NetKeys
    PROVE  TableGrown /\ DOMAIN table' \subseteq NetKeys
<1> DEFINE k == KeyOf(record)
<1>1. \A i \in DOMAIN table : table[i] \in Seq(Entries(clock)) /\ GrownFrom(table[i], table[i])
  BY GrownSame DEF HeldInv, TableTyped
<1>2. CASE UNCHANGED table
  BY <1>1, <1>2 DEF TableGrown
<1>3. CASE Create
  <2>1. loop.at = "create" /\ table' = Put(table, k, Empty)
    BY <1>3 DEF Create
  <2>2. InNet(record) /\ k \notin DOMAIN table
    BY <2>1 DEF PlaceInv, Saving
  <2>3. k \in Keys
    BY <2>1, IsBusy DEF Records, Saving
  <2>4. k \in NetKeys
    BY <2>2, <2>3 DEF NetKeys, KeyOf, InNet
  <2>5. \A i \in DOMAIN table : i \in DOMAIN table' /\ table'[i] = table[i]
    BY <2>1, <2>2 DEF Put
  <2> QED BY <1>1, <2>1, <2>4, <2>5 DEF Put, TableGrown
<1>4. CASE (Merge \/ MergeRest) /\ ~UNCHANGED table
  <2> DEFINE old == table[k][loop.entry]
  <2>1. /\ loop.at \in Saving /\ loop.at \in {"merge", "merge_rest"} /\ ~loop.old
        /\ \E e : /\ e = MergedRecv(old, record) \/ e = MergedRest(old, record)
                  /\ table' = [table EXCEPT ![k][loop.entry] = e]
    BY <1>4 DEF Merge, MergeRest, Saving
  <2>2. PICK e : /\ e = MergedRecv(old, record) \/ e = MergedRest(old, record)
                 /\ table' = [table EXCEPT ![k][loop.entry] = e]
    BY <2>1
  <2>3. k \in DOMAIN table /\ loop.entry \in DOMAIN table[k]
    BY <2>1 DEF PlaceInv, OfOuter
  <2>4. record \in Records(clock) /\ clock \in Nat
    BY <2>1, IsBusy, BoundsAssumption DEF HeldInv, CountedInv
  <2>5. table[k] \in Seq(Entries(clock)) /\ old \in Entries(clock)
    BY <1>1, <2>3
  <2> DEFINE changed == [table[k] EXCEPT ![loop.entry] = e]
  <2>6. /\ DOMAIN table' = DOMAIN table
        /\ table'[k] = changed
        /\ \A i \in DOMAIN table \ {k} : table'[i] = table[i]
    BY <2>2, <2>3
  <2> HIDE DEF k
  <2>7. old.recv <= e.recv /\ old.send <= e.send
    <3>1. /\ old.recv \in Nat /\ old.send \in Nat
          /\ record.recv \in Nat /\ record.send \in Nat
      BY <2>4, <2>5 DEF Entries, Records
    <3> HIDE DEF old
    <3>2. CASE e = MergedRecv(old, record)
      BY <2>4, <2>5, <3>1, <3>2, RecvTyped
    <3>3. CASE e = MergedRest(old, record)
      BY <2>4, <2>5, <3>1, <3>3, RestTyped
    <3> QED BY <2>2, <3>2, <3>3
  <2> HIDE DEF changed
  <2>8. GrownFrom(table[k], changed)
    BY <2>5, <2>7, GrownChanged DEF changed
  <2> QED BY <1>1, <2>6, <2>8 DEF TableGrown
<1>5. CASE AppendEntry /\ ~UNCHANGED table
  <2>1. /\ loop.at = "put" /\ ~loop.old
        /\ table' = [table EXCEPT ![k] = Append(@, Entry(record))]
    BY <1>5 DEF AppendEntry
  <2>2. k \in DOMAIN table
    BY <2>1 DEF PlaceInv
  <2>3. /\ DOMAIN table' = DOMAIN table
        /\ table'[k] = Append(table[k], Entry(record))
        /\ \A i \in DOMAIN table \ {k} : table'[i] = table[i]
    BY <2>1, <2>2
  <2> HIDE DEF k
  <2>4. GrownFrom(table[k], table'[k])
    BY <1>1, <2>2, <2>3, GrownLonger
  <2> QED BY <1>1, <2>3, <2>4 DEF TableGrown
<1> QED BY <1>2, <1>3, <1>4, <1>5
        DEF Loop, Arrive, Count, Test, Missing, Find, Lookup, Saved

LEMMA SeenLess ==
    ASSUME NEW t, NEW list \in Seq(Entries(t)), NEW u, NEW more \in Seq(Entries(u)),
           GrownFrom(list, more)
    PROVE  /\ Len(list) \in Nat /\ Len(more) \in Nat /\ Len(list) <= Len(more)
           /\ \A n \in 1..Len(list) :
                 /\ n \in 1..Len(more)
                 /\ list[n].recv \in Nat /\ more[n].recv \in Nat /\ list[n].recv <= more[n].recv
                 /\ Bytes(list[n]) \in Nat /\ Bytes(more[n]) \in Nat
                 /\ Bytes(list[n]) <= Bytes(more[n])
           /\ \A seen \in Seq(Nat) : SeenOf(seen, list) => SeenOf(seen, more)
<1>1. Len(list) \in Nat /\ Len(more) \in Nat /\ Len(list) <= Len(more)
  BY DEF GrownFrom
<1>2. ASSUME NEW n \in 1..Len(list)
      PROVE  /\ n \in 1..Len(more)
             /\ list[n].recv \in Nat /\ more[n].recv \in Nat /\ list[n].recv <= more[n].recv
             /\ Bytes(list[n]) \in Nat /\ Bytes(more[n]) \in Nat
             /\ Bytes(list[n]) <= Bytes(more[n])
  <2>1. n \in 1..Len(more)
    BY <1>1
  <2>2. list[n] \in Entries(t) /\ more[n] \in Entries(u)
    BY <2>1
  <2>3. /\ list[n].recv \in Nat /\ list[n].send \in Nat
        /\ more[n].recv \in Nat /\ more[n].send \in Nat
    BY <2>2, EntryNat
  <2>4. list[n].recv <= more[n].recv /\ list[n].send <= more[n].send
    BY DEF GrownFrom
  <2> QED BY <2>1, <2>3, <2>4 DEF Bytes
<1>3. ASSUME NEW seen \in Seq(Nat), SeenOf(seen, list) PROVE SeenOf(seen, more)
  <2>1. Len(seen) \in Nat /\ Len(seen) <= Len(list) /\ \A n \in 1..Len(seen) : seen[n] \in Nat
    BY <1>3 DEF SeenOf
  <2>2. \A n \in 1..Len(seen) : n \in 1..Len(list) /\ seen[n] <= Bytes(list[n])
    BY <1>1, <1>3, <2>1 DEF SeenOf
  <2>3. \A n \in 1..Len(seen) : seen[n] <= Bytes(more[n])
    BY <1>2, <2>1, <2>2
  <2> QED BY <1>1, <2>1, <2>3 DEF SeenOf
<1> QED BY <1>1, <1>2, <1>3

LEMMA TailAscends ==
    ASSUME NEW S, NEW s \in Seq(S), s # <<>>, Ascending(s)
    PROVE  /\ Head(s) \in S /\ Tail(s) \in Seq(S) /\ Ascending(Tail(s))
           /\ Head(s) = s[1] /\ 1 \in DOMAIN s
           /\ \A n \in DOMAIN Tail(s) : Below(Head(s), Tail(s)[n]) /\ Tail(s)[n] = s[n + 1]
                                        /\ n + 1 \in DOMAIN s
<1>1. /\ Len(s) \in Nat \ {0} /\ DOMAIN s = 1..Len(s) /\ Head(s) = s[1] /\ s[1] \in S
      /\ Tail(s) \in Seq(S) /\ DOMAIN Tail(s) = 1..Len(s) - 1
      /\ \A n \in 1..Len(s) - 1 : Tail(s)[n] = s[n + 1]
  OBVIOUS
<1>2. ASSUME NEW i \in DOMAIN Tail(s), NEW j \in DOMAIN Tail(s), i < j
      PROVE  Below(Tail(s)[i], Tail(s)[j])
  <2>1. i + 1 \in DOMAIN s /\ j + 1 \in DOMAIN s /\ i + 1 < j + 1
    BY <1>1, <1>2
  <2>2. Below(s[i + 1], s[j + 1])
    BY <2>1 DEF Ascending
  <2> QED BY <1>1, <2>2
<1>3. ASSUME NEW n \in DOMAIN Tail(s)
      PROVE  Below(Head(s), Tail(s)[n]) /\ Tail(s)[n] = s[n + 1] /\ n + 1 \in DOMAIN s
  <2>1. 1 \in DOMAIN s /\ n + 1 \in DOMAIN s /\ 1 < n + 1
    BY <1>1
  <2>2. Below(s[1], s[n + 1])
    BY <2>1 DEF Ascending
  <2> QED BY <1>1, <2>1, <2>2
<1> QED BY <1>1, <1>2, <1>3 DEF Ascending

-----------------------------------------------------------------------------
(* The hosts printed are in order, each of them well printed.                *)
PrintedOK(IPL, hosts) ==
    /\ \E S : hosts \in Seq(S)
    /\ \A m, n \in DOMAIN hosts : m < n => Below(hosts[m].key, hosts[n].key)
    /\ \A n \in DOMAIN hosts : WellPrinted(IPL, hosts[n])

LEMMA HostsNone == ASSUME NEW IPL PROVE PrintedOK(IPL, Empty)
<1>1. Empty \in Seq({}) /\ DOMAIN Empty = {}
  BY DEF Empty
<1> QED BY <1>1 DEF PrintedOK

Added(hosts, h, longer) == longer = Append(hosts, h)
Changed(hosts, h, changed) == changed = [hosts EXCEPT ![Len(hosts)] = h]

LEMMA HostAdded ==
    ASSUME NEW IPL, NEW hosts, PrintedOK(IPL, hosts), NEW h, WellPrinted(IPL, h),
           \A m \in DOMAIN hosts : Below(hosts[m].key, h.key),
           NEW longer, Added(hosts, h, longer)
    PROVE  /\ PrintedOK(IPL, longer)
           /\ Len(longer) = Len(hosts) + 1 /\ longer[Len(longer)] = h /\ longer # Empty
           /\ \A m \in DOMAIN longer :
                 \/ m \in DOMAIN hosts /\ longer[m] = hosts[m]
                 \/ m = Len(longer)
<1> USE DEF Added
<1>1. PICK S : hosts \in Seq(S)
  BY DEF PrintedOK
<1>2. longer \in Seq(S \cup {h})
  <2>1. hosts \in Seq(S \cup {h}) /\ h \in S \cup {h}
    BY <1>1, SeqLarger
  <2> QED BY <2>1
<1>3. /\ Len(hosts) \in Nat /\ DOMAIN hosts = 1..Len(hosts) /\ Len(longer) = Len(hosts) + 1
      /\ DOMAIN longer = 1..Len(hosts) + 1
      /\ longer[Len(hosts) + 1] = h /\ longer # Empty
      /\ \A n \in DOMAIN hosts : longer[n] = hosts[n]
  BY <1>1 DEF Empty
<1>4. \A m \in DOMAIN longer : m \in DOMAIN hosts \/ m = Len(hosts) + 1
  BY <1>3
<1>5. ASSUME NEW m \in DOMAIN longer, NEW n \in DOMAIN longer, m < n
      PROVE  Below(longer[m].key, longer[n].key)
  <2>1. m \in DOMAIN hosts
    BY <1>3, <1>5
  <2>2. CASE n \in DOMAIN hosts
    BY <1>3, <1>5, <2>1, <2>2 DEF PrintedOK
  <2>3. CASE n = Len(hosts) + 1
    BY <1>3, <2>1, <2>3
  <2> QED BY <1>4, <2>2, <2>3
<1>6. \A n \in DOMAIN longer : WellPrinted(IPL, longer[n])
  BY <1>3, <1>4 DEF PrintedOK
<1> QED BY <1>2, <1>3, <1>4, <1>5, <1>6 DEF PrintedOK

LEMMA IsSeq ==
    ASSUME NEW T, NEW n \in Nat, NEW f \in [1..n -> T]
    PROVE  f \in Seq(T) /\ Len(f) = n
  OBVIOUS

LEMMA HostChanged ==
    ASSUME NEW IPL, NEW hosts, PrintedOK(IPL, hosts), hosts # Empty,
           NEW h, WellPrinted(IPL, h), h.key = hosts[Len(hosts)].key,
           NEW changed, Changed(hosts, h, changed)
    PROVE  /\ PrintedOK(IPL, changed) /\ changed # Empty
           /\ Len(changed) = Len(hosts) /\ DOMAIN changed = DOMAIN hosts
           /\ changed[Len(changed)] = h
           /\ \A n \in DOMAIN hosts : changed[n].key = hosts[n].key
<1> USE DEF Changed
<1>1. PICK S : hosts \in Seq(S)
  BY DEF PrintedOK
<1>2. PICK T, n : hosts \in Seq(T) /\ h \in T /\ n = Len(hosts)
  <2>1. hosts \in Seq(S \cup {h}) /\ h \in S \cup {h}
    BY <1>1, SeqLarger
  <2> QED BY <2>1
<1>3. changed \in Seq(T) /\ DOMAIN changed = DOMAIN hosts /\ Len(changed) = Len(hosts)
  <2>1. n \in Nat /\ DOMAIN hosts = 1..n /\ DOMAIN changed = 1..n
    BY <1>2
  <2>2. \A m \in 1..n : changed[m] \in T
    BY <1>2, <2>1
  <2>3. changed = [m \in 1..n |-> changed[m]]
    BY <2>1
  <2>4. changed \in [1..n -> T]
    BY <2>2, <2>3, Zenon
  <2>5. changed \in Seq(T) /\ Len(changed) = n
    BY <2>1, <2>4, IsSeq, Zenon
  <2> QED BY <1>2, <2>1, <2>5, Zenon
<1>4. Len(hosts) \in DOMAIN hosts
  BY <1>1 DEF Empty
<1>5. /\ changed[Len(hosts)] = h
      /\ \A m \in DOMAIN hosts : m = Len(hosts) \/ changed[m] = hosts[m]
  BY <1>4
<1>6. \A m \in DOMAIN hosts : /\ changed[m].key = hosts[m].key
                              /\ WellPrinted(IPL, changed[m])
  BY <1>5 DEF PrintedOK
<1>7. changed # Empty
  BY <1>3, <1>4 DEF Empty
<1> QED BY <1>3, <1>5, <1>6, <1>7 DEF PrintedOK

LEMMA SeenMore ==
    ASSUME NEW IPL, NEW h, WellPrinted(IPL, h), h.lines = Empty, NEW x \in Nat,
           NEW g, g = [h EXCEPT !.seen = Append(h.seen, x)]
    PROVE  /\ WellPrinted(IPL, g)
           /\ g.key = h.key /\ g.seen = Append(h.seen, x) /\ g.lines = Empty
<1>1. /\ g = [key |-> g.key, seen |-> g.seen, lines |-> g.lines]
      /\ g.key = h.key /\ g.seen = Append(h.seen, x) /\ g.lines = Empty
  BY DEF WellPrinted
<1>2. h.seen \in Seq(Nat)
  BY DEF WellPrinted
<1>3. Append(h.seen, x) \in Seq(Nat)
  BY <1>2
<1>4. g.lines \in Seq({}) /\ DOMAIN g.lines = {}
  <2>1. Empty \in Seq({}) /\ DOMAIN Empty = {}
    BY DEF Empty
  <2> QED BY <1>1, <2>1
<1>5. WellLined(IPL, g.seen, g.lines)
  BY <1>4 DEF WellLined
<1> QED BY <1>1, <1>3, <1>4, <1>5 DEF WellPrinted

WithLine(h, line, g) == g = [h EXCEPT !.lines = Append(h.lines, line)]

LEMMA LinesMore ==
    ASSUME NEW IPL, NEW h, WellPrinted(IPL, h), NEW order,
           Ranked(order, h.seen), InTurn(order, h.lines), Len(h.lines) < Len(h.seen),
           NEW line, line.conn = order[Len(h.lines) + 1],
           line.recv + line.send \in Nat,
           line.recv + line.send >= h.seen[order[Len(h.lines) + 1]],
           IPL # Empty => line.place = PlaceOf(IPL, line.outer),
           NEW g, WithLine(h, line, g)
    PROVE  /\ WellPrinted(IPL, g)
           /\ g.key = h.key /\ g.seen = h.seen
           /\ InTurn(order, g.lines) /\ Len(g.lines) <= Len(g.seen)
<1> USE DEF WithLine
<1>1. /\ g = [key |-> g.key, seen |-> g.seen, lines |-> g.lines]
      /\ g.key = h.key /\ g.seen = h.seen /\ g.lines = Append(h.lines, line)
  BY DEF WellPrinted
<1>2. PICK S : h.lines \in Seq(S)
  BY DEF WellPrinted
<1>3. h.seen \in Seq(Nat) /\ WellLined(IPL, h.seen, h.lines)
  BY DEF WellPrinted
<1>4. /\ g.lines \in Seq(S \cup {line}) /\ Len(g.lines) = Len(h.lines) + 1
      /\ InTurn(order, g.lines) /\ WellLined(IPL, h.seen, g.lines)
  BY <1>1, <1>2, <1>3, LineAdded
<1>5. Len(h.lines) \in Nat /\ Len(h.seen) \in Nat
  BY <1>2, <1>3
<1> QED BY <1>1, <1>3, <1>4, <1>5 DEF WellPrinted

-----------------------------------------------------------------------------
(* What is known of host h, whose list is there, while it is looked at and   *)
(* while its lines are printed.                                              *)
WeighOK(h, rows, list) ==
    /\ h.lines = Empty /\ rows \in Nat
    /\ Len(h.seen) <= rows /\ rows <= Len(list)

RecvOK(h, rows, recv, list) ==
    /\ Len(h.seen) < rows
    /\ recv \in Nat /\ recv <= list[Len(h.seen) + 1].recv

LinesOK(h, order) ==
    /\ Ranked(order, h.seen) /\ InTurn(order, h.lines)
    /\ Len(h.lines) <= Len(h.seen)

LineOK(h, order, send, list) ==
    /\ Len(h.lines) < Len(h.seen)
    /\ send \in Nat
    /\ LET n == order[Len(h.lines) + 1]
       IN  h.seen[n] <= list[n].recv + send

LEMMA NextOf == \A a, b \in Nat : a < b => a + 1 \in 1..b
  OBVIOUS

LEMMA NextInTurn ==
    ASSUME NEW IPL, NEW h, WellPrinted(IPL, h), NEW order, LinesOK(h, order),
           Len(h.lines) < Len(h.seen)
    PROVE  /\ order[Len(h.lines) + 1] \in 1..Len(h.seen)
           /\ h.seen[order[Len(h.lines) + 1]] \in Nat
<1>1. h.seen \in Seq(Nat) /\ Len(h.lines) \in Nat
  BY DEF WellPrinted
<1>2. Len(h.seen) \in Nat /\ \A n \in 1..Len(h.seen) : h.seen[n] \in Nat
  BY <1>1, SeenNat
<1>3. Len(h.lines) + 1 \in 1..Len(h.seen)
  BY <1>1, <1>2, NextOf
<1>4. order[Len(h.lines) + 1] \in 1..Len(h.seen)
  BY <1>3 DEF LinesOK, Ranked
<1> QED BY <1>2, <1>4

LEMMA StillOK ==
    ASSUME NEW t, NEW list \in Seq(Entries(t)), NEW u, NEW more \in Seq(Entries(u)),
           GrownFrom(list, more), NEW IPL, NEW h, WellPrinted(IPL, h)
    PROVE  /\ SeenOf(h.seen, list) => SeenOf(h.seen, more)
           /\ \A rows : WeighOK(h, rows, list) => WeighOK(h, rows, more)
           /\ \A rows, recv : WeighOK(h, rows, list) /\ RecvOK(h, rows, recv, list)
                                => RecvOK(h, rows, recv, more)
           /\ \A order, send :
                 SeenOf(h.seen, list) /\ LinesOK(h, order) /\ LineOK(h, order, send, list)
                    => LineOK(h, order, send, more)
<1>1. /\ Len(list) \in Nat /\ Len(more) \in Nat /\ Len(list) <= Len(more)
      /\ \A n \in 1..Len(list) :
            list[n].recv \in Nat /\ more[n].recv \in Nat /\ list[n].recv <= more[n].recv
      /\ \A seen \in Seq(Nat) : SeenOf(seen, list) => SeenOf(seen, more)
  BY SeenLess
<1>2. h.seen \in Seq(Nat) /\ Len(h.seen) \in Nat
  BY DEF WellPrinted
<1>3. ASSUME NEW rows, WeighOK(h, rows, list) PROVE WeighOK(h, rows, more)
  BY <1>1, <1>3 DEF WeighOK
<1>4. ASSUME NEW rows, NEW recv, WeighOK(h, rows, list), RecvOK(h, rows, recv, list)
      PROVE  RecvOK(h, rows, recv, more)
  <2> DEFINE n == Len(h.seen) + 1
  <2>1. rows \in Nat /\ rows <= Len(list) /\ Len(h.seen) < rows
    BY <1>4 DEF WeighOK, RecvOK
  <2>2. n \in 1..Len(list)
    <3>1. Len(h.seen) < Len(list)
      BY <1>1, <1>2, <2>1
    <3> QED BY <1>1, <1>2, <3>1, NextOf
  <2>3. recv \in Nat /\ recv <= list[n].recv
    BY <1>4 DEF RecvOK
  <2>4. recv <= more[n].recv
    <3>1. list[n].recv \in Nat /\ more[n].recv \in Nat /\ list[n].recv <= more[n].recv
      BY <1>1, <2>2
    <3> HIDE DEF n
    <3> QED BY <2>3, <3>1
  <2> QED BY <2>1, <2>3, <2>4 DEF RecvOK
<1>5. ASSUME NEW order, NEW send, SeenOf(h.seen, list), LinesOK(h, order),
             LineOK(h, order, send, list)
      PROVE  LineOK(h, order, send, more)
  <2> DEFINE n == order[Len(h.lines) + 1]
  <2>1. Len(h.lines) < Len(h.seen) /\ send \in Nat /\ h.seen[n] <= list[n].recv + send
    BY <1>5 DEF LineOK
  <2>2. n \in 1..Len(h.seen) /\ h.seen[n] \in Nat
    BY <1>5, <2>1, NextInTurn
  <2>3. Len(h.seen) <= Len(list)
    BY <1>5 DEF SeenOf
  <2> HIDE DEF n
  <2>4. n \in 1..Len(list)
    BY <1>1, <1>2, <2>2, <2>3
  <2>5. list[n].recv \in Nat /\ more[n].recv \in Nat /\ list[n].recv <= more[n].recv
    BY <1>1, <2>4
  <2>6. h.seen[n] <= more[n].recv + send
    <3>1. \A a, b, c, d \in Nat : a <= b + d /\ b <= c => a <= c + d
      OBVIOUS
    <3> QED BY <2>1, <2>2, <2>5, <3>1, Zenon
  <2> QED BY <2>1, <2>6 DEF LineOK, n
<1> QED BY <1>1, <1>2, <1>3, <1>4, <1>5

(* What remains to be printed is above what is printed.                      *)
KeysInv ==
    /\ PrintedOK(options.IPL, printed)
    /\ main.keys \in Seq(DOMAIN stat) /\ Ascending(main.keys)
    /\ \A m \in DOMAIN printed : \A n \in DOMAIN main.keys :
          Below(printed[m].key, main.keys[n]) \/ (main.at # "print" /\ m = Len(printed))

HostInv ==
    /\ main.keys # Empty /\ printed # Empty
    /\ Out.key = Host
    /\ SeenOf(Out.seen, table[Host])

OrderInv ==
    /\ DOMAIN table \subseteq NetKeys
    /\ DOMAIN stat \subseteq DOMAIN table /\ IsFiniteSet(DOMAIN stat)
    /\ main.at \notin Printing => printed = Empty
    /\ main.at \in Printing => KeysInv
    /\ main.at \in Printing \ {"print"} => HostInv
    /\ main.at \in {"weigh", "weigh_send"} => WeighOK(Out, main.rows, table[Host])
    /\ main.at = "weigh_send" => RecvOK(Out, main.rows, main.recv, table[Host])
    /\ main.at \in {"lines", "line"} => LinesOK(Out, main.order)
    /\ main.at = "line" => LineOK(Out, main.order, main.send, table[Host])

LEMMA OrderInit == Init => OrderInv
<1> SUFFICES ASSUME Init PROVE OrderInv
  OBVIOUS
<1>1. table = Nothing /\ stat = Nothing /\ printed = Empty /\ main.at = "idle"
  BY DEF Init, IdleMain
<1>2. DOMAIN table = {} /\ DOMAIN stat = {}
  BY <1>1 DEF Nothing
<1> QED BY <1>1, <1>2, FS_EmptySet DEF OrderInv, Printing

(* Where the main thread does not print, nothing is printed.                 *)
LEMMA OrderQuiet ==
    ASSUME main'.at \notin Printing, printed' = Empty,
           (DOMAIN table \subseteq NetKeys)',
           (DOMAIN stat \subseteq DOMAIN table)', IsFiniteSet(DOMAIN stat')
    PROVE  OrderInv'
  BY DEF OrderInv, Printing

(* What the host at hand is made of.                                         *)
LEMMA AtHost ==
    ASSUME OrderInv, HeldInv, main.at \in Printing \ {"print"}
    PROVE  /\ KeysInv /\ HostInv
           /\ WellPrinted(options.IPL, Out)
           /\ Host \in DOMAIN stat /\ Host \in DOMAIN table
           /\ table[Host] \in Seq(Entries(clock))
<1>1. KeysInv /\ HostInv
  BY DEF OrderInv, Printing
<1>2. WellPrinted(options.IPL, Out)
  <2>1. PICK S : printed \in Seq(S)
    BY <1>1 DEF KeysInv, PrintedOK
  <2>2. Len(printed) \in DOMAIN printed
    BY <1>1, <2>1 DEF HostInv, Empty
  <2> QED BY <1>1, <2>2 DEF KeysInv, PrintedOK, Out
<1>3. Host \in DOMAIN stat
  BY <1>1, TailAscends DEF KeysInv, HostInv, Empty, Host
<1>4. Host \in DOMAIN table
  BY <1>3 DEF OrderInv
<1>5. table[Host] \in Seq(Entries(clock))
  BY <1>4 DEF HeldInv, TableTyped
<1> QED BY <1>1, <1>2, <1>3, <1>4, <1>5

LEMMA OrderLoop ==
    ASSUME OrderInv, HeldInv, HeldInv', PlaceInv, Loop
    PROVE  OrderInv'
<1>1. UNCHANGED <<options, stat, main, printed>>
  BY DEF Loop, Arrive, Count, Test, Create, Missing, Find, Lookup, Merge, MergeRest, AppendEntry,
         Saved, Elsewhere
<1>2. TableGrown /\ DOMAIN table' \subseteq NetKeys
  BY TableGrows DEF OrderInv
<1>3. (DOMAIN stat)' \subseteq (DOMAIN table)' /\ IsFiniteSet((DOMAIN stat)')
  BY <1>1, <1>2 DEF OrderInv, TableGrown
<1>4. main.at \in Printing => KeysInv'
  BY <1>1 DEF OrderInv, KeysInv
<1>5. (DOMAIN table \subseteq NetKeys)'
  BY <1>2 DEF NetKeys
<1>6. CASE main.at \notin Printing \ {"print"}
  BY <1>1, <1>3, <1>4, <1>5, <1>6 DEF OrderInv, Printing
<1>7. CASE main.at \in Printing \ {"print"}
  <2> DEFINE list == table[Host]
             more == table'[Host]
  <2>1. /\ HostInv /\ WellPrinted(options.IPL, Out)
        /\ Host \in DOMAIN table /\ list \in Seq(Entries(clock))
    BY <1>7, AtHost
  <2>2. GrownFrom(list, more) /\ Host \in DOMAIN table'
    BY <1>2, <2>1 DEF TableGrown
  <2>3. more \in Seq(Entries(clock'))
    BY <2>2 DEF HeldInv, TableTyped
  <2>4. Out' = Out /\ Host' = Host
    BY <1>1 DEF Out, Host
  <2>5. (table[Host])' = more
    BY <2>4
  <2> HIDE DEF list, more
  <2>6. /\ SeenOf(Out.seen, list) => SeenOf(Out.seen, more)
        /\ \A rows : WeighOK(Out, rows, list) => WeighOK(Out, rows, more)
        /\ \A rows, recv : WeighOK(Out, rows, list) /\ RecvOK(Out, rows, recv, list)
                             => RecvOK(Out, rows, recv, more)
        /\ \A order, send :
              SeenOf(Out.seen, list) /\ LinesOK(Out, order) /\ LineOK(Out, order, send, list)
                 => LineOK(Out, order, send, more)
    BY <2>1, <2>2, <2>3, StillOK
  <2>7. SeenOf(Out.seen, list)
    BY <2>1 DEF HostInv, list
  <2>8. HostInv'
    BY <1>1, <2>1, <2>4, <2>5, <2>6, <2>7 DEF HostInv
  <2>9. main.at \in {"weigh", "weigh_send"} => WeighOK(Out, main.rows, more)
    BY <2>6 DEF OrderInv, list
  <2>10. main.at = "weigh_send" => RecvOK(Out, main.rows, main.recv, more)
    BY <2>6 DEF OrderInv, list
  <2>11. main.at = "line" => LineOK(Out, main.order, main.send, more)
    BY <2>6, <2>7 DEF OrderInv, list
  <2> QED BY <1>1, <1>3, <1>4, <1>5, <1>7, <2>4, <2>5, <2>8, <2>9, <2>10, <2>11
          DEF OrderInv, Printing
<1> QED BY <1>6, <1>7

LEMMA OrderProcessed ==
    ASSUME OrderInv, Processed
    PROVE  OrderInv'
<1> DEFINE sorted == InOrder(DOMAIN stat, LAMBDA x, y : key_compare(x, y) < 0)
<1>1. /\ UNCHANGED <<options, table, stat, printed>> /\ main.at = "process"
      /\ main' = [at |-> "print", keys |-> sorted]
  BY DEF Processed, MainElsewhere
<1>2. DOMAIN stat \in SUBSET NetKeys /\ IsFiniteSet(DOMAIN stat) /\ printed = Empty
  BY <1>1 DEF OrderInv, Printing
<1>3. sorted \in Seq(DOMAIN stat) /\ Ascending(sorted)
  BY <1>2, KeysSorted
<1> HIDE DEF sorted
<1>4. main'.at = "print" /\ main'.keys = sorted
  BY <1>1
<1>5. PrintedOK(options.IPL, Empty) /\ DOMAIN Empty = {}
  BY HostsNone DEF Empty
<1>6. KeysInv'
  BY <1>1, <1>2, <1>3, <1>4, <1>5 DEF KeysInv
<1> QED BY <1>1, <1>4, <1>6 DEF OrderInv, Printing, NetKeys

LEMMA OrderPrintHost ==
    ASSUME OrderInv, HeldInv, PrintHost
    PROVE  OrderInv'
<1> DEFINE h == [key |-> Host, seen |-> Empty, lines |-> Empty]
           list == table[Host]
<1>1. /\ UNCHANGED <<options, table, stat>> /\ main.at = "print" /\ main.keys # Empty
      /\ printed' = Append(printed, h)
      /\ main' = [at |-> "weigh", keys |-> main.keys, rows |-> Len(list)]
  BY DEF PrintHost, MainElsewhere
<1>2. KeysInv /\ main.keys \in Seq(DOMAIN stat) /\ Ascending(main.keys)
  BY <1>1 DEF OrderInv, Printing, KeysInv
<1>3. /\ Host \in DOMAIN stat /\ Host = main.keys[1] /\ 1 \in DOMAIN main.keys
  BY <1>1, <1>2, TailAscends DEF Empty, Host
<1>4. list \in Seq(Entries(clock))
  BY <1>3 DEF OrderInv, HeldInv, TableTyped
<1>5. Len(list) \in Nat
  BY <1>4
<1>6. h.key = Host /\ h.seen = Empty /\ h.lines = Empty
  OBVIOUS
<1>7. WellPrinted(options.IPL, h)
  <2>1. Empty \in Seq(Nat) /\ Empty \in Seq({}) /\ DOMAIN Empty = {}
    BY DEF Empty
  <2> QED BY <1>6, <2>1 DEF WellPrinted, WellLined
<1>8. \A m \in DOMAIN printed : Below(printed[m].key, h.key)
  BY <1>1, <1>2, <1>3, <1>6 DEF KeysInv
<1> HIDE DEF h, list
<1>9. /\ PrintedOK(options.IPL, printed')
      /\ printed'[Len(printed')] = h /\ printed' # Empty
      /\ \A m \in DOMAIN printed' : \/ m \in DOMAIN printed /\ printed'[m] = printed[m]
                                    \/ m = Len(printed')
  <2>1. Added(printed, h, printed') /\ PrintedOK(options.IPL, printed)
    BY <1>1, <1>2 DEF Added, KeysInv
  <2> QED BY <1>7, <1>8, <2>1, HostAdded
<1>10. main'.at = "weigh" /\ main'.keys = main.keys /\ main'.rows = Len(list)
  BY <1>1
<1>11. KeysInv'
  BY <1>1, <1>2, <1>9, <1>10 DEF KeysInv
<1>12. Out' = h /\ Host' = Host /\ (table[Host])' = list
  BY <1>1, <1>9, <1>10 DEF Out, Host, list
<1>13. Len(Empty) = 0
  BY DEF Empty
<1>14. HostInv' /\ WeighOK(h, Len(list), list)
  BY <1>1, <1>5, <1>6, <1>9, <1>10, <1>12, <1>13 DEF HostInv, WeighOK, SeenOf
<1> QED BY <1>1, <1>10, <1>11, <1>12, <1>14 DEF OrderInv, Printing, NetKeys

(* A step that looks at the host at hand, or prints of it.                   *)
LEMMA OrderAtHost ==
    ASSUME OrderInv, HeldInv, main.at \in Printing \ {"print"},
           UNCHANGED <<options, table, stat>>,
           main'.at \in Printing \ {"print"}, main'.keys = main.keys,
           \/ printed' = printed
           \/ \E h : /\ Changed(printed, h, printed')
                     /\ WellPrinted(options.IPL, h) /\ h.key = Out.key
                     /\ SeenOf(h.seen, table[Host])
    PROVE  /\ KeysInv' /\ HostInv' /\ Host' = Host
           /\ printed' = printed => Out' = Out
           /\ \A h : /\ Changed(printed, h, printed')
                     /\ WellPrinted(options.IPL, h) /\ h.key = Out.key
                     => Out' = h
<1>1. KeysInv /\ HostInv
  BY AtHost
<1>2. Host' = Host
  BY DEF Host
<1>3. printed' = printed => Out' = Out
  BY DEF Out
<1>4. ASSUME NEW h, Changed(printed, h, printed'),
             WellPrinted(options.IPL, h), h.key = Out.key
      PROVE  /\ Out' = h /\ KeysInv' /\ printed' # Empty
  <2>1. PrintedOK(options.IPL, printed) /\ printed # Empty
    BY <1>1 DEF KeysInv, HostInv
  <2>2. /\ PrintedOK(options.IPL, printed') /\ printed' # Empty
        /\ Len(printed') = Len(printed) /\ DOMAIN printed' = DOMAIN printed
        /\ printed'[Len(printed')] = h
        /\ \A n \in DOMAIN printed : printed'[n].key = printed[n].key
    <3>1. h.key = printed[Len(printed)].key
      BY <1>4 DEF Out
    <3> QED BY <1>4, <2>1, <3>1, HostChanged
  <2>3. Out' = h
    BY <2>2 DEF Out
  <2>4. KeysInv'
    BY <1>1, <2>2 DEF KeysInv
  <2> QED BY <2>2, <2>3, <2>4
<1>5. CASE printed' = printed
  <2>1. KeysInv' /\ HostInv'
    BY <1>1, <1>2, <1>3, <1>5 DEF KeysInv, HostInv
  <2> QED BY <1>2, <1>3, <1>4, <2>1
<1>6. CASE \E h : /\ Changed(printed, h, printed')
                  /\ WellPrinted(options.IPL, h) /\ h.key = Out.key
                  /\ SeenOf(h.seen, table[Host])
  <2>1. PICK h : /\ Changed(printed, h, printed')
                 /\ WellPrinted(options.IPL, h) /\ h.key = Out.key
                 /\ SeenOf(h.seen, table[Host])
    BY <1>6
  <2>2. Out' = h /\ KeysInv' /\ printed' # Empty
    BY <1>4, <2>1
  <2>3. HostInv'
    BY <1>1, <1>2, <2>1, <2>2 DEF HostInv
  <2> QED BY <1>2, <1>3, <1>4, <2>2, <2>3
<1> QED BY <1>5, <1>6

LEMMA OrderWeigh ==
    ASSUME OrderInv, HeldInv, Weigh
    PROVE  OrderInv'
<1> DEFINE list == table[Host]
           n == Len(Out.seen) + 1
<1>1. /\ UNCHANGED <<options, table, stat, printed>> /\ main.at = "weigh"
      /\ Len(Out.seen) < main.rows
      /\ main' = [at |-> "weigh_send", keys |-> main.keys, rows |-> main.rows,
                  recv |-> list[n].recv]
  BY DEF Weigh, MainElsewhere, Conn
<1>2. main.at \in Printing \ {"print"}
  BY <1>1 DEF Printing
<1>3. WellPrinted(options.IPL, Out) /\ list \in Seq(Entries(clock))
  BY <1>2, AtHost
<1>4. WeighOK(Out, main.rows, list)
  BY <1>1 DEF OrderInv
<1>5. list[n].recv \in Nat
  <2>1. /\ Len(Out.seen) \in Nat /\ Len(list) \in Nat /\ main.rows \in Nat
        /\ main.rows <= Len(list)
    BY <1>3, <1>4 DEF WellPrinted, WeighOK
  <2>2. Len(Out.seen) < Len(list)
    BY <1>1, <2>1
  <2>3. n \in 1..Len(list)
    BY <2>1, <2>2, NextOf
  <2> HIDE DEF n, list
  <2>4. list[n] \in Entries(clock)
    BY <1>3, <2>3
  <2> QED BY <2>4, EntryNat
<1> HIDE DEF list, n
<1>6. /\ main'.at = "weigh_send" /\ main'.keys = main.keys /\ main'.rows = main.rows
      /\ main'.recv = list[n].recv
  BY <1>1
<1>7. KeysInv' /\ HostInv' /\ Host' = Host /\ Out' = Out
  <2>1. main'.at \in Printing \ {"print"}
    BY <1>6 DEF Printing
  <2> QED BY <1>1, <1>2, <1>6, <2>1, OrderAtHost
<1>8. RecvOK(Out, main.rows, list[n].recv, list)
  <2>1. list[n].recv <= list[n].recv
    BY <1>5
  <2> QED BY <1>1, <1>5, <2>1 DEF RecvOK, n
<1> QED BY <1>1, <1>4, <1>6, <1>7, <1>8 DEF OrderInv, Printing, NetKeys, list

(* The bytes seen of one connection more.                                    *)
LEMMA SeenGrows ==
    ASSUME NEW t, NEW list \in Seq(Entries(t)), NEW IPL, NEW h, WellPrinted(IPL, h),
           SeenOf(h.seen, list), NEW rows, WeighOK(h, rows, list),
           NEW recv, RecvOK(h, rows, recv, list),
           NEW g, g = [h EXCEPT !.seen =
                          Append(h.seen, recv + list[Len(h.seen) + 1].send)]
    PROVE  /\ WellPrinted(IPL, g) /\ g.key = h.key
           /\ SeenOf(g.seen, list) /\ WeighOK(g, rows, list)
<1> DEFINE n == Len(h.seen) + 1
           x == recv + list[n].send
<1>1. /\ h.seen \in Seq(Nat) /\ Len(h.seen) \in Nat /\ Len(list) \in Nat
      /\ rows \in Nat /\ Len(h.seen) < rows /\ rows <= Len(list)
      /\ h.lines = Empty /\ recv \in Nat /\ recv <= list[n].recv
  BY DEF WellPrinted, WeighOK, RecvOK
<1>2. n \in 1..Len(list)
  <2>1. Len(h.seen) < Len(list)
    BY <1>1
  <2> QED BY <1>1, <2>1, NextOf
<1>3. list[n].recv \in Nat /\ list[n].send \in Nat
  <2>1. list[n] \in Entries(t)
    BY <1>2
  <2> HIDE DEF n
  <2> QED BY <2>1, EntryNat
<1>4. x \in Nat /\ x <= Bytes(list[n])
  <2>1. \A a, b, c \in Nat : a <= b => a + c \in Nat /\ a + c <= b + c
    OBVIOUS
  <2> QED BY <1>1, <1>3, <2>1, Zenon DEF Bytes
<1>5. /\ WellPrinted(IPL, g)
      /\ g.key = h.key /\ g.seen = Append(h.seen, x) /\ g.lines = Empty
  <2>1. g = [h EXCEPT !.seen = Append(h.seen, x)]
    OBVIOUS
  <2> HIDE DEF x
  <2> QED BY <1>1, <1>4, <2>1, SeenMore
<1> HIDE DEF x
<1>6. /\ Len(g.seen) = n
      /\ \A i \in 1..n : i \in 1..Len(h.seen) \/ i = n
      /\ \A i \in 1..Len(h.seen) : g.seen[i] = h.seen[i]
      /\ g.seen[n] = x
  BY <1>1, <1>5
<1> HIDE DEF n
<1>7. \A i \in 1..n : g.seen[i] <= Bytes(list[i])
  BY <1>4, <1>6 DEF SeenOf
<1>8. n <= Len(list) /\ n <= rows
  <2>1. \A a, b \in Nat : a < b => a + 1 <= b
    OBVIOUS
  <2> QED BY <1>1, <1>2, <2>1 DEF n
<1> QED BY <1>1, <1>5, <1>6, <1>7, <1>8 DEF SeenOf, WeighOK

LEMMA OrderWeighSend ==
    ASSUME OrderInv, HeldInv, WeighSend
    PROVE  OrderInv'
<1> DEFINE list == table[Host]
           g == [Out EXCEPT !.seen = Append(Out.seen, main.recv + list[Len(Out.seen) + 1].send)]
<1>1. /\ UNCHANGED <<options, table, stat>> /\ main.at = "weigh_send"
      /\ Changed(printed, g, printed')
      /\ main' = [at |-> "weigh", keys |-> main.keys, rows |-> main.rows]
  BY DEF WeighSend, MainElsewhere, Conn, Out, Changed
<1>2. main.at \in Printing \ {"print"}
  BY <1>1 DEF Printing
<1>3. WellPrinted(options.IPL, Out) /\ HostInv /\ list \in Seq(Entries(clock))
  BY <1>2, AtHost
<1>4. /\ WeighOK(Out, main.rows, list) /\ RecvOK(Out, main.rows, main.recv, list)
      /\ SeenOf(Out.seen, list)
  BY <1>1, <1>3 DEF OrderInv, HostInv
<1>5. /\ WellPrinted(options.IPL, g) /\ g.key = Out.key
      /\ SeenOf(g.seen, list) /\ WeighOK(g, main.rows, list)
  <2> HIDE DEF list
  <2> QED BY <1>3, <1>4, SeenGrows
<1> HIDE DEF g, list
<1>6. main'.at = "weigh" /\ main'.keys = main.keys /\ main'.rows = main.rows
  BY <1>1
<1>7. KeysInv' /\ HostInv' /\ Host' = Host /\ Out' = g
  <2>1. main'.at \in Printing \ {"print"}
    BY <1>6 DEF Printing
  <2> QED BY <1>1, <1>2, <1>5, <1>6, <2>1, OrderAtHost DEF list
<1> QED BY <1>1, <1>5, <1>6, <1>7 DEF OrderInv, Printing, NetKeys, list

LEMMA OrderSort ==
    ASSUME OrderInv, HeldInv, Sort
    PROVE  OrderInv'
<1> DEFINE order == Sorted(Out.seen)
<1>1. /\ UNCHANGED <<options, table, stat, printed>> /\ main.at = "weigh"
      /\ main' = [at |-> "lines", keys |-> main.keys, order |-> order]
  BY DEF Sort, MainElsewhere
<1>2. main.at \in Printing \ {"print"}
  BY <1>1 DEF Printing
<1>3. Out.seen \in Seq(Nat) /\ Out.lines = Empty
  BY <1>1, <1>2, AtHost DEF WellPrinted, OrderInv, WeighOK
<1>4. Ranked(order, Out.seen)
  BY <1>3, SeenSorted
<1>5. LinesOK(Out, order)
  <2>1. Len(Empty) = 0 /\ DOMAIN Empty = {} /\ Len(Out.seen) \in Nat
    BY <1>3 DEF Empty
  <2> HIDE DEF order
  <2> QED BY <1>3, <1>4, <2>1 DEF LinesOK, InTurn
<1> HIDE DEF order
<1>6. main'.at = "lines" /\ main'.keys = main.keys /\ main'.order = order
  BY <1>1
<1>7. KeysInv' /\ HostInv' /\ Host' = Host /\ Out' = Out
  <2>1. main'.at \in Printing \ {"print"}
    BY <1>6 DEF Printing
  <2> QED BY <1>1, <1>2, <1>6, <2>1, OrderAtHost
<1> QED BY <1>1, <1>5, <1>6, <1>7 DEF OrderInv, Printing, NetKeys

LEMMA OrderPrintSend ==
    ASSUME OrderInv, HeldInv, PrintSend
    PROVE  OrderInv'
<1> DEFINE list == table[Host]
           n == main.order[Len(Out.lines) + 1]
<1>1. /\ UNCHANGED <<options, table, stat, printed>> /\ main.at = "lines"
      /\ Len(Out.lines) # Len(main.order)
      /\ main' = [at |-> "line", keys |-> main.keys, order |-> main.order,
                  send |-> list[n].send]
  BY DEF PrintSend, MainElsewhere, Conn, AllShown
<1>2. main.at \in Printing \ {"print"}
  BY <1>1 DEF Printing
<1>3. WellPrinted(options.IPL, Out) /\ HostInv /\ list \in Seq(Entries(clock))
  BY <1>2, AtHost
<1>4. LinesOK(Out, main.order) /\ SeenOf(Out.seen, list)
  BY <1>1, <1>3 DEF OrderInv, HostInv
<1>5. Len(Out.lines) < Len(Out.seen) /\ Len(Out.seen) \in Nat
  <2>1. Out.seen \in Seq(Nat) /\ Len(Out.lines) \in Nat /\ Len(Out.lines) <= Len(Out.seen)
    BY <1>3, <1>4 DEF WellPrinted, LinesOK
  <2>2. Len(Out.seen) \in Nat
    BY <2>1
  <2>3. Len(main.order) = Len(Out.seen)
    <3>1. main.order \in [1..Len(Out.seen) -> 1..Len(Out.seen)]
      BY <1>4 DEF LinesOK, Ranked
    <3> QED BY <2>2, <3>1, IsSeq
  <2> QED BY <1>1, <2>1, <2>2, <2>3
<1>6. n \in 1..Len(Out.seen) /\ Out.seen[n] \in Nat
  BY <1>3, <1>4, <1>5, NextInTurn
<1>7. list[n].recv \in Nat /\ list[n].send \in Nat
      /\ Out.seen[n] <= list[n].recv + list[n].send
  <2>1. Len(list) \in Nat /\ Len(Out.seen) <= Len(list)
    BY <1>3, <1>4 DEF SeenOf
  <2> HIDE DEF n, list
  <2>2. list[n] \in Entries(clock)
    BY <1>3, <1>5, <1>6, <2>1
  <2>3. Out.seen[n] <= Bytes(list[n])
    BY <1>4, <1>6 DEF SeenOf
  <2> QED BY <2>2, <2>3, EntryNat DEF Bytes
<1>8. LineOK(Out, main.order, list[n].send, list)
  BY <1>5, <1>7 DEF LineOK
<1> HIDE DEF list, n
<1>9. /\ main'.at = "line" /\ main'.keys = main.keys /\ main'.order = main.order
      /\ main'.send = list[n].send
  BY <1>1
<1>10. KeysInv' /\ HostInv' /\ Host' = Host /\ Out' = Out
  <2>1. main'.at \in Printing \ {"print"}
    BY <1>9 DEF Printing
  <2> QED BY <1>1, <1>2, <1>9, <2>1, OrderAtHost
<1> QED BY <1>1, <1>4, <1>8, <1>9, <1>10 DEF OrderInv, Printing, NetKeys, list

(* The line of connection n, which has the place of its address.             *)
LEMMA LineTyped ==
    ASSUME MainInv, main.send \in Nat, NEW t, NEW n, Conn(n) \in Entries(t)
    PROVE  /\ LineOf(n).conn = n
           /\ LineOf(n).recv = Conn(n).recv /\ LineOf(n).send = main.send
           /\ LineOf(n).recv + LineOf(n).send \in Nat
           /\ options.IPL # Empty =>
                 LineOf(n).place = PlaceOf(options.IPL, LineOf(n).outer)
<1> DEFINE e == Conn(n)
<1>1. e.outer \in Nat /\ e.recv \in Nat
  BY DEF Entries
<1>2. /\ LineOf(n).conn = n /\ LineOf(n).recv = e.recv /\ LineOf(n).send = main.send
      /\ LineOf(n).outer = e.outer
      /\ options.IPL # Empty => LineOf(n).place = getIpAddr(options.IPL, e.outer)
  BY DEF LineOf
<1> HIDE DEF e
<1>3. options.IPL # Empty => getIpAddr(options.IPL, e.outer) = PlaceOf(options.IPL, e.outer)
  BY <1>1, PlaceFound, SettingsAssumption DEF MainInv, Empty
<1> QED BY <1>1, <1>2, <1>3 DEF e

LEMMA OrderPrintRest ==
    ASSUME OrderInv, HeldInv, MainInv, PrintRest
    PROVE  OrderInv'
<1> DEFINE list == table[Host]
           order == main.order
           n == order[Len(Out.lines) + 1]
           line == LineOf(n)
           g == [Out EXCEPT !.lines = Append(Out.lines, line)]
<1>1. /\ UNCHANGED <<options, table, stat>> /\ main.at = "line"
      /\ Changed(printed, g, printed')
      /\ main' = [at |-> "lines", keys |-> main.keys, order |-> order]
  BY DEF PrintRest, MainElsewhere, Out, Changed
<1>2. main.at \in Printing \ {"print"}
  BY <1>1 DEF Printing
<1>3. WellPrinted(options.IPL, Out) /\ HostInv /\ list \in Seq(Entries(clock))
  BY <1>2, AtHost
<1>4. LinesOK(Out, order) /\ SeenOf(Out.seen, list) /\ LineOK(Out, order, main.send, list)
  BY <1>1, <1>3 DEF OrderInv, HostInv
<1>5. /\ Len(Out.lines) < Len(Out.seen) /\ main.send \in Nat
      /\ Out.seen[n] <= list[n].recv + main.send
      /\ Ranked(order, Out.seen) /\ InTurn(order, Out.lines)
  BY <1>4 DEF LineOK, LinesOK
<1>6. n \in 1..Len(Out.seen) /\ Out.seen[n] \in Nat
  BY <1>3, <1>4, <1>5, NextInTurn
<1>7. Conn(n) \in Entries(clock) /\ Conn(n) = list[n]
  <2>1. Len(list) \in Nat /\ Len(Out.seen) <= Len(list) /\ Len(Out.seen) \in Nat
    BY <1>3, <1>4 DEF SeenOf, WellPrinted
  <2> HIDE DEF n
  <2>2. list[n] \in Entries(clock)
    BY <1>3, <1>6, <2>1
  <2> QED BY <2>2 DEF Conn
<1> HIDE DEF n, g, list
<1>8. /\ line.conn = n
      /\ line.recv + line.send \in Nat /\ line.recv + line.send >= Out.seen[n]
      /\ options.IPL # Empty => line.place = PlaceOf(options.IPL, line.outer)
  <2>1. /\ line.conn = n /\ line.recv = list[n].recv /\ line.send = main.send
        /\ line.recv + line.send \in Nat
        /\ options.IPL # Empty => line.place = PlaceOf(options.IPL, line.outer)
    BY <1>5, <1>7, LineTyped
  <2> HIDE DEF line
  <2>2. list[n].recv + main.send \in Nat
    BY <2>1
  <2>3. \A a, b \in Nat : a <= b => b >= a
    OBVIOUS
  <2>4. list[n].recv + main.send >= Out.seen[n]
    BY <1>5, <1>6, <2>2, <2>3, Zenon
  <2> QED BY <2>1, <2>4, Zenon
<1> HIDE DEF line
<1>9. /\ WellPrinted(options.IPL, g) /\ g.key = Out.key /\ g.seen = Out.seen
      /\ InTurn(order, g.lines) /\ Len(g.lines) <= Len(g.seen)
  <2>1. WithLine(Out, line, g)
    BY DEF WithLine, g
  <2>2. n = order[Len(Out.lines) + 1]
    BY DEF n
  <2> HIDE DEF order
  <2> QED BY <1>3, <1>5, <1>8, <2>1, <2>2, LinesMore
<1>10. LinesOK(g, order) /\ SeenOf(g.seen, table[Host])
  BY <1>4, <1>5, <1>9 DEF LinesOK, list
<1>11. main'.at = "lines" /\ main'.keys = main.keys /\ main'.order = order
  BY <1>1
<1>12. KeysInv' /\ HostInv' /\ Host' = Host /\ Out' = g
  <2>1. main'.at \in Printing \ {"print"}
    BY <1>11 DEF Printing
  <2> QED BY <1>1, <1>2, <1>9, <1>10, <1>11, <2>1, OrderAtHost
<1> QED BY <1>1, <1>10, <1>11, <1>12 DEF OrderInv, Printing, NetKeys

LEMMA OrderNextHost ==
    ASSUME OrderInv, HeldInv, NextHost
    PROVE  OrderInv'
<1> DEFINE keys == Tail(main.keys)
<1>1. /\ UNCHANGED <<options, table, stat, printed>> /\ main.at = "lines"
      /\ main' = [at |-> "print", keys |-> keys]
  BY DEF NextHost, MainElsewhere
<1>2. KeysInv /\ HostInv
  BY <1>1, AtHost DEF Printing
<1>3. /\ keys \in Seq(DOMAIN stat) /\ Ascending(keys) /\ Host = Head(main.keys)
      /\ \A n \in DOMAIN keys : /\ Below(Host, keys[n]) /\ keys[n] = main.keys[n + 1]
                                /\ n + 1 \in DOMAIN main.keys
  BY <1>2, TailAscends DEF KeysInv, HostInv, Empty, Host
<1> HIDE DEF keys
<1>4. \A m \in DOMAIN printed : \A n \in DOMAIN keys : Below(printed[m].key, keys[n])
  <2> SUFFICES ASSUME NEW m \in DOMAIN printed, NEW n \in DOMAIN keys
               PROVE  Below(printed[m].key, keys[n])
    OBVIOUS
  <2>1. CASE m = Len(printed)
    BY <1>2, <1>3, <2>1 DEF HostInv, Out
  <2>2. CASE m # Len(printed)
    BY <1>2, <1>3, <2>2 DEF KeysInv
  <2> QED BY <2>1, <2>2
<1>5. main'.at = "print" /\ main'.keys = keys
  BY <1>1
<1>6. KeysInv'
  BY <1>1, <1>2, <1>3, <1>4, <1>5 DEF KeysInv
<1> QED BY <1>1, <1>5, <1>6 DEF OrderInv, Printing, NetKeys

LEMMA OrderMain ==
    ASSUME OrderInv, HeldInv, MainInv, Main
    PROVE  OrderInv'
<1>1. CASE Ask \/ Publish \/ PrintKey \/ Grown \/ Quit
  <2>1. UNCHANGED <<table, stat, printed>> /\ main.at \notin Printing
        /\ main'.at \notin Printing
    <3>1. CASE Ask \/ PrintKey \/ Quit
      BY <3>1 DEF Ask, PrintKey, Quit, Press, MainElsewhere, Printing
    <3>2. CASE Publish \/ Grown
      BY <3>2 DEF Publish, Grown, MainElsewhere, IdleMain, Printing
    <3> QED BY <1>1, <3>1, <3>2
  <2>2. printed' = Empty
    BY <2>1 DEF OrderInv
  <2> QED BY <2>1, <2>2, OrderQuiet DEF OrderInv, NetKeys
<1>2. CASE Clear
  <2>1. /\ UNCHANGED printed /\ table' = Nothing /\ stat' = Nothing /\ main.at = "clear"
        /\ main' = [main EXCEPT !.at = "publish"]
    BY <1>2 DEF Clear
  <2>2. main'.at = "publish" /\ printed = Empty
    BY <2>1 DEF MainInv, OrderInv, Printing
  <2>3. DOMAIN table' = {} /\ DOMAIN stat' = {}
    BY <2>1 DEF Nothing
  <2> QED BY <2>1, <2>2, <2>3, FS_EmptySet, OrderQuiet DEF Printing
<1>3. ASSUME NEW k \in DOMAIN table, Process(k) PROVE OrderInv'
  <2>1. /\ UNCHANGED <<table, printed>> /\ main.at = "process"
        /\ main' = [main EXCEPT !.left = @ \ {k}]
        /\ DOMAIN stat' = DOMAIN stat \cup {k}
    BY <1>3 DEF Process, MainElsewhere, Put
  <2>2. main'.at = "process" /\ printed = Empty
    BY <2>1 DEF MainInv, OrderInv, Printing
  <2>3. IsFiniteSet(DOMAIN stat')
    BY <2>1, FS_AddElement DEF OrderInv
  <2> QED BY <2>1, <2>2, <2>3, OrderQuiet DEF OrderInv, Printing, NetKeys
<1>4. CASE Printed
  <2>1. UNCHANGED <<table, stat>> /\ printed' = Empty /\ main'.at = "idle"
    BY <1>4 DEF Printed, MainElsewhere, IdleMain
  <2> QED BY <2>1, OrderQuiet DEF OrderInv, Printing, NetKeys
<1>5. CASE Output
  BY <1>4, <1>5, OrderPrintHost, OrderWeigh, OrderWeighSend, OrderSort, OrderPrintSend,
     OrderPrintRest, OrderNextHost DEF Output
<1> QED BY <1>1, <1>2, <1>3, <1>5, OrderProcessed DEF Main

LEMMA OrderNext ==
    OrderInv /\ HeldInv /\ MainInv /\ PlaceInv /\ [Next]_vars => OrderInv'
<1> SUFFICES ASSUME OrderInv, HeldInv, MainInv, PlaceInv, [Next]_vars PROVE OrderInv'
  OBVIOUS
<1>0. HeldInv'
  BY HeldNext
<1>1. ASSUME UNCHANGED <<options, table, stat, main, printed>> PROVE OrderInv'
  BY <1>1 DEF OrderInv, NetKeys, KeysInv, HostInv, Out, Host
<1>2. CASE UNCHANGED vars
  BY <1>1, <1>2 DEF vars, collector_vars
<1>3. CASE \E c \in Conns, inward \in BOOLEAN : Traffic(c, inward)
  BY <1>1, <1>3 DEF Traffic, collector_vars
<1>4. CASE (\E b \in Boxes : Report(b)) \/ Lose
  BY <1>1, <1>4 DEF Report, Lose, collector_vars
<1> QED BY <1>0, <1>2, <1>3, <1>4, OrderLoop, OrderMain DEF Next

(* Boxes are printed one after the other and their hosts in order, though    *)
(* key_compare() weighs the addresses as if only the host's number           *)
(* differed; no line shows less than a connection printed after it, or left  *)
(* out, had when it was sorted, and each has the place of its address        *)
(* (mqtt_client.py:239-240, 270-315).                                        *)
THEOREM OutputInOrder == Spec => []PrintedInOrder
<1>1. ASSUME OrderInv PROVE PrintedInOrder
  <2>1. PrintedOK(options.IPL, printed)
    BY <1>1, HostsNone DEF OrderInv, KeysInv
  <2>2. \A m, n \in DOMAIN printed : m < n => Below(printed[m].key, printed[n].key)
    BY <2>1 DEF PrintedOK
  <2>3. \A h \in DOMAIN printed :
            WellLined(options.IPL, printed[h].seen, printed[h].lines)
    BY <2>1 DEF PrintedOK, WellPrinted
  <2> QED BY <2>2, <2>3 DEF PrintedInOrder, Below, WellLined, LineWell
<1> QED BY <1>1, HeldInit, HeldNext, MainNext, PlaceInit, PlaceNext, OrderInit, OrderNext,
           PTL DEF Spec
=============================================================================
