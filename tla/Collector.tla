----------------------------- MODULE Collector -----------------------------
(***************************************************************************)
(* The collector (Python_Client/mqtt_client.py): the library's thread      *)
(* (loop) takes the boxes' reports and saves them in a table, the main     *)
(* thread asks for reports, adds the table up and prints it.  Both work on *)
(* the same dictionaries without a lock, so a step is one statement where  *)
(* they meet: each look at the table, and each reading or writing of the   *)
(* bytes in it.  Only process() adds up the list of a host in one step.    *)
(*                                                                         *)
(* A box is iftop-dotqoo itself, reduced to what its reports contain: the  *)
(* figures of each connection since the connection began.                  *)
(*                                                                         *)
(* A definition that stands right above another, has its parameters and is *)
(* used by nothing is a slip the code could have had (see Publisher).      *)
(***************************************************************************)
EXTENDS FiniteSets, SequencesExt, IPLocator

CONSTANTS
    Boxes,      \* the boxes' ids, numbers
    Conns,      \* [box, outer, port, inner, protocol]
    Net, Hosts, \* 172.16 and 2^16: an inner address is of interest if it is
                \* Net followed by the number of one of Hosts
    Settings,   \* [port, limit, IPL]: the options -p and -l (0 is none), and
                \* the ranges of the places' database (<<>> is none)
    Begun,      \* what the boxes have counted when the collector starts
    Start,      \* at that time
    MaxClock, MaxReports, MaxKeys  \* bounds on packets, reports, keys pressed

ASSUME ConnsAssumption ==
    Conns \subseteq [box : Boxes, outer : Nat, port : Nat, inner : Nat, protocol : Nat]
ASSUME NumbersAssumption == Boxes \subseteq Nat /\ Net \in Nat /\ Hosts \in Nat \ {0}
ASSUME SettingsAssumption ==
    \A s \in Settings : s.limit \in Nat /\ (s.IPL = <<>> \/ IsDatabase(s.IPL))
ASSUME BoundsAssumption ==
    /\ Start \in Nat /\ MaxClock \in Nat /\ Start <= MaxClock
    /\ MaxReports \in Nat /\ MaxKeys \in Nat
(* Each packet took its time. *)
ASSUME BegunAssumption ==
    /\ IsFiniteSet(DOMAIN Begun) /\ DOMAIN Begun \subseteq Conns
    /\ \A c \in DOMAIN Begun :
          /\ Begun[c] \in [recv : Nat, send : Nat, create : Nat, end : Nat]
          /\ Begun[c].recv + Begun[c].send \in 1..Start
          /\ Begun[c].create <= Begun[c].end /\ Begun[c].end < Start

VARIABLES
    options,
    clock,      \* time, which passes with each packet
    counted,    \* connection -> its figures at the box
    reports,    \* reports sent so far
    inbox,      \* reports on their way
    table,      \* <<box, inner>> -> list of connections
    stat,       \* <<box, inner>> -> [recv, send, total]
    received,
    loop,       \* where the library's thread is, and with what
    main,       \* where the main thread is, and with what
    pressed,    \* keys pressed so far
    printed,    \* the output of p so far: [key, seen, lines] for each host
    handled,    \* history: messages handled since the table was last cleared
    across      \* history: the message that was being handled then

box_vars == <<clock, counted>>
net_vars == <<reports, inbox>>
collector_vars == <<table, stat, received, printed>>
history_vars == <<handled, across>>
vars == <<options, box_vars, net_vars, collector_vars, loop, main, pressed,
          history_vars>>

Nothing == [x \in {} |-> {}]
Empty == <<>>

IdleLoop == [at |-> "idle"]
IdleMain == [at |-> "idle"]

Put(f, k, v) == [x \in DOMAIN f \cup {k} |-> IF x = k THEN v ELSE f[x]]

(* After connect_MQTT(): the subscription stands.                            *)
Init ==
    /\ options \in Settings
    /\ clock = Start
    /\ counted = Begun
    /\ reports = 0
    /\ inbox = Empty
    /\ table = Nothing
    /\ stat = Nothing
    /\ received = 0
    /\ loop = IdleLoop
    /\ main = IdleMain
    /\ pressed = 0
    /\ printed = Empty
    /\ handled = Empty
    /\ across = Empty

Running == main.at # "ended"

-----------------------------------------------------------------------------
(* The boxes *)

(* A packet of connection c, from the outer host or to it.                   *)
Traffic(c, inward) ==
    LET d == IF c \in DOMAIN counted THEN counted[c]
             ELSE [recv |-> 0, send |-> 0, create |-> clock, end |-> clock]
    IN  /\ clock < MaxClock
        /\ clock' = clock + 1
        /\ counted' = Put(counted, c,
              IF inward THEN [d EXCEPT !.recv = @ + 1, !.end = clock]
                        ELSE [d EXCEPT !.send = @ + 1, !.end = clock])
        /\ UNCHANGED <<options, net_vars, collector_vars, loop, main, pressed,
                       history_vars>>

(* The box writes what the connection's source sent before what it received. *)
Written(c) ==
    LET d == counted[c]
    IN  [box |-> c.box, outer |-> c.outer, port |-> c.port, inner |-> c.inner,
         protocol |-> c.protocol, recv |-> d.recv, send |-> d.send,
         create |-> d.create, end |-> d.end]

(* A report of box b, because its interval has run out or a request has      *)
(* come: nothing here tells the two apart, nor a report that comes again     *)
(* because its confirmation was late from a second one.  The connections are *)
(* in the order of the table there.  A report whose compressed form is       *)
(* longer than it was is cut off and cannot be read.                         *)
Report(b) ==
    LET own == {c \in DOMAIN counted : c.box = b}
    IN  /\ reports < MaxReports
        /\ own # {}
        /\ reports' = reports + 1
        /\ \/ \E order \in SetToSeqs(own) :
                 inbox' = Append(inbox, [cut |-> FALSE,
                              records |-> [n \in DOMAIN order |-> Written(order[n])]])
           \/ inbox' = Append(inbox, [cut |-> TRUE, records |-> Empty])
        /\ UNCHANGED <<options, box_vars, collector_vars, loop, main, pressed,
                       history_vars>>

(* The collector's subscription is of the quality that loses messages.       *)
Lose ==
    /\ inbox # Empty
    /\ inbox' = Tail(inbox)
    /\ UNCHANGED <<options, box_vars, reports, collector_vars, loop,
                   main, pressed, history_vars>>

-----------------------------------------------------------------------------
(* on_message() and save_data(), on the library's thread *)

(* What the loop's steps leave alone. *)
Elsewhere == <<options, box_vars, reports, stat, main, pressed, printed>>

(* received += 1 reads first. *)
Arrive ==
    /\ loop.at = "idle"
    /\ inbox # Empty
    /\ inbox' = Tail(inbox)
    /\ loop' = [at |-> "count", msg |-> Head(inbox), next |-> 1, old |-> FALSE,
                seen |-> received, across |-> FALSE, entry |-> 0]
    /\ UNCHANGED <<Elsewhere, table, received, history_vars>>

(* It is then stored, and a report that was cut off does not decompress: an  *)
(* exception ends the thread.                                                *)
Count ==
    /\ loop.at = "count"
    /\ received' = loop.seen + 1
    /\ loop' = [loop EXCEPT !.at = IF loop.msg.cut THEN "dead" ELSE "test"]
    /\ UNCHANGED <<Elsewhere, inbox, table, history_vars>>

record == loop.msg.records[loop.next]
KeyOf(r) == <<r.box, r.inner>>

(* "filter ip start with 172.16.xxx.xxx": it keeps those.                    *)
InNet(r) == r.inner \in Net * Hosts..Net * Hosts + Hosts - 1

At(label) == [loop EXCEPT !.at = label]
NextRecord == [loop EXCEPT !.at = "test", !.next = @ + 1]

(* Whether the record is saved and has a list to go to.                      *)
Test ==
    /\ loop.at = "test"
    /\ loop.next <= Len(loop.msg.records)
    /\ loop' = CASE ~InNet(record) -> NextRecord
                 [] InNet(record) /\ KeyOf(record) \notin DOMAIN table -> At("create")
                 [] OTHER -> At(IF options.port THEN "append" ELSE "find")
    /\ UNCHANGED <<Elsewhere, inbox, table, received, history_vars>>

CreateForgotten ==
    /\ loop.at = "create"
    /\ loop' = At(IF options.port THEN "append" ELSE "find")
    /\ UNCHANGED <<Elsewhere, inbox, table, received, history_vars>>

Create ==
    /\ loop.at = "create"
    /\ table' = Put(table, KeyOf(record), Empty)
    /\ loop' = At(IF options.port THEN "append" ELSE "find")
    /\ UNCHANGED <<Elsewhere, inbox, received, history_vars>>

(* The table is looked at anew, and may be another one: a KeyError.          *)
Missing ==
    /\ loop.at \in {"find", "append"}
    /\ KeyOf(record) \notin DOMAIN table
    /\ loop' = At("dead")
    /\ UNCHANGED <<Elsewhere, inbox, table, received, history_vars>>

FindByProtocol ==
    LET list == table[KeyOf(record)]
        same == {n \in DOMAIN list : /\ list[n].outer = record.outer
                                     /\ record.protocol \in list[n].protocols}
    IN  /\ loop.at = "find"
        /\ KeyOf(record) \in DOMAIN table
        /\ loop' = IF same = {} THEN At("append")
                   ELSE [loop EXCEPT !.at = "merge", !.old = FALSE,
                             !.entry = CHOOSE n \in same : \A m \in same : n <= m]
        /\ UNCHANGED <<Elsewhere, inbox, table, received, history_vars>>

(* The search for the outer address in the list.                             *)
Find ==
    LET list == table[KeyOf(record)]
        same == {n \in DOMAIN list : list[n].outer = record.outer}
    IN  /\ loop.at = "find"
        /\ KeyOf(record) \in DOMAIN table
        /\ loop' = IF same = {} THEN At("append")
                   ELSE [loop EXCEPT !.at = "merge", !.old = FALSE,
                             !.entry = CHOOSE n \in same : \A m \in same : n <= m]
        /\ UNCHANGED <<Elsewhere, inbox, table, received, history_vars>>

Lookup ==
    /\ loop.at = "append"
    /\ KeyOf(record) \in DOMAIN table
    /\ loop' = [loop EXCEPT !.at = "put", !.old = FALSE]
    /\ UNCHANGED <<Elsewhere, inbox, table, received, history_vars>>

MergedRecv(e, r) ==
    [e EXCEPT !.protocols = @ \cup {r.protocol}, !.recv = @ + r.recv]

MergedEnds(e, r) ==
    [e EXCEPT !.send = @ + r.send,
              !.create = IF r.create < @ THEN r.create ELSE @,
              !.end = @ + r.end]

MergedOver(e, r) ==
    [e EXCEPT !.send = r.send,
              !.create = IF r.create < @ THEN r.create ELSE @,
              !.end = IF r.end > @ THEN r.end ELSE @]

MergedRest(e, r) ==
    [e EXCEPT !.send = @ + r.send,
              !.create = IF r.create < @ THEN r.create ELSE @,
              !.end = IF r.end > @ THEN r.end ELSE @]

Entry(r) ==
    [outer |-> r.outer, port |-> IF options.port THEN r.port ELSE 0,
     protocols |-> {r.protocol}, recv |-> r.recv, send |-> r.send,
     create |-> r.create, end |-> r.end]

(* What was received is added before what was sent.  The list the thread     *)
(* holds may belong to a table that is gone.                                 *)
Merge ==
    /\ loop.at = "merge"
    /\ table' = IF loop.old THEN table
                ELSE [table EXCEPT ![KeyOf(record)][loop.entry] = MergedRecv(@, record)]
    /\ loop' = At("merge_rest")
    /\ UNCHANGED <<Elsewhere, inbox, received, history_vars>>

MergeRest ==
    /\ loop.at = "merge_rest"
    /\ table' = IF loop.old THEN table
                ELSE [table EXCEPT ![KeyOf(record)][loop.entry] = MergedRest(@, record)]
    /\ loop' = NextRecord
    /\ UNCHANGED <<Elsewhere, inbox, received, history_vars>>

AppendEntry ==
    /\ loop.at = "put"
    /\ table' = IF loop.old THEN table
                ELSE [table EXCEPT ![KeyOf(record)] = Append(@, Entry(record))]
    /\ loop' = NextRecord
    /\ UNCHANGED <<Elsewhere, inbox, received, history_vars>>

Saved ==
    /\ loop.at = "test"
    /\ loop.next > Len(loop.msg.records)
    /\ loop' = IdleLoop
    /\ IF loop.across
       THEN across' = <<loop.msg>> /\ UNCHANGED handled
       ELSE handled' = Append(handled, loop.msg) /\ UNCHANGED across
    /\ UNCHANGED <<Elsewhere, inbox, table, received>>

Loop == \/ Arrive \/ Count \/ Test \/ Create \/ Missing \/ Find \/ Lookup
        \/ Merge \/ MergeRest \/ AppendEntry \/ Saved

-----------------------------------------------------------------------------
(* The keys, on the main thread *)

MainElsewhere == <<options, box_vars, reports, inbox, handled>>

Press ==
    /\ main.at = "idle"
    /\ pressed < MaxKeys
    /\ pressed' = pressed + 1

(* b, or r and a box's id: first all that has come is forgotten.             *)
Ask ==
    /\ Press
    /\ received' = 0
    /\ main' = [at |-> "clear"]
    /\ UNCHANGED <<MainElsewhere, table, stat, printed, loop, across>>

(* The names table and stat get new dictionaries; the library's thread keeps *)
(* what it holds of the old ones.                                            *)
Clear ==
    /\ main.at = "clear"
    /\ table' = Nothing
    /\ stat' = Nothing
    /\ handled' = Empty
    /\ across' = Empty
    /\ loop' = IF loop.at = "idle" THEN loop
               ELSE [loop EXCEPT !.old = TRUE, !.across = TRUE]
    /\ main' = [main EXCEPT !.at = "publish"]
    /\ UNCHANGED <<options, box_vars, net_vars, received, printed, pressed>>

(* The boxes' answers are Reports; the program ends when the broker cannot be *)
(* reached.                                                                  *)
Publish ==
    /\ main.at = "publish"
    /\ main' \in {IdleMain, [at |-> "ended"]}
    /\ UNCHANGED <<MainElsewhere, table, stat, received, printed, loop, pressed,
                   across>>

(* p: process(), which goes through the table while it may grow, and         *)
(* print_stat().                                                             *)
PrintKey ==
    /\ Press
    /\ main' = [at |-> "process", left |-> DOMAIN table,
                size |-> Cardinality(DOMAIN table)]
    /\ UNCHANGED <<MainElsewhere, table, stat, received, printed, loop, across>>

Same == Cardinality(DOMAIN table) = main.size

Recv(list) == FoldLeft(LAMBDA n, e : n + e.recv, 0, list)
Send(list) == FoldLeft(LAMBDA n, e : n + e.send, 0, list)
Total(list) == Recv(list) + Send(list)

Process(k) ==
    /\ main.at = "process"
    /\ Same
    /\ k \in main.left
    /\ stat' = Put(stat, k, [recv |-> Recv(table[k]), send |-> Send(table[k]),
                             total |-> Total(table[k])])
    /\ main' = [main EXCEPT !.left = @ \ {k}]
    /\ UNCHANGED <<MainElsewhere, table, received, printed, loop,
                   pressed, across>>

(* "dictionary changed size during iteration" *)
Grown ==
    /\ main.at = "process"
    /\ ~Same
    /\ main' = [at |-> "ended"]
    /\ UNCHANGED <<MainElsewhere, table, stat, received, printed,
                   loop, pressed, across>>

key_compare(x, y) == (x[1] - y[1]) * Hosts + (x[2] - y[2])

(* sorted(): the elements of a set in an order.                              *)
InOrder(S, Before(_, _)) ==
    CHOOSE s \in SetToSeqs(S) : \A i, j \in DOMAIN s : i < j => Before(s[i], s[j])

Processed ==
    /\ main.at = "process"
    /\ Same
    /\ main.left = {}
    /\ main' = [at |-> "print",
                keys |-> InOrder(DOMAIN stat, LAMBDA x, y : key_compare(x, y) < 0)]
    /\ UNCHANGED <<MainElsewhere, table, stat, received, printed,
                   loop, pressed, across>>

Host == Head(main.keys)
Conn(n) == table[Host][n]
Out == printed[Len(printed)]

(* A host's head line; then sorted() copies its list, which may go on growing. *)
PrintHost ==
    /\ main.at = "print"
    /\ main.keys # Empty
    /\ printed' = Append(printed, [key |-> Host, seen |-> Empty, lines |-> Empty])
    /\ main' = [at |-> "weigh", keys |-> main.keys, rows |-> Len(table[Host])]
    /\ UNCHANGED <<MainElsewhere, table, stat, received, loop, pressed, across>>

(* The key of a connection: what it received is read, then what it sent.     *)
Weigh ==
    /\ main.at = "weigh"
    /\ Len(Out.seen) < main.rows
    /\ main' = [at |-> "weigh_send", keys |-> main.keys, rows |-> main.rows,
                recv |-> Conn(Len(Out.seen) + 1).recv]
    /\ UNCHANGED <<MainElsewhere, table, stat, received, printed, loop, pressed, across>>

WeighSend ==
    /\ main.at = "weigh_send"
    /\ printed' = [printed EXCEPT ![Len(printed)].seen =
                      Append(@, main.recv + Conn(Len(@) + 1).send)]
    /\ main' = [at |-> "weigh", keys |-> main.keys, rows |-> main.rows]
    /\ UNCHANGED <<MainElsewhere, table, stat, received, loop, pressed, across>>

SortedUpwards(seen) ==
    InOrder(DOMAIN seen, LAMBDA i, j : seen[i] < seen[j] \/ (seen[i] = seen[j] /\ i < j))

(* The connections seen with the most bytes first, those with as many as they *)
(* were.                                                                      *)
Sorted(seen) ==
    InOrder(DOMAIN seen, LAMBDA i, j : seen[i] > seen[j] \/ (seen[i] = seen[j] /\ i < j))

Sort ==
    /\ main.at = "weigh"
    /\ Len(Out.seen) = main.rows
    /\ main' = [at |-> "lines", keys |-> main.keys, order |-> Sorted(Out.seen)]
    /\ UNCHANGED <<MainElsewhere, table, stat, received, printed, loop, pressed, across>>

(* As many lines as -l says.                                                 *)
AllShown ==
    \/ Len(Out.lines) = Len(main.order)
    \/ options.limit # 0 /\ Len(Out.lines) >= options.limit

PrintSend ==
    /\ main.at = "lines"
    /\ ~AllShown
    /\ main' = [at |-> "line", keys |-> main.keys, order |-> main.order,
                send |-> Conn(main.order[Len(Out.lines) + 1]).send]
    /\ UNCHANGED <<MainElsewhere, table, stat, received, printed, loop, pressed, across>>

(* The line of the n-th connection, with its place if there is a database.   *)
LineOf(n) ==
    [conn |-> n, outer |-> Conn(n).outer, recv |-> Conn(n).recv, send |-> main.send,
     place |-> IF options.IPL = Empty THEN "" ELSE getIpAddr(options.IPL, Conn(n).outer)]

PrintRest ==
    /\ main.at = "line"
    /\ printed' = [printed EXCEPT ![Len(printed)].lines =
                      Append(@, LineOf(main.order[Len(@) + 1]))]
    /\ main' = [at |-> "lines", keys |-> main.keys, order |-> main.order]
    /\ UNCHANGED <<MainElsewhere, table, stat, received, loop, pressed, across>>

NextHost ==
    /\ main.at = "lines"
    /\ AllShown
    /\ main' = [at |-> "print", keys |-> Tail(main.keys)]
    /\ UNCHANGED <<MainElsewhere, table, stat, received, printed, loop, pressed, across>>

Printed ==
    /\ main.at = "print"
    /\ main.keys = Empty
    /\ printed' = Empty
    /\ main' = IdleMain
    /\ UNCHANGED <<MainElsewhere, table, stat, received, loop, pressed, across>>

Quit ==
    /\ Press
    /\ main' = [at |-> "ended"]
    /\ UNCHANGED <<MainElsewhere, table, stat, received, printed,
                   loop, across>>

Output == \/ PrintHost \/ Weigh \/ WeighSend \/ Sort
          \/ PrintSend \/ PrintRest \/ NextHost \/ Printed

Main == \/ Ask \/ Clear \/ Publish \/ Quit
        \/ PrintKey \/ Grown \/ Processed \/ Output
        \/ \E k \in DOMAIN table : Process(k)

Next ==
    /\ Running
    /\ \/ \E c \in Conns, inward \in BOOLEAN : Traffic(c, inward)
       \/ \E b \in Boxes : Report(b)
       \/ Lose \/ Loop \/ Main

Spec == Init /\ [][Next]_vars

-----------------------------------------------------------------------------
(* Properties *)

Keys == {<<c.box, c.inner>> : c \in Conns}

TypeOK ==
    /\ options \in Settings
    /\ clock \in Start..MaxClock
    /\ \A c \in DOMAIN counted :
          /\ c \in Conns
          /\ counted[c].recv + counted[c].send \in 1..clock
          /\ 0 <= counted[c].create /\ counted[c].create <= counted[c].end
          /\ counted[c].end < clock
    /\ reports \in 0..MaxReports
    /\ DOMAIN table \subseteq Keys /\ DOMAIN stat \subseteq Keys
    /\ \A k \in DOMAIN table : \A n \in DOMAIN table[k] :
          LET e == table[k][n]
          IN  0 <= e.create /\ e.create <= e.end /\ e.end < clock
    /\ received \in 0..MaxReports
    /\ loop.at \in {"idle", "count", "test", "create", "find", "append", "merge",
                    "merge_rest", "put", "dead"}
    /\ main.at \in {"idle", "clear", "publish", "process", "print", "weigh",
                    "weigh_send", "lines", "line", "ended"}
    /\ pressed \in 0..MaxKeys

Bytes(e) == e.recv + e.send

(* The bytes a message, some messages and the table have of key k and outer  *)
(* address o.                                                                *)
Share(k, o, r) == IF KeyOf(r) = k /\ r.outer = o /\ InNet(r) THEN Bytes(r) ELSE 0

Brought(k, o, m) ==
    SumFunction([n \in DOMAIN m.records |-> Share(k, o, m.records[n])])

Reported(k, o, messages) ==
    SumFunction([n \in DOMAIN messages |-> Brought(k, o, messages[n])])

Listed(k, o) ==
    IF k \in DOMAIN table
    THEN SumFunction([n \in DOMAIN table[k] |->
                          IF table[k][n].outer = o THEN Bytes(table[k][n]) ELSE 0])
    ELSE 0

(* Between two messages the table holds every report handled since it was    *)
(* last cleared, whole, and nothing else but what a report that was being    *)
(* handled at that moment has still brought ("save data to 'table'           *)
(* dictionary", mqtt_client.py:183-222, 387-405).                            *)
TableIsReports ==
    loop.at = "idle" =>
        \A k \in Keys : \A o \in {c.outer : c \in Conns} :
            /\ Reported(k, o, handled) <= Listed(k, o)
            /\ Listed(k, o) <= Reported(k, o, handled) + Reported(k, o, across)

(* Unless ports are told apart, an outer address has one line for each inner *)
(* one ("merge stat info", mqtt_client.py:207-222), with a clearing between  *)
(* any two steps of the search and the merge.                                *)
OneEntryEach ==
    ~options.port =>
        \A k \in DOMAIN table : \A m, n \in DOMAIN table[k] :
            table[k][m].outer = table[k][n].outer => m = n

(* The library's thread "dispatches callbacks and handles reconnecting"      *)
(* (mqtt_client.py:353-354): no exception of save_data() ends it, but for a  *)
(* report that cannot be read or a table cleared under its hands.            *)
DiesOfClearing ==
    loop.at = "dead" => loop.msg.cut \/ loop.across

(* Boxes are printed one after the other and their hosts in order, though    *)
(* key_compare() weighs the addresses as if only the host's number           *)
(* differed (mqtt_client.py:239-240); a line has the place the database has  *)
(* for its address.  Reports that come while a host is sorted and printed    *)
(* (mqtt_client.py:214-215, 270, 293-294) may put its lines out of order,    *)
(* but no line shows less than a connection printed after it, or left out by *)
(* -l, had when sorted() looked at it.                                       *)
PrintedInOrder ==
    /\ \A m, n \in DOMAIN printed : m < n =>
          LET x == printed[m].key
              y == printed[n].key
          IN  x[1] < y[1] \/ (x[1] = y[1] /\ x[2] < y[2])
    /\ \A h \in DOMAIN printed :
          LET seen == printed[h].seen
              lines == printed[h].lines
          IN  \A i \in DOMAIN lines :
                /\ \A n \in DOMAIN seen \ {lines[j].conn : j \in 1..i - 1} :
                      lines[i].recv + lines[i].send >= seen[n]
                /\ options.IPL # Empty =>
                      lines[i].place = PlaceOf(options.IPL, lines[i].outer)

(* What is called the total of a host ("counting total send/recv rate of     *)
(* each IP", mqtt_client.py:225) is not more than its box has counted for it *)
(* so far ("total data send/rev", mqtt.c:234).                               *)
TotalsNotExceeded ==
    \A k \in DOMAIN stat :
        stat[k].total <= Total(SetToSeq({Written(c) : c \in
                             {d \in DOMAIN counted : KeyOf(d) = k}}))
=============================================================================
