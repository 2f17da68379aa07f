------------------------------ MODULE History ------------------------------
(***************************************************************************)
(* The connection history of iftop-dotqoo (iftop.c): what handle_ip_packet *)
(* adds to it for each captured packet, and what history_rotate(), called  *)
(* by every tick, drops from it or approves for the reports.               *)
(*                                                                         *)
(* The capture thread ticks, then finds or creates the connection's record *)
(* and does the accounting; loop()'s key 'u' ("main") and a data request   *)
(* from the broker ("callback") tick as well.  tick_mutex keeps ticks      *)
(* apart; the accounting does not take it, so that its three updates may   *)
(* come between any two steps of another thread's rotation: before and     *)
(* after the test of a record, its removal from the table, its free().     *)
(* Each tick works with the time its caller read before it waited for the  *)
(* mutex.  The hash table is a function from keys to records.              *)
(*                                                                         *)
(* A definition that stands right above another, has its parameters and is *)
(* used by nothing is a slip the code could have had (see Publisher).      *)
(***************************************************************************)
EXTENDS Integers, Functions, FiniteSets

CONSTANTS
    Tickers,            \* the threads that call tick()
    Keys,               \* addr_pairs
    Lengths,            \* ip_len of a packet
    Start, MaxTime,     \* time(NULL) when the program starts, and the bound on it
    MaxBytes,           \* bound: no packet arrives once this much is counted
    Duration,           \* options.duration (-d)
    Threshold,          \* options.threshold (-T)
    DeleteInterval,     \* options.history_delete_interval (-t)
    RESOLUTION,
    CHECK_AFTER_N_SECS

ASSUME TickersAssumption ==
    {"capture"} \subseteq Tickers /\ Tickers \subseteq {"capture", "main", "callback"}
ASSUME LengthsAssumption == Lengths \subseteq Nat
ASSUME TimesAssumption ==
    /\ Start \in Nat \ {0} /\ MaxTime \in Nat
    /\ RESOLUTION \in Nat /\ CHECK_AFTER_N_SECS \in Nat
ASSUME OptionsAssumption ==
    Duration \in Int /\ Threshold \in Nat /\ DeleteInterval \in Int

VARIABLES
    now,            \* time(NULL)
    history,        \* the records, by key
    history_totals, \* bytes counted since the start
    last_timestamp, \* t of the last tick that rotated
    called,         \* for each thread in tick(), its t; 0 outside
    rotation,       \* who holds tick_mutex, and where its history_rotate() is
    unlinked,       \* the record it has taken out of the table and not yet freed
    packet,         \* the packet the capture thread is working on
    dropped,        \* history: bytes of the records history_rotate() freed
    freedUse        \* history: a freed record has been written

vars == <<now, history, history_totals, last_timestamp, called, rotation,
          unlinked, packet, dropped, freedUse>>

Record == [total_sent : Nat, total_recv : Nat, create_time : Nat,
           last_update_time : Nat, approval : BOOLEAN]

(* How a packet is accounted for: sent by the record's src and leaving, sent *)
(* by its dst and arriving, or between two other machines, when the record's *)
(* src is the packet's but the direction is "incoming" (iftop.c:450-454).    *)
Flows == {"out", "in", "transit"}

NoPacket == [step |-> "idle"]

PacketSteps ==
    {NoPacket} \cup [step : {"tick", "find", "touch", "record", "totals"},
                     key : Keys, flow : Flows, len : Lengths, t : Nat]

(* A rotation has the records of left still to visit, and that of at, at most*)
(* one, in hand: next to be deleted, freed or considered for approval.       *)
NoRotation == [by |-> "none", step |-> "walk", left |-> {}, at |-> {}]

Rotations ==
    [by : Tickers \cup {"none"}, step : {"walk", "delete", "free", "approve"},
     left : SUBSET Keys, at : SUBSET Keys]

None == [k \in {} |-> 0]

(* dropped is only ever compared by TotalsConserved. *)
TypeOK ==
    /\ now \in Nat \ {0}
    /\ DOMAIN history \subseteq Keys
    /\ \A k \in DOMAIN history : history[k] \in Record
    /\ history_totals \in [sent : Nat, recv : Nat]
    /\ last_timestamp \in Nat
    /\ called \in [Tickers -> Nat]
    /\ rotation \in Rotations
    /\ DOMAIN unlinked \subseteq Keys
    /\ \A k \in DOMAIN unlinked : unlinked[k] \in Record
    /\ packet \in PacketSteps
    /\ packet.step = "tick" <=> called["capture"] # 0
    /\ freedUse \in BOOLEAN

(* init_history() *)
Init ==
    /\ now = Start
    /\ history = None
    /\ history_totals = [sent |-> 0, recv |-> 0]
    /\ last_timestamp = Start
    /\ called = [t \in Tickers |-> 0]
    /\ rotation = NoRotation
    /\ unlinked = None
    /\ packet = NoPacket
    /\ dropped = 0
    /\ freedUse = FALSE

-----------------------------------------------------------------------------
Total(d) == d.total_sent + d.total_recv
BytesOf(records) == SumFunction([k \in DOMAIN records |-> Total(records[k])])

Age(d) == d.last_update_time - d.create_time

is_short_at_once(d, t) == Age(d) < Duration
is_short_connection(d, t) ==
    Age(d) < Duration /\ t - d.create_time > CHECK_AFTER_N_SECS

is_low_traffic_connection(d, t) ==
    Total(d) < Threshold /\ t - d.last_update_time > DeleteInterval

Qualifies(d) == Age(d) >= Duration /\ Total(d) > Threshold

history_create ==
    [total_sent |-> 0, total_recv |-> 0, create_time |-> now,
     last_update_time |-> 0, approval |-> FALSE]

(* The accounting's updates of a record, for packet p. *)
Touched(d, p) == [d EXCEPT !.last_update_time = p.t]

CountedBackwards(d, p) == [d EXCEPT !.total_sent = @ - p.len]

Counted(d, p) ==
    IF p.flow = "in" THEN [d EXCEPT !.total_recv = @ + p.len]
                     ELSE [d EXCEPT !.total_sent = @ + p.len]

(* Whether a rotation at time t deletes record d. *)
DropsSilent(d, t) ==
    \/ is_short_connection(d, t)
    \/ t - d.last_update_time > DeleteInterval

Drops(d, t) ==
    /\ ~d.approval
    /\ is_short_connection(d, t) \/ is_low_traffic_connection(d, t)

Without(f, S) == [k \in DOMAIN f \ S |-> f[k]]

-----------------------------------------------------------------------------
(* A packet: the capture thread reads the time and calls tick(0, t).         *)
Capture(k, flow, len) ==
    /\ packet = NoPacket
    /\ history_totals.sent + history_totals.recv < MaxBytes
    /\ packet' = [step |-> "tick", key |-> k, flow |-> flow, len |-> len, t |-> now]
    /\ called' = [called EXCEPT !["capture"] = now]
    /\ UNCHANGED <<now, history, history_totals, last_timestamp, rotation,
                   unlinked, dropped, freedUse>>

(* A key 'u', or a request from the broker: tick(send, time(NULL)).          *)
Call(th) ==
    /\ th # "capture"
    /\ called[th] = 0
    /\ called' = [called EXCEPT ![th] = now]
    /\ UNCHANGED <<now, history, history_totals, last_timestamp, rotation,
                   unlinked, packet, dropped, freedUse>>

(* tick() returns to its caller, which for the capture thread goes on with   *)
(* the packet.                                                               *)
Return(th) ==
    /\ called' = [called EXCEPT ![th] = 0]
    /\ packet' = IF th = "capture" THEN [packet EXCEPT !.step = "find"]
                                   ELSE packet

(* The mutex is granted to th, which rotates or has nothing to do.           *)
Lock(th) ==
    LET t == called[th]
        send == th = "callback"
    IN  /\ t # 0
        /\ rotation.by = "none"
        /\ \/ /\ send \/ t - last_timestamp >= RESOLUTION
              /\ rotation' = [by |-> th, step |-> "walk", left |-> DOMAIN history,
                              at |-> {}]
              /\ UNCHANGED <<called, packet>>
           \/ /\ ~send /\ t - last_timestamp < RESOLUTION
              /\ Return(th)
              /\ UNCHANGED rotation
        /\ UNCHANGED <<now, history, history_totals, last_timestamp, unlinked,
                       dropped, freedUse>>

-----------------------------------------------------------------------------
(* history_rotate(), by the thread that holds the mutex *)

GoesOn(step, in_hand) == rotation' = [rotation EXCEPT !.step = step, !.at = in_hand]

(* The tests of one record.  Its figures only grow while it is tested, so    *)
(* that one look at them finds whatever several would.                       *)
Examine(k) ==
    LET d == history[k]
        next == CASE Drops(d, called[rotation.by]) -> "delete"
                  [] ~Drops(d, called[rotation.by]) /\ ~d.approval -> "approve"
                  [] OTHER -> "walk"
    IN  /\ rotation.by # "none" /\ rotation.step = "walk" /\ k \in rotation.left
        /\ rotation' = [rotation EXCEPT !.left = @ \ {k}, !.step = next,
                                       !.at = IF next = "walk" THEN {} ELSE {k}]
        /\ UNCHANGED <<now, history, history_totals, last_timestamp, called,
                       unlinked, packet, dropped, freedUse>>

(* hash_delete() *)
Delete ==
    /\ rotation.step = "delete"
    /\ history' = Without(history, rotation.at)
    /\ unlinked' = [k \in rotation.at |-> history[k]]
    /\ GoesOn("free", rotation.at)
    /\ UNCHANGED <<now, history_totals, last_timestamp, called, packet, dropped,
                   freedUse>>

Free ==
    /\ rotation.step = "free"
    /\ dropped' = dropped + BytesOf(unlinked)
    /\ unlinked' = None
    /\ GoesOn("walk", {})
    /\ UNCHANGED <<now, history, history_totals, last_timestamp, called, packet,
                   freedUse>>

ApproveAny ==
    /\ rotation.step = "approve"
    /\ history' = [k \in DOMAIN history |->
                      IF k \in rotation.at
                      THEN [history[k] EXCEPT !.approval = TRUE] ELSE history[k]]
    /\ GoesOn("walk", {})
    /\ UNCHANGED <<now, history_totals, last_timestamp, called, unlinked, packet,
                   dropped, freedUse>>

Approve ==
    /\ rotation.step = "approve"
    /\ history' = [k \in DOMAIN history |->
                      IF k \in rotation.at /\ Qualifies(history[k])
                      THEN [history[k] EXCEPT !.approval = TRUE] ELSE history[k]]
    /\ GoesOn("walk", {})
    /\ UNCHANGED <<now, history_totals, last_timestamp, called, unlinked, packet,
                   dropped, freedUse>>

(* The walk is over; what tick() does with the report is in Publisher.       *)
Unlock ==
    /\ rotation.by # "none" /\ rotation.step = "walk" /\ rotation.left = {}
    /\ last_timestamp' = called[rotation.by]
    /\ rotation' = NoRotation
    /\ Return(rotation.by)
    /\ UNCHANGED <<now, history, history_totals, unlinked, dropped, freedUse>>

-----------------------------------------------------------------------------
(* The rest of handle_ip_packet() *)

InsertedAlways(key) ==
    [k \in DOMAIN history \cup {key} |->
        IF k = key THEN history_create ELSE history[k]]

(* The table after hash_find() and, when it fails, hash_insert().            *)
Inserted(key) ==
    [k \in DOMAIN history \cup {key} |->
        IF k \in DOMAIN history THEN history[k] ELSE history_create]

(* It ignores the packet (a blocked protocol, no direction, the router, a    *)
(* filtered port), or finds or inserts its record, which is in the table     *)
(* before it has been filled.  A walk under way has a record to go to; one   *)
(* that is inserted comes after that one or has been passed.                 *)
Find ==
    /\ packet.step = "find"
    /\ \/ packet' = NoPacket /\ UNCHANGED <<history, rotation>>
       \/ /\ packet' = [packet EXCEPT !.step = "touch"]
          /\ history' = Inserted(packet.key)
          /\ \/ UNCHANGED rotation
             \/ /\ packet.key \notin DOMAIN history \cup rotation.at
                /\ rotation.left # {}
                /\ rotation' = [rotation EXCEPT !.left = @ \cup {packet.key}]
    /\ UNCHANGED <<now, history_totals, last_timestamp, called, unlinked,
                   dropped, freedUse>>

(* An update through the pointer hash_find() or history_create() gave.  Only *)
(* this thread inserts, so a key that is gone from the table is a record that*)
(* has been taken out since, and perhaps freed.                              *)
Update(New(_, _)) ==
    LET k == packet.key
    IN  \/ /\ k \in DOMAIN history
           /\ history' = [history EXCEPT ![k] = New(@, packet)]
           /\ UNCHANGED <<unlinked, freedUse>>
        \/ /\ k \notin DOMAIN history /\ k \in DOMAIN unlinked
           /\ unlinked' = [unlinked EXCEPT ![k] = New(@, packet)]
           /\ UNCHANGED <<history, freedUse>>
        \/ /\ k \notin DOMAIN history /\ k \notin DOMAIN unlinked
           /\ freedUse' = TRUE
           /\ UNCHANGED <<history, unlinked>>

(* ht->last_update_time = t *)
Touch ==
    /\ packet.step = "touch"
    /\ Update(Touched)
    /\ packet' = [packet EXCEPT !.step = "record"]
    /\ UNCHANGED <<now, history_totals, last_timestamp, called, rotation, dropped>>

(* ht->total_sent += len, or total_recv *)
CountInRecord ==
    /\ packet.step = "record"
    /\ Update(Counted)
    /\ packet' = [packet EXCEPT !.step = "totals"]
    /\ UNCHANGED <<now, history_totals, last_timestamp, called, rotation, dropped>>

(* history_totals.total_recv += len, or total_sent *)
CountInTotals ==
    /\ packet.step = "totals"
    /\ history_totals' = IF packet.flow = "out"
                         THEN [history_totals EXCEPT !.sent = @ + packet.len]
                         ELSE [history_totals EXCEPT !.recv = @ + packet.len]
    /\ packet' = NoPacket
    /\ UNCHANGED <<now, history, last_timestamp, called, rotation, unlinked,
                   dropped, freedUse>>

Clock ==
    /\ now < MaxTime
    /\ now' = now + 1
    /\ UNCHANGED <<history, history_totals, last_timestamp, called, rotation,
                   unlinked, packet, dropped, freedUse>>

Rotate == Delete \/ Free \/ Approve \/ Unlock \/ \E k \in rotation.left : Examine(k)

Account == Touch \/ CountInRecord \/ CountInTotals

Next ==
    /\ ~freedUse
    /\ \/ \E k \in Keys, flow \in Flows, len \in Lengths : Capture(k, flow, len)
       \/ \E th \in Tickers : Call(th) \/ Lock(th)
       \/ Rotate \/ Find \/ Account \/ Clock

Spec == Init /\ [][Next]_vars

-----------------------------------------------------------------------------
(* Properties *)

(* A record once approved has lived for Duration and carried more than       *)
(* Threshold, and still does: what the reports contain (iftop.c:197-199).    *)
(* Records are approved by one thread and updated, a field at a time, by     *)
(* another.                                                                  *)
ApprovedQualify ==
    \A k \in DOMAIN history : history[k].approval => Qualifies(history[k])

(* Every byte counted in history_totals (iftop.c:539-547), and that of the   *)
(* packet whose record has it already (530-536), is in the record of its     *)
(* connection or was dropped with it: whichever steps of a rotation come     *)
(* between the two additions, and even when the first is to a record that    *)
(* has left the table.                                                       *)
TotalsConserved ==
    ~freedUse =>
        history_totals.sent + history_totals.recv
                + (IF packet.step = "totals" THEN packet.len ELSE 0)
            = dropped + BytesOf(history) + BytesOf(unlinked)

(* "if the connection satisfied the criteria, let the connection stat stay   *)
(* at the history hash table permanently" (iftop.c:195): no step takes an    *)
(* approved record away, its approval back, or makes its figures shrink.     *)
ApprovedStay ==
    [][\A k \in DOMAIN history : history[k].approval =>
          /\ k \in DOMAIN history'
          /\ history'[k].approval
          /\ history'[k].total_sent >= history[k].total_sent
          /\ history'[k].total_recv >= history[k].total_recv
          /\ history'[k].last_update_time >= history[k].last_update_time]_vars

(* The capture thread's own ticks never drop a record with a packet in this  *)
(* very second, however long they waited for the mutex and whoever ticked    *)
(* meanwhile: a connection is short only when there was "no pkt in or out    *)
(* during the 'options.duration' seconds" (iftop.c:139).  (Another thread's  *)
(* tick may: the packet comes between its test and its deletion.)            *)
RecentKept ==
    [][\A k \in DOMAIN history \ DOMAIN history' :
          rotation.by = "capture" => history[k].last_update_time < now]_vars

(* "if the connection satisfied the criteria, let the connection stat stay   *)
(* at the history hash table permanently" (iftop.c:195): no record that does *)
(* is dropped.  (So it is if the capture thread alone ticks; the packet that *)
(* makes a record satisfy them may come between another thread's test of it  *)
(* and its deletion.)                                                        *)
QualifiedKept ==
    [][\A k \in DOMAIN history \ DOMAIN history' : ~Qualifies(history[k])]_vars

(* The accounting is done in a record of the table ("Update record",         *)
(* iftop.c:521), not in one that a tick has freed since it was found.        *)
RecordIsInTable ==
    packet.step \in {"touch", "record"} => packet.key \in DOMAIN history
=============================================================================
