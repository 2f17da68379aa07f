----------------------------- MODULE HashTable -----------------------------
(***************************************************************************)
(* The table behind the history (hash.c, addr_hash.c) at the level of its  *)
(* nodes and pointers, under the code that uses it: history_rotate() and   *)
(* construct_MQTT_msg() (mqtt.c) walk it, the first deleting as it walks;  *)
(* handle_ip_packet() finds and inserts.                                   *)
(*                                                                         *)
(* A walk is done by a thread that holds tick_mutex; finding and inserting *)
(* is done by the capture thread without it.  A node's memory keeps its    *)
(* contents when it is freed, and has them still when it is allocated      *)
(* again: that is what is read of a node too early or too late.            *)
(*                                                                         *)
(* A definition that stands right above another, has its parameters and is *)
(* used by nothing is a slip the code could have had (see Publisher).      *)
(***************************************************************************)
EXTENDS Integers, Sequences, FiniteSets

CONSTANTS
    Tickers,   \* the threads that call tick(); "capture" is one of them
    Keys,      \* addr_pairs
    Size,      \* hash_table_size
    Hash,      \* hash(), a function from keys to buckets
    Nodes,     \* bound: as many nodes fit into the memory
    NULL

Buckets == 0 .. Size - 1

ASSUME TickersAssumption ==
    {"capture"} \subseteq Tickers /\ Tickers \subseteq {"capture", "main", "callback"}
ASSUME SizeAssumption == Size \in Nat
ASSUME HashAssumption == Hash \in [Keys -> Buckets]
ASSUME NodesAssumption == IsFiniteSet(Nodes) /\ NULL \notin Nodes

VARIABLES
    table,           \* hash_table->table
    key, next, rec,  \* the fields of each node; rec is "new" or "approved"
    free,            \* nodes not allocated
    pc,              \* of each thread
    n, after,        \* of a walk: the node and the one to go on with
    p0, p,           \* of hash_delete()
    size, written,   \* approved records counted, and written to the report
    packet,          \* the key of the packet the capture thread has
    q, head,         \* of hash_find() and hash_insert()
    before, seen,    \* history: keys when a rotation began, keys visited
    fault            \* history: a node or record has been used after its end

heap == <<table, key, next, rec, free>>
walk == <<n, after, p0, p, size, written>>
finder == <<packet, q, head>>
history == <<before, seen>>
vars == <<heap, pc, walk, finder, history, fault>>

Pointers == Nodes \cup {NULL}

Walking == {"rotate", "judge", "delete", "report"}
Labels == Walking \cup {"idle", "lookup", "find", "link", "fill"}

TypeOK ==
    /\ table \in [Buckets -> Pointers]
    /\ key \in [Nodes -> Keys]
    /\ next \in [Nodes -> Pointers]
    /\ rec \in [Nodes -> {"new", "approved"}]
    /\ free \subseteq Nodes
    /\ pc \in [Tickers -> Labels]
    /\ {n, after, p0, p, q, head} \subseteq Pointers
    /\ size \in Nat /\ written \in Nat
    /\ packet \in Keys
    /\ before \subseteq Keys /\ seen \in Seq(Keys)
    /\ fault \in BOOLEAN

(* addr_hash_create(); the memory the nodes will be in may hold any key.     *)
Init ==
    /\ table = [b \in Buckets |-> NULL]
    /\ \E k \in Keys : key = [m \in Nodes |-> k] /\ packet = k
    /\ next = [m \in Nodes |-> NULL]
    /\ rec = [m \in Nodes |-> "new"]
    /\ free = Nodes
    /\ pc = [t \in Tickers |-> "idle"]
    /\ n = NULL /\ after = NULL /\ p0 = NULL /\ p = NULL
    /\ q = NULL /\ head = NULL
    /\ size = 0 /\ written = 0
    /\ before = {} /\ seen = <<>>
    /\ fault = FALSE

-----------------------------------------------------------------------------
Goto(t, from, to) == pc[t] = from /\ pc' = [pc EXCEPT ![t] = to]

Use(m) == fault' = (fault \/ m \in free)

(* The nodes from m on, as far as they go without coming back.               *)
Chain(m) ==
    LET reach[i \in 0 .. Cardinality(Nodes)] ==
            IF i = 0 THEN {m} \ {NULL}
            ELSE reach[i-1] \cup ({next[x] : x \in reach[i-1]} \ {NULL})
    IN  reach[Cardinality(Nodes)]

(* What the buckets lead to; a node that is being inserted does not count.   *)
First(b) ==
    IF pc["capture"] = "fill" /\ b = Hash[packet] /\ table[b] = q
    THEN head ELSE table[b]

Linked == UNION {Chain(First(b)) : b \in Buckets}

KeysIn == {key[m] : m \in Linked}

(* The first node of the first bucket from b on that is not empty.           *)
FirstFrom(b) ==
    LET full == {c \in Buckets : c >= b /\ table[c] # NULL}
    IN  IF full = {} THEN NULL
        ELSE table[CHOOSE c \in full : \A d \in full : c <= d]

hash_next_item_heads(m) ==
    IF m = NULL THEN FirstFrom(0) ELSE FirstFrom(Hash[key[m]] + 1)

hash_next_item(m) ==
    IF m = NULL THEN FirstFrom(0)
    ELSE IF next[m] # NULL THEN next[m]
    ELSE FirstFrom(Hash[key[m]] + 1)

-----------------------------------------------------------------------------
(* history_rotate() *)

(* tick() takes the mutex, which is held for as long as a walk lasts, and    *)
(* rotates the history; or it is too early for that, which only makes a      *)
(* difference to the capture thread: it comes with a packet of key k.        *)
Tick(t, k) ==
    /\ \A u \in Tickers : pc[u] \notin Walking
    /\ \/ /\ Goto(t, "idle", "rotate")
          /\ n' = hash_next_item(NULL)
          /\ before' = KeysIn
       \/ /\ t = "capture"
          /\ Goto(t, "idle", "lookup")
          /\ UNCHANGED <<n, before>>
    /\ packet' = IF t = "capture" THEN k ELSE packet
    /\ UNCHANGED <<heap, after, p0, p, size, written, q, head, seen, fault>>

Advance(t) ==
    /\ n # NULL
    /\ Goto(t, "rotate", "judge")
    /\ after' = hash_next_item(n)
    /\ seen' = Append(seen, key[n])
    /\ Use(n)
    /\ UNCHANGED <<heap, n, p0, p, size, written, finder, before>>

ApproveUncounted(t) ==
    /\ Goto(t, "judge", "rotate")
    /\ rec[n] = "new"
    /\ rec' = [rec EXCEPT ![n] = "approved"]
    /\ n' = after
    /\ Use(n)
    /\ UNCHANGED <<table, key, next, free, after, p0, p, size, written, finder,
                   history>>

(* The record satisfies the criteria now. *)
Approve(t) ==
    /\ Goto(t, "judge", "rotate")
    /\ rec[n] = "new"
    /\ rec' = [rec EXCEPT ![n] = "approved"]
    /\ size' = size + 1
    /\ n' = after
    /\ Use(n)
    /\ UNCHANGED <<table, key, next, free, after, p0, p, written, finder, history>>

Keep(t) ==
    /\ Goto(t, "judge", "rotate")
    /\ size' = size + IF rec[n] = "approved" THEN 1 ELSE 0
    /\ n' = after
    /\ Use(n)
    /\ UNCHANGED <<heap, after, p0, p, written, finder, history>>

(* The record is short or of low traffic: hash_delete() begins.              *)
Drop(t) ==
    /\ Goto(t, "judge", "delete")
    /\ rec[n] = "new"
    /\ p0' = NULL
    /\ p' = table[Hash[key[n]]]
    /\ Use(n)
    /\ UNCHANGED <<heap, n, after, size, written, finder, history>>

DeleteWalk(t) ==
    /\ pc[t] = "delete"
    /\ p # NULL /\ key[p] # key[n]
    /\ p0' = p
    /\ p' = next[p]
    /\ Use(p)
    /\ UNCHANGED <<heap, pc, n, after, size, written, finder, history>>

TableWithoutAny(b) == IF p = NULL THEN table ELSE [table EXCEPT ![b] = next[p]]
TableWithout(b) ==
    IF p # NULL /\ p0 = NULL THEN [table EXCEPT ![b] = next[p]] ELSE table

NextWithout ==
    IF p # NULL /\ p0 # NULL THEN [next EXCEPT ![p0] = next[p]] ELSE next

(* history_rotate() reads the record's approval after it has freed it.       *)
SizeAfterDelete == {size, size + 1}

NodeAfterDeleteStays == n
NodeAfterDelete == after

(* The node is taken out of its chain and freed, and so is the record.  When *)
(* hash_delete() has not found the node, a freed record stays in the table.  *)
Unlink(t) ==
    /\ Goto(t, "delete", "rotate")
    /\ p # NULL => key[p] = key[n]
    /\ table' = TableWithout(Hash[key[n]])
    /\ next' = NextWithout
    /\ free' = free \cup ({p} \ {NULL})
    /\ size' \in SizeAfterDelete
    /\ n' = NodeAfterDelete
    /\ p0' = NULL /\ p' = NULL
    /\ fault' = (fault \/ p \in free \cup {NULL})
    /\ UNCHANGED <<key, rec, after, written, finder, history>>

(* The walk has come to its end: no report, or construct_MQTT_msg().         *)
EndRotate(t) ==
    /\ n = NULL
    /\ after' = NULL
    /\ before' = {} /\ seen' = <<>>
    /\ \/ /\ Goto(t, "rotate", IF t = "capture" THEN "lookup" ELSE "idle")
          /\ size' = 0
          /\ UNCHANGED n
       \/ /\ size # 0
          /\ Goto(t, "rotate", "report")
          /\ n' = hash_next_item(NULL)
          /\ UNCHANGED size
    /\ UNCHANGED <<heap, p0, p, written, finder, fault>>

(* construct_MQTT_msg() writes the approved records. *)
Write(t) ==
    /\ pc[t] = "report" /\ n # NULL
    /\ written' = written + IF rec[n] = "approved" THEN 1 ELSE 0
    /\ n' = hash_next_item(n)
    /\ Use(n)
    /\ UNCHANGED <<heap, pc, after, p0, p, size, finder, history>>

EndWrite(t) ==
    /\ n = NULL
    /\ Goto(t, "report", IF t = "capture" THEN "lookup" ELSE "idle")
    /\ size' = 0 /\ written' = 0
    /\ UNCHANGED <<heap, n, after, p0, p, finder, history, fault>>

-----------------------------------------------------------------------------
(* handle_ip_packet() *)

(* The packet is ignored, or hash_find() begins. *)
Lookup ==
    /\ \/ Goto("capture", "lookup", "idle") /\ UNCHANGED q
       \/ Goto("capture", "lookup", "find") /\ q' = table[Hash[packet]]
    /\ UNCHANGED <<heap, walk, packet, head, history, fault>>

FindWalk ==
    /\ pc["capture"] = "find"
    /\ q # NULL /\ key[q] # packet
    /\ q' = next[q]
    /\ Use(q)
    /\ UNCHANGED <<heap, pc, walk, packet, head, history>>

(* The record is there: the accounting changes nothing the table knows of.   *)
Found ==
    /\ q # NULL /\ key[q] = packet
    /\ Goto("capture", "find", "idle")
    /\ q' = NULL
    /\ Use(q)
    /\ UNCHANGED <<heap, walk, packet, head, history>>

NotFound ==
    /\ q = NULL
    /\ Goto("capture", "find", "link")
    /\ UNCHANGED <<heap, walk, finder, history, fault>>

(* hash_insert(): the node is in its bucket before it has been filled.       *)
Link ==
    /\ Goto("capture", "link", "fill")
    /\ \E m \in free :
          /\ q' = m
          /\ free' = free \ {m}
          /\ head' = table[Hash[packet]]
          /\ table' = [table EXCEPT ![Hash[packet]] = m]
    /\ UNCHANGED <<key, next, rec, walk, packet, history, fault>>

Fill ==
    /\ Goto("capture", "fill", "idle")
    /\ next' = [next EXCEPT ![q] = head]
    /\ key' = [key EXCEPT ![q] = packet]
    /\ rec' = [rec EXCEPT ![q] = "new"]
    /\ q' = NULL /\ head' = NULL
    /\ Use(q)
    /\ UNCHANGED <<table, free, walk, packet, history>>

-----------------------------------------------------------------------------
history_rotate(t) ==
    \/ Advance(t) \/ Approve(t) \/ Keep(t) \/ Drop(t)
    \/ DeleteWalk(t) \/ Unlink(t) \/ EndRotate(t)

construct_MQTT_msg(t) == Write(t) \/ EndWrite(t)

handle_ip_packet == Lookup \/ FindWalk \/ Found \/ NotFound \/ Link \/ Fill

Next ==
    /\ ~fault
    /\ \/ \E t \in Tickers :
             \/ \E k \in Keys : Tick(t, k)
             \/ history_rotate(t) \/ construct_MQTT_msg(t)
       \/ handle_ip_packet

Spec == Init /\ [][Next]_vars

-----------------------------------------------------------------------------
(* Properties, while the capture thread alone ticks                          *)

(* No walk, search, insertion or deletion uses a node that has been freed:   *)
(* history_rotate() moves on before it deletes (iftop.c:186).                *)
NoFreedUse == ~fault

(* Each bucket leads to a chain of allocated nodes whose keys it is the      *)
(* bucket of, each reached in one way only, no two of them with the same     *)
(* key, and no node is lost: what is not free is in the table or about to    *)
(* be (hash.c:9-59).                                                         *)
ChainsSound ==
    /\ TypeOK
    /\ \A b \in Buckets : \A m \in Chain(First(b)) : Hash[key[m]] = b
    /\ \A m \in Linked :
          Cardinality({b \in Buckets : First(b) = m})
              + Cardinality({x \in Linked : next[x] = m}) = 1
    /\ Cardinality(KeysIn) = Cardinality(Linked)
    /\ Nodes \ free = Linked \cup (IF pc["capture"] = "fill" THEN {q} ELSE {})

(* A rotation looks at every record once, though it deletes some on its way  *)
(* (iftop.c:181-224).                                                        *)
EachVisitedOnce ==
    \A t \in Tickers :
        pc[t] = "rotate" /\ n = NULL =>
            /\ {seen[i] : i \in 1 .. Len(seen)} = before
            /\ Len(seen) = Cardinality(before)

(* The records written are at most as many as history_rotate() counted: the  *)
(* report was allocated for that number (mqtt.c:200, 205-247).               *)
ReportFits == written <= size

(* What the history sees of all this is one record for each key.             *)
Promise == INSTANCE KeyedRecords
    WITH records <- [k \in KeysIn |-> rec[CHOOSE m \in Linked : key[m] = k]]
TableIsMap == Promise!Spec
=============================================================================
