---------------------------- MODULE KeyedRecords ----------------------------
(* What hash.h promises the history: at most one record for each key, which *)
(* is there from its insertion on and until it is deleted.  A record is     *)
(* "new" until history_rotate() approves it.                                *)
CONSTANT Keys
VARIABLE records  \* from the keys that have one to "new" or "approved"

Init == records = [k \in {} |-> "new"]

Insert(k) ==
    /\ k \notin DOMAIN records
    /\ records' = [x \in DOMAIN records \cup {k} |->
                      IF x = k THEN "new" ELSE records[x]]

Delete(k) ==
    /\ k \in DOMAIN records
    /\ records[k] = "new"
    /\ records' = [x \in DOMAIN records \ {k} |-> records[x]]

Approve(k) ==
    /\ k \in DOMAIN records
    /\ records' = [records EXCEPT ![k] = "approved"]

Next == \E k \in Keys : Insert(k) \/ Delete(k) \/ Approve(k)

Spec == Init /\ [][Next]_records
=============================================================================
