----------------------------- MODULE IPLocator -----------------------------
(***************************************************************************)
(* How mqtt_client.py's IPLocator finds the place of an address in its     *)
(* database: a sequence of ranges of addresses, ascending, the last one of *)
(* which holds the database's version under addresses of its own.  What    *)
(* getAddr() reads at a range, through up to two redirections, is its      *)
(* place here.                                                             *)
(***************************************************************************)
EXTENDS Integers, Sequences

CONSTANT VersionAddresses   \* 255.255.255.0 and above

NotFound == "not found"

(* Ranges that can be searched by their starts, and the version's own.       *)
IsDatabase(ranges) ==
    LET last == Len(ranges)
    IN  /\ last \in Nat \ {0} /\ DOMAIN ranges = 1..last
        /\ \A n \in 1..last : /\ ranges[n].start \in Nat /\ ranges[n].end \in Nat
                              /\ ranges[n].start <= ranges[n].end
        /\ \A m, n \in 1..last : m < n => ranges[m].end < ranges[n].start
        /\ ranges[last].start..ranges[last].end \subseteq VersionAddresses
        /\ \A v \in VersionAddresses : v \in Nat /\ ranges[last].start <= v

(* setIpRange(): ranges are numbered from 0.                                 *)
RangeAt(ranges, n) == ranges[n + 1]

(* L and R when the loop of getIpAddr() is left.                             *)
Narrowed(ranges, ip) ==
    LET Numbers == 0..Len(ranges) - 1
        from[p \in Numbers \X Numbers] ==
            LET L == p[1]
                R == p[2]
                M == (L + R) \div 2
                start == RangeAt(ranges, M).start
            IN  IF L >= R - 1 THEN p
                ELSE IF ip = start THEN <<M, R>>
                ELSE IF ip > start THEN from[<<M, R>>]
                ELSE from[<<L, M>>]
    IN  from[<<0, Len(ranges) - 1>>]

getIpAddr(ranges, ip) ==
    LET p == Narrowed(ranges, ip)
        found == RangeAt(ranges, IF ip \in VersionAddresses THEN p[2] ELSE p[1])
    IN  IF ip \in found.start..found.end THEN found.place ELSE NotFound

(* What a reader of the database expects.                                    *)
PlaceOf(ranges, ip) ==
    IF \E n \in DOMAIN ranges : ip \in ranges[n].start..ranges[n].end
    THEN ranges[CHOOSE n \in DOMAIN ranges : ip \in ranges[n].start..ranges[n].end].place
    ELSE NotFound
=============================================================================
