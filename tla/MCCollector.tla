---------------------------- MODULE MCCollector ----------------------------
(* An instance of Collector for TLC: addresses of four bits, the inner ones  *)
(* of interest 8 and 9; in 14 and 15 the database has its version.           *)
EXTENDS Collector

TwoBoxes == {1, 2}

Web == [box |-> 1, outer |-> 3, port |-> 80, inner |-> 9, protocol |-> 6]
Names == [box |-> 1, outer |-> 3, port |-> 53, inner |-> 9, protocol |-> 17]
FarHost == [box |-> 2, outer |-> 5, port |-> 80, inner |-> 15, protocol |-> 6]
Second == [box |-> 2, outer |-> 12, port |-> 80, inner |-> 8, protocol |-> 6]

Mail == [box |-> 1, outer |-> 6, port |-> 25, inner |-> 9, protocol |-> 6]

SomeConns == {Web, Names, Mail, FarHost, Second}

(* Three of them have been counted by time 3. *)
SomeBegun ==
    [c \in {Web, FarHost, Second} |->
        [recv |-> IF c = Second THEN 0 ELSE 1, send |-> IF c = Second THEN 1 ELSE 0,
         create |-> CASE c = Web -> 0 [] c = FarHost -> 1 [] c = Second -> 2,
         end    |-> CASE c = Web -> 0 [] c = FarHost -> 1 [] c = Second -> 2]]

OneConn == {Web}
NoneBegun == [c \in {} |-> 0]

(* Places of three and five ranges, and the version's. *)
Few == <<[start |-> 0, end |-> 7, place |-> "a"],
         [start |-> 8, end |-> 13, place |-> "b"],
         [start |-> 14, end |-> 15, place |-> "version"]>>
More == <<[start |-> 0, end |-> 2, place |-> "a"],
          [start |-> 3, end |-> 3, place |-> "b"],
          [start |-> 4, end |-> 6, place |-> "c"],
          [start |-> 8, end |-> 13, place |-> "d"],
          [start |-> 14, end |-> 15, place |-> "version"]>>

SomeSettings ==
    {[port |-> FALSE, limit |-> 0, IPL |-> More],
     [port |-> FALSE, limit |-> 1, IPL |-> Few],
     [port |-> TRUE, limit |-> 2, IPL |-> <<>>]}

PlainSettings == {[port |-> FALSE, limit |-> 0, IPL |-> <<>>]}

TopTwo == {14, 15}
=============================================================================
