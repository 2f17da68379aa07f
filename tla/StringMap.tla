----------------------------- MODULE StringMap -----------------------------
(***************************************************************************)
(* The binary tree of stringmap.c.  A node is named by the way to it from  *)
(* the root, l for lesser and g for greater; a tree is a function from the *)
(* places of its nodes to their keys and values.  Nodes are never removed. *)
(*                                                                         *)
(* A definition that stands right above another, has its parameters and is *)
(* used by nothing is a slip the code could have had (see Publisher).      *)
(***************************************************************************)
EXTENDS Naturals, Sequences

CONSTANT Alphabet  \* the keys, in the order of strcmp()

Rank(k) == CHOOSE n \in DOMAIN Alphabet : Alphabet[n] = k

Way == Seq({"l", "g"})

stringmap_new == [w \in {} |-> {}]

(* The way both loops take for key k: to the node that has it, or to where   *)
(* it would hang.                                                            *)
WayTo(S, k) ==
    LET from[w \in Way] ==
            IF w \notin DOMAIN S \/ S[w].key = k THEN w
            ELSE from[Append(w, IF Rank(k) < Rank(S[w].key) THEN "l" ELSE "g")]
    IN  from[<<>>]

Has(S, k) == WayTo(S, k) \in DOMAIN S

stringmap_find(S, k) == S[WayTo(S, k)]

InsertUnderRoot(S, k, d) ==
    IF Has(S, k) THEN S
    ELSE LET w == IF S = stringmap_new THEN <<>>
                  ELSE IF Rank(k) < Rank(S[<<>>].key) THEN <<"l">> ELSE <<"g">>
         IN  [v \in DOMAIN S \cup {w} |->
                 IF v = w THEN [key |-> k, d |-> d] ELSE S[v]]

(* An existing item is returned, not changed.                                *)
stringmap_insert(S, k, d) ==
    IF Has(S, k) THEN S
    ELSE LET w == WayTo(S, k)
         IN  [v \in DOMAIN S \cup {w} |->
                 IF v = w THEN [key |-> k, d |-> d] ELSE S[v]]

(* config_set_string() of cfgfile.c *)
config_set_string(S, k, s) ==
    IF Has(S, k) THEN [S EXCEPT ![WayTo(S, k)].d = s]
    ELSE stringmap_insert(S, k, s)
=============================================================================
