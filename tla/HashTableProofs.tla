-------------------------- MODULE HashTableProofs --------------------------
(***************************************************************************)
(* What holds of HashTable for any keys, hash function, number of buckets  *)
(* and size of the memory, as long as the capture thread alone ticks: the  *)
(* chains are sound, nothing freed is used, a rotation visits each record  *)
(* once, a report fits, and all of it implements KeyedRecords.             *)
(*                                                                         *)
(* A chain is not described link by link but by a rank of its nodes, the   *)
(* order in which they were inserted: a bucket leads to its node of the    *)
(* highest rank, and a node to the one of the next lower rank.  That the   *)
(* nodes so described are those Chain() collects is an induction over the  *)
(* length of the way, and needed only at the end.                          *)
(***************************************************************************)
EXTENDS HashTable, Induction

Alone == Tickers = {"capture"}

At(label) == pc["capture"] = label

(* The nodes in the table, without one that is being inserted. *)
Alive == Nodes \ (free \cup (IF At("fill") THEN {q} ELSE {}))

In(b) == {m \in Alive : Hash[key[m]] = b}
Below(m, r) == {x \in In(Hash[key[m]]) : r[x] < r[m]}

(* y is the node of T that was inserted last. *)
Top(y, T, r) == IF T = {} THEN y = NULL
                ELSE y \in T /\ \A x \in T : r[x] <= r[y]

Shape(r, c) ==
    /\ \A m \in Alive : r[m] < c
    /\ \A m, x \in Alive : r[m] = r[x] => m = x
    /\ \A m, x \in Alive : key[m] = key[x] => m = x
    /\ \A b \in Buckets : Top(First(b), In(b), r)
    /\ \A m \in Alive : Top(next[m], Below(m, r), r)

(* A walk meets m before x; what it meets from y on. *)
Precedes(m, x, r) ==
    \/ Hash[key[m]] < Hash[key[x]]
    \/ Hash[key[m]] = Hash[key[x]] /\ r[x] < r[m]

Rest(y, r) == {x \in Alive : y \in Alive /\ (x = y \/ Precedes(y, x, r))}

(* What a walk has still to visit after the node it is at. *)
Todo(r) == IF At("rotate") \/ At("report") THEN Rest(n, r) ELSE Rest(after, r)

SeenKeys == {seen[i] : i \in 1 .. Len(seen)}

Visited(r) ==
    /\ \A m \in Todo(r) : key[m] \notin SeenKeys
    /\ before = SeenKeys \cup {key[m] : m \in Todo(r)}
    /\ IsFiniteSet(SeenKeys) /\ Cardinality(SeenKeys) = Len(seen)

Approved == {m \in Alive : rec[m] = "approved"}
Counted(r) == Approved \ (Todo(r) \cup {n})

WalkInv(r) ==
    /\ At("rotate") \/ At("report") => n \in Alive \cup {NULL}
    /\ At("judge") \/ At("delete") =>
          n \in Alive /\ after \in Alive \cup {NULL} /\ n \notin Rest(after, r)
    /\ At("rotate") \/ At("judge") \/ At("delete") =>
          Visited(r) /\ Cardinality(Counted(r)) <= size
    /\ At("report") => written = Cardinality(Counted(r)) /\ Cardinality(Approved) <= size
    /\ ~At("report") => written = 0
    /\ ~(At("rotate") \/ At("judge") \/ At("delete")) => seen = <<>>

(* hash_delete() comes to n, with p0 one step behind. *)
DeleteInv(r) ==
    At("delete") =>
        /\ rec[n] = "new"
        /\ p \in In(Hash[key[n]]) /\ r[n] <= r[p]
        /\ IF p0 = NULL THEN p = First(Hash[key[n]])
           ELSE p0 \in In(Hash[key[n]]) /\ next[p0] = p

(* hash_find() comes to the packet's record if there is one. *)
FindInv(r) ==
    /\ At("find") =>
          /\ q \in In(Hash[packet]) \cup {NULL}
          /\ \A m \in Alive : key[m] = packet => q # NULL /\ r[m] <= r[q]
    /\ At("link") \/ At("fill") => \A m \in Alive : key[m] # packet
    /\ At("fill") => q \in Nodes \ free /\ table[Hash[packet]] = q

Sound(r, c) == Shape(r, c) /\ WalkInv(r) /\ DeleteInv(r) /\ FindInv(r)

Ranks == [Nodes -> Nat]

IInv == TypeOK /\ ~fault /\ \E r \in Ranks, c \in Nat : Sound(r, c)

-----------------------------------------------------------------------------
(* The order of a walk *)

LEMMA BucketType ==
    ASSUME TypeOK, NEW m \in Nodes
    PROVE  Hash[key[m]] \in Buckets /\ Hash[key[m]] \in Nat
  BY HashAssumption, SizeAssumption DEF TypeOK, Buckets

(* First the nodes of the first bucket that has any. *)
LEMMA FirstFromRest ==
    ASSUME TypeOK, NEW r \in Ranks, NEW c, Shape(r, c), ~At("fill"), NEW b \in Nat
    PROVE  /\ FirstFrom(b) \in Alive \cup {NULL}
           /\ Rest(FirstFrom(b), r) = {x \in Alive : Hash[key[x]] >= b}
<1> DEFINE full == {d \in Buckets : d >= b /\ table[d] # NULL}
<1>1. \A d \in Buckets : Top(table[d], In(d), r)
  BY DEF Shape, First, At
<1>2. \A x \in Alive : x \in Nodes /\ x # NULL
  BY NodesAssumption DEF Alive
<1>3. \A x \in Alive : Hash[key[x]] \in Nat /\ table[Hash[key[x]]] # NULL /\ Hash[key[x]] \in Buckets
  BY <1>1, <1>2, BucketType DEF Top, In
<1>4. CASE full = {}
  <2>1. FirstFrom(b) = NULL
    BY <1>4 DEF FirstFrom
  <2>2. ~\E x \in Alive : Hash[key[x]] >= b
    BY <1>3, <1>4
  <2> QED BY <2>1, <2>2, <1>2 DEF Rest
<1>5. CASE full # {}
  <2>1. full \subseteq Nat
    BY SizeAssumption DEF Buckets
  <2> DEFINE d == CHOOSE d \in full : \A e \in full : d <= e
  <2>2. d \in full /\ \A e \in full : d <= e
    BY <1>5, <2>1, LeastNat
  <2>3. FirstFrom(b) = table[d]
    BY <1>5 DEF FirstFrom
  <2> HIDE DEF d
  <2> DEFINE y == table[d]
  <2>4. y # NULL /\ y \in In(d) /\ \A x \in In(d) : r[x] <= r[y]
    BY <2>2, <1>1 DEF Top
  <2>5. y \in Alive /\ Hash[key[y]] = d
    BY <2>4 DEF In
  <2> HIDE DEF y
  <2>6. ASSUME NEW x \in Alive, Hash[key[x]] >= b
        PROVE  x = y \/ Precedes(y, x, r)
    <3>1. Hash[key[x]] \in full
      BY <2>6, <1>3
    <3>2. d <= Hash[key[x]]
      BY <3>1, <2>2
    <3>3. CASE Hash[key[x]] = d
      <4>1. r[x] <= r[y]
        BY <3>3, <2>4 DEF In
      <4>2. r[x] \in Nat /\ r[y] \in Nat
        BY <1>2, <2>5 DEF Ranks
      <4> QED BY <4>1, <4>2, <3>3, <2>5 DEF Shape, Precedes
    <3> QED BY <3>2, <3>3, <2>5, <1>3, <2>1, <2>2 DEF Precedes
  <2>7. ASSUME NEW x \in Alive, x = y \/ Precedes(y, x, r)
        PROVE  Hash[key[x]] >= b
    BY <2>7, <2>5, <2>2, <2>1, <1>3 DEF Precedes
  <2> QED BY <2>3, <2>5, <2>6, <2>7 DEF Rest, y
<1> QED BY <1>4, <1>5

(* A walk begins with everything ahead, and each step leaves one node.       *)
LEMMA FirstItem ==
    ASSUME TypeOK, NEW r \in Ranks, NEW c, Shape(r, c), ~At("fill")
    PROVE  /\ hash_next_item(NULL) \in Alive \cup {NULL}
           /\ Rest(hash_next_item(NULL), r) = Alive
<1>1. \A x \in Alive : Hash[key[x]] >= 0
  BY BucketType DEF Alive
<1> QED BY <1>1, FirstFromRest DEF hash_next_item

LEMMA NextItem ==
    ASSUME TypeOK, NEW r \in Ranks, NEW c, Shape(r, c), ~At("fill"), NEW m \in Alive
    PROVE  /\ hash_next_item(m) \in Alive \cup {NULL}
           /\ Rest(hash_next_item(m), r) = Rest(m, r) \ {m}
<1> DEFINE b == Hash[key[m]]
<1>1. \A x \in Alive : x \in Nodes /\ x # NULL /\ Hash[key[x]] \in Nat /\ r[x] \in Nat
  BY NodesAssumption, BucketType DEF Alive, Ranks
<1>2. Rest(m, r) \ {m} = {x \in Alive : Precedes(m, x, r)}
  BY <1>1 DEF Rest, Precedes
<1>3. Top(next[m], Below(m, r), r)
  BY DEF Shape
<1>4. CASE next[m] # NULL
  <2>1. hash_next_item(m) = next[m]
    BY <1>1, <1>4 DEF hash_next_item
  <2> DEFINE y == next[m]
  <2>2. y \in Below(m, r) /\ \A x \in Below(m, r) : r[x] <= r[y]
    BY <1>3, <1>4 DEF Top
  <2>3. y \in Alive /\ Hash[key[y]] = b /\ r[y] < r[m]
    BY <2>2 DEF Below, In
  <2> HIDE DEF y
  <2>4. ASSUME NEW x \in Alive, Precedes(m, x, r)
        PROVE  x = y \/ Precedes(y, x, r)
    <3>1. CASE Hash[key[x]] = b
      <4>1. x \in Below(m, r)
        BY <2>4, <3>1, <1>1 DEF Precedes, Below, In
      <4> QED BY <4>1, <2>2, <2>3, <3>1, <1>1 DEF Shape, Precedes
    <3> QED BY <3>1, <2>3, <2>4 DEF Precedes
  <2>5. ASSUME NEW x \in Alive, x = y \/ Precedes(y, x, r)
        PROVE  Precedes(m, x, r)
    BY <2>3, <2>5, <1>1 DEF Precedes
  <2> QED BY <2>1, <2>3, <2>4, <2>5, <1>2 DEF Rest, y
<1>5. CASE next[m] = NULL
  <2>1. Below(m, r) = {}
    BY <1>1, <1>3, <1>5 DEF Top, Below, In
  <2>2. hash_next_item(m) = FirstFrom(b + 1)
    BY <1>1, <1>5 DEF hash_next_item
  <2>3. \A x \in Alive : Precedes(m, x, r) <=> Hash[key[x]] >= b + 1
    BY <2>1, <1>1 DEF Precedes, Below, In
  <2>4. /\ FirstFrom(b + 1) \in Alive \cup {NULL}
        /\ Rest(FirstFrom(b + 1), r) = {x \in Alive : Hash[key[x]] >= b + 1}
    BY <1>1, FirstFromRest
  <2> QED BY <2>2, <2>3, <2>4, <1>2
<1> QED BY <1>4, <1>5

-----------------------------------------------------------------------------
(* Chains *)

(* Nodes in the table are allocated, and there are finitely many of them. *)
LEMMA AliveNodes ==
    /\ \A m \in Alive : m \in Nodes /\ m \notin free /\ m # NULL
    /\ \A S \in SUBSET Nodes : IsFiniteSet(S) /\ Cardinality(S) \in Nat
    /\ \A S \in SUBSET Alive : IsFiniteSet(S) /\ Cardinality(S) \in Nat
<1>1. Alive \subseteq Nodes
  BY DEF Alive
<1>2. \A S \in SUBSET Nodes : IsFiniteSet(S)
  BY NodesAssumption, FS_Subset
<1> QED BY <1>1, <1>2, NodesAssumption, FS_CardinalityType DEF Alive

(* The function inside Chain() exists, so that Chain() is its last value. *)
LEMMA ChainSteps ==
    ASSUME TypeOK, NEW m \in Pointers, NEW N \in Nat, N = Cardinality(Nodes)
    PROVE  \E f \in [0..N -> SUBSET Nodes] :
              /\ f[0] = {m} \ {NULL}
              /\ \A i \in 1..N : f[i] = f[i-1] \cup ({next[x] : x \in f[i-1]} \ {NULL})
              /\ Chain(m) = f[N]
<1> DEFINE More(s) == s \cup ({next[x] : x \in s} \ {NULL})
           st == [s \in SUBSET Nodes |-> More(s)]
           Is(f) == f = [i \in 0..N |-> IF i = 0 THEN {m} \ {NULL} ELSE More(f[i-1])]
<1>1. st \in [SUBSET Nodes -> SUBSET Nodes]
  BY DEF TypeOK, Pointers
<1>2. {m} \ {NULL} \in SUBSET Nodes
  BY DEF Pointers
<1> HIDE DEF st
<1>3. PICK f \in [0..N -> SUBSET Nodes] :
          f[0] = {m} \ {NULL} /\ \A i \in 1..N : f[i] = st[f[i-1]]
  <2>1. Iterable(SUBSET Nodes, st, {m} \ {NULL}, N)
    BY <1>1, <1>2 DEF Iterable
  <2>2. Iterated(SUBSET Nodes, st, {m} \ {NULL}, N)
    BY <2>1, Iterate
  <2> QED BY <2>2 DEF Iterated
<1>4. \A i \in 1..N : i-1 \in 0..N /\ f[i-1] \in SUBSET Nodes
  OBVIOUS
<1>5. \A i \in 1..N : f[i] = More(f[i-1])
  BY <1>3, <1>4 DEF st
<1>6. Is(f)
  BY <1>3, <1>5
<1>7. \A g : Is(g) => /\ g \in [0..N -> SUBSET Nodes]
                      /\ g[0] = {m} \ {NULL}
                      /\ \A i \in 1..N : g[i] = More(g[i-1])
  <2> SUFFICES ASSUME NEW g, Is(g)
               PROVE  /\ g \in [0..N -> SUBSET Nodes]
                      /\ g[0] = {m} \ {NULL}
                      /\ \A i \in 1..N : g[i] = More(g[i-1])
    OBVIOUS
  <2>1. g[0] = {m} \ {NULL} /\ \A i \in 1..N : g[i] = More(g[i-1])
    OBVIOUS
  <2> DEFINE T == {i \in Nat : i <= N => g[i] \in SUBSET Nodes}
  <2>2. 0 \in T
    BY <2>1, <1>2
  <2>3. ASSUME NEW i \in Nat, i \in T PROVE i + 1 \in T
    <3> SUFFICES ASSUME i + 1 <= N PROVE g[i+1] \in SUBSET Nodes
      OBVIOUS
    <3>1. g[i] \in SUBSET Nodes
      BY <2>3
    <3>2. g[i+1] = More(g[i])
      BY <2>1
    <3> QED BY <3>1, <3>2 DEF TypeOK, Pointers
  <2> HIDE DEF T
  <2>4. \A i \in Nat : i \in T
    BY <2>2, <2>3, NatInductive
  <2>5. \A i \in 0..N : g[i] \in SUBSET Nodes
    BY <2>4 DEF T
  <2>6. DOMAIN g = 0..N /\ g = [i \in DOMAIN g |-> g[i]]
    OBVIOUS
  <2> QED BY <2>1, <2>5, <2>6
<1> DEFINE g == CHOOSE reach : Is(reach)
<1>8. Is(g)
  BY <1>6
<1>9. Chain(m) = g[N]
  BY DEF Chain
<1> HIDE DEF g, Is
<1> QED BY <1>7, <1>8, <1>9

(* All but the last inserted node of a bucket are the next of one.           *)
LEMMA Predecessor ==
    ASSUME TypeOK, NEW r \in Ranks, NEW c, Shape(r, c), NEW m \in Alive,
           NEW z \in In(Hash[key[m]]), r[m] < r[z]
    PROVE  \E x \in In(Hash[key[m]]) : r[m] < r[x] /\ next[x] = m
<1> DEFINE b == Hash[key[m]]
           Higher == {x \in In(b) : r[m] < r[x]}
<1>1. \A x \in In(b) : x \in Alive /\ x \in Nodes /\ x # NULL /\ r[x] \in Nat /\ Hash[key[x]] = b
  BY AliveNodes DEF In, Ranks
<1>2. m \in In(b) /\ r[m] \in Nat
  BY AliveNodes DEF In, Ranks
<1>3. PICK x \in Higher : \A y \in Higher : r[x] <= r[y]
  <2>1. {r[x] : x \in Higher} \in SUBSET Nat /\ {r[x] : x \in Higher} # {}
    BY <1>1
  <2>2. PICK l \in {r[x] : x \in Higher} : \A k \in {r[x] : x \in Higher} : l <= k
    BY <2>1, LeastNat
  <2> QED BY <2>2
<1>4. Top(next[x], Below(x, r), r) /\ m \in Below(x, r)
  BY <1>1, <1>2, <1>3 DEF Shape, Below
<1>5. next[x] \in Below(x, r) /\ r[m] <= r[next[x]]
  BY <1>4 DEF Top
<1>6. next[x] \in In(b) /\ r[next[x]] < r[x]
  BY <1>1, <1>3, <1>5 DEF Below
<1>7. next[x] = m
  <2> SUFFICES ASSUME r[m] < r[next[x]] PROVE FALSE
    BY <1>1, <1>2, <1>5, <1>6 DEF Shape
  <2> QED BY <1>1, <1>3, <1>6
<1> QED BY <1>3, <1>7

(* What a bucket leads to is the nodes of that bucket. *)
LEMMA ChainIsBucket ==
    ASSUME TypeOK, NEW r \in Ranks, NEW c, Shape(r, c), NEW b \in Buckets
    PROVE  Chain(First(b)) = In(b)
<1> DEFINE N == Cardinality(Nodes)
           y == First(b)
<1>1. N \in Nat
  BY AliveNodes
<1> HIDE DEF N
<1>2. Top(y, In(b), r)
  BY DEF Shape
<1>3. \A m \in In(b) : m \in Alive /\ m \in Nodes /\ m # NULL /\ r[m] \in Nat /\ Hash[key[m]] = b
  BY AliveNodes DEF In, Ranks
<1>4. y \in In(b) \cup {NULL} /\ y \in Pointers
  BY <1>2, <1>3 DEF Top, Pointers
<1> HIDE DEF y
<1>5. PICK f \in [0..N -> SUBSET Nodes] :
          /\ f[0] = {y} \ {NULL}
          /\ \A i \in 1..N : f[i] = f[i-1] \cup ({next[x] : x \in f[i-1]} \ {NULL})
          /\ Chain(y) = f[N]
  BY <1>1, <1>4, ChainSteps DEF N
<1>6. \A m \in In(b) : next[m] # NULL => next[m] \in In(b) /\ r[next[m]] < r[m]
  <2> SUFFICES ASSUME NEW m \in In(b), next[m] # NULL
               PROVE  next[m] \in In(b) /\ r[next[m]] < r[m]
    OBVIOUS
  <2>1. Top(next[m], Below(m, r), r)
    BY <1>3 DEF Shape
  <2>2. next[m] \in Below(m, r)
    BY <2>1 DEF Top
  <2> QED BY <2>2, <1>3 DEF Below
<1>7. f[N] \subseteq In(b)
  <2> DEFINE T == {i \in Nat : i <= N => f[i] \subseteq In(b)}
  <2>1. 0 \in T
    BY <1>4, <1>5
  <2>2. ASSUME NEW i \in Nat, i \in T PROVE i + 1 \in T
    <3> SUFFICES ASSUME i + 1 <= N PROVE f[i+1] \subseteq In(b)
      OBVIOUS
    <3>1. f[i] \subseteq In(b)
      BY <1>1, <2>2
    <3>2. f[i+1] = f[i] \cup ({next[x] : x \in f[i]} \ {NULL})
      BY <1>1, <1>5
    <3> QED BY <3>1, <3>2, <1>6
  <2> HIDE DEF T
  <2>3. N \in T
    BY <2>1, <2>2, <1>1, NatInductive
  <2> QED BY <2>3, <1>1 DEF T
<1> DEFINE Above(m) == {x \in In(b) : r[m] < r[x]}
<1>8. \A m : Above(m) \in SUBSET Nodes
  BY <1>3
<1> HIDE DEF Above
<1>9. \A m : IsFiniteSet(Above(m)) /\ Cardinality(Above(m)) \in Nat /\ Cardinality(Above(m)) <= N
  BY <1>8, AliveNodes, NodesAssumption, FS_Subset DEF N
<1>10. ASSUME NEW m \in In(b), Above(m) # {}
       PROVE  \E x \in In(b) : next[x] = m /\ Cardinality(Above(x)) < Cardinality(Above(m))
  <2>1. PICK x \in In(b) : r[m] < r[x] /\ next[x] = m
    BY <1>3, <1>10, Predecessor DEF Above
  <2>2. Above(x) \subseteq Above(m) \ {x} /\ x \in Above(m)
    BY <2>1, <1>3 DEF Above
  <2>3. Cardinality(Above(x)) <= Cardinality(Above(m) \ {x})
    BY <2>2, <1>9, FS_Subset, FS_RemoveElement
  <2>4. Cardinality(Above(m) \ {x}) = Cardinality(Above(m)) - 1
    BY <2>2, <1>9, FS_RemoveElement
  <2> QED BY <2>1, <2>3, <2>4, <1>9
<1>11. In(b) \subseteq f[N]
  <2> DEFINE T == {i \in Nat : i <= N => \A m \in In(b) : Cardinality(Above(m)) <= i => m \in f[i]}
  <2>1. 0 \in T
    <3> SUFFICES ASSUME NEW m \in In(b), Cardinality(Above(m)) <= 0 PROVE m \in f[0]
      OBVIOUS
    <3>1. Above(m) = {}
      BY <1>9, FS_EmptySet
    <3>2. y \in In(b) /\ r[m] <= r[y]
      BY <1>2 DEF Top
    <3>3. r[m] = r[y]
      BY <3>1, <3>2, <1>3 DEF Above
    <3>4. m = y
      BY <3>2, <3>3, <1>3 DEF Shape
    <3> QED BY <3>4, <1>3, <1>5
  <2>2. ASSUME NEW i \in Nat, i \in T PROVE i + 1 \in T
    <3> SUFFICES ASSUME i + 1 <= N, NEW m \in In(b), Cardinality(Above(m)) <= i + 1
                 PROVE  m \in f[i+1]
      OBVIOUS
    <3>1. f[i+1] = f[i] \cup ({next[x] : x \in f[i]} \ {NULL})
      BY <1>1, <1>5
    <3>2. \A x \in In(b) : Cardinality(Above(x)) <= i => x \in f[i]
      BY <2>2, <1>1
    <3>3. CASE Above(m) = {}
      <4>1. Cardinality(Above(m)) = 0
        BY <3>3, FS_EmptySet
      <4> QED BY <4>1, <3>1, <3>2
    <3>4. CASE Above(m) # {}
      <4>1. PICK x \in In(b) : next[x] = m /\ Cardinality(Above(x)) < Cardinality(Above(m))
        BY <3>4, <1>10
      <4>2. Cardinality(Above(x)) <= i
        BY <4>1, <1>9
      <4> QED BY <4>1, <4>2, <3>1, <3>2, <1>3
    <3> QED BY <3>3, <3>4
  <2> HIDE DEF T
  <2>3. N \in T
    BY <2>1, <2>2, <1>1, NatInductive
  <2> QED BY <2>3, <1>1, <1>9 DEF T
<1>12. f[N] = In(b)
  BY <1>7, <1>11
<1> QED BY <1>5, <1>12 DEF y

LEMMA LinkedIsAlive ==
    ASSUME TypeOK, NEW r \in Ranks, NEW c, Shape(r, c)
    PROVE  Linked = Alive /\ KeysIn = {key[m] : m \in Alive}
<1>1. Linked = UNION {In(b) : b \in Buckets}
  BY ChainIsBucket DEF Linked
<1>2. \A m \in Alive : Hash[key[m]] \in Buckets
  BY AliveNodes, BucketType
<1> QED BY <1>1, <1>2 DEF In, KeysIn

-----------------------------------------------------------------------------
(* Steps of a walk or a search *)

(* What such a step leaves as it was. *)
LEMMA Quiet ==
    ASSUME NEW r, NEW c, UNCHANGED <<table, key, next, free>>,
           ~At("fill"), ~At("fill")'
    PROVE  /\ Alive' = Alive
           /\ \A b : In(b)' = In(b) /\ First(b)' = First(b)
           /\ \A y : Rest(y, r)' = Rest(y, r)
           /\ Shape(r, c) => Shape(r, c)'
<1>1. Alive' = Alive
  BY DEF Alive
<1>2. \A b : In(b)' = In(b)
  BY <1>1 DEF In
<1>3. \A b : First(b)' = First(b)
  BY DEF First, At
<1>4. \A m, x : Precedes(m, x, r)' = Precedes(m, x, r)
  BY DEF Precedes
<1>5. \A y : Rest(y, r)' = Rest(y, r)
  BY <1>1, <1>4 DEF Rest
<1>6. \A m : Below(m, r)' = Below(m, r)
  BY <1>2 DEF Below
<1>7. ASSUME Shape(r, c) PROVE Shape(r, c)'
  <2>1. \A m, x \in Alive' : (key[m] = key[x])' => m = x
    BY <1>1, <1>7 DEF Shape
  <2>2. \A b \in Buckets : Top(First(b), In(b), r)'
    BY <1>2, <1>3, <1>7 DEF Shape, Top
  <2>3. \A m \in Alive' : Top(next[m], Below(m, r), r)'
    BY <1>1, <1>6, <1>7 DEF Shape, Top
  <2> QED BY <1>1, <1>7, <2>1, <2>2, <2>3 DEF Shape
<1> QED BY <1>1, <1>2, <1>3, <1>5, <1>7

LEMMA GotoAt ==
    ASSUME Alone, TypeOK, NEW t \in Tickers, NEW from, NEW to, Goto(t, from, to)
    PROVE  /\ t = "capture" /\ pc["capture"] = from /\ pc'["capture"] = to
           /\ to \in Labels => pc' \in [Tickers -> Labels]
  BY DEF Alone, TypeOK, Goto

Inv(r, c) == TypeOK /\ ~fault /\ Sound(r, c)

LEMMA TickStep ==
    ASSUME Alone, NEW r \in Ranks, NEW c \in Nat, Inv(r, c),
           NEW t \in Tickers, NEW k \in Keys, Tick(t, k)
    PROVE  Inv(r, c)'
<1>1. /\ t = "capture" /\ pc["capture"] = "idle" /\ pc' \in [Tickers -> Labels]
      /\ pc'["capture"] \in {"rotate", "lookup"}
  BY GotoAt DEF Inv, Tick, Labels, Walking
<1>2. TypeOK /\ Shape(r, c) /\ ~At("fill") /\ ~At("fill")'
  BY <1>1 DEF Inv, Sound, At
<1>3. /\ Alive' = Alive /\ (\A y : Rest(y, r)' = Rest(y, r)) /\ Shape(r, c)'
  BY <1>2, Quiet DEF Tick, heap
<1>4. /\ hash_next_item(NULL) \in Alive \cup {NULL}
      /\ Rest(hash_next_item(NULL), r) = Alive
      /\ hash_next_item(NULL) \in Pointers
  BY <1>2, FirstItem, AliveNodes DEF Pointers
<1>5. KeysIn = {key[m] : m \in Alive} /\ KeysIn \subseteq Keys
  BY <1>2, LinkedIsAlive, AliveNodes DEF TypeOK
<1>6. seen = <<>> /\ written = 0
  BY <1>1 DEF Inv, Sound, WalkInv, At
<1>7. TypeOK'
  BY <1>1, <1>2, <1>4, <1>5 DEF TypeOK, Tick, heap
<1>8. CASE pc'["capture"] = "rotate"
  <2>1. n' = hash_next_item(NULL) /\ before' = KeysIn /\ seen' = seen
    BY <1>1, <1>8 DEF Tick, Goto, TypeOK
  <2>2. Todo(r)' = Alive
    <3>1. Todo(r)' = Rest(n, r)'
      BY <1>8 DEF Todo, At
    <3>2. Rest(n, r)' = Rest(n', r)
      BY <1>3 DEF Rest, Precedes, Tick, heap
    <3> QED BY <3>1, <3>2, <2>1, <1>4
  <2>3. SeenKeys' = {}
    BY <2>1, <1>6 DEF SeenKeys
  <2>4. Visited(r)'
    BY <2>1, <2>2, <2>3, <1>5, <1>6, FS_EmptySet DEF Visited, Tick, heap
  <2>5. Counted(r)' = {}
    BY <2>2, <1>3 DEF Counted, Approved
  <2>6. WalkInv(r)'
    BY <2>1, <2>4, <2>5, <1>3, <1>4, <1>6, <1>7, <1>8, FS_EmptySet DEF WalkInv, At, Tick, TypeOK
  <2> QED BY <1>3, <1>7, <1>8, <2>6 DEF Inv, Sound, DeleteInv, FindInv, At, Tick
<1>9. CASE pc'["capture"] = "lookup"
  BY <1>3, <1>6, <1>7, <1>9 DEF Inv, Sound, WalkInv, DeleteInv, FindInv, At, Tick
<1> QED BY <1>1, <1>8, <1>9

(* Advancing puts one key among the visited, and takes one node from the rest. *)
LEMMA AdvanceStep ==
    ASSUME Alone, NEW r \in Ranks, NEW c \in Nat, Inv(r, c),
           NEW t \in Tickers, Advance(t)
    PROVE  Inv(r, c)'
<1>1. /\ pc["capture"] = "rotate" /\ pc'["capture"] = "judge"
      /\ pc' \in [Tickers -> Labels]
  BY GotoAt DEF Inv, Advance, Labels, Walking
<1>2. n \in Alive /\ n \in Nodes /\ n \notin free
  BY <1>1, AliveNodes DEF Inv, Sound, WalkInv, Advance, At
<1>3. TypeOK /\ Shape(r, c) /\ ~At("fill") /\ ~At("fill")'
  BY <1>1 DEF Inv, Sound, At
<1>4. /\ after' \in Alive \cup {NULL}
      /\ Rest(after', r) = Rest(n, r) \ {n}
  BY <1>2, <1>3, NextItem DEF Advance
<1>5. /\ Alive' = Alive /\ (\A y : Rest(y, r)' = Rest(y, r)) /\ Shape(r, c)'
  BY <1>3, Quiet DEF Advance, heap
<1>6. n \in Rest(n, r)
  BY <1>2 DEF Rest
<1>7. Todo(r) = Rest(n, r) /\ Todo(r)' = Rest(n, r) \ {n} /\ Rest(after, r)' = Todo(r)'
  <2>1. Todo(r)' = Rest(after, r)'
    BY <1>1 DEF Todo, At
  <2>2. Rest(after, r)' = Rest(after', r)
    BY <1>5 DEF Rest, Precedes, Advance, heap
  <2> QED BY <1>1, <1>4, <2>1, <2>2 DEF Todo, At
<1>8. TypeOK'
  <2>1. key[n] \in Keys /\ after' \in Pointers
    BY <1>2, <1>4, <1>3, AliveNodes DEF TypeOK, Pointers
  <2>2. fault' \in BOOLEAN
    BY <1>3 DEF Advance, Use, TypeOK
  <2> QED BY <1>1, <1>2, <1>3, <2>1, <2>2 DEF TypeOK, Advance, heap, finder
<1>9. Visited(r) /\ Cardinality(Counted(r)) <= size
  BY <1>1 DEF Inv, Sound, WalkInv, At
<1>10. SeenKeys' = SeenKeys \cup {key[n]} /\ Len(seen') = Len(seen) + 1
  BY <1>1, <1>2, <1>3 DEF SeenKeys, Advance, TypeOK
<1>11. Visited(r)'
  <2>1. key[n] \notin SeenKeys
    BY <1>6, <1>7, <1>9 DEF Visited
  <2>2. \A m \in Todo(r)' : key[m] \notin SeenKeys'
    <3>1. \A m \in Todo(r)' : m \in Alive /\ m # n /\ key[m] \notin SeenKeys
      BY <1>7, <1>9 DEF Visited, Rest
    <3> QED BY <3>1, <1>2, <1>3, <1>10 DEF Shape
  <2>3. before = SeenKeys' \cup {key[m] : m \in Todo(r)'}
    BY <1>6, <1>7, <1>9, <1>10 DEF Visited
  <2>4. IsFiniteSet(SeenKeys') /\ Cardinality(SeenKeys') = Len(seen')
    BY <2>1, <1>9, <1>10, FS_AddElement DEF Visited
  <2> QED BY <2>2, <2>3, <2>4 DEF Visited, Advance, heap
<1>12. Counted(r)' = Counted(r)
  BY <1>5, <1>6, <1>7 DEF Counted, Approved, Advance, heap
<1>13. WalkInv(r)'
  <2>1. (after \in Alive \cup {NULL})' /\ (n \notin Rest(after, r))' /\ (n \in Alive)'
    BY <1>2, <1>4, <1>5, <1>7 DEF Advance
  <2>2. written' = 0
    BY <1>1 DEF Inv, Sound, WalkInv, At, Advance
  <2> QED BY <1>1, <1>9, <1>11, <1>12, <2>1, <2>2 DEF WalkInv, At, Advance
<1>14. ~fault'
  BY <1>2 DEF Inv, Advance, Use
<1> QED BY <1>1, <1>5, <1>8, <1>13, <1>14 DEF Inv, Sound, DeleteInv, FindInv, At

(* Back to the walk, with n counted if it is approved. *)
LEMMA JudgeStep ==
    ASSUME Alone, NEW r \in Ranks, NEW c \in Nat, Inv(r, c),
           NEW t \in Tickers, Approve(t) \/ Keep(t)
    PROVE  Inv(r, c)'
<1>1. /\ pc["capture"] = "judge" /\ pc'["capture"] = "rotate"
      /\ pc' \in [Tickers -> Labels]
  BY GotoAt DEF Inv, Approve, Keep, Labels, Walking
<1>2. TypeOK /\ Shape(r, c) /\ ~At("fill") /\ ~At("fill")' /\ UNCHANGED <<table, key, next, free>>
  BY <1>1 DEF Inv, Sound, At, Approve, Keep, heap
<1>3. /\ n \in Alive /\ after \in Alive \cup {NULL} /\ n \notin Rest(after, r)
      /\ Visited(r) /\ Cardinality(Counted(r)) <= size /\ written = 0
  BY <1>1 DEF Inv, Sound, WalkInv, At
<1>4. Alive' = Alive /\ (\A y : Rest(y, r)' = Rest(y, r)) /\ Shape(r, c)'
  BY <1>2, Quiet
<1>5. n' = after /\ seen' = seen /\ before' = before /\ written' = written
  BY DEF Approve, Keep, history
<1>6. n \in Nodes /\ n \notin free /\ after \in Pointers
  BY <1>3, AliveNodes DEF Pointers
<1>7. TypeOK'
  <2>1. rec' \in [Nodes -> {"new", "approved"}] /\ size' \in Nat
    BY <1>2, <1>6 DEF TypeOK, Approve, Keep, heap
  <2>2. fault' \in BOOLEAN
    BY <1>2 DEF Approve, Keep, Use, TypeOK
  <2> QED BY <1>1, <1>2, <1>5, <1>6, <2>1, <2>2 DEF TypeOK, Approve, Keep, heap, finder, history
<1>8. Todo(r)' = Todo(r) /\ Todo(r) = Rest(after, r)
  <2>1. Todo(r)' = Rest(n, r)'
    BY <1>1 DEF Todo, At
  <2>2. Rest(n, r)' = Rest(after, r)
    BY <1>2, <1>4, <1>5 DEF Rest, Precedes
  <2> QED BY <1>1, <2>1, <2>2 DEF Todo, At
<1>9. Visited(r)'
  BY <1>2, <1>3, <1>5, <1>8 DEF Visited, SeenKeys
<1>10. Cardinality(Counted(r)') <= size'
  <2>1. n' \notin Approved' \ Todo(r)'
    BY <1>3, <1>4, <1>5, <1>8, AliveNodes DEF Rest, Approved
  <2>2. Counted(r)' = Approved' \ Todo(r)
    BY <2>1, <1>8 DEF Counted
  <2>3. Counted(r) = (Approved \ Todo(r)) \ {n}
    BY DEF Counted
  <2>4. n \notin Counted(r) /\ IsFiniteSet(Counted(r)) /\ Cardinality(Counted(r)) \in Nat /\ size \in Nat
    BY <1>2, AliveNodes DEF Counted, Approved, TypeOK
  <2>5. Cardinality(Counted(r) \cup {n}) = Cardinality(Counted(r)) + 1
    BY <2>4, FS_AddElement
  <2>6. CASE Approve(t)
    <3>1. Approved' = Approved \cup {n}
      BY <2>6, <1>2, <1>3, <1>4, <1>6 DEF Approved, Approve, TypeOK
    <3>2. Counted(r)' = Counted(r) \cup {n}
      BY <3>1, <2>2, <2>3, <1>3, <1>8
    <3> QED BY <3>2, <2>4, <2>5, <2>6, <1>3 DEF Approve
  <2>7. CASE Keep(t)
    <3>1. Approved' = Approved
      BY <2>7, <1>4 DEF Approved, Keep, heap
    <3>2. CASE rec[n] = "approved"
      <4>1. Counted(r)' = Counted(r) \cup {n}
        BY <3>1, <3>2, <2>2, <2>3, <1>3, <1>8 DEF Approved
      <4> QED BY <3>2, <4>1, <2>4, <2>5, <2>7, <1>3 DEF Keep
    <3>3. CASE rec[n] # "approved"
      <4>1. Counted(r)' = Counted(r)
        BY <3>1, <3>3, <2>2, <2>3 DEF Approved
      <4> QED BY <3>3, <4>1, <2>4, <2>7, <1>3 DEF Keep
    <3> QED BY <3>2, <3>3
  <2> QED BY <2>6, <2>7
<1>11. WalkInv(r)'
  BY <1>1, <1>3, <1>4, <1>5, <1>9, <1>10 DEF WalkInv, At
<1>12. ~fault'
  BY <1>6 DEF Inv, Approve, Keep, Use
<1> QED BY <1>1, <1>4, <1>7, <1>11, <1>12 DEF Inv, Sound, DeleteInv, FindInv, At

(* Steps within a walk that change neither the heap nor where the walk is. *)
LEMMA WalkStays ==
    ASSUME NEW r, NEW c, Inv(r, c), UNCHANGED <<heap, n, after, size, written, history>>,
           ~At("fill"), ~At("fill")',
           At("judge") \/ At("delete"), At("delete")'
    PROVE  WalkInv(r)' /\ Shape(r, c)' /\ (\A b : In(b)' = In(b) /\ First(b)' = First(b))
<1>1. /\ Alive' = Alive /\ (\A y : Rest(y, r)' = Rest(y, r))
      /\ (\A b : In(b)' = In(b) /\ First(b)' = First(b)) /\ Shape(r, c)'
  BY Quiet DEF heap, Inv, Sound
<1>2. Todo(r)' = Todo(r) /\ n' = n /\ Rest(after, r)' = Rest(after, r)
  <2>1. Todo(r)' = Rest(after, r)' /\ Todo(r) = Rest(after, r)
    BY DEF Todo, At
  <2>2. Rest(after, r)' = Rest(after, r)
    BY <1>1 DEF Rest, Precedes, heap
  <2> QED BY <2>1, <2>2
<1>3. Visited(r)' = Visited(r) /\ Counted(r)' = Counted(r)
  BY <1>1, <1>2 DEF Visited, SeenKeys, Counted, Approved, heap, history
<1> QED BY <1>1, <1>2, <1>3 DEF Inv, Sound, WalkInv, At, history

LEMMA DropStep ==
    ASSUME Alone, NEW r \in Ranks, NEW c \in Nat, Inv(r, c),
           NEW t \in Tickers, Drop(t)
    PROVE  Inv(r, c)'
<1>1. /\ pc["capture"] = "judge" /\ pc'["capture"] = "delete"
      /\ pc' \in [Tickers -> Labels]
  BY GotoAt DEF Inv, Drop, Labels, Walking
<1>2. TypeOK /\ Shape(r, c) /\ n \in Alive
  BY <1>1 DEF Inv, Sound, WalkInv, At
<1>3. /\ n \in Nodes /\ n \notin free /\ Hash[key[n]] \in Buckets
      /\ n \in In(Hash[key[n]]) /\ NULL \notin Alive
  BY <1>2, AliveNodes, BucketType DEF In
<1>4. WalkInv(r)' /\ Shape(r, c)' /\ (\A b : In(b)' = In(b) /\ First(b)' = First(b))
  BY <1>1, WalkStays DEF Drop, At
<1>5. p0' = NULL /\ p' = First(Hash[key[n]]) /\ rec[n] = "new"
  BY <1>1 DEF Drop, First
<1>6. p' \in In(Hash[key[n]]) /\ r[n] <= r[p']
  BY <1>2, <1>3, <1>5 DEF Shape, Top
<1>7. DeleteInv(r)'
  BY <1>3, <1>4, <1>5, <1>6 DEF DeleteInv, Drop, heap
<1>8. TypeOK'
  <2>1. p0' \in Pointers /\ p' \in Pointers /\ fault' \in BOOLEAN
    BY <1>2, <1>5, <1>6, AliveNodes DEF Pointers, In, Drop, Use, TypeOK
  <2> QED BY <1>1, <1>2, <2>1 DEF TypeOK, Drop, heap, finder, history
<1>9. ~fault'
  BY <1>3 DEF Inv, Drop, Use
<1> QED BY <1>1, <1>4, <1>7, <1>8, <1>9 DEF Inv, Sound, FindInv, At

(* The search does not pass n, which is below p. *)
LEMMA DeleteWalkStep ==
    ASSUME Alone, NEW r \in Ranks, NEW c \in Nat, Inv(r, c),
           NEW t \in Tickers, DeleteWalk(t)
    PROVE  Inv(r, c)'
<1>1. t = "capture" /\ pc["capture"] = "delete" /\ pc' = pc
  BY DEF Alone, DeleteWalk
<1>2. TypeOK /\ Shape(r, c) /\ n \in Alive /\ DeleteInv(r)
  BY <1>1 DEF Inv, Sound, WalkInv, At
<1> DEFINE b == Hash[key[n]]
<1>3. /\ rec[n] = "new" /\ p \in In(b) /\ r[n] <= r[p]
      /\ p \in Alive /\ Hash[key[p]] = b
      /\ p \in Nodes /\ n \in Nodes /\ p \notin free /\ p # n /\ NULL \notin Alive
  BY <1>1, <1>2, AliveNodes DEF DeleteInv, DeleteWalk, At, In
<1>4. WalkInv(r)' /\ Shape(r, c)' /\ (\A d : In(d)' = In(d) /\ First(d)' = First(d))
  BY <1>1, WalkStays DEF DeleteWalk, At
<1>5. r[p] \in Nat /\ r[n] \in Nat /\ r[n] # r[p]
  BY <1>2, <1>3 DEF Shape, Ranks
<1>6. n \in Below(p, r) /\ Top(next[p], Below(p, r), r)
  <2>1. n \in Below(p, r)
    BY <1>2, <1>3, <1>5 DEF Below, In
  <2>2. Top(next[p], Below(p, r), r)
    BY <1>2, <1>3 DEF Shape
  <2> QED BY <2>1, <2>2
<1>7. next[p] \in In(b) /\ r[n] <= r[next[p]]
  BY <1>3, <1>6 DEF Top, Below
<1>8. p0' = p /\ p' = next[p] /\ p # NULL /\ UNCHANGED <<n, key, next, rec>>
  BY <1>3 DEF DeleteWalk, heap
<1>9. DeleteInv(r)'
  BY <1>3, <1>4, <1>7, <1>8 DEF DeleteInv
<1>10. TypeOK'
  <2>1. p0' \in Pointers /\ p' \in Pointers /\ fault' \in BOOLEAN
    BY <1>2, <1>3, <1>7, <1>8, AliveNodes DEF Pointers, In, DeleteWalk, Use, TypeOK
  <2> QED BY <1>1, <1>2, <2>1 DEF TypeOK, DeleteWalk, heap, finder, history
<1>11. ~fault'
  BY <1>3 DEF Inv, DeleteWalk, Use
<1> QED BY <1>1, <1>4, <1>9, <1>10, <1>11 DEF Inv, Sound, FindInv, At

(* hash_delete() has found the node it looks for, and leaves the chain whole. *)
LEMMA UnlinkShape ==
    ASSUME Alone, NEW r \in Ranks, NEW c \in Nat, Inv(r, c),
           NEW t \in Tickers, Unlink(t)
    PROVE  /\ p = n /\ n \in Alive /\ n \in Nodes /\ n \notin free /\ rec[n] = "new"
           /\ Alive' = Alive \ {n}
           /\ Shape(r, c)'
           /\ table' \in [Buckets -> Pointers] /\ next' \in [Nodes -> Pointers]
<1>1. /\ pc["capture"] = "delete" /\ pc'["capture"] = "rotate"
  BY GotoAt DEF Inv, Unlink
<1>2. TypeOK /\ Shape(r, c) /\ n \in Alive /\ DeleteInv(r)
  BY <1>1 DEF Inv, Sound, WalkInv, At
<1> DEFINE b == Hash[key[n]]
<1>3. /\ rec[n] = "new" /\ p \in In(b)
      /\ IF p0 = NULL THEN p = First(b) ELSE p0 \in In(b) /\ next[p0] = p
  BY <1>1, <1>2 DEF DeleteInv, At
<1>4. p \in Alive /\ p # NULL /\ n \in Nodes /\ n \notin free /\ b \in Buckets
  BY <1>2, <1>3, AliveNodes, BucketType DEF In
<1>5. p = n
  BY <1>2, <1>4 DEF Unlink, Shape
<1>6. Alive' = Alive \ {n} /\ key' = key
  BY <1>1, <1>4, <1>5 DEF Alive, At, Unlink
<1>7. \A d : In(d)' = In(d) \ {n}
  BY <1>6 DEF In
<1>8. \A m : Below(m, r)' = Below(m, r) \ {n}
  BY <1>6, <1>7 DEF Below
<1>9. \A d : First(d) = table[d] /\ First(d)' = table'[d]
  BY <1>1 DEF First
<1>10. \A m \in Alive : m \in Nodes /\ m # NULL /\ r[m] \in Nat
  BY AliveNodes DEF Ranks
<1>11. Top(next[n], Below(n, r), r) /\ next[n] \in Pointers
  BY <1>2, <1>4 DEF Shape, TypeOK
<1>12. CASE p0 = NULL
  <2>1. table' = [table EXCEPT ![b] = next[n]] /\ next' = next /\ table[b] = n
    BY <1>3, <1>4, <1>5, <1>9, <1>12 DEF Unlink, TableWithout, NextWithout
  <2>2. \A x \in In(b) : r[x] <= r[n]
    BY <1>2, <1>4, <2>1, <1>9, <1>3 DEF Shape, Top
  <2>3. Below(n, r) = In(b) \ {n}
    BY <2>2, <1>2, <1>10 DEF Below, In, Shape
  <2>4. \A d \in Buckets : Top(First(d), In(d), r)'
    <3> SUFFICES ASSUME NEW d \in Buckets PROVE Top(table'[d], In(d)', r)
      BY <1>9 DEF Top
    <3>1. CASE d = b
      <4>1. table'[d] = next[n]
        BY <3>1, <2>1, <1>2, <1>4 DEF TypeOK
      <4> QED BY <4>1, <3>1, <2>3, <1>7, <1>11
    <3>2. CASE d # b
      <4>1. table'[d] = table[d] /\ In(d)' = In(d)
        BY <3>2, <2>1, <1>7, <1>2 DEF TypeOK, In
      <4> QED BY <4>1, <1>2, <1>9 DEF Shape
    <3> QED BY <3>1, <3>2
  <2>5. \A m \in Alive' : Top(next[m], Below(m, r), r)'
    <3> SUFFICES ASSUME NEW m \in Alive' PROVE Top(next[m], Below(m, r)', r)
      BY <2>1 DEF Top
    <3>1. n \notin Below(m, r)
      BY <2>2, <1>6, <1>10, <1>2 DEF Below, In
    <3>2. m \in Alive /\ Below(m, r)' = Below(m, r)
      BY <3>1, <1>6, <1>8
    <3>3. Top(next[m], Below(m, r), r)
      BY <3>2, <1>2 DEF Shape
    <3> QED BY <3>2, <3>3
  <2>6. table' \in [Buckets -> Pointers] /\ next' \in [Nodes -> Pointers]
    BY <2>1, <1>2, <1>11 DEF TypeOK
  <2>7. Shape(r, c)'
    BY <1>2, <1>6, <2>4, <2>5 DEF Shape
  <2> QED BY <1>2, <1>3, <1>4, <1>5, <1>6, <2>6, <2>7
<1>13. CASE p0 # NULL
  <2>1. /\ table' = table /\ next' = [next EXCEPT ![p0] = next[n]]
        /\ p0 \in In(b) /\ next[p0] = n /\ p0 \in Alive /\ p0 \in Nodes
    BY <1>3, <1>4, <1>5, <1>10, <1>13 DEF Unlink, TableWithout, NextWithout, In
  <2>2. Top(n, Below(p0, r), r) /\ n # NULL
    BY <1>2, <2>1, <1>10 DEF Shape
  <2>3. r[n] < r[p0] /\ \A x \in Below(p0, r) : r[x] <= r[n]
    BY <2>2 DEF Top, Below
  <2>4. \A x \in In(b) : r[x] < r[p0] => r[x] <= r[n]
    BY <2>1, <2>3 DEF Below, In
  <2>5. Below(p0, r) \ {n} = Below(n, r)
    BY <2>1, <2>3, <2>4, <1>2, <1>10 DEF Below, In, Shape
  <2>6. \A d \in Buckets : Top(First(d), In(d), r)'
    <3> SUFFICES ASSUME NEW d \in Buckets PROVE Top(table[d], In(d)', r)
      BY <1>9, <2>1 DEF Top
    <3>1. Top(table[d], In(d), r)
      BY <1>2, <1>9 DEF Shape
    <3>2. CASE d = b
      <4>1. p0 \in In(d) \ {n}
        BY <2>1, <2>3, <3>2, <1>10
      <4>2. table[d] \in In(d) /\ \A x \in In(d) : r[x] <= r[table[d]]
        BY <3>1, <4>1 DEF Top
      <4>3. table[d] # n
        BY <4>1, <4>2, <2>3, <1>10 DEF In
      <4> QED BY <4>1, <4>2, <4>3, <1>7 DEF Top
    <3>3. CASE d # b
      <4>1. In(d)' = In(d)
        BY <3>3, <1>7 DEF In
      <4> QED BY <3>1, <4>1
    <3> QED BY <3>2, <3>3
  <2>7. \A m \in Alive' : Top(next[m], Below(m, r), r)'
    <3> SUFFICES ASSUME NEW m \in Alive' PROVE Top(next'[m], Below(m, r)', r)
      BY DEF Top
    <3>1. m \in Alive /\ m # n /\ m \in Nodes /\ r[m] \in Nat
      BY <1>6, <1>10
    <3>2. CASE m = p0
      <4>1. next'[m] = next[n]
        BY <2>1, <3>2, <1>2 DEF TypeOK
      <4> QED BY <4>1, <3>2, <2>5, <1>8, <1>11
    <3>3. CASE m # p0
      <4>1. next'[m] = next[m]
        BY <2>1, <3>3, <3>1, <1>2 DEF TypeOK
      <4>2. Top(next[m], Below(m, r), r)
        BY <3>1, <1>2 DEF Shape
      <4>3. next[m] # n
        <5> SUFFICES ASSUME next[m] = n PROVE FALSE
          OBVIOUS
        <5>1. n \in Below(m, r) /\ \A x \in Below(m, r) : r[x] <= r[n]
          BY <4>2, <1>10, <1>2 DEF Top
        <5>2. m \in In(b) /\ r[n] < r[m]
          BY <5>1, <3>1 DEF Below, In
        <5>3. r[m] < r[p0] \/ r[p0] < r[m]
          BY <3>1, <3>3, <2>1, <1>2, <1>10 DEF Shape
        <5>4. CASE r[m] < r[p0]
          <6>1. r[m] <= r[n]
            BY <5>2, <5>4, <2>4
          <6> QED BY <6>1, <5>2, <3>1, <1>10, <1>2
        <5>5. CASE r[p0] < r[m]
          <6>1. p0 \in Below(m, r)
            BY <5>5, <5>2, <2>1 DEF Below, In
          <6> QED BY <6>1, <5>1, <2>3, <2>1, <1>10, <1>2
        <5> QED BY <5>3, <5>4, <5>5
      <4>4. Top(next[m], Below(m, r) \ {n}, r)
        BY <4>2, <4>3, <1>10 DEF Top, Below, In
      <4> QED BY <4>1, <4>4, <1>8
    <3> QED BY <3>2, <3>3
  <2>8. table' \in [Buckets -> Pointers] /\ next' \in [Nodes -> Pointers]
    BY <2>1, <1>2, <1>11 DEF TypeOK
  <2>9. Shape(r, c)'
    BY <1>2, <1>6, <2>6, <2>7 DEF Shape
  <2> QED BY <1>2, <1>3, <1>4, <1>5, <1>6, <2>8, <2>9
<1> QED BY <1>12, <1>13

LEMMA UnlinkStep ==
    ASSUME Alone, NEW r \in Ranks, NEW c \in Nat, Inv(r, c),
           NEW t \in Tickers, Unlink(t)
    PROVE  Inv(r, c)'
<1>1. /\ pc["capture"] = "delete" /\ pc'["capture"] = "rotate"
      /\ pc' \in [Tickers -> Labels]
  BY GotoAt DEF Inv, Unlink, Labels, Walking
<1>2. /\ p = n /\ n \in Alive /\ n \in Nodes /\ n \notin free /\ rec[n] = "new"
      /\ Alive' = Alive \ {n}
      /\ Shape(r, c)'
      /\ table' \in [Buckets -> Pointers] /\ next' \in [Nodes -> Pointers]
  BY UnlinkShape
<1>3. TypeOK
  BY DEF Inv
<1>4. /\ after \in Alive \cup {NULL} /\ n \notin Rest(after, r)
      /\ Visited(r) /\ Cardinality(Counted(r)) <= size /\ written = 0
  BY <1>1 DEF Inv, Sound, WalkInv, At
<1>5. /\ n' = after /\ size' \in {size, size + 1} /\ p0' = NULL /\ p' = NULL
      /\ free' = free \cup ({p} \ {NULL})
      /\ UNCHANGED <<key, rec, after, written, seen, before>>
  BY DEF Unlink, NodeAfterDelete, SizeAfterDelete, history
<1>6. n # NULL /\ NULL \notin Alive /\ after \in Pointers /\ size \in Nat
  BY <1>2, <1>3, <1>4, AliveNodes DEF Pointers, TypeOK
<1>7. after # n
  BY <1>2, <1>4, <1>6 DEF Rest
<1>8. Todo(r)' = Todo(r) /\ n \notin Todo(r)
  <2>1. Todo(r)' = Rest(n, r)' /\ Todo(r) = Rest(after, r)
    BY <1>1 DEF Todo, At
  <2>2. Rest(n, r)' = Rest(after, r)
    BY <1>2, <1>4, <1>5, <1>6, <1>7 DEF Rest, Precedes
  <2> QED BY <1>4, <2>1, <2>2
<1>9. Visited(r)'
  BY <1>4, <1>5, <1>8 DEF Visited, SeenKeys
<1>10. Approved' = Approved /\ n \notin Approved
  BY <1>2, <1>5 DEF Approved
<1>11. Cardinality(Counted(r)') <= size'
  <2>1. after \notin Approved \ Todo(r)
    BY <1>1, <1>4, <1>6 DEF Todo, At, Rest, Approved
  <2>2. Counted(r)' = Counted(r)
    BY <2>1, <1>5, <1>8, <1>10 DEF Counted
  <2>3. Cardinality(Counted(r)) \in Nat
    BY AliveNodes DEF Counted, Approved
  <2> QED BY <2>2, <2>3, <1>4, <1>5, <1>6
<1>12. WalkInv(r)'
  BY <1>1, <1>2, <1>4, <1>5, <1>7, <1>9, <1>11 DEF WalkInv, At
<1>13. ~fault'
  BY <1>2, <1>6 DEF Inv, Unlink
<1>14. TypeOK'
  <2>1. free' \subseteq Nodes /\ size' \in Nat
    BY <1>2, <1>3, <1>5, <1>6 DEF TypeOK
  <2>2. NULL \in Pointers /\ fault' \in BOOLEAN
    BY <1>13 DEF Pointers, Unlink
  <2> QED BY <1>1, <1>2, <1>3, <1>5, <1>6, <2>1, <2>2 DEF TypeOK, Unlink, finder
<1> QED BY <1>1, <1>2, <1>12, <1>13, <1>14 DEF Inv, Sound, DeleteInv, FindInv, At

(* At the end of a rotation everything approved has been counted. *)
LEMMA EndRotateStep ==
    ASSUME Alone, NEW r \in Ranks, NEW c \in Nat, Inv(r, c),
           NEW t \in Tickers, EndRotate(t)
    PROVE  Inv(r, c)'
<1>1. /\ t = "capture" /\ pc["capture"] = "rotate" /\ pc' \in [Tickers -> Labels]
      /\ pc'["capture"] \in {"report", "lookup"}
  BY GotoAt DEF Inv, EndRotate, Labels, Walking
<1>2. TypeOK /\ Shape(r, c) /\ ~At("fill") /\ ~At("fill")' /\ n = NULL
  BY <1>1 DEF Inv, Sound, At, EndRotate
<1>3. Alive' = Alive /\ (\A y : Rest(y, r)' = Rest(y, r)) /\ Shape(r, c)'
  BY <1>2, Quiet DEF EndRotate, heap
<1>4. Cardinality(Counted(r)) <= size /\ written = 0
  BY <1>1 DEF Inv, Sound, WalkInv, At
<1>5. Counted(r) = Approved
  <2>1. NULL \notin Alive
    BY AliveNodes
  <2> QED BY <2>1, <1>1, <1>2 DEF Counted, Approved, Todo, At, Rest
<1>6. /\ hash_next_item(NULL) \in Alive \cup {NULL}
      /\ Rest(hash_next_item(NULL), r) = Alive
      /\ hash_next_item(NULL) \in Pointers
  BY <1>2, FirstItem, AliveNodes DEF Pointers
<1>7. TypeOK'
  <2>1. n' \in Pointers /\ after' \in Pointers /\ size' \in Nat
    BY <1>2, <1>6 DEF EndRotate, TypeOK, Pointers
  <2>2. before' \subseteq Keys /\ seen' \in Seq(Keys)
    BY DEF EndRotate
  <2> QED BY <1>1, <1>2, <2>1, <2>2 DEF TypeOK, EndRotate, heap, finder
<1>8. written' = 0 /\ seen' = <<>> /\ fault' = fault
  BY <1>4 DEF EndRotate
<1>9. CASE pc'["capture"] = "report"
  <2>1. n' = hash_next_item(NULL) /\ size' = size
    BY <1>1, <1>9 DEF EndRotate, Goto, TypeOK, Inv
  <2>2. Todo(r)' = Alive
    <3>1. Todo(r)' = Rest(n, r)'
      BY <1>9 DEF Todo, At
    <3>2. Rest(n, r)' = Rest(n', r)
      BY <1>3 DEF Rest, Precedes, EndRotate, heap
    <3> QED BY <3>1, <3>2, <2>1, <1>6
  <2>3. Counted(r)' = {} /\ Approved' = Approved
    BY <2>2, <1>3 DEF Counted, Approved, EndRotate, heap
  <2>4. WalkInv(r)'
    BY <2>1, <2>3, <1>3, <1>4, <1>5, <1>6, <1>8, <1>9, FS_EmptySet DEF WalkInv, At
  <2> QED BY <1>3, <1>7, <1>8, <1>9, <2>4 DEF Inv, Sound, DeleteInv, FindInv, At
<1>10. CASE pc'["capture"] = "lookup"
  BY <1>3, <1>7, <1>8, <1>10 DEF Inv, Sound, WalkInv, DeleteInv, FindInv, At
<1> QED BY <1>1, <1>9, <1>10

LEMMA WriteStep ==
    ASSUME Alone, NEW r \in Ranks, NEW c \in Nat, Inv(r, c),
           NEW t \in Tickers, Write(t)
    PROVE  Inv(r, c)'
<1>1. t = "capture" /\ pc["capture"] = "report" /\ pc' = pc
  BY DEF Alone, Write
<1>2. TypeOK /\ Shape(r, c) /\ ~At("fill") /\ ~At("fill")'
  BY <1>1 DEF Inv, Sound, At
<1>3. /\ n \in Alive /\ written = Cardinality(Counted(r))
      /\ Cardinality(Approved) <= size /\ seen = <<>>
  BY <1>1 DEF Inv, Sound, WalkInv, Write, At
<1>4. /\ hash_next_item(n) \in Alive \cup {NULL}
      /\ Rest(hash_next_item(n), r) = Rest(n, r) \ {n}
  BY <1>2, <1>3, NextItem
<1>5. Alive' = Alive /\ (\A y : Rest(y, r)' = Rest(y, r)) /\ Shape(r, c)'
  BY <1>2, Quiet DEF Write, heap
<1>6. n \in Nodes /\ n \notin free /\ n \in Rest(n, r) /\ NULL \notin Alive
  BY <1>3, AliveNodes DEF Rest
<1>7. Todo(r) = Rest(n, r) /\ Todo(r)' = Rest(n, r) \ {n}
  <2>1. Todo(r)' = Rest(n, r)' /\ Todo(r) = Rest(n, r)
    BY <1>1 DEF Todo, At
  <2>2. Rest(n, r)' = Rest(hash_next_item(n), r)
    BY <1>5 DEF Rest, Precedes, Write, heap
  <2> QED BY <1>4, <2>1, <2>2
<1>8. n' \notin Approved \ (Rest(n, r) \ {n})
  <2> DEFINE y == hash_next_item(n)
  <2>1. y \in Alive => y \in Rest(y, r)
    BY DEF Rest
  <2> HIDE DEF y
  <2>2. n' = y
    BY DEF Write, y
  <2> QED BY <2>1, <2>2, <1>4 DEF Approved, y
<1>9. Approved' = Approved /\ IsFiniteSet(Counted(r)) /\ Cardinality(Counted(r)) \in Nat
  BY <1>5, AliveNodes DEF Approved, Counted, Write, heap
<1>10. Counted(r)' = Approved \ (Rest(n, r) \ {n}) /\ n \notin Counted(r)
  BY <1>7, <1>8, <1>9 DEF Counted
<1>11. written' = Cardinality(Counted(r)')
  <2>1. CASE rec[n] = "approved"
    <3>1. Counted(r)' = Counted(r) \cup {n}
      BY <2>1, <1>3, <1>6, <1>7, <1>10 DEF Counted, Approved
    <3>2. Cardinality(Counted(r) \cup {n}) = Cardinality(Counted(r)) + 1
      BY <1>9, <1>10, FS_AddElement
    <3> QED BY <2>1, <3>1, <3>2, <1>3 DEF Write
  <2>2. CASE rec[n] # "approved"
    <3>1. Counted(r)' = Counted(r)
      BY <2>2, <1>3, <1>6, <1>7, <1>10 DEF Counted, Approved
    <3> QED BY <2>2, <3>1, <1>3, <1>9 DEF Write
  <2> QED BY <2>1, <2>2
<1>12. WalkInv(r)'
  <2>1. n' \in Alive' \cup {NULL} /\ size' = size /\ seen' = seen
    BY <1>4, <1>5 DEF Write, history
  <2> QED BY <2>1, <1>1, <1>3, <1>9, <1>11 DEF WalkInv, At
<1>13. ~fault'
  BY <1>6 DEF Inv, Write, Use
<1>14. TypeOK'
  <2>1. n' \in Pointers
    BY <1>4, AliveNodes DEF Write, Pointers
  <2>2. written' \in Nat /\ fault' \in BOOLEAN
    BY <1>2, <1>13 DEF Write, TypeOK, Use
  <2> QED BY <1>1, <1>2, <2>1, <2>2 DEF TypeOK, Write, heap, finder, history
<1> QED BY <1>1, <1>5, <1>12, <1>13, <1>14 DEF Inv, Sound, DeleteInv, FindInv, At

LEMMA EndWriteStep ==
    ASSUME Alone, NEW r \in Ranks, NEW c \in Nat, Inv(r, c),
           NEW t \in Tickers, EndWrite(t)
    PROVE  Inv(r, c)'
<1>1. /\ t = "capture" /\ pc["capture"] = "report" /\ pc' \in [Tickers -> Labels]
      /\ pc'["capture"] = "lookup"
  BY GotoAt DEF Inv, EndWrite, Labels, Walking, Alone
<1>2. TypeOK /\ Shape(r, c) /\ ~At("fill") /\ ~At("fill")' /\ seen = <<>> /\ ~fault
  BY <1>1 DEF Inv, Sound, WalkInv, At
<1>3. Shape(r, c)'
  BY <1>2, Quiet DEF EndWrite, heap
<1>4. TypeOK'
  BY <1>1, <1>2 DEF TypeOK, EndWrite, heap, finder, history
<1> QED BY <1>1, <1>2, <1>3, <1>4
        DEF Inv, Sound, WalkInv, DeleteInv, FindInv, At, EndWrite, history

-----------------------------------------------------------------------------
(* Finding and inserting *)

(* The capture thread is in handle_ip_packet(), where no walk is under way. *)
LEMMA NoWalk ==
    ASSUME NEW r, NEW c, Inv(r, c), pc["capture"] \in {"lookup", "find", "link", "fill"},
           pc'["capture"] \in {"idle", "find", "link", "fill"},
           UNCHANGED <<written, seen>>
    PROVE  WalkInv(r)' /\ (\A x : WalkInv(x)') /\ (\A x : DeleteInv(x)')
  BY DEF Inv, Sound, WalkInv, DeleteInv, At

(* The search begins at the node of the bucket that was inserted last.       *)
LEMMA LookupStep ==
    ASSUME Alone, NEW r \in Ranks, NEW c \in Nat, Inv(r, c), Lookup
    PROVE  Inv(r, c)'
<1> DEFINE b == Hash[packet]
<1>1. /\ "capture" \in Tickers /\ pc["capture"] = "lookup" /\ pc' \in [Tickers -> Labels]
      /\ \/ pc'["capture"] = "idle" /\ q' = q
         \/ pc'["capture"] = "find" /\ q' = table[b]
  BY GotoAt DEF Inv, Lookup, Labels, Walking, Alone
<1>2. TypeOK /\ Shape(r, c) /\ ~At("fill") /\ ~At("fill")' /\ ~fault
  BY <1>1 DEF Inv, Sound, At
<1>3. /\ Alive' = Alive /\ (\A d : In(d)' = In(d)) /\ Shape(r, c)'
      /\ UNCHANGED <<heap, packet, fault, written, seen>>
  BY <1>2, Quiet DEF Lookup, heap, walk, history
<1>4. b \in Buckets /\ First(b) = table[b] /\ table[b] \in Pointers
  BY <1>1, <1>2, HashAssumption DEF First, TypeOK
<1>5. Top(table[b], In(b), r)
  BY <1>2, <1>4 DEF Shape
<1>6. FindInv(r)'
  <2>1. CASE pc'["capture"] = "find"
    <3>1. q' \in In(b) \cup {NULL}
      BY <2>1, <1>1, <1>5 DEF Top
    <3>2. ASSUME NEW m \in Alive, key[m] = packet PROVE q' # NULL /\ r[m] <= r[q']
      <4>1. m \in In(b) /\ NULL \notin Alive
        BY <3>2, AliveNodes DEF In
      <4> QED BY <4>1, <2>1, <1>1, <1>5 DEF Top, In
    <3> QED BY <3>1, <3>2, <2>1, <1>3 DEF FindInv, At, heap
  <2>2. CASE pc'["capture"] = "idle"
    BY <2>2 DEF FindInv, At
  <2> QED BY <2>1, <2>2, <1>1
<1>7. TypeOK'
  BY <1>1, <1>2, <1>4 DEF TypeOK, Lookup, heap, walk, history
<1>8. WalkInv(r)' /\ DeleteInv(r)'
  BY <1>1, <1>3, NoWalk
<1> QED BY <1>2, <1>3, <1>6, <1>7, <1>8 DEF Inv, Sound

(* The packet's record is further on, if it is there. *)
LEMMA FindWalkStep ==
    ASSUME Alone, NEW r \in Ranks, NEW c \in Nat, Inv(r, c), FindWalk
    PROVE  Inv(r, c)'
<1> DEFINE b == Hash[packet]
<1>1. pc["capture"] = "find" /\ pc' = pc /\ q # NULL /\ key[q] # packet /\ q' = next[q]
  BY DEF FindWalk
<1>2. TypeOK /\ Shape(r, c) /\ ~At("fill") /\ ~At("fill")' /\ ~fault
  BY <1>1 DEF Inv, Sound, At
<1>3. /\ Alive' = Alive /\ (\A d : In(d)' = In(d)) /\ Shape(r, c)'
      /\ UNCHANGED <<heap, packet, written, seen>>
  BY <1>2, Quiet DEF FindWalk, heap, walk, history
<1>4. q \in In(b) /\ \A m \in Alive : key[m] = packet => r[m] <= r[q]
  BY <1>1 DEF Inv, Sound, FindInv, At
<1>5. q \in Alive /\ Hash[key[q]] = b
  BY <1>4 DEF In
<1>6. \A m \in Alive : m \in Nodes /\ m # NULL /\ m \notin free /\ r[m] \in Nat
  BY AliveNodes DEF Ranks
<1>7. Top(next[q], Below(q, r), r)
  BY <1>2, <1>5 DEF Shape
<1>8. ASSUME NEW m \in Alive, key[m] = packet PROVE m \in Below(q, r)
  <2>1. r[m] < r[q]
    BY <1>1, <1>2, <1>4, <1>5, <1>6, <1>8 DEF Shape
  <2> QED BY <2>1, <1>5, <1>8 DEF Below, In
<1>9. FindInv(r)'
  <2>1. next[q] \in In(b) \cup {NULL}
    BY <1>5, <1>7 DEF Top, Below
  <2>2. ASSUME NEW m \in Alive, key[m] = packet PROVE next[q] # NULL /\ r[m] <= r[next[q]]
    <3>1. m \in Below(q, r)
      BY <1>8, <2>2
    <3>2. next[q] \in Below(q, r) /\ r[m] <= r[next[q]]
      BY <3>1, <1>7 DEF Top
    <3> QED BY <3>2, <1>6 DEF Below, In
  <2> QED BY <2>1, <2>2, <1>1, <1>3 DEF FindInv, At, heap
<1>10. ~fault'
  BY <1>2, <1>5, <1>6 DEF FindWalk, Use
<1>11. TypeOK'
  <2>1. next[q] \in Pointers /\ fault' \in BOOLEAN
    BY <1>2, <1>5, <1>6, <1>10 DEF TypeOK, FindWalk, Use
  <2> QED BY <2>1, <1>2 DEF TypeOK, FindWalk, heap, walk, history
<1>12. WalkInv(r)' /\ DeleteInv(r)'
  BY <1>1, <1>3, NoWalk
<1> QED BY <1>3, <1>9, <1>10, <1>11, <1>12 DEF Inv, Sound

(* The search is over.  When it has found nothing, no node has the key. *)
LEMMA FoundStep ==
    ASSUME Alone, NEW r \in Ranks, NEW c \in Nat, Inv(r, c), Found \/ NotFound
    PROVE  Inv(r, c)'
<1>1. /\ "capture" \in Tickers /\ pc["capture"] = "find" /\ pc' \in [Tickers -> Labels]
      /\ \/ pc'["capture"] = "idle" /\ q' = NULL
         \/ pc'["capture"] = "link" /\ q' = q /\ q = NULL
  BY GotoAt DEF Inv, Found, NotFound, Labels, Walking, Alone, finder
<1>2. TypeOK /\ Shape(r, c) /\ ~At("fill") /\ ~At("fill")' /\ ~fault
  BY <1>1 DEF Inv, Sound, At
<1>3. /\ Alive' = Alive /\ Shape(r, c)'
      /\ UNCHANGED <<heap, packet, written, seen>>
  BY <1>2, Quiet DEF Found, NotFound, heap, walk, history, finder
<1>4. FindInv(r)'
  BY <1>1, <1>3 DEF FindInv, At, Inv, Sound, heap
<1>5. ~fault'
  BY <1>1, <1>2, AliveNodes DEF Inv, Sound, FindInv, In, At, Found, NotFound, Use
<1>6. TypeOK'
  <2>1. q' \in Pointers /\ fault' \in BOOLEAN
    BY <1>1, <1>2, <1>5 DEF TypeOK, Found, NotFound, Use, Pointers
  <2> QED BY <2>1, <1>1, <1>2 DEF TypeOK, Found, NotFound, heap, walk, history, finder
<1>7. WalkInv(r)' /\ DeleteInv(r)'
  BY <1>1, <1>3, NoWalk
<1> QED BY <1>3, <1>4, <1>5, <1>6, <1>7 DEF Inv, Sound

(* The new node is at the head of its bucket, and not yet one of the table. *)
LEMMA LinkStep ==
    ASSUME Alone, NEW r \in Ranks, NEW c \in Nat, Inv(r, c), Link
    PROVE  Inv(r, c)'
<1> DEFINE b == Hash[packet]
<1>1. /\ "capture" \in Tickers /\ pc["capture"] = "link" /\ pc'["capture"] = "fill"
      /\ pc' \in [Tickers -> Labels]
  BY GotoAt DEF Inv, Link, Labels, Walking, Alone
<1>2. TypeOK /\ Shape(r, c) /\ ~At("fill") /\ ~fault /\ b \in Buckets
  BY <1>1, HashAssumption DEF Inv, Sound, At, TypeOK
<1>3. /\ q' \in free /\ q' \in Nodes /\ free' = free \ {q'}
      /\ head' = table[b] /\ table' = [table EXCEPT ![b] = q']
      /\ UNCHANGED <<key, next, rec, packet, fault, written, seen>>
  BY <1>2 DEF Link, walk, history, TypeOK
<1>4. table'[b] = q' /\ \A d \in Buckets : d # b => table'[d] = table[d]
  BY <1>2, <1>3 DEF TypeOK
<1>5. Alive' = Alive
  BY <1>1, <1>3 DEF Alive, At
<1>6. \A d : In(d)' = In(d)
  BY <1>3, <1>5 DEF In
<1>7. \A m : Below(m, r)' = Below(m, r)
  BY <1>3, <1>6 DEF Below
<1>8. \A d \in Buckets : First(d)' = First(d)
  BY <1>1, <1>3, <1>4 DEF First
<1>9. Shape(r, c)'
  <2>1. \A d \in Buckets : Top(First(d), In(d), r)'
    BY <1>2, <1>6, <1>8 DEF Shape, Top
  <2>2. \A m \in Alive' : Top(next[m], Below(m, r), r)'
    BY <1>2, <1>3, <1>5, <1>7 DEF Shape, Top
  <2>3. \A m, x \in Alive' : (key[m] = key[x])' => m = x
    BY <1>2, <1>3, <1>5 DEF Shape
  <2> QED BY <1>2, <1>5, <2>1, <2>2, <2>3 DEF Shape
<1>10. FindInv(r)'
  BY <1>1, <1>3, <1>4, <1>5 DEF FindInv, At, Inv, Sound
<1>11. TypeOK'
  <2>1. /\ table' \in [Buckets -> Pointers] /\ free' \subseteq Nodes
        /\ q' \in Pointers /\ head' \in Pointers
    BY <1>2, <1>3 DEF TypeOK, Pointers
  <2> QED BY <2>1, <1>1, <1>2, <1>3 DEF TypeOK, Link, walk, history
<1>12. WalkInv(r)' /\ DeleteInv(r)'
  BY <1>1, <1>3, NoWalk
<1> QED BY <1>2, <1>3, <1>9, <1>10, <1>11, <1>12 DEF Inv, Sound

(* The node is complete: it is of the highest rank. *)
LEMMA FillStep ==
    ASSUME Alone, NEW r \in Ranks, NEW c \in Nat, Inv(r, c), Fill
    PROVE  \E s \in Ranks : Inv(s, c + 1)'
<1> DEFINE b == Hash[packet]
<1>1. /\ "capture" \in Tickers /\ pc["capture"] = "fill" /\ pc'["capture"] = "idle"
      /\ pc' \in [Tickers -> Labels]
  BY GotoAt DEF Inv, Fill, Labels, Walking, Alone
<1>2. TypeOK /\ Shape(r, c) /\ ~fault /\ b \in Buckets
  BY <1>1, HashAssumption DEF Inv, Sound, TypeOK
<1>3. q \in Nodes \ free /\ table[b] = q /\ \A m \in Alive : key[m] # packet
  BY <1>1 DEF Inv, Sound, FindInv, At
<1>4. /\ table' = table /\ free' = free /\ q' = NULL /\ head' = NULL
      /\ next' = [next EXCEPT ![q] = head]
      /\ key' = [key EXCEPT ![q] = packet]
      /\ rec' = [rec EXCEPT ![q] = "new"]
      /\ UNCHANGED <<written, seen, packet>>
  BY DEF Fill, walk, history
<1>5. PICK s \in Ranks : s[q] = c /\ \A m \in Nodes : m # q => s[m] = r[m]
  <2>1. [r EXCEPT ![q] = c] \in Ranks
    BY DEF Ranks
  <2> QED BY <2>1, <1>3 DEF Ranks
<1>6. /\ key'[q] = packet /\ next'[q] = head
      /\ \A m \in Nodes : m # q => key'[m] = key[m] /\ next'[m] = next[m]
  BY <1>2, <1>3, <1>4 DEF TypeOK
<1>7. Alive' = Alive \cup {q} /\ q \notin Alive
  BY <1>1, <1>3, <1>4 DEF Alive, At
<1>8. \A m \in Alive : /\ m \in Nodes /\ m # NULL /\ m # q /\ r[m] \in Nat /\ r[m] < c
                       /\ s[m] = r[m] /\ key'[m] = key[m] /\ next'[m] = next[m]
  BY <1>2, <1>5, <1>6, <1>7, AliveNodes DEF Ranks, Shape
<1>9. \A d : In(d)' = IF d = b THEN In(d) \cup {q} ELSE In(d)
  BY <1>6, <1>7, <1>8 DEF In
<1>10. First(b) = head /\ \A d \in Buckets : First(d)' = IF d = b THEN q ELSE First(d)
  BY <1>1, <1>3, <1>4 DEF First
<1>11. Shape(s, c + 1)'
  <2>1. \A m \in Alive' : s[m] < c + 1
    BY <1>5, <1>7, <1>8
  <2>2. \A m, x \in Alive' : s[m] = s[x] => m = x
    BY <1>2, <1>5, <1>7, <1>8 DEF Shape
  <2>3. \A m, x \in Alive' : (key[m] = key[x])' => m = x
    BY <1>2, <1>3, <1>6, <1>7, <1>8 DEF Shape
  <2>4. ASSUME NEW d \in Buckets PROVE Top(First(d), In(d), s)'
    <3>1. CASE d = b
      <4>1. \A x \in In(b) \cup {q} : s[x] <= s[q]
        BY <1>5, <1>8 DEF In
      <4> QED BY <4>1, <3>1, <1>9, <1>10 DEF Top
    <3>2. CASE d # b
      <4>1. Top(First(d), In(d), r)
        BY <1>2 DEF Shape
      <4>2. \A x \in In(d) : s[x] = r[x]
        BY <1>8 DEF In
      <4> QED BY <4>1, <4>2, <3>2, <1>9, <1>10 DEF Top
    <3> QED BY <3>1, <3>2
  <2>5. ASSUME NEW m \in Alive' PROVE Top(next[m], Below(m, s), s)'
    <3>1. CASE m = q
      <4>1. Below(m, s)' = In(b)
        BY <3>1, <1>5, <1>6, <1>8, <1>9 DEF Below, In
      <4>2. Top(head, In(b), r)
        BY <1>2, <1>10 DEF Shape
      <4>3. \A x \in In(b) : s[x] = r[x]
        BY <1>8 DEF In
      <4> QED BY <4>1, <4>2, <4>3, <3>1, <1>6 DEF Top
    <3>2. CASE m # q
      <4>1. m \in Alive /\ s[m] = r[m] /\ key'[m] = key[m] /\ next'[m] = next[m]
        BY <3>2, <1>7, <1>8
      <4>2. Below(m, s)' = Below(m, r)
        <5>1. \A x \in In(Hash[key[m]])' : s[x] < s[m] => x # q
          BY <4>1, <1>5, <1>8
        <5>2. \A x \in In(Hash[key[m]]) : s[x] = r[x]
          BY <1>8 DEF In
        <5>3. /\ In(Hash[key[m]]) \subseteq In(Hash[key[m]])'
              /\ In(Hash[key[m]])' \subseteq In(Hash[key[m]]) \cup {q}
          BY <4>1, <1>9
        <5> QED BY <5>1, <5>2, <5>3, <4>1 DEF Below
      <4>3. Top(next[m], Below(m, r), r)
        BY <4>1, <1>2 DEF Shape
      <4>4. \A x \in Below(m, r) : s[x] = r[x]
        BY <1>8 DEF Below, In
      <4> QED BY <4>1, <4>2, <4>3, <4>4 DEF Top
    <3> QED BY <3>1, <3>2
  <2> QED BY <2>1, <2>2, <2>3, <2>4, <2>5 DEF Shape
<1>12. FindInv(s)'
  BY <1>1 DEF FindInv, At
<1>13. ~fault'
  BY <1>2, <1>3 DEF Fill, Use
<1>14. TypeOK'
  <2>1. /\ key' \in [Nodes -> Keys] /\ next' \in [Nodes -> Pointers]
        /\ rec' \in [Nodes -> {"new", "approved"}] /\ NULL \in Pointers
    BY <1>2, <1>3, <1>4 DEF TypeOK, Pointers
  <2>2. fault' \in BOOLEAN
    BY <1>13 DEF Fill, Use
  <2> QED BY <2>1, <2>2, <1>1, <1>2, <1>4 DEF TypeOK, Fill, walk, history
<1>15. WalkInv(s)' /\ DeleteInv(s)'
  BY <1>1, <1>4, NoWalk
<1>16. Inv(s, c + 1)'
  BY <1>11, <1>12, <1>13, <1>14, <1>15 DEF Inv, Sound
<1> QED BY <1>5, <1>16

-----------------------------------------------------------------------------
(* The invariant *)

LEMMA InitInvariant == Init => IInv
<1> SUFFICES ASSUME Init PROVE IInv
  OBVIOUS
<1>1. TypeOK /\ ~fault
  <2>1. NULL \in Pointers /\ "idle" \in Labels
    BY DEF Pointers, Labels
  <2>2. key \in [Nodes -> Keys] /\ packet \in Keys
    BY DEF Init
  <2>3. rec \in [Nodes -> {"new", "approved"}] /\ fault \in BOOLEAN /\ ~fault
    BY DEF Init
  <2>4. /\ {n, after, p0, p, q, head} \subseteq Pointers /\ free \subseteq Nodes
        /\ before \subseteq Keys /\ seen \in Seq(Keys) /\ size \in Nat /\ written \in Nat
    BY <2>1 DEF Init
  <2>5. /\ table \in [Buckets -> Pointers] /\ next \in [Nodes -> Pointers]
        /\ pc \in [Tickers -> Labels]
    BY <2>1 DEF Init
  <2> QED BY <2>2, <2>3, <2>4, <2>5 DEF TypeOK
<1>2. PICK r \in Ranks : \A m \in Nodes : r[m] = 0
  <2>1. [m \in Nodes |-> 0] \in Ranks
    BY DEF Ranks
  <2> QED BY <2>1
<1>3. At("idle") /\ \A label : label # "idle" => ~At(label)
  BY TickersAssumption DEF Init, At
<1>4. Alive = {}
  BY DEF Init, Alive
<1>5. Shape(r, 0)
  <2>1. \A b \in Buckets : First(b) = NULL
    BY <1>3 DEF First, Init, At
  <2> QED BY <1>4, <2>1 DEF Shape, Top, In
<1>6. WalkInv(r) /\ DeleteInv(r) /\ FindInv(r)
  BY <1>3 DEF WalkInv, DeleteInv, FindInv, Init
<1> QED BY <1>1, <1>2, <1>5, <1>6 DEF IInv, Sound

LEMMA StutterStep ==
    ASSUME NEW r, NEW c, Inv(r, c), UNCHANGED vars
    PROVE  Inv(r, c)'
  BY DEF Inv, Sound, Shape, WalkInv, DeleteInv, FindInv, TypeOK, Top, First, In, Below,
         Alive, At, Visited, SeenKeys, Todo, Rest, Precedes, Counted, Approved,
         vars, heap, walk, finder, history

(* Every step keeps the ranks, but for the one that fills a node. *)
LEMMA StepInvariant ==
    ASSUME Alone, IInv, [Next]_vars
    PROVE  IInv'
<1>1. PICK r \in Ranks, c \in Nat : Inv(r, c)
  BY DEF IInv, Inv
<1>2. (\E s \in Ranks, d \in Nat : Inv(s, d)') => IInv'
  BY DEF IInv, Inv
<1>3. CASE UNCHANGED vars
  BY <1>1, <1>2, <1>3, StutterStep
<1>4. ASSUME NEW t \in Tickers, NEW k \in Keys, Tick(t, k) PROVE IInv'
  BY <1>1, <1>2, <1>4, TickStep
<1>5. ASSUME NEW t \in Tickers, history_rotate(t) PROVE IInv'
  <2>1. CASE Advance(t)
    BY <1>1, <1>2, <2>1, AdvanceStep
  <2>2. CASE Approve(t) \/ Keep(t)
    BY <1>1, <1>2, <2>2, JudgeStep
  <2>3. CASE Drop(t)
    BY <1>1, <1>2, <2>3, DropStep
  <2>4. CASE DeleteWalk(t)
    BY <1>1, <1>2, <2>4, DeleteWalkStep
  <2>5. CASE Unlink(t)
    BY <1>1, <1>2, <2>5, UnlinkStep
  <2>6. CASE EndRotate(t)
    BY <1>1, <1>2, <2>6, EndRotateStep
  <2> QED BY <1>5, <2>1, <2>2, <2>3, <2>4, <2>5, <2>6 DEF history_rotate
<1>6. ASSUME NEW t \in Tickers, construct_MQTT_msg(t) PROVE IInv'
  <2>1. CASE Write(t)
    BY <1>1, <1>2, <2>1, WriteStep
  <2>2. CASE EndWrite(t)
    BY <1>1, <1>2, <2>2, EndWriteStep
  <2> QED BY <1>6, <2>1, <2>2 DEF construct_MQTT_msg
<1>7. CASE handle_ip_packet
  <2>1. CASE Lookup
    BY <1>1, <1>2, <2>1, LookupStep
  <2>2. CASE FindWalk
    BY <1>1, <1>2, <2>2, FindWalkStep
  <2>3. CASE Found \/ NotFound
    BY <1>1, <1>2, <2>3, FoundStep
  <2>4. CASE Link
    BY <1>1, <1>2, <2>4, LinkStep
  <2>5. CASE Fill
    <3>1. c + 1 \in Nat
      OBVIOUS
    <3> QED BY <1>1, <1>2, <2>5, <3>1, FillStep
  <2> QED BY <1>7, <2>1, <2>2, <2>3, <2>4, <2>5 DEF handle_ip_packet
<1> QED BY <1>3, <1>4, <1>5, <1>6, <1>7 DEF Next

(* The ranks that make the chains sound exist in every state. *)
THEOREM RanksInvariant == Alone => (Spec => []IInv)
<1> SUFFICES ASSUME Alone PROVE Spec => []IInv
  OBVIOUS
<1>1. IInv /\ [Next]_vars => IInv'
  BY StepInvariant
<1> QED BY <1>1, InitInvariant, PTL DEF Spec

(* No walk, search, insertion or deletion uses a node that has been freed,   *)
(* while one thread does them all.                                           *)
THEOREM NoFreedUseHolds == Alone => (Spec => []NoFreedUse)
<1> SUFFICES ASSUME Alone PROVE Spec => []NoFreedUse
  OBVIOUS
<1>1. IInv => NoFreedUse
  BY DEF IInv, NoFreedUse
<1> QED BY <1>1, RanksInvariant, PTL

(* A rotation looks at every record once, though it deletes some.            *)
THEOREM EachVisitedOnceHolds == Alone => (Spec => []EachVisitedOnce)
<1> SUFFICES ASSUME Alone PROVE Spec => []EachVisitedOnce
  OBVIOUS
<1>1. ASSUME IInv PROVE EachVisitedOnce
  <2> SUFFICES ASSUME At("rotate"), n = NULL
               PROVE  SeenKeys = before /\ Len(seen) = Cardinality(before)
    BY DEF EachVisitedOnce, SeenKeys, Alone, At
  <2>1. PICK r \in Ranks, c \in Nat : Inv(r, c)
    BY <1>1 DEF IInv, Inv
  <2>2. Visited(r)
    BY <2>1 DEF Inv, Sound, WalkInv
  <2>3. Todo(r) = {}
    BY AliveNodes DEF Todo, Rest
  <2> QED BY <2>2, <2>3 DEF Visited
<1> QED BY <1>1, RanksInvariant, PTL

(* The report that is written has room for its records. *)
THEOREM ReportFitsHolds == Alone => (Spec => []ReportFits)
<1> SUFFICES ASSUME Alone PROVE Spec => []ReportFits
  OBVIOUS
<1>1. ASSUME IInv PROVE ReportFits
  <2>1. PICK r \in Ranks, c \in Nat : Inv(r, c)
    BY <1>1 DEF IInv, Inv
  <2>2. CASE At("report")
    <3>1. written = Cardinality(Counted(r)) /\ Cardinality(Approved) <= size
      BY <2>1, <2>2 DEF Inv, Sound, WalkInv
    <3>2. IsFiniteSet(Approved) /\ Cardinality(Approved) \in Nat
      BY AliveNodes DEF Approved
    <3>3. Cardinality(Counted(r)) <= Cardinality(Approved) /\ Cardinality(Counted(r)) \in Nat
      BY <3>2, FS_Subset, FS_CardinalityType DEF Counted
    <3> QED BY <3>1, <3>2, <3>3, <2>1 DEF ReportFits, Inv, TypeOK
  <2>3. CASE ~At("report")
    BY <2>1, <2>3 DEF Inv, Sound, WalkInv, ReportFits, TypeOK
  <2> QED BY <2>2, <2>3
<1> QED BY <1>1, RanksInvariant, PTL

-----------------------------------------------------------------------------
(* Each node of the table is the first of its bucket or the next of one      *)
(* other, and never both.                                                    *)
LEMMA OneWay ==
    ASSUME TypeOK, NEW r \in Ranks, NEW c, Shape(r, c), NEW m \in Alive
    PROVE  Cardinality({b \in Buckets : First(b) = m})
               + Cardinality({x \in Alive : next[x] = m}) = 1
<1> DEFINE b == Hash[key[m]]
           firsts == {d \in Buckets : First(d) = m}
           nexts == {x \in Alive : next[x] = m}
<1>1. \A x \in Alive : x \in Nodes /\ x # NULL /\ r[x] \in Nat /\ Hash[key[x]] \in Buckets
  BY AliveNodes, BucketType DEF Ranks
<1>2. \A d \in Buckets : Top(First(d), In(d), r)
  BY DEF Shape
<1>3. \A d \in Buckets : First(d) = m => d = b
  BY <1>1, <1>2 DEF Top, In
<1>4. ASSUME NEW x \in Alive, next[x] = m
      PROVE  /\ x \in In(b) /\ r[m] < r[x]
             /\ \A z \in In(b) : r[z] < r[x] => r[z] <= r[m]
  <2>1. Top(next[x], Below(x, r), r)
    BY DEF Shape
  <2>2. m \in Below(x, r) /\ \A z \in Below(x, r) : r[z] <= r[m]
    BY <2>1, <1>1, <1>4 DEF Top
  <2> QED BY <2>2 DEF Below, In
<1>5. m \in In(b) /\ First(b) \in In(b) /\ \A x \in In(b) : r[x] <= r[First(b)]
  <2>1. m \in In(b)
    BY DEF In
  <2> QED BY <2>1, <1>1, <1>2 DEF Top
<1>6. CASE First(b) = m
  <2>1. firsts = {b}
    BY <1>1, <1>3, <1>6
  <2>2. nexts = {}
    <3> SUFFICES ASSUME NEW x \in Alive, next[x] = m PROVE FALSE
      OBVIOUS
    <3>1. r[m] < r[x] /\ r[x] <= r[m]
      BY <1>4, <1>5, <1>6
    <3> QED BY <3>1, <1>1
  <2>3. Cardinality(firsts) = 1 /\ Cardinality(nexts) = 0
    BY <2>1, <2>2, FS_EmptySet, FS_Singleton
  <2> QED BY <2>3
<1>7. CASE First(b) # m
  <2>1. firsts = {}
    BY <1>3, <1>7
  <2>2. First(b) \in Alive
    BY <1>5 DEF In
  <2>3. r[m] < r[First(b)]
    BY <1>1, <1>5, <1>7, <2>2 DEF Shape
  <2>4. PICK x \in In(b) : r[m] < r[x] /\ next[x] = m
    BY <1>5, <2>3, Predecessor
  <2>5. x \in Alive
    BY <2>4 DEF In
  <2>6. nexts = {x}
    <3> SUFFICES ASSUME NEW z \in Alive, next[z] = m, z # x PROVE FALSE
      BY <2>4, <2>5
    <3>1. z \in In(b) /\ r[m] < r[z] /\ \A y \in In(b) : r[y] < r[z] => r[y] <= r[m]
      BY <1>4
    <3>2. \A y \in In(b) : r[y] < r[x] => r[y] <= r[m]
      BY <1>4, <2>4, <2>5
    <3>3. r[z] # r[x]
      BY <2>5 DEF Shape
    <3> QED BY <3>1, <3>2, <3>3, <2>4, <2>5, <1>1
  <2>7. Cardinality(firsts) = 0 /\ Cardinality(nexts) = 1
    BY <2>1, <2>6, FS_EmptySet, FS_Singleton
  <2> QED BY <2>7
<1> QED BY <1>6, <1>7

(* Each bucket leads to a chain of allocated nodes whose keys it is the      *)
(* bucket of, each reached in one way only, no two of them with the same     *)
(* key, and no node is lost.                                                 *)
THEOREM ChainsSoundHolds == Alone => (Spec => []ChainsSound)
<1> SUFFICES ASSUME Alone PROVE Spec => []ChainsSound
  OBVIOUS
<1>1. ASSUME IInv PROVE ChainsSound
  <2>1. PICK r \in Ranks, c \in Nat : Inv(r, c)
    BY <1>1 DEF IInv, Inv
  <2>2. TypeOK /\ Shape(r, c) /\ FindInv(r)
    BY <2>1 DEF Inv, Sound
  <2>3. Linked = Alive /\ KeysIn = {key[m] : m \in Alive}
    BY <2>2, LinkedIsAlive
  <2>4. ASSUME NEW b \in Buckets, NEW m \in Chain(First(b)) PROVE Hash[key[m]] = b
    <3>1. m \in In(b)
      BY <2>2, ChainIsBucket
    <3> QED BY <3>1 DEF In
  <2>5. \A m \in Alive : Cardinality({b \in Buckets : First(b) = m})
                            + Cardinality({x \in Alive : next[x] = m}) = 1
    BY <2>2, OneWay
  <2>6. Cardinality(KeysIn) = Cardinality(Linked)
    <3> DEFINE K == {key[m] : m \in Alive}
               f == [m \in Alive |-> key[m]]
    <3>1. f \in Bijection(Alive, K)
      <4>1. \A m, x \in Alive : f[m] = f[x] => m = x
        BY <2>2 DEF Shape
      <4> QED BY <4>1 DEF Bijection, Injection, Surjection, IsInjective
    <3>2. ExistsBijection(Alive, K)
      BY <3>1 DEF ExistsBijection
    <3>3. IsFiniteSet(Alive)
      BY AliveNodes
    <3> HIDE DEF K
    <3>4. Cardinality(K) = Cardinality(Alive)
      BY <3>2, <3>3, FS_Bijection
    <3> QED BY <3>4, <2>3 DEF K
  <2>7. Nodes \ free = Linked \cup (IF pc["capture"] = "fill" THEN {q} ELSE {})
    <3>1. CASE At("fill")
      <4>1. q \in Nodes \ free /\ Alive = Nodes \ (free \cup {q})
        BY <3>1, <2>2 DEF FindInv, Alive
      <4> QED BY <4>1, <3>1, <2>3 DEF At
    <3>2. CASE ~At("fill")
      BY <3>2, <2>3 DEF Alive, At
    <3> QED BY <3>1, <3>2
  <2> QED BY <2>2, <2>3, <2>4, <2>5, <2>6, <2>7 DEF ChainsSound
<1> QED BY <1>1, RanksInvariant, PTL

-----------------------------------------------------------------------------
(* Refinement *)

(* What the history sees, from the nodes in the table. *)
Records == [k \in KeysIn |-> rec[CHOOSE m \in Linked : key[m] = k]]

(* The record of each key. *)
IsRecords(f) ==
    /\ f = [k \in DOMAIN f |-> f[k]]
    /\ DOMAIN f = {key[m] : m \in Alive}
    /\ \A m \in Alive : f[key[m]] = rec[m]

LEMMA RecordsAre ==
    ASSUME NEW r \in Ranks, NEW c, Inv(r, c)
    PROVE  IsRecords(Records)
<1>1. Linked = Alive /\ KeysIn = {key[m] : m \in Alive}
  BY LinkedIsAlive DEF Inv, Sound
<1>2. ASSUME NEW m \in Alive PROVE Records[key[m]] = rec[m]
  <2>1. (CHOOSE x \in Alive : key[x] = key[m]) = m
    BY DEF Inv, Sound, Shape
  <2> QED BY <2>1, <1>1 DEF Records
<1>3. DOMAIN Records = KeysIn /\ Records = [k \in DOMAIN Records |-> Records[k]]
  BY DEF Records
<1> QED BY <1>1, <1>2, <1>3 DEF IsRecords

LEMMA TableStep ==
    ASSUME Alone, NEW r \in Ranks, NEW c \in Nat, Inv(r, c), [Next]_vars,
           IsRecords(Records), IsRecords(Records)'
    PROVE  [Promise!Next]_Records
<1> DEFINE f == Records
<1>1. /\ f = [k \in DOMAIN f |-> f[k]] /\ DOMAIN f = {key[m] : m \in Alive}
      /\ \A m \in Alive : f[key[m]] = rec[m]
  BY DEF IsRecords
<1>2. /\ f' = [k \in DOMAIN f' |-> f'[k]] /\ DOMAIN f' = {key'[m] : m \in Alive'}
      /\ \A m \in Alive' : f'[key'[m]] = rec'[m]
  BY DEF IsRecords
<1> HIDE DEF f
<1>3. TypeOK /\ Shape(r, c)
  BY DEF Inv, Sound
<1>4. \A m \in Alive : m \in Nodes /\ key[m] \in Keys
  BY <1>3, AliveNodes DEF TypeOK
<1>5. \A m, x \in Alive : key[m] = key[x] => m = x
  BY <1>3 DEF Shape
<1>6. ASSUME Alive' = Alive, key' = key, rec' = rec PROVE f' = f
  <2>1. DOMAIN f' = DOMAIN f /\ \A k \in DOMAIN f : f'[k] = f[k]
    BY <1>1, <1>2, <1>6
  <2> QED BY <2>1, <1>1, <1>2
<1>7. ASSUME UNCHANGED heap, ~At("fill"), ~At("fill")' PROVE f' = f
  BY <1>6, <1>7 DEF heap, Alive
<1>8. CASE UNCHANGED vars
  BY <1>6, <1>8 DEF vars, heap, finder, Alive, At, f
<1>9. ASSUME NEW t \in Tickers, Approve(t) PROVE \E k \in Keys : Promise!Approve(k)
  <2>1. /\ pc["capture"] = "judge" /\ pc'["capture"] = "rotate"
    BY <1>3, <1>9, GotoAt DEF Approve
  <2>2. n \in Alive
    BY <2>1 DEF Inv, Sound, WalkInv, At
  <2>3. Alive' = Alive /\ key' = key
    BY <1>9, <2>1 DEF Approve, Alive, At
  <2>4. rec'[n] = "approved" /\ \A m \in Alive : m # n => rec'[m] = rec[m]
    BY <1>3, <1>4, <1>9, <2>2 DEF Approve, TypeOK
  <2>5. f' = [f EXCEPT ![key[n]] = "approved"]
    <3>1. DOMAIN f' = DOMAIN f
      BY <1>1, <1>2, <2>3
    <3>2. \A k \in DOMAIN f : f'[k] = IF k = key[n] THEN "approved" ELSE f[k]
      <4> SUFFICES ASSUME NEW m \in Alive
                   PROVE  f'[key[m]] = IF key[m] = key[n] THEN "approved" ELSE f[key[m]]
        BY <1>1
      <4> QED BY <1>1, <1>2, <1>5, <2>2, <2>3, <2>4
    <3> QED BY <3>1, <3>2, <1>1, <1>2
  <2>6. key[n] \in Keys /\ key[n] \in DOMAIN f
    BY <1>1, <1>4, <2>2
  <2> QED BY <2>5, <2>6 DEF Promise!Approve, Records, f
<1>10. ASSUME NEW t \in Tickers, Unlink(t) PROVE \E k \in Keys : Promise!Delete(k)
  <2>1. n \in Alive /\ rec[n] = "new" /\ Alive' = Alive \ {n} /\ key' = key /\ rec' = rec
    BY <1>10, UnlinkShape DEF Unlink
  <2>2. DOMAIN f' = DOMAIN f \ {key[n]}
    BY <1>1, <1>2, <1>5, <2>1
  <2>3. \A k \in DOMAIN f' : f'[k] = f[k]
    BY <1>1, <1>2, <2>1
  <2>4. f' = [k \in DOMAIN f \ {key[n]} |-> f[k]]
    BY <2>2, <2>3, <1>2
  <2>5. key[n] \in Keys /\ key[n] \in DOMAIN f /\ f[key[n]] = "new"
    BY <1>1, <1>4, <2>1
  <2> QED BY <2>4, <2>5 DEF Promise!Delete, Records, f
<1>11. ASSUME Fill PROVE \E k \in Keys : Promise!Insert(k)
  <2>1. pc["capture"] = "fill" /\ pc'["capture"] = "idle"
    BY <1>3, <1>11, GotoAt DEF Fill, Alone
  <2>2. q \in Nodes \ free /\ \A m \in Alive : key[m] # packet
    BY <2>1 DEF Inv, Sound, FindInv, At
  <2>3. Alive' = Alive \cup {q} /\ q \notin Alive
    BY <1>11, <2>1, <2>2 DEF Alive, At, Fill
  <2>4. /\ key'[q] = packet /\ rec'[q] = "new"
        /\ \A m \in Alive : key'[m] = key[m] /\ rec'[m] = rec[m]
    BY <1>3, <1>4, <1>11, <2>2, <2>3 DEF Fill, TypeOK
  <2>5. packet \in Keys /\ packet \notin DOMAIN f
    BY <1>1, <1>3, <2>2 DEF TypeOK
  <2>6. DOMAIN f' = DOMAIN f \cup {packet}
    BY <1>1, <1>2, <2>3, <2>4
  <2>7. f'[packet] = "new"
    BY <1>2, <2>3, <2>4
  <2>8. \A k \in DOMAIN f : f'[k] = f[k] /\ k # packet
    BY <1>1, <1>2, <2>3, <2>4, <2>5
  <2>9. f' = [k \in DOMAIN f \cup {packet} |-> IF k = packet THEN "new" ELSE f[k]]
    BY <2>6, <2>7, <2>8, <1>2
  <2> QED BY <2>5, <2>9 DEF Promise!Insert, Records, f
<1>12. CASE Link
  <2>1. pc["capture"] = "link" /\ pc'["capture"] = "fill"
    BY <1>3, <1>12, GotoAt DEF Link, Alone
  <2>2. q' \in free /\ free' = free \ {q'} /\ key' = key /\ rec' = rec
    BY <1>12 DEF Link
  <2>3. Alive' = Alive
    BY <2>1, <2>2 DEF Alive, At
  <2> QED BY <2>2, <2>3, <1>6 DEF f
<1>13. ASSUME NEW t \in Tickers, NEW k \in Keys, Tick(t, k) PROVE f' = f
  <2>1. ~At("fill") /\ ~At("fill")' /\ UNCHANGED heap
    <3>1. t = "capture" /\ pc["capture"] = "idle" /\ pc'["capture"] \in {"rotate", "lookup"}
      BY <1>3, <1>13, GotoAt DEF Tick
    <3> QED BY <3>1, <1>13 DEF Tick, At
  <2> QED BY <2>1, <1>7
<1>14. ASSUME NEW t \in Tickers,
              \/ Advance(t) \/ Keep(t) \/ Drop(t) \/ DeleteWalk(t) \/ EndRotate(t)
              \/ construct_MQTT_msg(t)
       PROVE  f' = f
  <2>1. t = "capture" /\ UNCHANGED heap
    BY <1>14 DEF Advance, Keep, Drop, DeleteWalk, EndRotate, construct_MQTT_msg,
                 Write, EndWrite, Alone
  <2>2. /\ pc["capture"] \in Walking
        /\ pc'["capture"] \in Walking \cup {"lookup"}
    BY <1>3, <1>14, <2>1 DEF Advance, Keep, Drop, DeleteWalk, EndRotate, construct_MQTT_msg,
                 Write, EndWrite, Walking, Goto, TypeOK
  <2> QED BY <2>1, <2>2, <1>7 DEF At, Walking
<1>15. CASE Lookup \/ FindWalk \/ Found \/ NotFound
  <2>1. UNCHANGED heap /\ "capture" \in Tickers
    BY <1>15 DEF Lookup, FindWalk, Found, NotFound, Alone
  <2>2. /\ pc["capture"] \in {"lookup", "find"}
        /\ pc'["capture"] \in {"idle", "find", "link"}
    BY <1>3, <1>15, <2>1 DEF Lookup, FindWalk, Found, NotFound, Goto, TypeOK
  <2> QED BY <2>1, <2>2, <1>7 DEF At, f
<1> QED BY <1>8, <1>9, <1>10, <1>11, <1>12, <1>13, <1>14, <1>15
        DEF Next, history_rotate, handle_ip_packet, Promise!Next, Records, f

(* Nodes and chains implement what hash.h promises: one record for each key. *)
THEOREM TableIsMapHolds == Alone => (Spec => TableIsMap)
<1> SUFFICES ASSUME Alone PROVE Spec => TableIsMap
  OBVIOUS
<1>1. IInv => IsRecords(Records)
  BY RecordsAre DEF IInv, Inv
<1>2. IInv /\ IsRecords(Records) /\ IsRecords(Records)' /\ [Next]_vars
        => [Promise!Next]_Records
  BY TableStep DEF IInv, Inv
<1>3. Init => Promise!Init
  <2> SUFFICES ASSUME Init PROVE Promise!Init
    OBVIOUS
  <2>1. Alive = {}
    BY DEF Init, Alive
  <2>2. KeysIn = {}
    BY <2>1, InitInvariant, LinkedIsAlive DEF IInv, Sound
  <2> QED BY <2>2 DEF Promise!Init
<1> QED BY <1>1, <1>2, <1>3, RanksInvariant, PTL
        DEF Spec, TableIsMap, Promise!Spec, Records
=============================================================================
