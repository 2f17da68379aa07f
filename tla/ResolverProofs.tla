--------------------------- MODULE ResolverProofs ---------------------------
(***************************************************************************)
(* What holds of Resolver for any addresses, any number of workers and of  *)
(* callers, a ring of any length and every do_resolve(): the types, that   *)
(* no address is resolved twice, and which texts may be freed.             *)
(*                                                                         *)
(* A step that looks nothing up and stores nothing keeps the ring, the     *)
(* addresses in hand and the cache; the rest of the argument is about      *)
(* taking from the ring, putting into it, and replacing a text.            *)
(***************************************************************************)
EXTENDS Resolver, TLAPS

(* What a worker is about to store is the name of its address, or nothing. *)
NamesInHand ==
    \A w \in Workers : at[w] = "store" => hostname[w] \in {NoText, Name(addr[w])}

(* A text is kept under the key of the address it was made for. *)
KeptUnderKey ==
    \A k \in Keys : ns_hash[k] # NoText => KeyOf(ns_hash[k].of) = k

(* What has been freed is a number that a name has replaced for good. *)
FreedReplaced ==
    \A t \in freed : ~t.name /\ ns_hash[KeyOf(t.of)].name

CacheInv == NamesInHand /\ KeptUnderKey /\ FreedReplaced
Inv == TypeOK /\ ResolvedOnce /\ CacheInv

-----------------------------------------------------------------------------
(* The slots in use when the head is at h and the tail at t. *)
Between(h, t) == {i \in Slots : IF t <= h THEN t <= i /\ i < h ELSE t <= i \/ i < h}

(* The successor of a slot is another slot. *)
LEMMA SuccSlot == ASSUME NEW i \in Slots PROVE Succ(i) \in Slots /\ Succ(i) # i
  BY RingAssumption DEF Slots, Succ

(* Taking removes the slot at the tail and no other (resolver.c:420-424). *)
LEMMA TakeSlot ==
    ASSUME NEW h \in Slots, NEW t \in Slots, h # t
    PROVE  Between(h, Succ(t)) = Between(h, t) \ {t} /\ t \in Between(h, t)
  BY RingAssumption DEF Slots, Succ, Between

(* Putting into a ring that is not full adds the slot at the head, which was *)
(* not in use (resolver.c:502-512).                                          *)
LEMMA PutSlot ==
    ASSUME NEW h \in Slots, NEW t \in Slots, Succ(h) # t
    PROVE  Between(Succ(h), t) = Between(h, t) \cup {h} /\ h \notin Between(h, t)
  BY RingAssumption DEF Slots, Succ, Between

LEMMA WaitingBetween == Waiting = Between(head, tail) /\ Waiting \subseteq Slots
  BY DEF Waiting, Between

LEMMA NoTextIsNone == NoText \notin Texts
<1>1. \A t \in Texts : t.of \in Addrs
  BY DEF Texts
<1>2. NoText.of = NoAddr
  BY DEF NoText
<1> QED BY <1>1, <1>2, AddrAssumption

LEMMA KeysOfAddrs == \A a \in Addrs : KeyOf(a) \in Keys
  BY DEF Keys

(* Numbers, names and no text are told apart. *)
LEMMA TextsDiffer ==
    ASSUME NEW a \in Addrs, NEW b \in Addrs
    PROVE  /\ Number(a) \in Texts /\ Name(a) \in Texts
           /\ Number(a) # NoText /\ Name(a) # NoText /\ Number(a) # Name(b)
           /\ Number(a) = Number(b) => a = b
           /\ Number(a).of = a /\ ~Number(a).name /\ Name(a).of = a /\ Name(a).name
  BY AddrAssumption DEF Number, Name, NoText, Texts

-----------------------------------------------------------------------------
(* ResolvedOnce of any ring r with W in use, of any addresses a in the hands *)
(* of the workers B, and of any cache h.                                     *)
Once(W, r, B, a, h) ==
    /\ \A i \in W : r[i] \in Addrs /\ h[KeyOf(r[i])] = Number(r[i])
    /\ \A i \in W : \A j \in W : r[i] = r[j] => i = j
    /\ \A w \in B : a[w] \in Addrs /\ h[KeyOf(a[w])] = Number(a[w])
    /\ \A w \in B : \A i \in W : r[i] # a[w]
    /\ \A w \in B : \A v \in B : a[v] = a[w] => v = w

Holding == {w \in Workers : at[w] \in Busy}

LEMMA OnceBefore == ResolvedOnce <=> Once(Waiting, ring, Holding, addr, ns_hash)
  BY DEF ResolvedOnce, Once, Holding, Pending

LEMMA OnceAfter == ResolvedOnce' <=> Once(Waiting', ring', Holding', addr', ns_hash')
  BY DEF ResolvedOnce, Once, Holding, Pending

(* Fewer workers have an address in hand, and the cache keeps what is said   *)
(* of the addresses that are left.                                           *)
LEMMA OnceLess ==
    ASSUME NEW W, NEW r, NEW B, NEW a, NEW h, Once(W, r, B, a, h),
           NEW C \in SUBSET B, NEW b, \A v \in C : b[v] = a[v],
           NEW g, \A i \in W : g[KeyOf(r[i])] = h[KeyOf(r[i])],
           \A v \in C : g[KeyOf(a[v])] = h[KeyOf(a[v])]
    PROVE  Once(W, r, C, b, g)
  BY DEF Once

(* A worker with nothing in hand takes what is in slot t. *)
LEMMA OnceTake ==
    ASSUME NEW W, NEW r, NEW B, NEW a, NEW h, Once(W, r, B, a, h),
           NEW t \in W, NEW w, w \notin B,
           NEW b, b[w] = r[t], \A v \in B : b[v] = a[v]
    PROVE  Once(W \ {t}, r, B \cup {w}, b, h)
  BY DEF Once

(* An address nobody has is put into slot p. *)
LEMMA OncePut ==
    ASSUME NEW W, NEW r, NEW B, NEW a, NEW h, Once(W, r, B, a, h),
           NEW p, p \notin W, NEW x \in Addrs, h[KeyOf(x)] = Number(x),
           \A i \in W : r[i] # x, \A w \in B : a[w] # x,
           NEW q, q[p] = x, \A i \in W : q[i] = r[i]
    PROVE  Once(W \cup {p}, q, B, a, h)
  BY DEF Once

-----------------------------------------------------------------------------
LEMMA InvInit == Init => Inv
<1> SUFFICES ASSUME Init PROVE Inv
  OBVIOUS
<1>1. Waiting = {}
  BY RingAssumption DEF Init, Waiting, Slots
<1>2. TypeOK
  <2>1. at \in [Workers \cup Callers -> Idle \cup Busy \cup {"idle", "signal", "copy"}]
    BY DEF Init, Idle
  <2>2. hostname \in [Workers \cup Callers -> Texts \cup {NoText}]
    BY DEF Init
  <2>3. ns_hash \in [Keys -> Texts \cup {NoText}]
    BY DEF Init
  <2>4. head \in Slots /\ tail \in Slots
    BY RingAssumption DEF Init, Slots
  <2> QED BY <2>1, <2>2, <2>3, <2>4 DEF Init, TypeOK
<1>3. ResolvedOnce
  BY <1>1 DEF Init, ResolvedOnce, Busy
<1>4. CacheInv
  BY DEF Init, CacheInv, NamesInHand, KeptUnderKey, FreedReplaced
<1> QED BY <1>2, <1>3, <1>4 DEF Inv

-----------------------------------------------------------------------------
(* A worker that takes from the ring, or finds it empty, while the cache     *)
(* changes at most for the address it had: the addresses in the ring and in  *)
(* hand stay different, and pending.                                         *)
LEMMA TakeOrWaitOnce ==
    ASSUME TypeOK, ResolvedOnce, NEW w \in Workers, TakeOrWait(w),
           \A i \in Waiting : ns_hash'[KeyOf(ring[i])] = ns_hash[KeyOf(ring[i])],
           \A v \in Holding \ {w} : ns_hash'[KeyOf(addr[v])] = ns_hash[KeyOf(addr[v])]
    PROVE  ResolvedOnce'
<1>1. Once(Waiting, ring, Holding \ {w}, addr, ns_hash')
  BY OnceBefore, OnceLess
<1>2. \A v \in Workers \ {w} : addr'[v] = addr[v] /\ at'[v] = at[v]
  BY DEF TakeOrWait, Take, TypeOK
<1>3. CASE ~Empty /\ Take(w)
  <2>1. Waiting' = Waiting \ {tail} /\ tail \in Waiting /\ ring' = ring
    BY <1>3, TakeSlot, WaitingBetween DEF Take, Empty, TypeOK, Waiting, Between
  <2>2. addr'[w] = ring[tail] /\ at'[w] = "resolve"
    BY <1>3 DEF Take, TypeOK
  <2>3. Holding' = (Holding \ {w}) \cup {w}
    BY <1>2, <2>2 DEF Holding, Busy
  <2>4. Once(Waiting \ {tail}, ring, (Holding \ {w}) \cup {w}, addr', ns_hash')
    BY <1>1, <1>2, <2>1, <2>2, OnceTake DEF Holding
  <2> QED BY <2>1, <2>3, <2>4, OnceAfter
<1>4. CASE Empty /\ at' = [at EXCEPT ![w] = "wait"]
                 /\ addr' = [addr EXCEPT ![w] = NoAddr] /\ UNCHANGED queue
  <2>1. Waiting' = Waiting /\ ring' = ring
    BY <1>4 DEF queue, Waiting
  <2>2. at'[w] = "wait"
    BY <1>4 DEF TypeOK
  <2>3. Holding' = Holding \ {w}
    BY <1>2, <2>2 DEF Holding, Busy
  <2>4. Once(Waiting, ring, Holding \ {w}, addr', ns_hash')
    BY <1>1, <1>2, OnceLess DEF Holding
  <2> QED BY <2>1, <2>3, <2>4, OnceAfter
<1> QED BY <1>3, <1>4 DEF TakeOrWait

(* A step that leaves the ring, the cache and the addresses alone, and gives *)
(* no other worker something to do.                                          *)
LEMMA QuietOnce ==
    ASSUME ResolvedOnce, UNCHANGED <<queue, ns_hash, addr>>, Holding' \subseteq Holding
    PROVE  ResolvedOnce'
<1>1. Waiting' = Waiting /\ ring' = ring
  BY DEF queue, Waiting
<1>2. Once(Waiting, ring, Holding', addr', ns_hash')
  BY OnceBefore, OnceLess
<1> QED BY <1>1, <1>2, OnceAfter

(* The threads that are not t. *)
Others(t) == (Workers \cup Callers) \ {t}

LEMMA QuietCache ==
    ASSUME CacheInv, UNCHANGED <<ns_hash, freed>>, NamesInHand'
    PROVE  CacheInv'
  BY DEF CacheInv, KeptUnderKey, FreedReplaced

LEMMA TakeOrWaitType ==
    ASSUME TypeOK, NEW w \in Workers, TakeOrWait(w)
    PROVE  /\ ring' = ring /\ head' = head /\ tail' \in Slots
           /\ at' \in [Workers \cup Callers -> Idle \cup Busy \cup {"idle", "signal", "copy"}]
           /\ addr' \in [Workers -> Addrs \cup {NoAddr}]
           /\ at'[w] # "store"
           /\ \A t \in Others(w) : at'[t] = at[t]
           /\ \A v \in Workers \ {w} : addr'[v] = addr[v]
<1>1. CASE Take(w)
  BY <1>1, SuccSlot DEF TypeOK, Take, Busy, Others
<1>2. CASE at' = [at EXCEPT ![w] = "wait"] /\ addr' = [addr EXCEPT ![w] = NoAddr]
           /\ UNCHANGED queue
  BY <1>2 DEF TypeOK, queue, Idle, Others
<1> QED BY <1>1, <1>2 DEF TakeOrWait

-----------------------------------------------------------------------------
(* The actions, each in turn *)

LEMMA BeginInv == ASSUME Inv, NEW w \in Workers, Begin(w) \/ Spurious(w) PROVE Inv'
<1> USE DEF Begin, Spurious
<1>1. TypeOK'
  BY DEF Inv, TypeOK, Idle, queue
<1>2. /\ UNCHANGED <<queue, ns_hash, freed, addr, hostname>>
      /\ \A v \in Workers : at'[v] = at[v] \/ at'[v] \in {"wait", "woken"}
  BY DEF Inv, TypeOK
<1>3. ResolvedOnce'
  BY <1>2, QuietOnce DEF Inv, Holding, Busy
<1>4. NamesInHand'
  BY <1>2 DEF Inv, CacheInv, NamesInHand, Name
<1> QED BY <1>1, <1>2, <1>3, <1>4, QuietCache DEF Inv

LEMMA RouseInv == ASSUME Inv, NEW w \in Workers, Rouse(w) PROVE Inv'
<1>1. TypeOK'
  BY TakeOrWaitType DEF Inv, TypeOK, Rouse
<1>2. ResolvedOnce'
  BY TakeOrWaitOnce DEF Inv, Rouse
<1>3. NamesInHand'
  BY TakeOrWaitType DEF Inv, CacheInv, NamesInHand, Rouse, Others, Name
<1> QED BY <1>1, <1>2, <1>3, QuietCache DEF Inv, Rouse

(* Whatever the method, the answer is the name of the address or nothing. *)
LEMMA AnswerIsOwn ==
    ASSUME TypeOK, NEW w \in Workers, do_resolve(w) \/ gethostbyaddr(w)
    PROVE  /\ at[w] \in {"resolve", "asking"}
           /\ at' = [at EXCEPT ![w] = "store"]
           /\ \E text \in {NoText, Name(addr[w])} :
                  hostname' = [hostname EXCEPT ![w] = text]
           /\ UNCHANGED <<queue, ns_hash, freed, addr, method, early>>
           /\ private' \in [Workers -> {"none", "ready", "broken"}]
           /\ gone' \in BOOLEAN
<1> USE DEF Looked, Answer, TypeOK
<1>1. CASE gethostbyaddr(w)
  BY <1>1 DEF gethostbyaddr
<1>2. CASE do_resolve(w)
  <2>1. CASE getnameinfo(w) \/ gethostbyaddr_r(w) \/ libresolv(w)
    BY <1>2, <2>1 DEF do_resolve, getnameinfo, gethostbyaddr_r, libresolv
  <2>2. CASE ares(w)
    BY <1>2, <2>2 DEF do_resolve, ares
  <2>3. CASE forking(w)
    BY <1>2, <2>3 DEF do_resolve, forking
  <2> QED BY <1>2, <2>1, <2>2, <2>3 DEF do_resolve
<1> QED BY <1>1, <1>2

(* A worker with something to do has an address. *)
LEMMA BusyHasAddr ==
    ASSUME Inv, NEW w \in Workers, at[w] \in Busy
    PROVE  addr[w] \in Addrs /\ ns_hash[KeyOf(addr[w])] = Number(addr[w])
  BY DEF Inv, ResolvedOnce, Pending

LEMMA AnswerInv ==
    ASSUME Inv, NEW w \in Workers, do_resolve(w) \/ gethostbyaddr(w) PROVE Inv'
<1>1. PICK text \in {NoText, Name(addr[w])} : hostname' = [hostname EXCEPT ![w] = text]
  BY AnswerIsOwn DEF Inv
<1>2. text \in Texts \cup {NoText}
  BY BusyHasAddr, TextsDiffer, AnswerIsOwn DEF Inv, Busy
<1>3. TypeOK'
  BY <1>1, <1>2, AnswerIsOwn DEF Inv, TypeOK, queue, Busy
<1>4. Holding' = Holding
  BY AnswerIsOwn DEF Inv, Holding, Busy, TypeOK
<1>5. ResolvedOnce'
  BY <1>4, QuietOnce, AnswerIsOwn DEF Inv
<1>6. NamesInHand'
  BY <1>1, AnswerIsOwn DEF Inv, TypeOK, CacheInv, NamesInHand, Name
<1> QED BY <1>3, <1>5, <1>6, QuietCache, AnswerIsOwn DEF Inv

LEMMA LockGhbaInv == ASSUME Inv, NEW w \in Workers, LockGhba(w) PROVE Inv'
<1> USE DEF LockGhba
<1>1. TypeOK'
  BY DEF Inv, TypeOK, Busy, queue
<1>2. Holding' = Holding
  BY DEF Inv, Holding, Busy, TypeOK
<1>3. ResolvedOnce'
  BY <1>2, QuietOnce DEF Inv
<1>4. NamesInHand'
  BY DEF Inv, TypeOK, CacheInv, NamesInHand, Name
<1> QED BY <1>1, <1>3, <1>4, QuietCache DEF Inv

(* The name of an address that is pending replaces its number: nothing that  *)
(* is said of another pending address changes.                               *)
LEMMA ReplaceKeeps ==
    ASSUME TypeOK, NEW a \in Addrs, ns_hash[KeyOf(a)] = Number(a),
           Replace(a, Name(a)),
           NEW b, b \in Addrs, b # a, ns_hash[KeyOf(b)] = Number(b)
    PROVE  ns_hash'[KeyOf(b)] = ns_hash[KeyOf(b)]
  BY TextsDiffer, KeysOfAddrs DEF TypeOK, Replace

LEMMA ReplaceCache ==
    ASSUME TypeOK, KeptUnderKey, FreedReplaced,
           NEW a \in Addrs, ns_hash[KeyOf(a)] = Number(a), Replace(a, Name(a))
    PROVE  /\ ns_hash' \in [Keys -> Texts \cup {NoText}]
           /\ freed' \subseteq Texts
           /\ KeptUnderKey' /\ FreedReplaced'
<1>1. ns_hash' = [ns_hash EXCEPT ![KeyOf(a)] = Name(a)] /\ KeyOf(a) \in Keys
  BY KeysOfAddrs DEF Replace
<1>2. freed' = freed \cup {Number(a)}
  BY TextsDiffer DEF Replace
<1>3. KeptUnderKey'
  BY <1>1, TextsDiffer DEF KeptUnderKey, TypeOK
<1>4. ASSUME NEW t \in freed' PROVE ~t.name /\ ns_hash'[KeyOf(t.of)].name
  <2>1. CASE KeyOf(t.of) = KeyOf(a)
    BY <1>1, <1>2, <2>1, TextsDiffer DEF FreedReplaced, TypeOK
  <2>2. CASE KeyOf(t.of) # KeyOf(a)
    <3>1. t \in freed
      BY <1>2, <2>2, TextsDiffer
    <3>2. KeyOf(t.of) \in Keys
      BY <3>1, KeysOfAddrs DEF TypeOK, Texts
    <3> QED BY <1>1, <2>2, <3>1, <3>2 DEF FreedReplaced, TypeOK
  <2> QED BY <2>1, <2>2
<1>5. FreedReplaced'
  BY <1>4 DEF FreedReplaced
<1> QED BY <1>1, <1>2, <1>3, <1>5, TextsDiffer DEF TypeOK

LEMMA StoreInv == ASSUME Inv, NEW w \in Workers, Store(w) PROVE Inv'
<1>1. addr[w] \in Addrs /\ ns_hash[KeyOf(addr[w])] = Number(addr[w])
  BY BusyHasAddr DEF Store, Busy
<1>2. /\ hostname' = [hostname EXCEPT ![w] = NoText] /\ TakeOrWait(w)
      /\ UNCHANGED <<method, private, early, gone>>
  BY DEF Store
<1>3. NamesInHand'
  BY <1>2, TakeOrWaitType DEF Inv, TypeOK, CacheInv, NamesInHand, Others, Name
<1>4. /\ ns_hash' \in [Keys -> Texts \cup {NoText}] /\ freed' \subseteq Texts
      /\ KeptUnderKey' /\ FreedReplaced'
      /\ \A b \in Addrs : b # addr[w] /\ ns_hash[KeyOf(b)] = Number(b)
              => ns_hash'[KeyOf(b)] = ns_hash[KeyOf(b)]
  <2>1. CASE hostname[w] = NoText
    BY <2>1 DEF Store, Inv, TypeOK, CacheInv, KeptUnderKey, FreedReplaced
  <2>2. CASE hostname[w] # NoText
    <3>1. Replace(addr[w], Name(addr[w]))
      BY <2>2 DEF Store, Inv, CacheInv, NamesInHand
    <3> QED BY <1>1, <3>1, ReplaceCache, ReplaceKeeps DEF Inv, CacheInv
  <2> QED BY <2>1, <2>2
<1>5. TypeOK'
  BY <1>2, <1>4, TakeOrWaitType DEF Inv, TypeOK
<1>6. /\ \A i \in Waiting : ns_hash'[KeyOf(ring[i])] = ns_hash[KeyOf(ring[i])]
      /\ \A v \in Holding \ {w} : ns_hash'[KeyOf(addr[v])] = ns_hash[KeyOf(addr[v])]
  BY <1>4 DEF Inv, ResolvedOnce, Pending, Holding, Store, Busy
<1>7. ResolvedOnce'
  BY <1>2, <1>6, TakeOrWaitOnce DEF Inv
<1> QED BY <1>3, <1>4, <1>5, <1>7 DEF Inv, CacheInv

-----------------------------------------------------------------------------
(* resolve() *)

LEMMA CallerIsNoWorker == \A c \in Callers : c \notin Workers
  BY ThreadAssumption

LEMMA NewInv ==
    ASSUME Inv, NEW c \in Callers, NEW a \in Addrs, at[c] = "idle", New(c, a),
           UNCHANGED <<freed, addr, method, private, early, gone>>
    PROVE  Inv'
<1>1. /\ ns_hash[KeyOf(a)] = NoText
      /\ ns_hash' = [ns_hash EXCEPT ![KeyOf(a)] = Number(a)]
      /\ hostname' = [hostname EXCEPT ![c] = Number(a)] /\ KeyOf(a) \in Keys
  BY KeysOfAddrs DEF New
<1>2. at' = [at EXCEPT ![c] = "copy"] \/ at' = [at EXCEPT ![c] = "signal"]
  BY DEF New
<1>3. head' \in Slots /\ tail' = tail /\ ring' \in [Slots -> Addrs \cup {NoAddr}]
  BY SuccSlot DEF New, queue, Inv, TypeOK
<1>4. TypeOK'
  BY <1>1, <1>2, <1>3, TextsDiffer DEF Inv, TypeOK
<1>5. Holding' = Holding
  BY <1>2, CallerIsNoWorker DEF Inv, TypeOK, Holding
<1>6. /\ ns_hash'[KeyOf(a)] = Number(a)
      /\ \A b \in Addrs : KeyOf(b) # KeyOf(a) => ns_hash'[KeyOf(b)] = ns_hash[KeyOf(b)]
  BY <1>1, KeysOfAddrs DEF Inv, TypeOK
<1>7. Once(Waiting, ring, Holding, addr, ns_hash)
  BY OnceBefore DEF Inv
<1>8. /\ \A i \in Waiting : ring[i] # a /\ ns_hash'[KeyOf(ring[i])] = ns_hash[KeyOf(ring[i])]
      /\ \A v \in Holding : addr[v] # a /\ ns_hash'[KeyOf(addr[v])] = ns_hash[KeyOf(addr[v])]
  <2>1. \A i \in Waiting : ring[i] \in Addrs /\ KeyOf(ring[i]) # KeyOf(a)
    BY <1>1, <1>7, TextsDiffer DEF Once
  <2>2. \A v \in Holding : addr[v] \in Addrs /\ KeyOf(addr[v]) # KeyOf(a)
    BY <1>1, <1>7, TextsDiffer DEF Once
  <2> QED BY <1>6, <2>1, <2>2
<1>9. Once(Waiting, ring, Holding, addr, ns_hash')
  BY <1>7, <1>8, OnceLess
<1>10. ResolvedOnce'
  <2>1. CASE UNCHANGED queue
    <3>1. Waiting' = Waiting /\ ring' = ring
      BY <2>1 DEF queue, Waiting
    <3>2. addr' = addr
      OBVIOUS
    <3> QED BY <1>5, <1>9, <3>1, <3>2, OnceAfter
  <2>2. CASE ~Full /\ ring' = [ring EXCEPT ![head] = a] /\ head' = Succ(head) /\ tail' = tail
    <3>1. Waiting' = Waiting \cup {head} /\ head \notin Waiting
      BY <2>2, PutSlot DEF Inv, TypeOK, Full, Waiting, Between
    <3>2. ring'[head] = a /\ \A i \in Waiting : ring'[i] = ring[i]
      BY <2>2, <3>1 DEF Inv, TypeOK, Waiting
    <3>3. Once(Waiting \cup {head}, ring', Holding, addr, ns_hash')
      BY <1>6, <1>8, <1>9, <3>1, <3>2, OncePut
    <3>4. addr' = addr
      OBVIOUS
    <3> QED BY <1>5, <3>1, <3>3, <3>4, OnceAfter
  <2> QED BY <2>1, <2>2 DEF New
<1>11. NamesInHand'
  BY <1>1, <1>2, CallerIsNoWorker DEF Inv, TypeOK, CacheInv, NamesInHand, Name
<1>12. KeptUnderKey'
  BY <1>1, TextsDiffer DEF Inv, TypeOK, CacheInv, KeptUnderKey
<1>13. ASSUME NEW t \in freed PROVE ~t.name /\ ns_hash'[KeyOf(t.of)].name
  <2>1. ns_hash[KeyOf(t.of)] # NoText
    BY DEF Inv, CacheInv, FreedReplaced, NoText
  <2>2. KeyOf(t.of) \in Keys
    BY KeysOfAddrs DEF Inv, TypeOK, Texts
  <2> QED BY <1>1, <2>1, <2>2 DEF Inv, TypeOK, CacheInv, FreedReplaced
<1>14. FreedReplaced'
  BY <1>13 DEF FreedReplaced
<1> QED BY <1>4, <1>10, <1>11, <1>12, <1>14 DEF Inv, CacheInv

(* The other steps of a caller change only where it is and its text. *)
LEMMA CallerInv ==
    ASSUME Inv, NEW c \in Callers, UNCHANGED <<queue, ns_hash, freed, addr, method, private, gone>>,
           early' \in BOOLEAN, at'[c] \in {"copy", "idle"},
           at' \in [Workers \cup Callers -> Idle \cup Busy \cup {"idle", "signal", "copy"}],
           \A w \in Workers : at'[w] = at[w] \/ at'[w] = "woken",
           hostname' \in [Workers \cup Callers -> Texts \cup {NoText}],
           \A w \in Workers : hostname'[w] = hostname[w]
    PROVE  Inv'
<1>1. TypeOK'
  BY DEF Inv, TypeOK, queue
<1>2. Holding' \subseteq Holding
  BY DEF Holding, Busy
<1>3. ResolvedOnce'
  BY <1>2, QuietOnce DEF Inv
<1>4. NamesInHand'
  BY DEF Inv, CacheInv, NamesInHand, Name
<1> QED BY <1>1, <1>3, <1>4, QuietCache DEF Inv

LEMMA ResolveInv ==
    ASSUME Inv, NEW c \in Callers, NEW a \in Addrs, resolve(c, a) PROVE Inv'
<1>1. CASE Cached(c, a)
  <2>1. /\ at' = [at EXCEPT ![c] = "copy"]
        /\ hostname' = [hostname EXCEPT ![c] = ns_hash[KeyOf(a)]]
    BY <1>1 DEF Cached
  <2>2. UNCHANGED <<queue, ns_hash, freed, addr, method, private, early, gone>>
    BY <1>1 DEF Cached, resolve
  <2>3. ns_hash[KeyOf(a)] \in Texts \cup {NoText} /\ early' \in BOOLEAN
    BY <2>2, KeysOfAddrs DEF Inv, TypeOK
  <2>4. /\ at' \in [Workers \cup Callers -> Idle \cup Busy \cup {"idle", "signal", "copy"}]
        /\ at'[c] = "copy" /\ \A w \in Workers : at'[w] = at[w]
    BY <2>1, CallerIsNoWorker DEF Inv, TypeOK
  <2>5. /\ hostname' \in [Workers \cup Callers -> Texts \cup {NoText}]
        /\ \A w \in Workers : hostname'[w] = hostname[w]
    BY <2>1, <2>3, CallerIsNoWorker DEF Inv, TypeOK
  <2> QED BY <2>2, <2>3, <2>4, <2>5, CallerInv
<1>2. CASE New(c, a)
  BY <1>2, NewInv DEF resolve
<1> QED BY <1>1, <1>2 DEF resolve

LEMMA SignalInv == ASSUME Inv, NEW c \in Callers, Signal(c) PROVE Inv'
<1>1. UNCHANGED <<queue, ns_hash, freed, addr, hostname, method, private, gone>>
  BY DEF Signal
<1>2. early' \in BOOLEAN
  BY DEF Signal, Inv, TypeOK
<1>3. /\ at' \in [Workers \cup Callers -> Idle \cup Busy \cup {"idle", "signal", "copy"}]
      /\ at'[c] = "copy" /\ \A w \in Workers : at'[w] = at[w] \/ at'[w] = "woken"
  <2>1. CASE \E w \in Workers : at' = [at EXCEPT ![c] = "copy", ![w] = "woken"]
    <3>1. PICK v \in Workers : at' = [at EXCEPT ![c] = "copy", ![v] = "woken"]
      BY <2>1
    <3> QED BY <3>1, CallerIsNoWorker DEF Inv, TypeOK, Idle
  <2>2. CASE at' = [at EXCEPT ![c] = "copy"]
    BY <2>2, CallerIsNoWorker DEF Inv, TypeOK
  <2> QED BY <2>1, <2>2 DEF Signal
<1> QED BY <1>1, <1>2, <1>3, CallerInv DEF Inv, TypeOK

LEMMA CopyInv == ASSUME Inv, NEW c \in Callers, Copy(c) PROVE Inv'
<1>1. UNCHANGED <<queue, ns_hash, freed, addr, method, private, early, gone>>
  BY DEF Copy
<1>2. /\ at' \in [Workers \cup Callers -> Idle \cup Busy \cup {"idle", "signal", "copy"}]
      /\ at'[c] = "idle" /\ \A w \in Workers : at'[w] = at[w]
  BY CallerIsNoWorker DEF Copy, Inv, TypeOK
<1>3. /\ hostname' \in [Workers \cup Callers -> Texts \cup {NoText}]
      /\ \A w \in Workers : hostname'[w] = hostname[w]
  BY CallerIsNoWorker DEF Copy, Inv, TypeOK
<1> QED BY <1>1, <1>2, <1>3, CallerInv DEF Inv, TypeOK

-----------------------------------------------------------------------------
LEMMA InvNext == Inv /\ [Next]_vars => Inv'
<1> SUFFICES ASSUME Inv, [Next]_vars PROVE Inv'
  OBVIOUS
<1>1. CASE UNCHANGED vars
  <2>1. Holding' = Holding
    BY <1>1 DEF vars, Holding
  <2>2. ResolvedOnce'
    BY <1>1, <2>1, QuietOnce DEF vars, queue, Inv
  <2>3. NamesInHand'
    BY <1>1 DEF vars, Inv, CacheInv, NamesInHand, Name
  <2>4. TypeOK'
    BY <1>1 DEF vars, queue, Inv, TypeOK
  <2> QED BY <1>1, <2>2, <2>3, <2>4, QuietCache DEF vars, Inv
<1>2. ASSUME NEW w \in Workers, resolver_worker(w) \/ Spurious(w) PROVE Inv'
  BY <1>2, BeginInv, RouseInv, AnswerInv, LockGhbaInv, StoreInv DEF resolver_worker
<1>3. ASSUME NEW c \in Callers, (\E a \in Addrs : resolve(c, a)) \/ Signal(c) \/ Copy(c)
      PROVE  Inv'
  BY <1>3, ResolveInv, SignalInv, CopyInv
<1> QED BY <1>1, <1>2, <1>3 DEF Next

(* What the rest follows from. *)
THEOREM Invariance == Spec => []Inv
  BY InvInit, InvNext, PTL DEF Spec

(* The state stays within its types (resolver.c). *)
THEOREM TypeCorrect == Spec => []TypeOK
<1>1. Inv => TypeOK
  BY DEF Inv
<1> QED BY <1>1, Invariance, PTL

(* With any number of workers no address is looked up by two of them, none   *)
(* is looked up again, and no text is replaced twice (resolver.c:420-447,    *)
(* 491-514).                                                                 *)
THEOREM LookedUpOnce == Spec => []ResolvedOnce
<1>1. Inv => ResolvedOnce
  BY DEF Inv
<1> QED BY <1>1, Invariance, PTL

(* The cache holds nothing that has been freed, and of the texts a caller is *)
(* copying without the mutex only a number can be (resolver.c:442-446, 523). *)
THEOREM TextsStayLive == Spec => []TextsLive
<1>1. Inv => TextsLive
  <2> SUFFICES ASSUME Inv PROVE TextsLive
    OBVIOUS
  <2>1. ASSUME NEW k \in Keys, ns_hash[k] \in freed PROVE FALSE
    <3>1. ns_hash[k] # NoText
      BY <2>1, NoTextIsNone DEF Inv, TypeOK
    <3>2. KeyOf(ns_hash[k].of) = k
      BY <3>1 DEF Inv, CacheInv, KeptUnderKey
    <3> QED BY <2>1, <3>2 DEF Inv, CacheInv, FreedReplaced
  <2>2. \A c \in Callers : hostname[c] # NoText /\ hostname[c].name => hostname[c] \notin freed
    BY DEF Inv, CacheInv, FreedReplaced
  <2> QED BY <2>1, <2>2 DEF TextsLive
<1> QED BY <1>1, Invariance, PTL
=============================================================================
