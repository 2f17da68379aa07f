------------------------------ MODULE Resolver ------------------------------
(***************************************************************************)
(* The cache of host names (resolver.c over ns_hash.c): resolve() answers  *)
(* with the text it has for an address, and puts an address it meets for   *)
(* the first time in a ring from which two workers take, look the name up  *)
(* without the mutex, and replace the text.                                *)
(*                                                                         *)
(* All but the look-up, the signal and the copy of the answer happens      *)
(* under resolver_queue_mutex, so a step here is a whole section under the *)
(* mutex, up to the next unlock or wait.  A text is known by the address   *)
(* it was made for and by whether it is a name or the number.              *)
(***************************************************************************)
EXTENDS Integers, FiniteSets

CONSTANTS
    Inet, Inet6,            \* the addresses of either family
    LinkLocal,              \* those of Inet6 that stay numerical
    Subnet,                 \* the first 64 bits of an address of Inet6
    Workers, Callers,       \* the threads of either kind
    RESOLVE_QUEUE_LENGTH,
    Methods                 \* the do_resolve() the program may be built with

Addrs == Inet \cup Inet6
NoAddr == "no address"
NoText == [of |-> NoAddr, name |-> FALSE]

ASSUME RingAssumption == RESOLVE_QUEUE_LENGTH \in Nat /\ RESOLVE_QUEUE_LENGTH > 1
ASSUME ThreadAssumption == Workers \cap Callers = {}
ASSUME AddrAssumption ==
    Inet \cap Inet6 = {} /\ LinkLocal \subseteq Inet6 /\ NoAddr \notin Addrs

AllMethods == {"getnameinfo", "gethostbyaddr_r", "gethostbyaddr", "libresolv",
               "ares", "forking"}
ASSUME MethodAssumption == Methods \subseteq AllMethods

VARIABLES
    ring, head, tail,  \* resolve_queue: put in at head, taken out at tail
    ns_hash,           \* the text kept for each key
    freed,             \* the texts that have been freed
    at,                \* where each thread is
    addr,              \* the address a worker has taken
    hostname,          \* the text a thread holds the address of
    method,            \* the do_resolve() in use
    private,           \* a worker's thread-specific channel or process
    early,             \* a signal was sent before any worker was waiting
    gone               \* the program has crashed or been killed

queue == <<ring, head, tail>>
vars == <<ring, head, tail, ns_hash, freed, at, addr, hostname, method, private,
          early, gone>>

-----------------------------------------------------------------------------
(* The cache *)

(* ns_hash_compare() compares the first 16 bytes of an addr_storage: the     *)
(* family, the length, and what is left of them for the address, 8 bytes.    *)
KeyOf(a) == IF a \in Inet THEN <<4, a>> ELSE <<6, Subnet[a]>>
Keys == {KeyOf(a) : a \in Addrs}

Number(a) == [of |-> a, name |-> FALSE]
Name(a)   == [of |-> a, name |-> TRUE]
Texts == [of : Addrs, name : BOOLEAN]

-----------------------------------------------------------------------------
(* The ring *)

Slots == 0..RESOLVE_QUEUE_LENGTH - 1

SuccUnwrapped(i) == i + 1
Succ(i) == IF i = RESOLVE_QUEUE_LENGTH - 1 THEN 0 ELSE i + 1

Empty == head = tail
Full == Succ(head) = tail

(* The slots between tail and head. *)
Waiting ==
    {i \in Slots : IF tail <= head THEN tail <= i /\ i < head
                                   ELSE tail <= i \/ i < head}

-----------------------------------------------------------------------------
(* The workers *)

Idle == {"begin", "wait", "woken"}
Busy == {"resolve", "asking", "store"}

TakeKeepsTail(w) ==
    /\ addr' = [addr EXCEPT ![w] = ring[tail]]
    /\ at' = [at EXCEPT ![w] = "resolve"]
    /\ UNCHANGED queue

(* The address at tail, to be resolved without the mutex. *)
Take(w) ==
    /\ addr' = [addr EXCEPT ![w] = ring[tail]]
    /\ tail' = Succ(tail)
    /\ at' = [at EXCEPT ![w] = "resolve"]
    /\ UNCHANGED <<ring, head>>

TakeOrRest(w) ==
    /\ at' = [at EXCEPT ![w] = "wait"]
    /\ addr' = [addr EXCEPT ![w] = NoAddr]
    /\ UNCHANGED queue

(* The test of the inner loop: another address, or the wait, which gives the *)
(* mutex back.                                                               *)
TakeOrWait(w) ==
    \/ ~Empty /\ Take(w)
    \/ Empty /\ at' = [at EXCEPT ![w] = "wait"]
             /\ addr' = [addr EXCEPT ![w] = NoAddr]
             /\ UNCHANGED queue

(* A worker's first section; the wait comes before the first look at the ring. *)
Begin(w) ==
    /\ at[w] = "begin"
    /\ at' = [at EXCEPT ![w] = "wait"]
    /\ UNCHANGED <<queue, ns_hash, freed, addr, hostname, method, private, early, gone>>

(* A wait may return without a signal. *)
Spurious(w) ==
    /\ at[w] = "wait"
    /\ at' = [at EXCEPT ![w] = "woken"]
    /\ UNCHANGED <<queue, ns_hash, freed, addr, hostname, method, private, early, gone>>

Rouse(w) ==
    /\ at[w] = "woken"
    /\ TakeOrWait(w)
    /\ UNCHANGED <<ns_hash, freed, hostname, method, private, early, gone>>

-----------------------------------------------------------------------------
(* do_resolve() *)

Answer(w, text) ==
    /\ hostname' = [hostname EXCEPT ![w] = text]
    /\ at' = [at EXCEPT ![w] = "store"]

(* What the system's resolver says of an address: a name or an error. *)
Looked(w) == Answer(w, Name(addr[w])) \/ Answer(w, NoText)

getnameinfo(w) ==
    /\ method = "getnameinfo"
    /\ Looked(w)
    /\ UNCHANGED <<private, gone>>

(* Until the buffer is large enough the same question is asked again.        *)
gethostbyaddr_r(w) ==
    /\ method = "gethostbyaddr_r"
    /\ Looked(w)
    /\ UNCHANGED <<private, gone>>

(* One worker at a time has ghba_mtx. *)
LockGhba(w) ==
    /\ method = "gethostbyaddr"
    /\ at[w] = "resolve"
    /\ \A v \in Workers : at[v] # "asking"
    /\ at' = [at EXCEPT ![w] = "asking"]
    /\ UNCHANGED <<queue, ns_hash, freed, addr, hostname, method, private, early, gone>>

gethostbyaddr(w) ==
    /\ at[w] = "asking"
    /\ Looked(w)
    /\ UNCHANGED <<queue, ns_hash, freed, addr, method, private, early, gone>>

libresolv(w) ==
    /\ method = "libresolv"
    /\ IF addr[w] \in Inet THEN Looked(w) ELSE Answer(w, NoText)
    /\ UNCHANGED <<private, gone>>

(* The channel of a thread is remembered before it is initialised: when that *)
(* fails, the next call uses what malloc() left there.  The host of an       *)
(* answer that cannot be parsed is read from a pointer nobody has set.       *)
ares(w) ==
    /\ method = "ares"
    /\ \/ addr[w] \notin Inet /\ Answer(w, NoText) /\ UNCHANGED <<private, gone>>
       \/ /\ addr[w] \in Inet
          /\ \/ /\ private[w] # "broken"
                /\ Looked(w)
                /\ private' = [private EXCEPT ![w] = "ready"]
                /\ gone' \in BOOLEAN
             \/ /\ private[w] = "none"
                /\ Answer(w, NoText)
                /\ private' = [private EXCEPT ![w] = "broken"]
                /\ UNCHANGED gone
             \/ /\ private[w] = "broken"
                /\ Answer(w, NoText)
                /\ gone' \in BOOLEAN
                /\ UNCHANGED private

(* The request is the 16 bytes of an in6_addr and the child waits for the 24 *)
(* of an addr_storage: it gives up, and the parent kills what is left of it. *)
(* (Built with no method at all, do_resolve() gives up likewise.)            *)
(* When fork() fails the process -1 is remembered; the next call finds its   *)
(* descriptor closed and kills that, which is every process it may kill.     *)
forking(w) ==
    /\ method = "forking"
    /\ Answer(w, NoText)
    /\ \/ private[w] = "none" /\ UNCHANGED <<private, gone>>
       \/ /\ private[w] = "none"
          /\ private' = [private EXCEPT ![w] = "broken"]
          /\ UNCHANGED gone
       \/ /\ private[w] = "broken"
          /\ private' = [private EXCEPT ![w] = "none"]
          /\ gone' \in BOOLEAN

do_resolve(w) ==
    /\ at[w] = "resolve"
    /\ \/ getnameinfo(w) \/ gethostbyaddr_r(w) \/ libresolv(w) \/ ares(w) \/ forking(w)
    /\ UNCHANGED <<queue, ns_hash, freed, addr, method, early>>

-----------------------------------------------------------------------------
ReplaceFreeing(a, text) ==
    /\ UNCHANGED ns_hash
    /\ freed' = freed \cup ({ns_hash[KeyOf(a)]} \ {NoText})

(* A name replaces the text there is, which is freed. *)
Replace(a, text) ==
    /\ ns_hash' = [ns_hash EXCEPT ![KeyOf(a)] = text]
    /\ freed' = freed \cup ({ns_hash[KeyOf(a)]} \ {NoText})

Store(w) ==
    /\ at[w] = "store"
    /\ IF hostname[w] # NoText THEN Replace(addr[w], hostname[w])
                               ELSE UNCHANGED <<ns_hash, freed>>
    /\ hostname' = [hostname EXCEPT ![w] = NoText]
    /\ TakeOrWait(w)
    /\ UNCHANGED <<method, private, early, gone>>

-----------------------------------------------------------------------------
(* resolve(), with names wanted: otherwise it does nothing *)

Cached(c, a) ==
    /\ ns_hash[KeyOf(a)] # NoText
    /\ hostname' = [hostname EXCEPT ![c] = ns_hash[KeyOf(a)]]
    /\ at' = [at EXCEPT ![c] = "copy"]
    /\ UNCHANGED <<queue, ns_hash>>

(* An address that is not in the cache gets its number; with the ring full,  *)
(* or when it is link-local, it keeps it.                                    *)
New(c, a) ==
    /\ ns_hash[KeyOf(a)] = NoText
    /\ ns_hash' = [ns_hash EXCEPT ![KeyOf(a)] = Number(a)]
    /\ hostname' = [hostname EXCEPT ![c] = Number(a)]
    /\ IF Full \/ a \in LinkLocal
       THEN at' = [at EXCEPT ![c] = "copy"] /\ UNCHANGED queue
       ELSE /\ ring' = [ring EXCEPT ![head] = a]
            /\ head' = Succ(head)
            /\ at' = [at EXCEPT ![c] = "signal"]
            /\ UNCHANGED tail

resolve(c, a) ==
    /\ at[c] = "idle"
    /\ Cached(c, a) \/ New(c, a)
    /\ UNCHANGED <<freed, addr, method, private, early, gone>>

(* After the mutex is released.  A signal nobody waits for has no effect. *)
Signal(c) ==
    /\ at[c] = "signal"
    /\ \/ \E w \in Workers :
             /\ at[w] = "wait"
             /\ at' = [at EXCEPT ![c] = "copy", ![w] = "woken"]
       \/ /\ \A w \in Workers : at[w] # "wait"
          /\ at' = [at EXCEPT ![c] = "copy"]
    /\ early' = (early \/ \A w \in Workers : at[w] = "begin")
    /\ UNCHANGED <<queue, ns_hash, freed, addr, hostname, method, private, gone>>

(* The text is copied without the mutex. *)
Copy(c) ==
    /\ at[c] = "copy"
    /\ at' = [at EXCEPT ![c] = "idle"]
    /\ hostname' = [hostname EXCEPT ![c] = NoText]
    /\ UNCHANGED <<queue, ns_hash, freed, addr, method, private, early, gone>>

-----------------------------------------------------------------------------
Init ==
    /\ ring = [i \in Slots |-> NoAddr]
    /\ head = 0 /\ tail = 0
    /\ ns_hash = [k \in Keys |-> NoText]
    /\ freed = {}
    /\ at = [t \in Workers \cup Callers |-> IF t \in Workers THEN "begin" ELSE "idle"]
    /\ addr = [w \in Workers |-> NoAddr]
    /\ hostname = [t \in Workers \cup Callers |-> NoText]
    /\ method \in Methods
    /\ private = [w \in Workers |-> "none"]
    /\ early = FALSE /\ gone = FALSE

resolver_worker(w) ==
    Begin(w) \/ Rouse(w) \/ do_resolve(w) \/ LockGhba(w) \/ gethostbyaddr(w) \/ Store(w)

Next ==
    /\ ~gone
    /\ \/ \E w \in Workers : resolver_worker(w) \/ Spurious(w)
       \/ \E c \in Callers : \/ \E a \in Addrs : resolve(c, a)
                             \/ Signal(c) \/ Copy(c)

Spec == Init /\ [][Next]_vars

(* Every thread goes on, and the system's resolver gives an answer in the    *)
(* end; nobody has to call resolve().                                        *)
Fairness ==
    /\ \A w \in Workers : WF_vars(~gone /\ resolver_worker(w))
    /\ \A c \in Callers : WF_vars(~gone /\ (Signal(c) \/ Copy(c)))

FairSpec == Spec /\ Fairness

-----------------------------------------------------------------------------
(* Properties *)

TypeOK ==
    /\ ring \in [Slots -> Addrs \cup {NoAddr}]
    /\ head \in Slots /\ tail \in Slots
    /\ ns_hash \in [Keys -> Texts \cup {NoText}]
    /\ freed \subseteq Texts
    /\ at \in [Workers \cup Callers -> Idle \cup Busy \cup {"idle", "signal", "copy"}]
    /\ addr \in [Workers -> Addrs \cup {NoAddr}]
    /\ hostname \in [Workers \cup Callers -> Texts \cup {NoText}]
    /\ method \in Methods
    /\ private \in [Workers -> {"none", "ready", "broken"}]
    /\ early \in BOOLEAN /\ gone \in BOOLEAN

(* The text of a still has to be looked up: nobody but a's own caller has    *)
(* touched it.                                                               *)
Pending(a) == a \in Addrs /\ ns_hash[KeyOf(a)] = Number(a)

(* No address is resolved twice: what is in the ring and what the workers    *)
(* have in hand are different addresses, each of which still has its number  *)
(* in the cache; so the text a name replaces is a number, and is freed once  *)
(* (resolver.c:421-446, 491-514).                                            *)
ResolvedOnce ==
    /\ \A i \in Waiting : /\ Pending(ring[i])
                          /\ \A j \in Waiting : ring[i] = ring[j] => i = j
    /\ \A w \in Workers : at[w] \in Busy =>
          /\ Pending(addr[w])
          /\ \A i \in Waiting : ring[i] # addr[w]
          /\ \A v \in Workers : at[v] \in Busy /\ addr[v] = addr[w] => v = w

(* What the cache holds is not freed, and neither is a name that resolve()   *)
(* is copying without the mutex; only the number an address had at first may *)
(* be freed under a caller (resolver.c:442-446, 523).                        *)
TextsLive ==
    /\ \A k \in Keys : ns_hash[k] \notin freed
    /\ \A c \in Callers : hostname[c] # NoText /\ hostname[c].name
                             => hostname[c] \notin freed

(* Whatever is in the ring the workers take, down to the last address,       *)
(* unless it was put there before any of them waited for the signal          *)
(* (resolver.c:416-424, 518-520).                                            *)
AddressTried == ~Empty ~> (Empty \/ early \/ gone)
=============================================================================
