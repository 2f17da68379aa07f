# Verification of iftop-dotqoo

iftop-dotqoo captures the packets of an interface, keeps a history of the
connections it sees, and reports the connections that qualify to an MQTT
broker, at intervals and on request. This directory holds TLA+ models of that
program, the TLC configurations that check them on small instances, and proofs
for all instances. Paths below are those of the repository.

Run `tlc -config X.cfg MCY.tla` for a configuration of the tables below
(`MCPublisher` for `Publisher*.cfg`, `MCHistory` for `History*.cfg`,
`MCHashTable` for `Table*.cfg`, `MCCapture` for `Capture*.cfg`, `MCStartup` for
`Startup*.cfg`, `MCCollector` for `Collector*.cfg`, `MCResolver` for
`Resolver*.cfg`) and `tlapm XProofs.tla` for the proofs.

## 1. Inventory

### Live parts

| Part | State | Operations | Talks to |
|---|---|---|---|
| Capture (`iftop.c` 298-917) | `have_hw_addr`, `if_ip_addr`, ... | link-layer handlers, `assign_addr_pair`, `handle_ip_packet` | called by `pcap_loop` on the capture thread; reads the options; calls `tick`, then the history |
| Connection history (`iftop.c` 121-237, 513-548) | `history`, `history_totals` | `init_history`, `history_create`, `history_rotate`, the accounting | written by the capture thread; rotated by whoever ticks |
| Hash table (`hash.c`, `addr_hash.c`) | buckets, nodes | `hash_insert`, `hash_delete`, `hash_find`, `hash_next_item` | under the history and the report |
| Tick (`iftop.c` 240-277) | `tick_mutex`, `last_timestamp`, `msg_ready`, `options.send_last` | `tick` | called for each packet, for the key `u`, for each data request |
| MQTT publisher (`mqtt.c`) | `status`, `connection`, `token`, `deliveredtoken`, `data`, `out`, `last_try` | construct, compress, send, `check_status`, `connect_and_subscribe`, callbacks, `destory_MQTT` | the Paho client library, on its own threads |
| Options (`options.c`, `cfgfile.c`, `stringmap.c`) | `options`, `port_list`, the tree of settings | defaults, switches, file, `options_make` | read by everything, written before threads start |
| Main loop and shutdown (`tui.c`, `iftop.c` 922-1001) | the terminal | key `u`, key `q`, `pthread_cancel`, `destory_MQTT`, `hash_destroy` | ticks; stops the others |
| Interface (`options.c` 92-138, `addrs_ioctl.c`, `addrs_dlpi.c`, `iftop.c` 785-911) | `options.interface`, `if_hw_addr`, `if_ip_addr`, `if_ip6_addr`, `packet_handler` | the choice of an interface, `get_addrs_ioctl` (by `ioctl` or `getifaddrs`) or `get_addrs_dlpi`, `packet_init`, `set_filter_code` | system calls and `pcap`, once, before the threads; its results decide the direction of every packet |
| DLPI (`dlcommon.c`, only where the program is built for it) | the descriptor, the timer of `strgetmsg` | attach, bind, ask for information, each acknowledged | the STREAMS driver |
| Collector (`Python_Client/mqtt_client.py`) | `table`, `stat`, `received` | `on_message`, `save_data` on the library's thread; `process`, `print_stat`, clearing and asking on the main thread | the boxes, over the broker |

### Compiled but not called

The name resolver (`resolver.c`, `ns_hash.c`: a ring of addresses, two worker
threads on a condition variable, a cache of texts; both its start, `iftop.c:851`,
and the only calls of it, `ui_common.c:185-186`, are commented out), the curses
interface's data structures (`serv_hash.c`,
`sorted_list.c`, `vector.c`, `edline.c`, `screenfilter.c`), the communication
info server (`communication_info_server.c`, `iftop_api.c` but `in_port_list`,
`read_target_ip.c`, `ui_common.c`), the profiler (`threadprof.c`). `configure`
never defines `USE_GETIFADDRS`, so that the walk over `getifaddrs()`, the only
way to an IPv6 address, is built by hand or not at all.

### What is hard

*Threads.* Four kinds: the capture thread, `main`, the library's receiving
thread (`delivered`, `msgarrvd`) and the library's threads for `connlost`.
`tick_mutex` protects ticks against each other and nothing else:
`check_status()` runs after its release (`iftop.c:276`), `connlost()` and
`destory_MQTT()` never take it, and the accounting of a packet
(`iftop.c:513-547`) does not hold it.

*Failure.* The link may break anywhere; publish and subscribe ignore their
return codes; a reconnection drops the pending report.

*Answers that do not come.* The DLPI driver may say nothing, or something else;
a timer that outlives its request would end the program at any later moment.

*The resolver's threads*, if it were started. Addresses go through a ring, names
come back through a cache that has been extended meanwhile, and texts are copied
without the mutex.

*Two threads of the collector.* They share dictionaries without a lock; the main
thread replaces them while the other looks things up in them.

*Time.* Every interval is measured from the caller's `t`, read before the wait
for the mutex.

*Shutdown.* The capture thread is cancelled at its next blocking call, with the
mutex held or a report half sent, and is not joined.

### What makes each part correct

- Publisher: a report is begun only while none is pending; a tick sends only
  the report it built itself; a report is settled when, and only when, its own
  confirmation has come; buffers are allocated, used and freed once; a lost
  connection comes back.
- History: what is reported qualified and keeps qualifying; nothing counted is
  lost but with a dropped record; nothing in use, and nothing that satisfies the
  criteria, is dropped; records are updated while they exist.
- Hash table: at most one record for each key, none lost; a walk that deletes
  meets every record once and touches no freed one; the report is large enough
  for the records written to it.
- Collector: its table holds each report since the last clearing, whole, and
  nothing else; what it prints is in order; its totals are what was counted.
- Options: a switch wins over the file, the last switch over earlier ones, the
  first line over later ones; an option nobody sets keeps its default; each
  value comes from the switch that is for it; a net filter that is on fits its
  mask.
- Set-up: it ends, whatever the driver answers; it leaves no timer behind; the
  addresses it finds are those of the interface it has chosen.
- Packets: both directions of a conversation meet in one record, on opposite
  sides, or are both ignored; what the link layer says of a direction does not
  contradict the IP addresses.
- Resolver: no address is looked up twice or given up while it waits in the
  ring; no text is freed that the cache holds or, unless it was a number, that
  a caller still copies.

`PROJECT.json` lists the hazards at their lines, with the properties aimed at
each.

## 2. Modules and how they correspond to the code

| Module | Models | Lines of the code |
|---|---|---|
| `Publisher` | ticks, reports, connection, callbacks, shutdown | `iftop.c` 240-277, 975-1000; `mqtt.c` |
| `Report` | abstract: the life of one report | - |
| `History` | records, rotation and accounting | `iftop.c` 121-237, 362-548 |
| `HashTable` | nodes and chains under their users | `hash.c`, `iftop.c` 171-237, 513-516, `mqtt.c` 204-247 |
| `KeyedRecords` | abstract: one record for each key | - |
| `DLPI` | the talk with the driver about the hardware address | `dlcommon.c`, `addrs_dlpi.c` |
| `Links` | the link-layer handlers | `iftop.c` 551-777, `ppp.h` |
| `Packets` | from a frame to a key, a side and a direction | `iftop.c` 280-511; `iftop_api.c` 90-120 |
| `Capture` | from the start to the packets, over `DLPI`, `Links` and `Packets` | `options.c` 92-138, `addrs_ioctl.c`, `addrs_dlpi.c`, `iftop.c` 785-917 |
| `Resolver` | ring, workers and cache | `resolver.c`, `ns_hash.c` |
| `StringMap` | the tree the settings are kept in | `stringmap.c`, `cfgfile.c` 234-245 |
| `Startup` | defaults, switches, configuration file, `options_make` | `options.c`, `cfgfile.c` |
| `Collector` | the collector's two threads, with the boxes' reports | `mqtt_client.py` 154-414 |
| `IPLocator` | the search of the places' database | `mqtt_client.py` 81-114 |
| `PublisherProofs`, `HistoryProofs`, `HashTableProofs`, `CaptureProofs`, `StartupProofs`, `CollectorProofs`, `ResolverProofs` | theorems | - |
| `Induction` | lemmas they share: induction, folds, sums, orders | - |
| `MC...` | values of the constants for TLC | - |

`Capture` composes its three modules in one state space. The others do not share
one. `Publisher` knows of the history only
that it may or may not have something to report; `History` has of a tick what
reads or writes the history: its mutex and its rotation, step by step, but not
the publishing half; it sees the hash table as a
function, which `HashTable` justifies for the capture thread (`TableIsMap`, a
theorem);
the keys `History` takes as given are those `Packets` computes; `Startup` ends
where the threads begin, and its results are the settings of `Capture` and
`History`. Nothing calls the resolver.

**Publisher.** One action per statement, or run of statements, that another
thread can come between: `pc[t]` names the next one. `Lock` is `tick()` up to
`history_rotate` and decides what the tick does; `Construct` ... `Compress` are
`construct_MQTT_msg`, whose test, allocation and assignment of `status` are
separate steps; `Check` and `Discard` ... `Subscribe` the reconnection; `Send`,
`Drop`, `Clear`, `Publish` the sending; `Unlock`; `Status`, `Settle`,
`Complete` are `check_status`. `Lose`, `Lost`, `Tried` are a loss and
`connlost()`; `Deliver` is `delivered()`; `Quit`, `Cancel`, `Destroy`,
`Disconnect` the end of `main`. A clock is the set `due` of the intervals that
have run out: whether a `t` is old or new only moves that moment. A buffer is
`null`, `live` or `freed`, and a double free, a use after free or an overwrite
of a live buffer is noted in `faults`; after the first two nothing is modelled
(undefined behaviour). `stage` is a history variable. The Paho library is
external and modelled by what this code relies on: a token is not used twice at
once; with the link down, and possibly while a message
is in flight, a publication fails and stores no token; a clean
session forgets what was in flight; callbacks of one client come one at a time,
but for `connlost`, which has its own thread.

**History.** `Capture` reads the time and enters `tick`, as `Call` does for the key
`u` and a data request. `Lock` takes the mutex and begins a rotation, or finds
that there is nothing to do. A rotation is the walk over the table: for each record
the tests (`Examine`), then its removal from the table (`Delete`) and its `free`
(`Free`), or the test for approval (`Approve`); `Unlock` ends it. The accounting of
`handle_ip_packet`, which takes no mutex, is `Find` (all up to `hash_insert`) and
three updates: of the time (`Touch`), of the record's bytes (`CountInRecord`) and of
the totals (`CountInTotals`). Any step of a rotation on another thread may come
between any two of these, and the other way round. The record in hand between
`hash_delete` and `free` is `unlinked`: an update still reaches it there, and is
lost with it; after that it is a use of freed memory (`freedUse`), after which
nothing is modelled. A record that is inserted during a walk is met by it or not.
The tests of one record are one step, because its figures only grow meanwhile: if
any of the reads says that it stays, a later look at all of them says so too.
`dropped` and `freedUse` are history variables.

**HashTable.** One action per turn of each loop and, in `hash_insert`, one
before and one after the node's fields are set. A node's memory keeps what it
held: that is what is read of it before it is filled. Whether a record is
dropped, approved or kept is a free choice, so the result holds for every
option and every traffic. The record's `approval` is read after its `free`
(`iftop.c:193, 204`): a free choice of counting it or not.

**Capture.** A behaviour is one run of the program on one machine: a record of
the interfaces with their addresses, the list `getifaddrs()` would return, the
option `-i`, the kind of link and the way the program was built. `phase` is how
far `main` has come. `options_set_defaults` is the choice of the interface (a
flag that cannot be read counts as up); then either `get_addrs_dlpi` and the
steps of `DLPI`, or `HardwareAddress` and `IPAddress`, which with `getifaddrs()`
is the walk over the list (`Found`, entry by entry); then `packet_init` and
`set_filter_code`. Every call that may fail may fail: `exit` ends the program,
an address that is not had is not.

**DLPI.** A request (`Request`) and the answer to it are two steps, and the
driver's answer is any message of a set that has each acknowledgement whole and
as `strgetmsg`, `expecting` and the tests after them refuse it. `alarm` is on
from `alarm(MAXWAIT)` until `alarm(0)`; while it is on `sigalrm` may end the
program, in whatever phase.

**Links and Packets.** `packet_loop` captures a frame, and then perhaps the
answer to it; `seen` holds both, each with what `Verdict`, the handler and
`handle_ip_packet`, decides about it. A header is the fields a handler looks at.
Octets are in packet order; `s_addr` is read as a little-endian machine does.
The initial value of the loop index at `iftop.c:392`, which the code does not
set, is a free choice. An IPv6 packet that gets as far as `handle_ip_packet` is
read as if it were IPv4, as any packet.

**Resolver.** All but the look-up, the signal and the copy of the answer happens
under `resolver_queue_mutex`, so that a step is a section under the mutex, up to
the next unlock or wait: for a worker the wait (`Begin`), the return from it
(`Rouse`), the storing of a name together with the next look at the ring
(`Store`); for a caller `resolve`, `Signal` and `Copy`. A wait may return of
itself (`Spurious`). `do_resolve` is one of six, as the program was built. A text
is known by the address it was made for and by whether it is a name or the
number. `KeyOf` is `ns_hash_compare()`: of an IPv6 address it compares 64 bits.
`private` is what a worker keeps between look-ups (a channel, a process), and
`gone` that the use of one that was never set up has ended the program; `early`
notes a signal from before any worker has waited.

**Startup.** `stage` is where the startup stands. `ForcedSettings` is the head of
`options_read_args`, then comes one action per switch (`Setting`, `ListPorts`,
`Block`, `SetNumber`, `Minutes`, `Broker`), one per line of the configuration
file (`Line`), and `Make` for `options_make`. The tree of settings
(`StringMap`) is a function from ways, sequences of "l" and "g", to nodes, and
the functions of `stringmap.c` go down it with no recursion. An address and a
mask are the sets of their bits. What a text says (a number, an address, a
length) is a constant: texts are not taken apart. `asked` and `written` are
history variables; `overrun` is where a list has been written past its array,
after which nothing is modelled.

**Collector.** `loop` and `main` say where the two threads are and what they
hold. One action per statement that reads or replaces what the other thread
shares: the test for a host in the table (`Test`), its creation, the search
(`Find`), the merge or the second lookup and the appending; for the main thread
the three steps of a request (`Ask`, `Clear`, `Publish`), each turn of the loop
of `process`, and of `print_stat` each reading of the bytes: `sorted()` copies the
list (`PrintHost`) and reads the key of each connection, what it received (`Weigh`)
and then what it sent (`WeighSend`), before it sorts them (`Sort`); a line reads
again what its connection sent (`PrintSend`) and received (`PrintRest`). A merge is
two steps, what was received and what was sent (`Merge`, `MergeRest`), so that it
may fall between any two of these. Coarser than the code is only `process`, which
adds up the list of one host in one step: no property that holds speaks of the
sums, and the one that does (`TotalsNotExceeded`) fails without it. Of a line the
address, the two figures and the place are modelled. `loop.old` is set when the list at hand
belongs to a table that has been replaced. A KeyError, or a report that does not
decompress, ends the receiving thread; a table that has grown during `process`,
or a broker that cannot be reached, the program. `handled` and `across` are
history variables. A box is what `History` and `Publisher` say of it, reduced:
figures that only grow and a report of all of them at any moment. The reports'
records are as the box writes them for a host behind the interface it listens
on: the source is the outer host (`handle_eth_packet`, a frame from its own
address, is not flipped).

In each module a definition that stands right above another, has its parameters
and is used by nothing is a slip the code could have had; `PROJECT.json` names
it under "mutants", and the property must fail with it.

## 3. Runs

Twelve configurations. "States" are distinct states.

| Configuration | Instance | States | Result |
|---|---|---|---|
| `PublisherSingle` | capture thread alone, no loss, 2 tokens, fair | 672 | holds: memory handled once, confirmation taken only for its own report, every report settled, connection comes up, implements `Report` |
| `PublisherAll` | capture and data requests, `connlost`, quit and cancellation, 1 token | 3.5 million | holds: types, test and set of `status` stay together, a tick sends only its own report |
| `PublisherRaces` | capture and key `u` | - | **violated**: `check_status` settles an unsent report |
| `PublisherReconnect` | capture and `connlost`, fair | - | **violated**: ON is written over a loss, nobody reconnects |
| `HistoryTicks` | capture and data requests, 2 keys, 5 seconds | 9.1 million | holds: approvals justified and permanent, bytes conserved, records in use kept by the capture thread's ticks |
| `HistoryRace` | capture and key `u` | - | **violated**: the record being updated has left the table |
| `TableCapture` | capture, 3 keys, 2 in one bucket, 4 nodes | 85 thousand | holds: no freed use, sound chains, each record visited once, report fits, implements `KeyedRecords` |
| `CaptureAll` | 368 machines (link kinds, builds, interface lists, `-i`), 24 settings, 9 answers of the driver, 5 addresses, 3 ports, 3 protocols, both directions | 1.2 million | holds: the set-up ends, no timer is left, the addresses are the interface's, one record for each conversation, net filter separates, link layer agrees |
| `StartupAll` | 10 directives, 2 switches, 2 lines, 2 ports | 336 thousand | holds: every setting found in the tree, precedence, filters masked, ports as asked |
| `CollectorAll` | 2 boxes, 5 connections, one of them of no interest, 2 reports, 2 keys, 3 settings | 2.9 million | holds: table is the reports, one entry each, the receiving thread dies only of clearings; hosts in order, each line with its place and no less than a later one had |
| `ResolverAll` | 2 workers, 1 caller, 5 addresses (4 keys), room for 2 in the ring, each `do_resolve`, fair | 1.2 million | holds: each address looked up once, no text in use freed, the ring is emptied |
| `CollectorTotals` | 1 connection, 2 reports, 1 key | - | **violated**: totals exceed what was counted |

The runs without a limit that follows from the code are bounded as follows.
*Publisher*: nothing counts but tokens. `PublisherSingle` has two, so that one
may be late while the next is in use. `PublisherAll` has one, which the library
gives out again as soon as it may; while it is out a further publication fails
for the lack of it, as the library's does when too much is in flight. (The
theorems hold for any number.) One lost connection is handled at a time; a
second one starts the same handler again. *History*: five seconds with intervals of one and two
seconds let every interval run out before, at and after every other, in the
order they have in use (4 s resolution below 120 s age); three packets of one
byte against a threshold of one reach below, at and above it. `MaxBytes` and
`MaxTime` are the bounds. `HistoryTicks` has two ticking threads: a data request
rotates at once, a key `u` only when `RESOLUTION` seconds have passed since the last
rotation, so that what the history sees of the key it sees of requests too; with all
three the run takes far longer, and the theorems hold for any of them. *HashTable*: two keys collide and one does not, so
deletion at the head, inside and at the end of a chain, and walks over an empty
bucket, all occur; one node more than keys lets a freed one lie unused or be
reused. *Capture*: every kind of link is captured from under all settings, with frames
and answers of which the plainest carry every packet and the others, every
combination of header fields, a few; two own-net hosts, one far, the router, and
an address whose last octet looks like multicast; ports below, in and at both
sides of the dynamic range. The machines of every build have no, one good or two
good interfaces among bad ones and ones that are down, names that are too long,
qualified or without a number, and lists of addresses in which another
interface's, a second IPv4 and a link-local one come first or last. *Resolver*:
the ring is full with two addresses and wraps with the third; two IPv6 addresses
share a key and one is link-local; a second caller would meet what another
address of the first meets (the theorems hold for any number). *Startup*: with the three forced
settings, two switches and two lines, trees of depth up to five arise in many
orders, and each setting may be made twice by switches, twice by lines and by
both (`MaxSwitches`, `MaxLines`). Octets of two bits (`Octet`) and arrays of two
entries leave room for a length inside and at the edge of an octet, for one too
long, and for lists shorter than, as long as and longer than the array. *Collector*: a report in hand and one to come
(`MaxReports`), a packet between them (`MaxClock`), and two keys (`MaxKeys`) let
a clearing, a print or both fall between any two steps of two reports; two
connections share an outer address, and the inner addresses are at both ends of
those of interest. A third connection of the same host, begun by the packet, is
enough for two lines to change places when the second report is merged while they
are sorted and printed.

Deadlock is not checked: the program may have ended (`exit`, a memory error),
the startup ends when the options are made, the collector may have been left, a
resolver that nobody calls rests, and the finite clocks and byte counts of
`History` and the two frames of `Capture` come to their bound.

### Fairness

Weak fairness for each thread inside the code (the system's scheduler), for
packets (an interface with traffic), for the clock and for the library's
confirmations over a link that is up. Strong fairness for a successful
connection attempt: a broker tried again and again accepts once. None for keys,
data requests, losses and quitting, which may never happen, and none for which
of several waiting threads gets the mutex: `pthread_mutex_lock` promises none.
`EveryMessageSettles` and `Reconnects` therefore speak of one ticking thread.

In `Capture` the program goes on (`SetUp`) and a timer that is on runs out
(`Timer`); the driver may be silent for ever. In `Resolver` every thread goes on
and a look-up comes to its end, for the system's resolver gives up at some time;
nobody has to call `resolve`, and no wait has to return of itself.

### What was found

The violated properties quote the repository; each is a finding in
`PROJECT.json`. Besides, met while modelling and not given a run:

- `iftop.c:365, 392`: the index of the loop over `block_protocols` is not
  initialised. What it skips is a free choice in `Packets`.
- `iftop.c:502-511`: the port list is in the `else` of the dynamic port test,
  so a listed port is counted when the other one is dynamic.
- `iftop.c:432`: `IN_MULTICAST` gets an address in network order.
- `iftop.c:161, 198`: `<` and `>`: a silent connection with exactly `-T` bytes
  is neither dropped nor approved.
- `mqtt.c:125`: `connlost()` frees `data` because a report is PENDING, beside a
  tick that is filling, sending or settling it; the same missing mutex as in
  `PublisherReconnect`.
- `options.c:455-462`: `-M` has no `break` and copies its minutes over the
  broker's address (`Minutes` in `Startup`).
- `options.c:300`: `options_args.txt` is copied into 255 bytes, 64 for each word
  and 32 words, unchecked.
- `iftop.c:385`: IPv6 is kept out of `handle_ip_packet` by the ethernet handler
  alone; on other links an IPv6 packet is read as IPv4.
- `iftop.c:614`: in a source-routed token ring frame the bit that says so is part
  of the source address: what the machine sends is not known to be its own, and
  the two directions of a conversation may end up in two records.
  `ConversationIsOneRecord` leaves such frames out.
- `iftop.c:854-906`: the filter is installed after the capture is open; frames
  from before may be any.
- `addrs_ioctl.c:146`: whatever is not the first IPv4 address is read as IPv6, a
  second IPv4 address of the interface among them (`AddressIsOwn`).
- `addrs_dlpi.c:86`: of "/dev/ge0" it makes "/dev//dev/ge", for which the comment
  (76) has "/dev/ge"; the address then comes from nowhere.
- `addrs_dlpi.c:161`: the address is copied with the bytes of the SAP, eight into
  six.
- `resolver.c:415`: a worker waits before it looks at the ring, so that a signal
  from before is lost, and the address waits for the next one (`early` in
  `AddressTried`).
- `resolver.c:502`: an address met with the ring full keeps its number for good.
- `ns_hash.c:18`: 16 of 24 bytes are compared: IPv6 addresses of one /64 share a
  text, that of the first.
- `resolver.c:325`: built to fork, the parent writes 16 bytes and the child waits
  for 24: no name is ever found.
- `resolver.c:385`: when `fork()` fails its -1 is kept as the worker's process, and
  the next look-up kills that: every process it may.
- `resolver.c:274-278`: built with ares, a channel that could not be initialised is
  used by the next look-up.
- `mqtt.c:90`: where `long` has 8 bytes a record has 54, the collector's format 38.
- `mqtt.c:125`: a reconnection frees `data` and forgets `out`, over which the next
  report's is written (264).
- `iftop.c:462-481`, `mqtt_client.py:190-199`: with `-F 172.16.0.0/16` a record's
  source is the inner host (`FilterSeparates`), which the collector takes for
  the outer one; it then keeps none of them.
- `mqtt_client.py:389`: a clearing in the middle of `save_data` may end the
  receiving thread with a KeyError, as does (`mqtt.c:277`) a report that was
  cut off; a new host during `process` (229) ends the program.
- `iftop.c:141`: with `-d` above `CHECK_AFTER_N_SECS + 1` a connection in use is
  dropped when it is that old, by whatever tick; of the capture thread's own ticks
  `RecentSafe` proves that this is the only way.
- `iftop.c:141`, `options.c:255`: the usage text says that `-d` drops a
  connection without packets "within -d sec after the connection has been
  created"; the code drops one older than `CHECK_AFTER_N_SECS` whose last packet
  came less than `-d` seconds after its creation, however many came before.
- `iftop.c:188-193`: a record is tested and then deleted while the accounting may
  still update it, the cause of `HistoryRace` at another place: a tick by key `u` or a
  data request may drop a record that has had a packet in this very second, or that
  has just come to satisfy the criteria of 197-198 (`QualifiedKept`). `RecentKept`
  therefore speaks of the capture thread's own ticks, which no packet can interrupt,
  and `QualifiedSafe` of that thread alone.
- `mqtt_client.py:270, 293-294`: a report that is merged while a host is sorted and
  printed may leave the lines out of order; what is left of the order is
  `PrintedInOrder`.
- `hash.c:18-26`: with a key `u` or a data request, the capture thread's
  insertion may race with a deletion in the same chain and be lost.
- `options.c:343`: a comment says that the file of arguments is applied "first";
  the switches of the command line are not read at all when there is one.
- `options.c:443`: `-Z` does not clear its array, as `-P` does: a second, shorter
  list leaves the rest of the first.
- `options.c:596-612`: a prefix length above 32 is reported as invalid and the
  filter turned on all the same, with the mask it had.
- `options.c:669-673`: a prefix below 16 for IPv6 leaves the bits of the default
  mask ffff:: after it.
- `cfgfile.c:24-47`: `screen-filter` is not among the file's directives, though
  `options_make` looks for it.
- `mqtt.h:22`: the comments say 10 minutes, the constant 120 seconds.

## 4. Proofs

Seven modules of theorems, checked by TLAPS for every value of the constants, from
the named assumptions of the modules (which TLC evaluates on every run), and an
eighth, `Induction`, of lemmas they share. Every invariant and every action property
of the passing runs is a theorem; what is left to TLC alone is at the end of this
section.

| Theorem | Says |
|---|---|
| `PublisherProofs!TypeCorrect` | types |
| `PublisherProofs!ConstructSafe` | `[]ConstructWhenIdle` for any threads, losses, quitting |
| `PublisherProofs!ReadySafe` | `[]ReadyBelongsToTick`, likewise |
| `PublisherProofs!MemoryIsSafe` | `[]MemorySafe`, if the capture thread alone ticks, no connection is lost, nobody quits |
| `PublisherProofs!InFlightSafe` | `[]InFlightIsPending`, likewise |
| `PublisherProofs!SettledSafe` | `[]SettledMeansSent`, likewise |
| `PublisherProofs!ReportsInOrder` | `Promise!InOrder`, the safety of `OneReportAtATime`, likewise |
| `HistoryProofs!TypeCorrect` | types |
| `HistoryProofs!ApprovedSafe` | `[]ApprovedQualify`, after each single update, for any ticking threads and options |
| `HistoryProofs!ApprovedPermanent` | `ApprovedStay` |
| `HistoryProofs!RecentSafe` | `RecentKept` (the capture thread's own ticks), whoever else ticks, if `-d` is at most `CHECK_AFTER_N_SECS + 1` and `-t` not negative |
| `HistoryProofs!QualifiedSafe` | `QualifiedKept`, if the capture thread alone ticks |
| `HistoryProofs!AccountingSafe` | `[]RecordIsInTable`, if the capture thread alone ticks |
| `HistoryProofs!TotalsSafe` | `[]TotalsConserved`, whoever ticks and at whatever step of the accounting |
| `HashTableProofs!RanksInvariant` | the inductive invariant, if the capture thread alone ticks, for any hash function, keys and nodes |
| `HashTableProofs!NoFreedUseHolds` | `[]NoFreedUse`, likewise |
| `HashTableProofs!EachVisitedOnceHolds` | `[]EachVisitedOnce`, likewise |
| `HashTableProofs!ReportFitsHolds` | `[]ReportFits`, likewise |
| `HashTableProofs!ChainsSoundHolds` | `[]ChainsSound`, likewise |
| `HashTableProofs!TableIsMapHolds` | `TableIsMap`, likewise: nodes and chains implement `KeyedRecords` |
| `CaptureProofs!NoAlarmLeft` | `NoLateAlarm`, whatever the driver answers |
| `CaptureProofs!FilterSafe` | `[]FilterSeparates` for any frames, net and mask |
| `CaptureProofs!ConversationSafe` | `[]ConversationIsOneRecord`, likewise, on every kind of link |
| `CaptureProofs!LinkSafe` | `[]LinkAgrees`, likewise |
| `CaptureProofs!AddressesOwn` | `[]AddressIsOwn`, for any machine and any list of addresses |
| `CaptureProofs!CaptureTyped` | types |
| `StartupProofs!FilterFitsMask` | `[]NetIsMasked` for any texts and any order of settings |
| `StartupProofs!PortsOfLastList` | `[]PortsAsAsked` for any number and length of lists |
| `StartupProofs!KeysFound` | `[]EveryKeyFound` for any number of settings and any order of the keys |
| `StartupProofs!SwitchesPrecede` | `[]Precedence`, likewise |
| `StartupProofs!StartupTyped` | types |
| `CollectorProofs!EndsOfClearing` | `[]DiesOfClearing` for any boxes, reports, keys and settings |
| `CollectorProofs!OneLineEach` | `[]OneEntryEach`, likewise |
| `CollectorProofs!TableHoldsReports` | `[]TableIsReports`, likewise |
| `CollectorProofs!OutputInOrder` | `[]PrintedInOrder`, likewise, for any database of places, with reports merged during the print |
| `CollectorProofs!PlaceFound` | `getIpAddr` finds what `PlaceOf` says, for any database and address |
| `CollectorProofs!CollectorTyped` | types |
| `ResolverProofs!TypeCorrect` | types |
| `ResolverProofs!LookedUpOnce` | `[]ResolvedOnce` for any workers, callers, addresses and length of the ring |
| `ResolverProofs!TextsStayLive` | `[]TextsLive`, likewise |

*Induction.* The library states induction for an operator, which the provers cannot
instantiate; stated for a set of numbers it is first-order (`NatInductive`, from
`NatLessThanWellFounded`). From it come what the proofs below need of data: that a
function iterated n times exists (`Iterate`), that the function the folds of the
community modules choose exists (`FoldExists`, `UpwardsExists`), that a sum over a
finite set does not depend on the order and splits (`SumParts`, `SumChanged`,
`SumLonger`), and that a finite set has an order for every total comparison
(`OrderExists`).

*Publisher.* `ConstructWhenIdle` is not inductive: it needs that between the
test of `status` and its assignment no other thread can make it PENDING. The
invariant is `TypeOK /\ LockInv /\ SafeInv`. `LockInv` says that a thread
inside a tick holds the mutex (`InsideHolds`), that `connlost()`'s threads run
nothing else (`LossesOutside`), and that threads that do not tick want no mutex
(`TickersOnly`). The others may write `status`, but never PENDING.

*Publisher, one ticking thread.* With `Alone` (an assumption that is needed: see
`PublisherRaces`, and `connlost()` in section 3) `AloneInv` is inductive. It says where the thread may be in each phase of the report
(`NoReport`, `Built`, `Published`, `Delivered`), which buffers are then live,
which token is in flight, and (`ConnectionInv`) that a report exists only while
the connection is on: that is why `reset` and `drop`, the two other places that
free a buffer, are not reached. The phases are those of `Report`, so the same
invariant gives the refinement (`PhaseStep`). `AloneInv` was checked with TLC
before it was proved.

*History.* `ApprovedQualify` speaks of records that other threads update: an
update must not make the age smaller. `Past` supplies it: times noted lie in
the past, and the packet at hand is later than every update so far, because
only the capture thread updates. `RotationInv` says where a rotation stands: its
thread is inside `tick`, the record it has in hand is in the table and not
approved, or is the one `unlinked`; and if the thread is the capture thread, which
cannot do the accounting meanwhile, what it found of the record it is about to
delete still holds (`OwnVerdict`). `IInv` is `TypeOK /\ Past /\ RotationInv /\
ApprovedQualify`; `ApprovedStay` follows from it step by step, and so do
`RecentKept` and, if no other thread ticks, `QualifiedKept`, whose one step is the
deletion. `TotalsConserved` holds at every step between the two additions because it
counts the bytes that the packet at hand has brought to its record and not yet to
the totals (`Pending`); its proof needs only that the tables are finite (`SumInv`):
a deletion moves one term of the sum to `unlinked`, `free` moves it to `dropped`, the
accounting changes one term in whichever table the record is.

*HashTable.* With `Alone`, the capture thread alone ticks (a second thread loses
insertions, see section 3). What a chain is cannot be said link by link without an
induction at every step. Instead each node has a rank, its turn of insertion: a
bucket leads to its node of the highest rank, a node to the one of the next lower
rank (`Shape`), and these two facts survive every assignment of `hash_insert` and
`hash_delete`. `WalkInv`, `DeleteInv` and `FindInv` say where a walk, a deletion and a search
stand in that order, `Visited` that what a rotation has seen and has still to see
(`Todo`) are the keys there were. Ranks are not in the model: `IInv` says that
there are some. That the chains `Chain` collects are those nodes is one induction, over the length
of the way, at the end.

*Capture.* `AlarmInv`: the timer runs only while an acknowledgement is awaited,
and that only in the stages of the talk with the driver; what stops the timer is
therefore on every way out of them. The packets' three theorems rest on
`SeenInv`, which says only that what has been captured is a frame and perhaps the
answer to it, each with the verdict of the handler. The rest is a proof about
operators: two answers to a frame are compared case by case (`Unfiltered` by the
direction the link layer gives and by whose addresses they are, `Filtered` by the
net). It needs that one of two different addresses is below the other, which
`OctetsAssumption` gives, and that nobody sends a frame to itself
(`FramesAssumption`). `AddressIsOwn` is an invariant of the walk over the list of
addresses (`FoundBy`): the IPv4 address it holds is the first of the chosen interface,
so that the copy into the options (`OwnInv`) is of that interface.

*Startup.* Before `options_make` the filters are the default ones
(`FiltersInv`), and each way through the two functions that read a filter leaves
it off or masked. `PortsInv` adds to `PortsAsAsked` that the list has its length
and that no -P comes before the forced settings. The tree of settings is a function
from ways to nodes; the way of a key (`IsWay`) goes left or right at each node, and
in a tree (`IsTree`) each node is on the way of its own key (`OnWay`). An insertion adds
one node at the end of the way of a new key, and moves no way of another
(`Grown`); the depth of the tree (`Within`) bounds the inductions. `Meaning` says
that what the tree finds is a function from directives to texts, `SettingsInv` that
this function is what was asked for and, where nothing was, what was written; the
rest of `Precedence` is about `options_make` alone.

*Collector.* `ListThere`: while the table is not cleared, a record that is being
saved has its list; so no lookup fails but after a clearing. `OneInv`: when a
record is to be appended its outer address is not in the list, unless the list is
gone. No other thread ever adds to a list; a clearing makes both claims about an
empty table. `TableIsReports` speaks of the times between two messages; `SumsInv`
says what it becomes in the middle of one: the table has what the messages handled
have brought and the part of the one at hand that is done (`Part`, and `Half` for a
merge that is half done), exactly unless a clearing came between. `PlaceInv` says that what the receiving thread holds is
still where it found it. For `PrintedInOrder`, `OrderInv` follows the print from one
reading of the bytes to the next (`WeighOK`, `RecvOK`, `LinesOK`, `LineOK`): what has
been read of a connection is at most what it has now, for figures only grow and,
while the main thread prints, no table is cleared (`TableGrows`); and lines are
made in the order of what was read first. It needs three things of
data: that `key_compare()` orders the addresses of the net, of which the product
of a difference and the net's size is the hard part (`Weighed`); that the
orders `sorted()` chooses exist; and that the search of the database brackets the
address at every turn (`SearchBrackets`), after which only the range it ends at can
hold it (`OnlyRange`).

*Resolver.* `ResolvedOnce` is stated of the ring's slots between `tail` and `head`
and of what the workers have in hand. Taking moves one address from the first to
the second (`Once` lemmas), adding puts in one that is not yet in the cache and
therefore in neither; that the slots between are the ones before and after the
step but for one is arithmetic of a ring that wraps. `TextsLive` needs it: a text
is replaced by the one worker that has its address in hand, and what it replaces
is a number (`KeptUnderKey`, `FreedReplaced`).

*Assumptions.* Besides the kinds of the constants: memory is finite and `NULL` is no
node (`NodesAssumption`); texts are those of the known directives, and net filters
say what a parser can return (`TextsAssumption`, `NetsAssumption`); the machine's list
of addresses is finite and names what the interfaces have (`WorldsAssumption`, stated of
the first IPv4 address of each, since `SIOCGIFADDR` answers with that one); a box
began to count before the collector (`BegunAssumption`); a database has ascending
ranges, the last of which is the version's own (`SettingsAssumption`,
`IsDatabase`, as `IPLocator` reads it). `Alone` is no assumption but a hypothesis of
the theorems that have it.

*Checked by TLC only*: everything with fairness (`EveryMessageSettles`,
`Reconnects`, `SetUpEnds`, `AddressTried`, and the fairness in
`OneReportAtATime`), for liveness and `ENABLED` are out of the prover's reach. So
are `RECURSIVE` operators and those of the libraries it has no definition for
(`SelectSeq`, `SortSeq`, `@@`), which the models proved about do without.

## 5. Not modelled

*Called by nothing.* `serv_hash.c`, `sorted_list.c`, `vector.c`, `edline.c`,
`screenfilter.c`, `threadprof.c`, the communication info server with
`read_target_ip.c`, `ui_common.c` and the rest of `iftop_api.c`, `hash_delete_all`,
the requests of `dlcommon.c` other than the three. They are sequential code or
share state only with each other, and the program that runs never reaches them.
(The resolver, as unreachable, is modelled for its threads.)

*Layouts and texts.* The bytes of a record and of a header (offsets, lengths,
frames cut short by the snapshot length); the reading and splitting of
`options_args.txt` and of a configuration line; `max-bandwidth`; what is logged.

*Libraries.* `pcap`, `zlib` (a report that does not compress is cut off,
`mqtt.c:277`, which the collector's model has as an input), the Paho client
beyond what section 2 says of it, the system's resolver.

*The end.* `hash_destroy` at the end of `main`, beside a capture thread that is
cancelled but not joined: what a cancelled thread still does between two
cancellation points is up to the C library.

*The rest.* `mqtt_client_mysql.py`, the same program as the collector with host
names from a database; the redirections in the places' database; headers, build
files and manuals.

## 6. What could be added

1. `History` over `KeyedRecords` in one state space, with `TableIsMap` as the
   step between them, instead of the argument in section 2.
2. Runs are kept few: a component that is added joins a run of its kind, and two
   violated properties of one cause are kept as one.
