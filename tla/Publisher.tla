----------------------------- MODULE Publisher -----------------------------
(***************************************************************************)
(* The reporting half of iftop-dotqoo: tick() in iftop.c and the whole of  *)
(* mqtt.c.  A tick builds a report of the approved connections, keeps the  *)
(* MQTT connection alive and publishes the report; the report's buffers    *)
(* are freed when the broker's acknowledgement has been seen.              *)
(*                                                                         *)
(* Four kinds of thread run this code:                                     *)
(*   "capture"   packet_loop: one tick(0, now) per captured IP packet;     *)
(*   "main"      loop(): a tick(0, now) per key 'u', then the shutdown;    *)
(*   "callback"  the MQTT library's receiving thread: delivered(), and     *)
(*               msgarrvd(), which calls tick(1, now);                     *)
(*   Losses      the threads on which the library calls connlost().        *)
(* tick() holds tick_mutex, except for its last call, check_status().      *)
(* connlost() and destory_MQTT() never take it.                            *)
(*                                                                         *)
(* Time is kept as the set `due` of intervals that have run out: the code  *)
(* only ever asks whether one has, and then restarts it.                   *)
(*                                                                         *)
(* A definition that stands right above another, has its parameters and is *)
(* used by nothing (MutexForgotten above MutexFree) is a slip the code     *)
(* could have had: the properties must be able to tell it from the code.   *)
(***************************************************************************)
EXTENDS Integers, FiniteSets

CONSTANTS
    Tickers,   \* the threads that call tick()
    Losses,    \* threads for connlost(): as many losses can be handled at once
    Tokens,    \* delivery tokens the library hands out
    CanQuit    \* whether the user may quit

Fixed == {"capture", "main", "callback"}

ASSUME TickersAssumption == Tickers \subseteq Fixed
ASSUME LossesAssumption == Losses \cap (Fixed \cup {"none"}) = {}
ASSUME TokensAssumption == Tokens \subseteq Nat \ {0}
ASSUME CanQuitAssumption == CanQuit \in BOOLEAN

Threads == Tickers \cup Losses \cup {"main", "callback"}

Intervals == {"resolution", "send", "reconnect"}

VARIABLES
    pc,             \* the next statement of each thread
    mutex,          \* holder of tick_mutex, or "none"
    msg_ready,      \* a report has been built by this tick
    due,            \* intervals that have run out
    data, out,      \* the report and its compressed form: "null", "live", "freed"
    status,         \* "INIT", "PENDING", "COMPLETE"
    connection,     \* what the program believes: "ON", "OFF"
    token,          \* token of the last publication, -1 before the first
    deliveredtoken, \* last token confirmed and not yet consumed, 0 for none
    quitting,       \* main has left loop() and cancelled the capture thread
    link,           \* the library's connection to the broker: "up", "down"
    inflight,       \* tokens published and not yet confirmed
    stage,          \* history: what happened to the report built last
    faults          \* history: memory errors committed

memory == <<data, out, faults>>
broker == <<link, inflight>>
tokens == <<token, deliveredtoken>>
vars == <<pc, mutex, msg_ready, due, memory, status, connection, tokens,
          quitting, broker, stage>>

Labels == {"idle", "lock", "construct", "alloc", "mark", "compress", "check",
           "discard", "reset", "connect", "subscribe", "send", "drop",
           "clear", "publish", "unlock", "status", "settle", "complete",
           "lost", "tried", "destroy", "disconnect", "exit", "dead"}

TypeOK ==
    /\ pc \in [Threads -> Labels]
    /\ mutex \in Threads \cup {"none"}
    /\ msg_ready \in BOOLEAN
    /\ due \subseteq Intervals
    /\ data \in {"null", "live", "freed"}
    /\ out \in {"null", "live", "freed"}
    /\ status \in {"INIT", "PENDING", "COMPLETE"}
    /\ connection \in {"ON", "OFF"}
    /\ token \in Tokens \cup {-1}
    /\ deliveredtoken \in Tokens \cup {0}
    /\ quitting \in BOOLEAN
    /\ link \in {"up", "down"}
    /\ inflight \subseteq Tokens
    /\ stage \in {"none", "built", "published", "delivered"}
    /\ faults \subseteq {"doubleFree", "useAfterFree", "leak"}

(* The state init_MQTT() leaves: its own connect_and_subscribe() has either *)
(* succeeded or failed, and last_try and last_timestamp have been set.      *)
Init ==
    /\ pc = [t \in Threads |-> "idle"]
    /\ mutex = "none"
    /\ msg_ready = FALSE
    /\ due = {}
    /\ data = "null" /\ out = "null"
    /\ status = "INIT"
    /\ \/ connection = "ON" /\ link = "up"
       \/ connection = "OFF" /\ link = "down"
    /\ token = -1
    /\ deliveredtoken = 0
    /\ quitting = FALSE
    /\ inflight = {}
    /\ stage = "none"
    /\ faults = {}

-----------------------------------------------------------------------------
Goto(t, from, to) == pc[t] = from /\ pc' = [pc EXCEPT ![t] = to]

Freed(p) == IF p = "null" THEN "null" ELSE "freed"

FreeFault(p) == IF p = "freed" THEN {"doubleFree"} ELSE {}

AllocFault(p) == IF p = "live" THEN {"leak"} ELSE {}

FreeBoth ==
    /\ data' = Freed(data)
    /\ out' = Freed(out)
    /\ faults' = faults \cup FreeFault(data) \cup FreeFault(out)

(* Where a thread goes on when check_status() returns: main, once quitting, *)
(* is in the loop of destory_MQTT(); the others have finished their tick.   *)
AfterStatus(t) == IF t = "main" /\ quitting THEN "destroy" ELSE "idle"

(* Where a thread goes on when connect_and_subscribe() returns: connlost()  *)
(* returns to the library, a tick goes on to send.                          *)
AfterConnect(t) == IF t \in Losses THEN "idle" ELSE "send"

(* A double free or a use after free ends the modelled behaviour, and so    *)
(* does the return of main().                                               *)
Running == faults \subseteq {"leak"} /\ pc["main"] # "exit"

-----------------------------------------------------------------------------
(* tick(), iftop.c *)

(* A captured packet or a key 'u'; a request from the broker, which only a  *)
(* connection that is up can bring.                                         *)
Call(t) ==
    /\ t \in Tickers
    /\ t = "main" => ~quitting
    /\ t = "callback" => link = "up"
    /\ Goto(t, "idle", "lock")
    /\ UNCHANGED <<mutex, msg_ready, due, memory, status, connection, tokens,
                   quitting, broker, stage>>

MutexForgotten == TRUE
MutexFree == mutex = "none"

(* Takes the mutex and decides what this tick does.  The restarted timers   *)
(* run from the tick's own t, so they are restarted here.                   *)
Lock(t) ==
    /\ MutexFree
    /\ mutex' = t
    /\ msg_ready' = FALSE
    /\ LET request == t = "callback"
       IN  \/ /\ ~request /\ "resolution" \notin due
              /\ Goto(t, "lock", "unlock")
              /\ UNCHANGED due
           \/ /\ request \/ "resolution" \in due
              /\ request \/ "send" \in due
              /\ Goto(t, "lock", "construct")
              /\ due' = due \ {"resolution", "send"}
           \/ /\ ~request /\ "resolution" \in due /\ "send" \notin due
              /\ Goto(t, "lock", "check")
              /\ due' = due \ {"resolution"}
    /\ UNCHANGED <<memory, status, connection, tokens, quitting, broker, stage>>

CanConstructAnyway == connection = "ON"
CanConstruct == status # "PENDING" /\ connection = "ON"

(* construct_MQTT_msg() refuses while a report is pending, while the        *)
(* connection is off, and when no connection is approved (n = 0).           *)
Construct(t) ==
    /\ \/ Goto(t, "construct", "check")
       \/ CanConstruct /\ Goto(t, "construct", "alloc")
    /\ UNCHANGED <<mutex, msg_ready, due, memory, status, connection, tokens,
                   quitting, broker, stage>>

Alloc(t) ==
    /\ Goto(t, "alloc", "mark")
    /\ data' = "live"
    /\ faults' = faults \cup AllocFault(data)
    /\ UNCHANGED <<mutex, msg_ready, due, out, status, connection, tokens,
                   quitting, broker, stage>>

Mark(t) ==
    /\ Goto(t, "mark", "compress")
    /\ status' = "PENDING"
    /\ stage' = "built"
    /\ UNCHANGED <<mutex, msg_ready, due, memory, connection, tokens, quitting,
                   broker>>

(* Fills data with the records and deflates it into a new buffer.           *)
Compress(t) ==
    /\ Goto(t, "compress", "check")
    /\ out' = "live"
    /\ faults' = faults \cup AllocFault(out)
                        \cup (IF data = "live" THEN {} ELSE {"useAfterFree"})
    /\ msg_ready' = TRUE
    /\ UNCHANGED <<mutex, due, data, status, connection, tokens, quitting,
                   broker, stage>>

ReconnectWhenOn == connection = "ON" /\ "reconnect" \in due
ReconnectDue == connection = "OFF" /\ "reconnect" \in due

(* check_MQTT_connection() *)
Check(t) ==
    /\ \/ /\ ReconnectDue
          /\ Goto(t, "check", "discard")
          /\ due' = due \ {"reconnect"}
       \/ /\ ~ReconnectDue
          /\ Goto(t, "check", "send")
          /\ UNCHANGED due
    /\ UNCHANGED <<mutex, msg_ready, memory, status, connection, tokens,
                   quitting, broker, stage>>

SendKeepsReady(t) ==
    /\ \/ msg_ready /\ connection = "OFF" /\ Goto(t, "send", "drop")
       \/ msg_ready /\ connection = "ON" /\ Goto(t, "send", "clear")
       \/ ~msg_ready /\ Goto(t, "send", "unlock")
    /\ UNCHANGED <<mutex, msg_ready, due, memory, status, connection, tokens,
                   quitting, broker, stage>>

Send(t) ==
    /\ \/ msg_ready /\ connection = "OFF" /\ Goto(t, "send", "drop")
       \/ msg_ready /\ connection = "ON" /\ Goto(t, "send", "clear")
       \/ ~msg_ready /\ Goto(t, "send", "unlock")
    /\ msg_ready' = FALSE
    /\ UNCHANGED <<mutex, due, memory, status, connection, tokens, quitting,
                   broker, stage>>

Unlock(t) ==
    /\ Goto(t, "unlock", "status")
    /\ mutex' = "none"
    /\ UNCHANGED <<msg_ready, due, memory, status, connection, tokens,
                   quitting, broker, stage>>

-----------------------------------------------------------------------------
(* connect_and_subscribe(), called by a tick and by connlost() *)

Discard(t) ==
    /\ \/ status = "PENDING" /\ Goto(t, "discard", "reset")
       \/ status # "PENDING" /\ Goto(t, "discard", "connect")
    /\ UNCHANGED <<mutex, msg_ready, due, memory, status, connection, tokens,
                   quitting, broker, stage>>

(* Frees the report; the compressed buffer is left alone.                   *)
Reset(t) ==
    /\ Goto(t, "reset", "connect")
    /\ data' = Freed(data)
    /\ faults' = faults \cup FreeFault(data)
    /\ status' = "INIT"
    /\ UNCHANGED <<mutex, msg_ready, due, out, connection, tokens, quitting,
                   broker, stage>>

(* A connection starts a clean session: nothing stays in flight.            *)
ConnectOk(t) ==
    /\ Goto(t, "connect", "subscribe")
    /\ link' = "up"
    /\ inflight' = {}
    /\ UNCHANGED <<mutex, msg_ready, due, memory, status, connection, tokens,
                   quitting, stage>>

ConnectFail(t) ==
    /\ pc[t] = "connect"
    /\ pc' = [pc EXCEPT ![t] = AfterConnect(t)]
    /\ UNCHANGED <<mutex, msg_ready, due, memory, status, connection, tokens,
                   quitting, broker, stage>>

(* Both subscriptions, whose return codes are ignored.                      *)
Subscribe(t) ==
    /\ pc[t] = "subscribe"
    /\ pc' = [pc EXCEPT ![t] = AfterConnect(t)]
    /\ connection' = "ON"
    /\ UNCHANGED <<mutex, msg_ready, due, memory, status, tokens, quitting,
                   broker, stage>>

-----------------------------------------------------------------------------
(* send_MQTT_msg() *)

Drop(t) ==
    /\ Goto(t, "drop", "unlock")
    /\ status' = "COMPLETE"
    /\ FreeBoth
    /\ UNCHANGED <<mutex, msg_ready, due, connection, tokens, quitting, broker,
                   stage>>

ClearToMinusOne(t) ==
    /\ Goto(t, "clear", "publish")
    /\ deliveredtoken' = -1
    /\ UNCHANGED <<mutex, msg_ready, due, memory, status, connection, token,
                   quitting, broker, stage>>

Clear(t) ==
    /\ Goto(t, "clear", "publish")
    /\ deliveredtoken' = 0
    /\ UNCHANGED <<mutex, msg_ready, due, memory, status, connection, token,
                   quitting, broker, stage>>

(* MQTTClient_publishMessage() copies the payload and hands out a token     *)
(* that is not in use; with the link down it fails and stores no token, and *)
(* it may refuse another message while one is in flight.  Its return code   *)
(* is ignored.                                                              *)
Publish(t) ==
    /\ Goto(t, "publish", "unlock")
    /\ faults' = faults \cup (IF out = "live" THEN {} ELSE {"useAfterFree"})
    /\ \/ /\ link = "up"
          /\ \E tok \in Tokens \ (inflight \cup {token}) :
                /\ token' = tok
                /\ inflight' = inflight \cup {tok}
          /\ stage' = "published"
       \/ /\ link = "down" \/ inflight # {}
          /\ UNCHANGED <<token, inflight, stage>>
    /\ UNCHANGED <<mutex, msg_ready, due, data, out, status, connection,
                   deliveredtoken, quitting, link>>

-----------------------------------------------------------------------------
(* check_status(), called after a tick has released the mutex and by the    *)
(* loop of destory_MQTT()                                                   *)

ConfirmedWhenPending == status = "PENDING"
Confirmed == deliveredtoken = token

Status(t) ==
    /\ pc[t] = "status"
    /\ pc' = [pc EXCEPT ![t] =
                 IF Confirmed THEN "settle" ELSE AfterStatus(t)]
    /\ UNCHANGED <<mutex, msg_ready, due, memory, status, connection, tokens,
                   quitting, broker, stage>>

SettleKeepsToken(t) ==
    /\ Goto(t, "settle", "complete")
    /\ FreeBoth
    /\ UNCHANGED <<mutex, msg_ready, due, status, connection, tokens, quitting,
                   broker, stage>>

Settle(t) ==
    /\ Goto(t, "settle", "complete")
    /\ deliveredtoken' = 0
    /\ FreeBoth
    /\ UNCHANGED <<mutex, msg_ready, due, status, connection, token, quitting,
                   broker, stage>>

CompleteForgotten(t) ==
    /\ pc[t] = "complete"
    /\ pc' = [pc EXCEPT ![t] = AfterStatus(t)]
    /\ UNCHANGED <<mutex, msg_ready, due, memory, status, connection, tokens,
                   quitting, broker, stage>>

Complete(t) ==
    /\ pc[t] = "complete"
    /\ pc' = [pc EXCEPT ![t] = AfterStatus(t)]
    /\ status' = "COMPLETE"
    /\ UNCHANGED <<mutex, msg_ready, due, memory, connection, tokens, quitting,
                   broker, stage>>

-----------------------------------------------------------------------------
(* The library's callbacks *)

(* The link breaks and the library starts a thread for connlost().          *)
Lose(l) ==
    /\ link = "up"
    /\ Goto(l, "idle", "lost")
    /\ link' = "down"
    /\ inflight' = {}
    /\ UNCHANGED <<mutex, msg_ready, due, memory, status, connection, tokens,
                   quitting, stage>>

Lost(l) ==
    /\ Goto(l, "lost", "tried")
    /\ connection' = "OFF"
    /\ UNCHANGED <<mutex, msg_ready, due, memory, status, tokens, quitting,
                   broker, stage>>

Tried(l) ==
    /\ Goto(l, "tried", "discard")
    /\ due' = due \ {"reconnect"}
    /\ UNCHANGED <<mutex, msg_ready, memory, status, connection, tokens,
                   quitting, broker, stage>>

(* delivered(): on the receiving thread, so not while that one is in tick() *)
Deliver(tok) ==
    /\ tok \in inflight
    /\ link = "up"
    /\ pc["callback"] = "idle"
    /\ deliveredtoken' = tok
    /\ inflight' = inflight \ {tok}
    /\ stage' = IF tok = token /\ stage = "published" THEN "delivered" ELSE stage
    /\ UNCHANGED <<pc, mutex, msg_ready, due, memory, status, connection,
                   token, quitting, link>>

Elapse(i) ==
    /\ i \notin due
    /\ due' = due \cup {i}
    /\ UNCHANGED <<pc, mutex, msg_ready, memory, status, connection, tokens,
                   quitting, broker, stage>>

-----------------------------------------------------------------------------
(* The end of main(): pthread_cancel(), then destory_MQTT() *)

Quit ==
    /\ CanQuit
    /\ Goto("main", "idle", "destroy")
    /\ quitting' = TRUE
    /\ UNCHANGED <<mutex, msg_ready, due, memory, status, connection, tokens,
                   broker, stage>>

(* Labels before which the capture thread prints or makes a blocking system *)
(* call: where deferred cancellation takes effect, mutex or no mutex.       *)
CancelPoints == {"idle", "check", "connect", "subscribe", "publish", "unlock"}

Cancel ==
    /\ quitting
    /\ "capture" \in Threads
    /\ pc["capture"] \in CancelPoints
    /\ pc' = [pc EXCEPT !["capture"] = "dead"]
    /\ UNCHANGED <<mutex, msg_ready, due, memory, status, connection, tokens,
                   quitting, broker, stage>>

Destroy ==
    /\ \/ status = "PENDING" /\ Goto("main", "destroy", "status")
       \/ status # "PENDING" /\ Goto("main", "destroy", "disconnect")
    /\ UNCHANGED <<mutex, msg_ready, due, memory, status, connection, tokens,
                   quitting, broker, stage>>

Disconnect ==
    /\ Goto("main", "disconnect", "exit")
    /\ link' = "down"
    /\ inflight' = {}
    /\ UNCHANGED <<mutex, msg_ready, due, memory, status, connection, tokens,
                   quitting, stage>>

-----------------------------------------------------------------------------
Locked(t) ==
    \/ Construct(t) \/ Alloc(t) \/ Mark(t) \/ Compress(t) \/ Check(t)
    \/ Send(t) \/ Drop(t) \/ Clear(t) \/ Publish(t) \/ Unlock(t)

Connect(t) ==
    \/ Discard(t) \/ Reset(t) \/ ConnectOk(t) \/ ConnectFail(t) \/ Subscribe(t)

CheckStatus(t) == Status(t) \/ Settle(t) \/ Complete(t)

ConnLost(l) == Lost(l) \/ Tried(l)

Next ==
    /\ Running
    /\ \/ \E t \in Threads :
             \/ Call(t) \/ Lock(t) \/ Locked(t) \/ Connect(t) \/ CheckStatus(t)
       \/ \E l \in Losses : Lose(l) \/ ConnLost(l)
       \/ \E tok \in Tokens : Deliver(tok)
       \/ \E i \in Intervals : Elapse(i)
       \/ Quit \/ Cancel \/ Destroy \/ Disconnect

Spec == Init /\ [][Next]_vars

(* Threads run, packets keep arriving, clocks advance, the library confirms  *)
(* what it holds, and a broker that is tried again and again accepts once.   *)
(* No fairness for keys, requests, losses or quitting, nor between threads   *)
(* that contend for the mutex.                                               *)
Fairness ==
    /\ \A t \in Threads :
          /\ WF_vars(Running /\ Lock(t))
          /\ WF_vars(Running /\ Locked(t))
          /\ WF_vars(Running /\ Connect(t))
          /\ SF_vars(Running /\ ConnectOk(t))
          /\ WF_vars(Running /\ CheckStatus(t))
    /\ WF_vars(Running /\ Call("capture"))
    /\ \A l \in Losses : WF_vars(Running /\ ConnLost(l))
    /\ \A tok \in Tokens : WF_vars(Running /\ Deliver(tok))
    /\ \A i \in Intervals : WF_vars(Running /\ Elapse(i))
    /\ WF_vars(Running /\ Destroy)
    /\ WF_vars(Running /\ Disconnect)

FairSpec == Spec /\ Fairness

-----------------------------------------------------------------------------
(* Properties *)

(* Whatever threads run: a report is only begun while none is pending.  The  *)
(* test (mqtt.c:191) and the assignment (mqtt.c:202) are not atomic; that    *)
(* only ticks assign PENDING, and hold tick_mutex from the test on, is what  *)
(* keeps them together.                                                      *)
ConstructWhenIdle ==
    \A t \in Threads : pc[t] \in {"alloc", "mark"} => status # "PENDING"

(* Whatever threads run: a report that waits to be sent belongs to the tick  *)
(* that holds the mutex, between its construction and its send, so that no   *)
(* tick sends the report of another (iftop.c:245-266).  A cancelled capture  *)
(* thread keeps the mutex and the report.                                    *)
ReadyBelongsToTick ==
    msg_ready => /\ mutex \in Tickers
                 /\ pc[mutex] \in {"check", "discard", "reset", "connect",
                                   "subscribe", "send", "dead"}

(* With one ticking thread and a connection that holds: no buffer is freed   *)
(* twice, used after it was freed, or overwritten while it was live          *)
(* (mqtt.c:125, 200, 264, 294-295, 323-324).                                 *)
MemorySafe == faults = {}

(* With one ticking thread and a connection that holds: at most one report   *)
(* is in flight, and as long as it is, it is the pending one, whose token is *)
(* the last; so that its confirmation can only be taken for itself           *)
(* (mqtt.c:311, 320).                                                        *)
InFlightIsPending ==
    inflight # {} => /\ status = "PENDING"
                     /\ inflight = {token}
                     /\ deliveredtoken = 0

(* The report check_status() settles is the one the broker has confirmed:    *)
(* "msg sent successful", mqtt.c:320.                                        *)
SettledMeansSent ==
    \A t \in Threads : pc[t] = "settle" => stage = "delivered"

(* With one ticking thread and a connection that holds: a pending report is  *)
(* settled in the end, so that the next one can be built.                    *)
EveryMessageSettles == status = "PENDING" ~> status # "PENDING"

(* "if the connection is lost, we will try to reconnect to the broker"       *)
(* (mqtt.h:23): a connection that is down comes up again.                    *)
Reconnects == link = "down" ~> (link = "up" \/ ~Running)

(* What the publisher promises while there is one ticking thread and the     *)
(* connection holds: reports go through built, published, delivered one at   *)
(* a time.                                                                   *)
Promise == INSTANCE Report
    WITH phase <- IF status = "PENDING" THEN stage ELSE "none"
OneReportAtATime == Promise!Spec
=============================================================================
