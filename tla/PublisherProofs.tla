-------------------------- MODULE PublisherProofs --------------------------
(***************************************************************************)
(* What holds of Publisher for any set of ticking threads, any number of   *)
(* lost connections at once, and with or without the user quitting: the    *)
(* types, and what tick_mutex protects.  And, from "The capture thread     *)
(* alone" on, what it promises where its design works.                     *)
(***************************************************************************)
EXTENDS Publisher, TLAPS

(* Labels of the statements a tick runs while it holds the mutex, and of     *)
(* those of connect_and_subscribe(), which connlost() runs without it.       *)
InTick == {"construct", "alloc", "mark", "compress", "check", "send", "drop",
           "clear", "publish", "unlock"}
InConnect == {"discard", "reset", "connect", "subscribe"}

(* A thread inside a tick holds the mutex. *)
InsideHolds ==
    \A t \in Threads \ Losses : pc[t] \in InTick \cup InConnect => mutex = t

(* connlost()'s threads run connlost() only. *)
LossesOutside ==
    \A l \in Losses : pc[l] \in {"idle", "lost", "tried"} \cup InConnect

(* Only ticking threads want or hold the mutex. *)
TickersOnly ==
    \A t \in Threads \ (Losses \cup Tickers) :
        pc[t] \notin {"lock"} \cup InTick \cup InConnect

(* Only t moves, to a label in S. *)
Moves(t, S) == /\ \A u \in Threads \ {t} : pc'[u] = pc[u]
               /\ pc'[t] \in S

LockInv == InsideHolds /\ LossesOutside /\ TickersOnly
SafeInv == ConstructWhenIdle /\ ReadyBelongsToTick

-----------------------------------------------------------------------------
(* The variables keep their types (the declarations at the top of mqtt.c     *)
(* and iftop.c).                                                             *)
LEMMA TypeInit == Init => TypeOK
  BY DEF Init, TypeOK, Labels, Intervals

LEMMA TypeStep == TypeOK /\ [Next]_vars => TypeOK'
<1> SUFFICES ASSUME TypeOK, [Next]_vars PROVE TypeOK'
  OBVIOUS
<1> USE DEF TypeOK, Labels, memory, broker, tokens
<1>1. ASSUME NEW t \in Threads, Call(t) \/ Lock(t) PROVE TypeOK'
  <2>1. CASE Call(t) BY <2>1 DEF Call, Goto
  <2>2. CASE Lock(t)
    <3>1. pc' \in [Threads -> Labels] /\ due' \subseteq Intervals
      BY <2>2 DEF Lock, MutexFree, Goto
    <3>2. mutex' \in Threads \cup {"none"} /\ msg_ready' \in BOOLEAN
      BY <2>2 DEF Lock, MutexFree
    <3> QED BY <2>2, <3>1, <3>2 DEF Lock, MutexFree
  <2> QED BY <1>1, <2>1, <2>2
<1>2. ASSUME NEW t \in Threads, Locked(t) PROVE TypeOK'
  <2>1. CASE Construct(t) BY <2>1 DEF Construct, CanConstruct, Goto
  <2>2. CASE Alloc(t) BY <2>2 DEF Alloc, Goto, AllocFault
  <2>3. CASE Mark(t) BY <2>3 DEF Mark, Goto
  <2>4. CASE Compress(t)
    <3>1. faults' \subseteq {"doubleFree", "useAfterFree", "leak"}
      BY <2>4 DEF Compress, AllocFault
    <3> QED BY <2>4, <3>1 DEF Compress, Goto
  <2>5. CASE Check(t) BY <2>5 DEF Check, Goto
  <2>6. CASE Send(t)
    <3>1. pc' \in [Threads -> Labels] /\ msg_ready' \in BOOLEAN
      BY <2>6 DEF Send, Goto
    <3> QED BY <2>6, <3>1 DEF Send
  <2>7. CASE Drop(t) BY <2>7 DEF Drop, Goto, FreeBoth, Freed, FreeFault
  <2>8. CASE Clear(t) BY <2>8 DEF Clear, Goto
  <2>9. CASE Publish(t) BY <2>9 DEF Publish, Goto
  <2>10. CASE Unlock(t) BY <2>10 DEF Unlock, Goto
  <2> QED
    BY <1>2, <2>1, <2>2, <2>3, <2>4, <2>5, <2>6, <2>7, <2>8, <2>9, <2>10
    DEF Locked
<1>3. ASSUME NEW t \in Threads, Connect(t) PROVE TypeOK'
  <2>1. CASE Discard(t) BY <2>1 DEF Discard, Goto
  <2>2. CASE Reset(t) BY <2>2 DEF Reset, Goto, Freed, FreeFault
  <2>3. CASE ConnectOk(t) BY <2>3 DEF ConnectOk, Goto
  <2>4. CASE ConnectFail(t) BY <2>4 DEF ConnectFail, AfterConnect
  <2>5. CASE Subscribe(t) BY <2>5 DEF Subscribe, AfterConnect
  <2> QED BY <1>3, <2>1, <2>2, <2>3, <2>4, <2>5 DEF Connect
<1>4. ASSUME NEW t \in Threads, CheckStatus(t) PROVE TypeOK'
  <2>1. CASE Status(t) BY <2>1 DEF Status, AfterStatus
  <2>2. CASE Settle(t) BY <2>2 DEF Settle, Goto, FreeBoth, Freed, FreeFault
  <2>3. CASE Complete(t) BY <2>3 DEF Complete, AfterStatus
  <2> QED BY <1>4, <2>1, <2>2, <2>3 DEF CheckStatus
<1>5. ASSUME NEW l \in Losses, Lose(l) \/ ConnLost(l) PROVE TypeOK'
  <2> l \in Threads
    BY DEF Threads
  <2>1. CASE Lose(l) BY <2>1 DEF Lose, Goto
  <2>2. CASE Lost(l) BY <2>2 DEF Lost, Goto
  <2>3. CASE Tried(l) BY <2>3 DEF Tried, Goto
  <2> QED BY <1>5, <2>1, <2>2, <2>3 DEF ConnLost
<1>6. ASSUME NEW tok \in Tokens, Deliver(tok) PROVE TypeOK'
  BY <1>6 DEF Deliver
<1>7. ASSUME NEW i \in Intervals, Elapse(i) PROVE TypeOK'
  BY <1>7 DEF Elapse
<1>8. CASE Quit \/ Cancel \/ Destroy \/ Disconnect
  <2> "main" \in Threads
    BY DEF Threads
  <2>1. CASE Quit BY <2>1 DEF Quit, Goto
  <2>2. CASE Cancel BY <2>2 DEF Cancel
  <2>3. CASE Destroy BY <2>3 DEF Destroy, Goto
  <2>4. CASE Disconnect BY <2>4 DEF Disconnect, Goto
  <2> QED BY <1>8, <2>1, <2>2, <2>3, <2>4
<1>9. CASE UNCHANGED vars
  BY <1>9 DEF vars
<1> QED
  BY <1>1, <1>2, <1>3, <1>4, <1>5, <1>6, <1>7, <1>8, <1>9 DEF Next

(* Publisher's type invariant, for every value of its constants. *)
THEOREM TypeCorrect == Spec => []TypeOK
  BY TypeInit, TypeStep, PTL DEF Spec

-----------------------------------------------------------------------------
(* Who runs what, and that a tick holds the mutex from its first statement   *)
(* to its last: pthread_mutex_lock() and _unlock() at iftop.c:243, 273.      *)
LEMMA LockInit == Init => LockInv
  BY DEF Init, LockInv, InsideHolds, LossesOutside, TickersOnly, InTick,
         InConnect, Threads

LEMMA LockStep == TypeOK /\ LockInv /\ [Next]_vars => LockInv'
<1> SUFFICES ASSUME TypeOK, LockInv, [Next]_vars PROVE LockInv'
  OBVIOUS
<1> USE LossesAssumption, TickersAssumption
    DEF LockInv, InsideHolds, LossesOutside, TickersOnly, InTick, InConnect,
        Moves
<1>0. /\ pc \in [Threads -> Labels] /\ "none" \notin Threads
      /\ Losses \subseteq Threads /\ Tickers \subseteq Threads
  BY DEF TypeOK, Threads, Fixed
<1>1. ASSUME NEW t \in Threads, Call(t) PROVE LockInv'
  <2>1. Moves(t, {"lock"}) /\ mutex' = mutex /\ t \in Tickers \ Losses
    BY <1>0, <1>1 DEF Call, Goto, Fixed
  <2> QED BY <1>0, <2>1
<1>2. ASSUME NEW t \in Threads, Lock(t) PROVE LockInv'
  <2>1. /\ Moves(t, {"unlock", "construct", "check"})
        /\ mutex = "none" /\ mutex' = t /\ pc[t] = "lock"
    BY <1>0, <1>2 DEF Lock, MutexFree, Goto
  <2> QED BY <1>0, <2>1
<1>3. ASSUME NEW t \in Threads, Locked(t) PROVE LockInv'
  <2>1. t \notin Losses /\ pc[t] \in InTick
    BY <1>3 DEF Locked, Construct, Alloc, Mark, Compress, Check, Send, Drop,
                Clear, Publish, Unlock, Goto
  <2>2. CASE Unlock(t)
    <3>1. Moves(t, {"status"}) /\ mutex' = "none"
      BY <1>0, <2>2 DEF Unlock, Goto
    <3> QED BY <1>0, <2>1, <3>1
  <2>3. CASE ~Unlock(t)
    <3>1. mutex' = mutex /\ Moves(t, InTick \cup InConnect)
      BY <1>0, <1>3, <2>3
      DEF Locked, Construct, Alloc, Mark, Compress, Check, Send, Drop, Clear,
          Publish, Goto
    <3> QED BY <1>0, <2>1, <3>1
  <2> QED BY <1>0, <2>2, <2>3
<1>4. ASSUME NEW t \in Threads, Connect(t) PROVE LockInv'
  <2>1. /\ pc[t] \in InConnect /\ mutex' = mutex
        /\ t \in Losses => Moves(t, InConnect \cup {"idle"})
        /\ t \notin Losses => Moves(t, InConnect \cup {"send"})
    BY <1>0, <1>4 DEF Connect, Discard, Reset, ConnectOk, ConnectFail,
                      Subscribe, AfterConnect, Goto
  <2> QED BY <1>0, <2>1
<1>5. ASSUME NEW t \in Threads, CheckStatus(t) PROVE LockInv'
  <2>1. /\ pc[t] \in {"status", "settle", "complete"} /\ mutex' = mutex
        /\ Moves(t, {"settle", "complete", "idle", "destroy"})
    BY <1>0, <1>5 DEF CheckStatus, Status, Settle, Complete, AfterStatus, Goto
  <2> QED BY <1>0, <2>1
<1>6. ASSUME NEW l \in Losses, Lose(l) \/ ConnLost(l) PROVE LockInv'
  <2>1. /\ l \in Threads /\ mutex' = mutex
        /\ Moves(l, {"lost", "tried", "discard"})
    BY <1>0, <1>6 DEF Lose, ConnLost, Lost, Tried, Goto, Threads
  <2> QED BY <1>0, <2>1
<1>7. ASSUME NEW tok \in Tokens, Deliver(tok) PROVE LockInv'
  BY <1>7 DEF Deliver
<1>8. ASSUME NEW i \in Intervals, Elapse(i) PROVE LockInv'
  BY <1>8 DEF Elapse
<1>9. CASE Quit \/ Cancel \/ Destroy \/ Disconnect
  <2>1. PICK t \in Threads \ Losses :
          Moves(t, {"destroy", "dead", "status", "disconnect", "exit"})
    BY <1>0, <1>9
    DEF Quit, Cancel, Destroy, Disconnect, Goto, Threads, Fixed
  <2>2. mutex' = mutex
    BY <1>9 DEF Quit, Cancel, Destroy, Disconnect
  <2> QED BY <1>0, <2>1, <2>2
<1>10. CASE UNCHANGED vars
  BY <1>10 DEF vars
<1> QED
  BY <1>1, <1>2, <1>3, <1>4, <1>5, <1>6, <1>7, <1>8, <1>9, <1>10 DEF Next

-----------------------------------------------------------------------------
LEMMA SafeInit == Init => SafeInv
  BY DEF Init, SafeInv, ConstructWhenIdle, ReadyBelongsToTick

(* The test of status, its assignment and the use of msg_ready stay within   *)
(* one critical section.                                                     *)
LEMMA SafeStep == TypeOK /\ LockInv /\ SafeInv /\ [Next]_vars => SafeInv'
<1> SUFFICES ASSUME TypeOK, LockInv, SafeInv, [Next]_vars PROVE SafeInv'
  OBVIOUS
<1> USE LossesAssumption, TickersAssumption
    DEF SafeInv, ConstructWhenIdle, ReadyBelongsToTick, Moves
<1>0. /\ pc \in [Threads -> Labels] /\ "none" \notin Threads
      /\ Losses \subseteq Threads /\ Tickers \subseteq Threads
  BY DEF TypeOK, Threads, Fixed
<1>1. ASSUME NEW t \in Threads, Call(t) PROVE SafeInv'
  <2>1. Moves(t, {"lock"}) /\ pc[t] = "idle"
    BY <1>0, <1>1 DEF Call, Goto
  <2> QED BY <1>0, <1>1, <2>1 DEF Call
<1>2. ASSUME NEW t \in Threads, Lock(t) PROVE SafeInv'
  <2>1. Moves(t, {"unlock", "construct", "check"})
    BY <1>0, <1>2 DEF Lock, MutexFree, Goto
  <2> QED BY <1>0, <1>2, <2>1 DEF Lock
<1>3. ASSUME NEW t \in Threads, Locked(t) PROVE SafeInv'
  <2>1. t \in Tickers \ Losses /\ mutex = t
    BY <1>0, <1>3
    DEF Locked, Construct, Alloc, Mark, Compress, Check, Send, Drop, Clear,
        Publish, Unlock, Goto, LockInv, InsideHolds, LossesOutside,
        TickersOnly, InTick, InConnect
  <2>2. \A u \in Threads \ {t} : pc[u] \notin {"alloc", "mark"}
    BY <2>1 DEF LockInv, InsideHolds, LossesOutside, InTick, InConnect
  <2>3. CASE Construct(t)
    <3>1. \/ Moves(t, {"check"})
          \/ Moves(t, {"alloc"}) /\ status # "PENDING"
      BY <1>0, <2>3 DEF Construct, CanConstruct, Goto
    <3> QED BY <1>0, <2>1, <2>3, <3>1 DEF Construct, CanConstruct, Goto
  <2>4. CASE Alloc(t) BY <1>0, <2>1, <2>4 DEF Alloc, Goto
  <2>5. CASE Mark(t) BY <1>0, <2>1, <2>2, <2>5 DEF Mark, Goto
  <2>6. CASE Compress(t) BY <1>0, <2>1, <2>6 DEF Compress, Goto
  <2>7. CASE Check(t)
    <3>1. Moves(t, {"discard", "send"})
      BY <1>0, <2>7 DEF Check, Goto
    <3> QED BY <1>0, <2>1, <2>7, <3>1 DEF Check
  <2>8. CASE Send(t)
    <3>1. Moves(t, {"drop", "clear", "unlock"}) /\ msg_ready' = FALSE
      BY <1>0, <2>8 DEF Send, Goto
    <3> QED BY <1>0, <2>8, <3>1 DEF Send
  <2>9. CASE Drop(t) BY <1>0, <2>1, <2>9 DEF Drop, Goto
  <2>10. CASE Clear(t) BY <1>0, <2>1, <2>10 DEF Clear, Goto
  <2>11. CASE Publish(t)
    <3>1. Moves(t, {"unlock"}) /\ pc[t] = "publish"
      BY <1>0, <2>11 DEF Publish, Goto
    <3> QED BY <1>0, <2>1, <2>11, <3>1 DEF Publish
  <2>12. CASE Unlock(t) BY <1>0, <2>1, <2>12 DEF Unlock, Goto
  <2> QED
    BY <1>3, <2>3, <2>4, <2>5, <2>6, <2>7, <2>8, <2>9, <2>10, <2>11, <2>12
    DEF Locked
<1>4. ASSUME NEW t \in Threads, Connect(t) PROVE SafeInv'
  <2>1. /\ t \in Losses => Moves(t, InConnect \cup {"idle"})
        /\ t \notin Losses => Moves(t, InConnect \cup {"send"})
        /\ mutex' = mutex /\ msg_ready' = msg_ready
    BY <1>0, <1>4
    DEF Connect, Discard, Reset, ConnectOk, ConnectFail, Subscribe,
        AfterConnect, Goto, InConnect
  <2>2. status' = status \/ status' = "INIT"
    BY <1>4
    DEF Connect, Discard, Reset, ConnectOk, ConnectFail, Subscribe
  <2>3. ConstructWhenIdle'
    BY <1>0, <2>1, <2>2 DEF InConnect
  <2>4. ReadyBelongsToTick'
    BY <1>0, <2>1 DEF InConnect, Fixed
  <2> QED BY <1>0, <2>3, <2>4
<1>5. ASSUME NEW t \in Threads, CheckStatus(t) PROVE SafeInv'
  <2>1. /\ pc[t] \in {"status", "settle", "complete"}
        /\ Moves(t, {"settle", "complete", "idle", "destroy"})
        /\ mutex' = mutex /\ msg_ready' = msg_ready
    BY <1>0, <1>5 DEF CheckStatus, Status, Settle, Complete, AfterStatus, Goto
  <2>2. status' = status \/ status' = "COMPLETE"
    BY <1>5 DEF CheckStatus, Status, Settle, Complete
  <2> QED BY <1>0, <2>1, <2>2
<1>6. ASSUME NEW l \in Losses, Lose(l) \/ ConnLost(l) PROVE SafeInv'
  <2>1. /\ Moves(l, {"lost", "tried", "discard"})
        /\ mutex' = mutex /\ msg_ready' = msg_ready /\ status' = status
        /\ l \in Threads /\ pc[l] \in {"idle", "lost", "tried"}
    BY <1>0, <1>6 DEF Lose, ConnLost, Lost, Tried, Goto, Threads
  <2> QED BY <1>0, <2>1
<1>7. ASSUME NEW tok \in Tokens, Deliver(tok) PROVE SafeInv'
  BY <1>7 DEF Deliver
<1>8. ASSUME NEW i \in Intervals, Elapse(i) PROVE SafeInv'
  BY <1>8 DEF Elapse
<1>9. CASE Quit \/ Cancel \/ Destroy \/ Disconnect
  <2>1. /\ mutex' = mutex /\ msg_ready' = msg_ready /\ status' = status
    BY <1>9 DEF Quit, Cancel, Destroy, Disconnect
  <2>2. PICK t \in Threads :
          /\ Moves(t, {"destroy", "dead", "status", "disconnect", "exit"})
          /\ pc[t] \in {"idle", "destroy", "disconnect"} \/ pc'[t] = "dead"
    BY <1>0, <1>9 DEF Quit, Cancel, Destroy, Disconnect, Goto, Threads
  <2> QED BY <1>0, <2>1, <2>2
<1>10. CASE UNCHANGED vars
  BY <1>10 DEF vars
<1> QED
  BY <1>1, <1>2, <1>3, <1>4, <1>5, <1>6, <1>7, <1>8, <1>9, <1>10 DEF Next

(* Whatever threads tick and whatever is lost, a report is only begun while  *)
(* none is pending (mqtt.c:191).                                             *)
THEOREM ConstructSafe == Spec => []ConstructWhenIdle
<1>1. TypeOK /\ LockInv /\ SafeInv /\ [Next]_vars
      => (TypeOK /\ LockInv /\ SafeInv)'
  BY TypeStep, LockStep, SafeStep
<1>2. SafeInv => ConstructWhenIdle
  BY DEF SafeInv
<1> QED
  BY <1>1, <1>2, TypeInit, LockInit, SafeInit, PTL DEF Spec

(* Whatever threads tick and whatever is lost, a report that waits to be     *)
(* sent belongs to the tick that holds the mutex (iftop.c:245-266).          *)
THEOREM ReadySafe == Spec => []ReadyBelongsToTick
<1>1. TypeOK /\ LockInv /\ SafeInv /\ [Next]_vars
      => (TypeOK /\ LockInv /\ SafeInv)'
  BY TypeStep, LockStep, SafeStep
<1>2. SafeInv => ReadyBelongsToTick
  BY DEF SafeInv
<1> QED
  BY <1>1, <1>2, TypeInit, LockInit, SafeInit, PTL DEF Spec

-----------------------------------------------------------------------------
(* The capture thread alone: one thread ticks, the connection holds once it  *)
(* is up, and nobody quits; for any tokens the library may hand out.  Then   *)
(* every report is in one of the phases below, which is why no buffer is     *)
(* misused, a confirmation can only be taken for the report it confirms, and *)
(* reports go out one at a time.                                             *)

(* The circumstances the theorems from here on assume. *)
Alone == Tickers = {"capture"} /\ Losses = {} /\ ~CanQuit

(* Statements the ticking thread may be at whatever the report's phase. *)
Ordinary == {"idle", "lock", "construct", "check", "discard", "connect",
             "subscribe", "send", "unlock", "status"}

(* The buffer is allocated and not yet freed. *)
Live(p) == p = "live"

(* The connection: once up it stays, and connection says so, except between  *)
(* MQTTClient_connect() and the assignment after the subscriptions.          *)
ConnectionInv ==
    /\ connection = "ON" => link = "up"
    /\ link = "up" /\ connection = "OFF" <=> pc["capture"] = "subscribe"
    /\ pc["capture"] \in {"discard", "connect"} => connection = "OFF"
    /\ pc["capture"] \in {"alloc", "mark"} => connection = "ON"
    /\ status = "PENDING" => connection = "ON"

(* The other threads do nothing: nobody ticks, loses, or quits. *)
OthersIdle ==
    pc["main"] = "idle" /\ pc["callback"] = "idle" /\ quitting = FALSE

(* No token is in flight, and no confirmation waits to be taken. *)
Nothing == inflight = {} /\ deliveredtoken = 0

(* No report: the buffers were never allocated, or have been freed. *)
NoReport ==
    /\ status # "PENDING" /\ stage \in {"none", "delivered"}
    /\ Nothing /\ ~msg_ready /\ ~Live(out)
    /\ \/ ~Live(data) /\ pc["capture"] \in Ordinary \cup {"alloc"}
       \/ Live(data) /\ pc["capture"] = "mark"

(* A report has been begun and is not yet published. *)
Built ==
    /\ status = "PENDING" /\ stage = "built" /\ Nothing /\ Live(data)
    /\ \/ pc["capture"] = "compress" /\ ~msg_ready /\ ~Live(out)
       \/ pc["capture"] \in {"check", "send"} /\ msg_ready /\ Live(out)
       \/ pc["capture"] \in {"clear", "publish"} /\ ~msg_ready /\ Live(out)

(* It is published and waits for its confirmation. *)
Published ==
    /\ status = "PENDING" /\ stage = "published"
    /\ inflight = {token} /\ token \in Tokens /\ deliveredtoken = 0
    /\ ~msg_ready /\ Live(data) /\ Live(out)
    /\ pc["capture"] \in Ordinary

(* It is confirmed and waits for check_status(), or is being released. *)
Delivered ==
    /\ status = "PENDING" /\ stage = "delivered" /\ inflight = {}
    /\ ~msg_ready
    /\ \/ /\ Live(data) /\ Live(out)
          /\ token \in Tokens /\ deliveredtoken = token
          /\ pc["capture"] \in Ordinary \cup {"settle"}
       \/ /\ ~Live(data) /\ ~Live(out) /\ deliveredtoken = 0
          /\ pc["capture"] = "complete"

(* The inductive invariant of the theorems below. *)
AloneInv ==
    /\ faults = {}
    /\ OthersIdle
    /\ ConnectionInv
    /\ NoReport \/ Built \/ Published \/ Delivered

(* The step leaves the report and the connection alone. *)
Kept == UNCHANGED <<data, out, faults, status, stage, token, deliveredtoken,
                    inflight, link, connection, quitting>>

-----------------------------------------------------------------------------
(* init_MQTT() leaves no report behind, on a connection up or down. *)
LEMMA AloneInit == Alone /\ Init => AloneInv
  BY DEF Alone, Init, AloneInv, OthersIdle, ConnectionInv, NoReport, Nothing,
         Live, Ordinary, Threads

(* Who can move, when one thread ticks. *)
LEMMA AloneNext ==
    ASSUME Alone, TypeOK, AloneInv, Next
    PROVE  \/ LET t == "capture"
              IN  \/ Call(t) \/ Lock(t) \/ Locked(t) \/ Connect(t)
                  \/ CheckStatus(t)
           \/ \E tok \in Tokens : Deliver(tok)
           \/ \E i \in Intervals : Elapse(i)
<1>1. ASSUME NEW t \in Threads \ {"capture"}
      PROVE  ~(Call(t) \/ Lock(t) \/ Locked(t) \/ Connect(t) \/ CheckStatus(t))
  <2>1. pc[t] = "idle" /\ t \notin Tickers
    BY DEF Alone, AloneInv, OthersIdle, Threads
  <2> QED
    BY <2>1 DEF Call, Lock, Locked, Construct, Alloc, Mark, Compress, Check,
                Send, Drop, Clear, Publish, Unlock, Connect, Discard, Reset,
                ConnectOk, ConnectFail, Subscribe, CheckStatus, Status, Settle,
                Complete, Goto
<1>2. ~Quit /\ ~Cancel /\ ~Destroy /\ ~Disconnect
  BY DEF Alone, AloneInv, OthersIdle, Quit, Cancel, Destroy, Disconnect, Goto
<1> QED BY <1>1, <1>2 DEF Next, Alone

(* Every statement takes the report to its next phase or leaves it in its    *)
(* own; reset and drop (mqtt.c:124, 293) are never reached.                  *)
LEMMA AloneStep == Alone /\ TypeOK /\ AloneInv /\ [Next]_vars => AloneInv'
<1> SUFFICES ASSUME Alone, TypeOK, AloneInv, [Next]_vars PROVE AloneInv'
  OBVIOUS
<1>0. /\ pc \in [Threads -> Labels]
      /\ {"capture", "main", "callback"} \subseteq Threads
      /\ "capture" \notin Losses
      /\ Tokens \subseteq Nat \ {0} /\ token \in Tokens \cup {-1}
  BY TokensAssumption DEF Alone, TypeOK, Threads
<1> USE DEF AloneInv, OthersIdle, ConnectionInv, NoReport, Built, Published,
            Delivered, Nothing, Live, Ordinary, Goto, Moves
<1>1. CASE Call("capture")
  BY <1>0, <1>1 DEF Call, memory, broker, tokens
<1>2. CASE Lock("capture")
  <2>1. /\ pc["capture"] = "lock"
        /\ Moves("capture", {"unlock", "construct", "check"})
    BY <1>0, <1>2 DEF Lock
  <2>2. Kept /\ msg_ready' = FALSE
    BY <1>2 DEF Lock, memory, broker, tokens, Kept
  <2> QED BY <1>0, <2>1, <2>2 DEF Kept
<1>3. CASE Construct("capture")
  <2>1. /\ pc["capture"] = "construct"
        /\ \/ Moves("capture", {"check"})
           \/ Moves("capture", {"alloc"}) /\ CanConstruct
    BY <1>0, <1>3 DEF Construct
  <2>2. Kept /\ msg_ready' = msg_ready
    BY <1>3 DEF Construct, memory, broker, tokens, Kept
  <2> QED BY <1>0, <2>1, <2>2 DEF Kept, CanConstruct
<1>4. CASE Alloc("capture")
  BY <1>0, <1>4 DEF Alloc, AllocFault, memory, broker, tokens
<1>5. CASE Mark("capture")
  BY <1>0, <1>5 DEF Mark, memory, broker, tokens
<1>6. CASE Compress("capture")
  BY <1>0, <1>6 DEF Compress, AllocFault, memory, broker, tokens
<1>7. CASE Check("capture")
  <2>1. /\ pc["capture"] = "check"
        /\ \/ Moves("capture", {"discard"}) /\ connection = "OFF"
           \/ Moves("capture", {"send"})
    BY <1>0, <1>7 DEF Check, ReconnectDue
  <2>2. Kept /\ msg_ready' = msg_ready
    BY <1>7 DEF Check, memory, broker, tokens, Kept
  <2> QED BY <1>0, <2>1, <2>2 DEF Kept
<1>8. CASE Send("capture")
  <2>1. /\ pc["capture"] = "send"
        /\ \/ Moves("capture", {"drop"}) /\ msg_ready /\ connection = "OFF"
           \/ Moves("capture", {"clear"}) /\ msg_ready
           \/ Moves("capture", {"unlock"}) /\ ~msg_ready
    BY <1>0, <1>8 DEF Send
  <2>2. Kept /\ msg_ready' = FALSE
    BY <1>8 DEF Send, memory, broker, tokens, Kept
  <2> QED BY <1>0, <2>1, <2>2 DEF Kept
<1>9. CASE Drop("capture")
  BY <1>0, <1>9 DEF Drop
<1>10. CASE Clear("capture")
  BY <1>0, <1>10 DEF Clear, memory, broker, tokens
<1>11. CASE Publish("capture")
  BY <1>0, <1>11 DEF Publish, memory, broker, tokens
<1>12. CASE Unlock("capture")
  BY <1>0, <1>12 DEF Unlock, memory, broker, tokens
<1>13. CASE Discard("capture")
  <2>1. pc["capture"] = "discard" /\ Moves("capture", {"connect"})
    BY <1>0, <1>13 DEF Discard
  <2>2. Kept /\ msg_ready' = msg_ready
    BY <1>13 DEF Discard, memory, broker, tokens, Kept
  <2> QED BY <1>0, <2>1, <2>2 DEF Kept
<1>14. CASE Reset("capture")
  BY <1>0, <1>14 DEF Reset
<1>15. CASE ConnectOk("capture")
  BY <1>0, <1>15 DEF ConnectOk, memory, broker, tokens
<1>16. CASE ConnectFail("capture")
  BY <1>0, <1>16 DEF ConnectFail, AfterConnect, memory, broker, tokens
<1>17. CASE Subscribe("capture")
  <2>1. pc["capture"] = "subscribe" /\ Moves("capture", {"send"})
    BY <1>0, <1>17 DEF Subscribe, AfterConnect
  <2>2. link = "up"
    BY <2>1
  <2> QED BY <1>0, <1>17, <2>1, <2>2 DEF Subscribe, memory, broker, tokens
<1>18. CASE Status("capture")
  BY <1>0, <1>18
  DEF Status, Confirmed, AfterStatus, memory, broker, tokens
<1>19. CASE Settle("capture")
  BY <1>0, <1>19
  DEF Settle, FreeBoth, Freed, FreeFault, memory, broker, tokens
<1>20. CASE Complete("capture")
  BY <1>0, <1>20 DEF Complete, AfterStatus, memory, broker, tokens
<1>21. ASSUME NEW tok \in Tokens, Deliver(tok) PROVE AloneInv'
  BY <1>0, <1>21 DEF Deliver, memory, broker, tokens
<1>22. ASSUME NEW i \in Intervals, Elapse(i) PROVE AloneInv'
  BY <1>0, <1>22 DEF Elapse, memory, broker, tokens
<1>23. CASE UNCHANGED vars
  BY <1>23 DEF vars, memory, broker, tokens
<1> QED
  BY <1>1, <1>2, <1>3, <1>4, <1>5, <1>6, <1>7, <1>8, <1>9, <1>10, <1>11, <1>12,
     <1>13, <1>14, <1>15, <1>16, <1>17, <1>18, <1>19, <1>20, <1>21, <1>22,
     <1>23, AloneNext
  DEF Locked, Connect, CheckStatus

-----------------------------------------------------------------------------
(* The invariant holds in every state of such an instance. *)
LEMMA AloneInvariant ==
    ASSUME Alone
    PROVE  Spec => [](TypeOK /\ AloneInv)
<1>1. TypeOK /\ AloneInv /\ [Next]_vars => (TypeOK /\ AloneInv)'
  BY TypeStep, AloneStep
<1>2. Init => TypeOK /\ AloneInv
  BY TypeInit, AloneInit
<1> QED BY <1>1, <1>2, PTL DEF Spec

(* The two buffers' frees (mqtt.c:125, 294-295, 323-324) and uses            *)
(* (mqtt.c:200, 264) are in step when one thread ticks on a connection that  *)
(* holds.                                                                    *)
THEOREM MemoryIsSafe ==
    ASSUME Alone
    PROVE  Spec => []MemorySafe
<1>1. AloneInv => MemorySafe
  BY DEF AloneInv, MemorySafe
<1> QED BY <1>1, AloneInvariant, PTL

(* A token in flight is that of the pending report, and nothing confirmed    *)
(* earlier is left that could be taken for it (mqtt.c:311, 320).             *)
THEOREM InFlightSafe ==
    ASSUME Alone
    PROVE  Spec => []InFlightIsPending
<1>1. AloneInv => InFlightIsPending
  BY DEF AloneInv, InFlightIsPending, NoReport, Built, Published, Delivered,
         Nothing
<1> QED BY <1>1, AloneInvariant, PTL

(* check_status() settles only what the broker has confirmed (mqtt.c:320).   *)
THEOREM SettledSafe ==
    ASSUME Alone
    PROVE  Spec => []SettledMeansSent
<1>1. AloneInv => SettledMeansSent
  BY DEF Alone, AloneInv, OthersIdle, SettledMeansSent, NoReport, Built,
         Published, Delivered, Ordinary, Threads
<1> QED BY <1>1, AloneInvariant, PTL

-----------------------------------------------------------------------------
(* What Publisher gives Report for its phase. *)
phase == IF status = "PENDING" THEN stage ELSE "none"

(* A step takes the report to its next phase or leaves it in its own.        *)
LEMMA PhaseStep ==
    ASSUME Alone, TypeOK, AloneInv, [Next]_vars
    PROVE  [Promise!Next]_phase
<1> USE DEF phase, AloneInv, NoReport, Built, Published, Delivered, Nothing,
            Ordinary, Live, Promise!Next, Promise!Build, Promise!Publish,
            Promise!Confirm, Promise!Release
<1>1. CASE Mark("capture")
  BY <1>1 DEF Mark, Goto
<1>2. CASE Publish("capture")
  BY <1>2 DEF Publish, Goto
<1>3. CASE Complete("capture")
  BY <1>3 DEF Complete
<1>4. ASSUME NEW tok \in Tokens, Deliver(tok) PROVE [Promise!Next]_phase
  BY <1>4 DEF Deliver
<1>5. ~Reset("capture") /\ ~Drop("capture")
  BY DEF Reset, Drop, Goto
<1>6. CASE UNCHANGED <<status, stage>>
  BY <1>6
<1> QED
  BY <1>1, <1>2, <1>3, <1>4, <1>5, <1>6, AloneNext
  DEF Call, Lock, Locked, Construct, Alloc, Compress, Check, Send, Clear,
      Unlock, Connect, Discard, ConnectOk, ConnectFail, Subscribe, CheckStatus,
      Status, Settle, Elapse, vars

(* The safety of OneReportAtATime: reports are built, published, confirmed   *)
(* and released in this order, one at a time; tick() with mqtt.c implements  *)
(* Report.                                                                   *)
THEOREM ReportsInOrder ==
    ASSUME Alone
    PROVE  Spec => Promise!InOrder
<1>1. Init => Promise!Init
  BY DEF Init, Promise!Init
<1>2. TypeOK /\ AloneInv /\ [Next]_vars => [Promise!Next]_phase
  BY PhaseStep
<1> QED
  BY <1>1, <1>2, AloneInvariant, PTL DEF Spec, Promise!InOrder, phase
=============================================================================
