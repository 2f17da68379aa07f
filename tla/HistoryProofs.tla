--------------------------- MODULE HistoryProofs ---------------------------
(***************************************************************************)
(* What holds of History for any connections, packets, clock, options and  *)
(* interleaving of rotations with the accounting.                          *)
(***************************************************************************)
EXTENDS History, Induction

(* Times the program has noted lie in the past, and the packet at hand is    *)
(* the latest one: only the capture thread updates records, in time order.   *)
PacketLatest ==
    packet # NoPacket =>
        /\ packet.t <= now
        /\ \A k \in DOMAIN history : history[k].last_update_time <= packet.t

Past ==
    /\ \A th \in Tickers : called[th] <= now
    /\ \A k \in DOMAIN history : history[k].last_update_time <= now
    /\ PacketLatest

(* Where a rotation stands.  Its thread is inside tick(); the records it has *)
(* before it or in hand are in the table, unless it has taken the one in     *)
(* hand out.  When the thread is the capture thread nobody updates records,  *)
(* and what it found of the one it is about to delete is still so.           *)
InHand(k) ==
    rotation.step \in {"delete", "approve"} =>
        k \in DOMAIN history /\ ~history[k].approval

OwnVerdict(k) ==
    rotation.by = "capture" /\ rotation.step = "delete" =>
        Drops(history[k], called["capture"])

RotationInv ==
    /\ rotation.by = "none" => rotation = NoRotation
    /\ rotation.by # "none" => called[rotation.by] # 0
    /\ rotation.left \subseteq DOMAIN history \ rotation.at
    /\ rotation.step = "walk" => rotation.at = {}
    /\ \A k \in rotation.at : InHand(k) /\ OwnVerdict(k)
    /\ DOMAIN unlinked = IF rotation.step = "free" THEN rotation.at ELSE {}

IInv == TypeOK /\ Past /\ RotationInv /\ ApprovedQualify

-----------------------------------------------------------------------------
(* The packet at hand *)
LEMMA PacketFields ==
    ASSUME TypeOK, packet # NoPacket
    PROVE  /\ packet.step \in {"tick", "find", "touch", "record", "totals"}
           /\ packet.key \in Keys /\ packet.flow \in Flows
           /\ packet.len \in Nat /\ packet.t \in Nat
  BY LengthsAssumption DEF TypeOK, PacketSteps

LEMMA StepOfPacket ==
    ASSUME TypeOK, packet # NoPacket,
           NEW s \in {"tick", "find", "touch", "record", "totals"}
    PROVE  /\ [packet EXCEPT !.step = s] \in PacketSteps
           /\ [packet EXCEPT !.step = s].step = s
           /\ [packet EXCEPT !.step = s].t = packet.t
           /\ [packet EXCEPT !.step = s].key = packet.key
           /\ [packet EXCEPT !.step = s].len = packet.len
           /\ [packet EXCEPT !.step = s] # NoPacket
  BY DEF TypeOK, PacketSteps, NoPacket

(* What the accounting makes of a record. *)
LEMMA UpdateType ==
    ASSUME NEW d \in Record, NEW p, p.t \in Nat, p.len \in Nat
    PROVE  /\ Touched(d, p) \in Record /\ Counted(d, p) \in Record
           /\ Touched(d, p) = [d EXCEPT !.last_update_time = p.t]
           /\ Total(Touched(d, p)) = Total(d)
           /\ Total(Counted(d, p)) = Total(d) + p.len
           /\ Counted(d, p).last_update_time = d.last_update_time
           /\ Counted(d, p).create_time = d.create_time
           /\ Counted(d, p).approval = d.approval
           /\ Counted(d, p).total_sent >= d.total_sent
           /\ Counted(d, p).total_recv >= d.total_recv
<1>1. Touched(d, p) \in Record /\ Total(Touched(d, p)) = Total(d)
  BY DEF Touched, Record, Total
<1>2. CASE p.flow = "in"
  BY <1>1, <1>2 DEF Counted, Touched, Record, Total
<1>3. CASE p.flow # "in"
  BY <1>1, <1>3 DEF Counted, Touched, Record, Total
<1> QED BY <1>2, <1>3

(* What a step does to a table through the pointer at hand. *)
Grown(f, g) ==
    /\ DOMAIN g = DOMAIN f
    /\ \A k \in DOMAIN f : g[k] = f[k] \/ (k = packet.key /\ g[k] = Touched(f[k], packet))
                                      \/ (k = packet.key /\ g[k] = Counted(f[k], packet))

LEMMA TouchGrows ==
    ASSUME Touch
    PROVE  /\ Grown(history, history') /\ Grown(unlinked, unlinked')
           /\ freedUse' \in {freedUse, TRUE}
  BY DEF Touch, Update, Grown

LEMMA CountGrows ==
    ASSUME CountInRecord
    PROVE  /\ Grown(history, history') /\ Grown(unlinked, unlinked')
           /\ freedUse' \in {freedUse, TRUE}
  BY DEF CountInRecord, Update, Grown

LEMMA GrownType ==
    ASSUME TypeOK, packet # NoPacket, NEW f, NEW g, Grown(f, g),
           \A k \in DOMAIN f : f[k] \in Record
    PROVE  \A k \in DOMAIN g : g[k] \in Record
<1> SUFFICES ASSUME NEW k \in DOMAIN g PROVE g[k] \in Record
  OBVIOUS
<1>1. f[k] \in Record /\ packet.t \in Nat /\ packet.len \in Nat
  BY PacketFields DEF Grown
<1>2. Touched(f[k], packet) \in Record /\ Counted(f[k], packet) \in Record
  BY <1>1, UpdateType
<1> QED BY <1>1, <1>2 DEF Grown

-----------------------------------------------------------------------------
LEMMA TypeInit == Init => TypeOK
<1> SUFFICES ASSUME Init PROVE TypeOK
  OBVIOUS
<1> QED BY TimesAssumption, TickersAssumption
    DEF Init, TypeOK, PacketSteps, NoPacket, None, Rotations, NoRotation

(* What tick()'s return does. *)
LEMMA ReturnType ==
    ASSUME TypeOK, NEW th \in Tickers, called[th] # 0, Return(th)
    PROVE  /\ called' \in [Tickers -> Nat] /\ packet' \in PacketSteps
           /\ packet'.step = "tick" <=> called'["capture"] # 0
<1>1. CASE th = "capture"
  <2>1. packet # NoPacket
    BY <1>1 DEF NoPacket, TypeOK
  <2>2. packet' = [packet EXCEPT !.step = "find"] /\ called' = [called EXCEPT !["capture"] = 0]
    BY <1>1 DEF Return
  <2>3. packet' \in PacketSteps /\ packet'.step = "find"
    BY <2>1, <2>2, StepOfPacket
  <2> QED BY <2>2, <2>3, TickersAssumption DEF TypeOK
<1>2. CASE th # "capture"
  BY <1>2, TickersAssumption DEF Return, TypeOK
<1> QED BY <1>1, <1>2

LEMMA TypeStep == TypeOK /\ RotationInv /\ [Next]_vars => TypeOK'
<1> SUFFICES ASSUME TypeOK, RotationInv, [Next]_vars PROVE TypeOK'
  OBVIOUS
<1>1. ASSUME NEW k \in Keys, NEW flow \in Flows, NEW len \in Lengths,
             Capture(k, flow, len)
      PROVE  TypeOK'
  <2>1. packet' \in PacketSteps /\ packet'.step = "tick"
    BY <1>1, LengthsAssumption DEF Capture, PacketSteps, TypeOK
  <2>2. called' \in [Tickers -> Nat] /\ called'["capture"] # 0
    BY <1>1, TickersAssumption DEF Capture, TypeOK
  <2> QED BY <1>1, <2>1, <2>2 DEF Capture, TypeOK
<1>2. ASSUME NEW th \in Tickers, Call(th) PROVE TypeOK'
  BY <1>2 DEF Call, TypeOK
<1>3. ASSUME NEW th \in Tickers, Lock(th) PROVE TypeOK'
  <2>1. CASE UNCHANGED rotation
    <3>1. Return(th) \/ UNCHANGED <<called, packet>>
      BY <1>3 DEF Lock
    <3>2. called[th] # 0
      BY <1>3 DEF Lock
    <3>3. /\ called' \in [Tickers -> Nat] /\ packet' \in PacketSteps
          /\ packet'.step = "tick" <=> called'["capture"] # 0
      BY <3>1, <3>2, ReturnType DEF TypeOK
    <3> QED BY <1>3, <2>1, <3>3 DEF Lock, TypeOK
  <2>2. CASE UNCHANGED <<called, packet>>
    <3>1. rotation' \in Rotations \/ UNCHANGED rotation
      BY <1>3 DEF Lock, Rotations, TypeOK
    <3> QED BY <1>3, <2>2, <3>1 DEF Lock, TypeOK
  <2> QED BY <1>3, <2>1, <2>2 DEF Lock
<1>4. ASSUME NEW k \in rotation.left, Examine(k) PROVE TypeOK'
  <2>1. rotation' \in Rotations
    BY <1>4 DEF Examine, Rotations, TypeOK
  <2> QED BY <1>4, <2>1 DEF Examine, TypeOK
<1>5. ASSUME Delete PROVE TypeOK'
  <2>1. rotation' \in Rotations
    BY <1>5 DEF Delete, GoesOn, Rotations, TypeOK
  <2>2. /\ DOMAIN history' \subseteq Keys
        /\ \A k \in DOMAIN history' : history'[k] \in Record
    BY <1>5 DEF Delete, Without, TypeOK
  <2>3. /\ DOMAIN unlinked' \subseteq Keys
        /\ \A k \in DOMAIN unlinked' : unlinked'[k] \in Record
    BY <1>5 DEF Delete, RotationInv, InHand, TypeOK
  <2> QED BY <1>5, <2>1, <2>2, <2>3 DEF Delete, TypeOK
<1>6. ASSUME Free PROVE TypeOK'
  <2>1. rotation' \in Rotations
    BY <1>6 DEF Free, GoesOn, Rotations, TypeOK
  <2> QED BY <1>6, <2>1 DEF Free, None, TypeOK
<1>7. ASSUME Approve PROVE TypeOK'
  <2>1. rotation' \in Rotations
    BY <1>7 DEF Approve, GoesOn, Rotations, TypeOK
  <2>2. /\ DOMAIN history' \subseteq Keys
        /\ \A k \in DOMAIN history' : history'[k] \in Record
    <3>1. \A k \in DOMAIN history : [history[k] EXCEPT !.approval = TRUE] \in Record
      BY DEF TypeOK, Record
    <3> QED BY <1>7, <3>1 DEF Approve, TypeOK
  <2> QED BY <1>7, <2>1, <2>2 DEF Approve, TypeOK
<1>8. ASSUME Unlock PROVE TypeOK'
  <2>1. rotation.by \in Tickers /\ called[rotation.by] # 0 /\ Return(rotation.by)
    BY <1>8 DEF Unlock, Rotations, RotationInv, TypeOK
  <2>2. rotation' \in Rotations /\ last_timestamp' \in Nat
    BY <1>8, <2>1 DEF Unlock, NoRotation, Rotations, TypeOK
  <2> QED BY <1>8, <2>1, <2>2, ReturnType DEF Unlock, TypeOK
<1>9. ASSUME Find PROVE TypeOK'
  <2>0. packet # NoPacket
    BY <1>9 DEF Find, NoPacket
  <2>1. packet' \in PacketSteps /\ packet'.step # "tick" /\ packet.step # "tick"
    BY <1>9, <2>0, PacketFields DEF Find, PacketSteps, NoPacket, TypeOK
  <2>2. history_create \in Record
    BY DEF history_create, Record, TypeOK
  <2>3. DOMAIN history' \subseteq Keys /\ \A k \in DOMAIN history' : history'[k] \in Record
    BY <1>9, <2>0, <2>2, PacketFields DEF Find, Inserted, TypeOK
  <2>4. rotation' \in Rotations
    BY <1>9, <2>0, PacketFields DEF Find, Rotations, TypeOK
  <2> QED BY <1>9, <2>1, <2>3, <2>4 DEF Find, TypeOK
<1>10. ASSUME Touch \/ CountInRecord PROVE TypeOK'
  <2>0. packet # NoPacket
    BY <1>10 DEF Touch, CountInRecord, NoPacket
  <2>1. /\ Grown(history, history') /\ Grown(unlinked, unlinked')
        /\ freedUse' \in BOOLEAN
    BY <1>10, TouchGrows, CountGrows DEF TypeOK
  <2>2. /\ DOMAIN history' = DOMAIN history /\ DOMAIN unlinked' = DOMAIN unlinked
        /\ \A k \in DOMAIN history' : history'[k] \in Record
        /\ \A k \in DOMAIN unlinked' : unlinked'[k] \in Record
    <3>1. \A k \in DOMAIN history' : history'[k] \in Record
      BY <2>0, <2>1, GrownType DEF TypeOK
    <3>2. \A k \in DOMAIN unlinked' : unlinked'[k] \in Record
      BY <2>0, <2>1, GrownType DEF TypeOK
    <3> QED BY <2>1, <3>1, <3>2 DEF Grown
  <2>3. packet' \in PacketSteps /\ packet'.step # "tick" /\ packet.step # "tick"
    <3>1. \E s \in {"record", "totals"} :
              packet' = [packet EXCEPT !.step = s] /\ packet.step \in {"touch", "record"}
      BY <1>10 DEF Touch, CountInRecord
    <3> QED BY <2>0, <3>1, StepOfPacket
  <2>4. UNCHANGED <<now, history_totals, last_timestamp, called, rotation>>
    BY <1>10 DEF Touch, CountInRecord
  <2> QED BY <2>1, <2>2, <2>3, <2>4 DEF TypeOK
<1>11. ASSUME CountInTotals PROVE TypeOK'
  <2>0. packet # NoPacket
    BY <1>11 DEF CountInTotals, NoPacket
  <2>1. history_totals' \in [sent : Nat, recv : Nat]
    BY <1>11, <2>0, PacketFields DEF CountInTotals, TypeOK
  <2>2. packet'.step # "tick" /\ packet.step # "tick" /\ packet' \in PacketSteps
    BY <1>11 DEF CountInTotals, PacketSteps, NoPacket
  <2> QED BY <1>11, <2>1, <2>2 DEF CountInTotals, TypeOK
<1>12. ASSUME Clock PROVE TypeOK'
  BY <1>12 DEF Clock, TypeOK
<1>13. CASE UNCHANGED vars
  BY <1>13 DEF vars, TypeOK
<1> QED
  BY <1>1, <1>2, <1>3, <1>4, <1>5, <1>6, <1>7, <1>8, <1>9, <1>10, <1>11, <1>12, <1>13
  DEF Next, Rotate, Account


-----------------------------------------------------------------------------
(* What a step makes of the records that stay: nothing, an approval of one   *)
(* that qualifies, or an update for the packet at hand.                      *)
Unchanged(k) == k \in DOMAIN history /\ history'[k] = history[k]

Approved(k) ==
    /\ k \in DOMAIN history /\ Qualifies(history[k])
    /\ history'[k] = [history[k] EXCEPT !.approval = TRUE]

Updated(k) ==
    /\ k = packet.key /\ k \in DOMAIN history
    /\ \/ packet.step = "touch" /\ history'[k] = Touched(history[k], packet)
       \/ packet.step = "record" /\ history'[k] = Counted(history[k], packet)

Created(k) ==
    /\ k \notin DOMAIN history
    /\ history'[k] = history_create

LEMMA RecordSteps ==
    ASSUME TypeOK, [Next]_vars, NEW k \in DOMAIN history'
    PROVE  Unchanged(k) \/ Approved(k) \/ Updated(k) \/ Created(k)
<1>1. CASE Delete
  BY <1>1 DEF Delete, Without, Unchanged
<1>2. CASE Approve
  <2>1. k \in DOMAIN history
    BY <1>2 DEF Approve
  <2>2. CASE k \in rotation.at /\ Qualifies(history[k])
    BY <1>2, <2>1, <2>2 DEF Approve, Approved
  <2>3. CASE ~(k \in rotation.at /\ Qualifies(history[k]))
    BY <1>2, <2>1, <2>3 DEF Approve, Unchanged
  <2> QED BY <2>2, <2>3
<1>3. CASE Find
  BY <1>3 DEF Find, Inserted, Unchanged, Created
<1>4. CASE Touch
  BY <1>4 DEF Touch, Update, Unchanged, Updated
<1>5. CASE CountInRecord
  BY <1>5 DEF CountInRecord, Update, Unchanged, Updated
<1>6. CASE UNCHANGED history
  BY <1>6 DEF Unchanged
<1> QED
  BY <1>1, <1>2, <1>3, <1>4, <1>5, <1>6
  DEF Next, Rotate, Account, Capture, Call, Lock, Examine, Free, Unlock,
      CountInTotals, Clock, vars

(* Records go only when a rotation takes out the one it has condemned. *)
LEMMA RecordsGone ==
    ASSUME TypeOK, [Next]_vars, NEW k \in DOMAIN history \ DOMAIN history'
    PROVE  Delete /\ rotation.step = "delete" /\ k \in rotation.at
<1>1. CASE Delete
  BY <1>1 DEF Delete, Without
<1>2. CASE Find
  BY <1>2 DEF Find, Inserted
<1>3. CASE Touch \/ CountInRecord
  BY <1>3 DEF Touch, CountInRecord, Update
<1>4. ~Approve /\ history' # history
  BY DEF Approve
<1> QED
  BY <1>1, <1>2, <1>3, <1>4
  DEF Next, Rotate, Account, Capture, Call, Lock, Examine, Free, Unlock,
      CountInTotals, Clock, vars

-----------------------------------------------------------------------------
LEMMA InvInit == Init => IInv
<1> SUFFICES ASSUME Init PROVE IInv
  OBVIOUS
<1>1. TypeOK
  BY TypeInit
<1>2. DOMAIN history = {} /\ DOMAIN unlinked = {}
  BY DEF Init, None
<1>3. Past /\ ApprovedQualify
  BY <1>2, TimesAssumption DEF Init, Past, PacketLatest, ApprovedQualify
<1>4. RotationInv
  BY <1>2 DEF Init, RotationInv, NoRotation
<1> QED BY <1>1, <1>3, <1>4 DEF IInv

(* The packet at hand is the same as before but for its step, or a new one,  *)
(* for the time of which the table has not changed.                          *)
SamePacket == packet # NoPacket /\ packet'.t = packet.t
NewPacket == packet'.t = now /\ history' = history

LEMMA PacketStays ==
    ASSUME TypeOK, RotationInv, [Next]_vars, packet' # NoPacket
    PROVE  SamePacket \/ NewPacket
<1>1. ASSUME NEW k \in Keys, NEW flow \in Flows, NEW len \in Lengths,
             Capture(k, flow, len)
      PROVE  NewPacket
  BY <1>1 DEF Capture, NewPacket
<1>2. ASSUME NEW th \in Tickers, called[th] # 0, Return(th)
      PROVE  SamePacket
  <2>1. CASE th = "capture"
    <3>1. packet # NoPacket
      BY <1>2, <2>1 DEF NoPacket, TypeOK
    <3> QED BY <1>2, <2>1, <3>1, StepOfPacket DEF Return, SamePacket
  <2>2. CASE th # "capture"
    BY <1>2, <2>2 DEF Return, SamePacket
  <2> QED BY <2>1, <2>2
<1>3. CASE Unlock
  <2>1. rotation.by \in Tickers /\ called[rotation.by] # 0 /\ Return(rotation.by)
    BY <1>3 DEF Unlock, RotationInv, TypeOK, Rotations
  <2> QED BY <1>2, <2>1
<1>4. ASSUME NEW s \in {"touch", "record", "totals"},
             packet' = [packet EXCEPT !.step = s], packet.step \in {"find", "touch", "record"}
      PROVE  SamePacket
  <2>1. packet # NoPacket
    BY <1>4 DEF NoPacket
  <2> QED BY <1>4, <2>1, StepOfPacket DEF SamePacket
<1>5. CASE Find
  BY <1>4, <1>5 DEF Find
<1>6. CASE Touch \/ CountInRecord
  BY <1>4, <1>6 DEF Touch, CountInRecord
<1>7. ASSUME NEW th \in Tickers, Lock(th) PROVE SamePacket
  BY <1>2, <1>7 DEF Lock, SamePacket
<1>8. CASE UNCHANGED packet
  BY <1>8 DEF SamePacket
<1> QED
  BY <1>1, <1>3, <1>5, <1>6, <1>7, <1>8
  DEF Next, Rotate, Account, Call, Examine, Delete, Free, Approve, CountInTotals,
      Clock, vars

(* Time goes on, and what a thread has noted of it is its own. *)
LEMMA CalledStays ==
    ASSUME TypeOK, RotationInv, [Next]_vars
    PROVE  /\ now' \in Nat /\ now <= now'
           /\ \A th \in Tickers : called'[th] \in {called[th], 0, now}
<1>1. ASSUME NEW th \in Tickers, NEW t \in {0, now}, called' = [called EXCEPT ![th] = t]
      PROVE  \A u \in Tickers : called'[u] \in {called[u], 0, now}
  BY <1>1 DEF TypeOK
<1>2. ASSUME NEW k \in Keys, NEW flow \in Flows, NEW len \in Lengths,
             Capture(k, flow, len)
      PROVE  \A u \in Tickers : called'[u] \in {called[u], 0, now}
  BY <1>1, <1>2, TickersAssumption DEF Capture
<1>3. ASSUME NEW th \in Tickers, Call(th)
      PROVE  \A u \in Tickers : called'[u] \in {called[u], 0, now}
  BY <1>1, <1>3 DEF Call
<1>4. ASSUME NEW th \in Tickers, Lock(th)
      PROVE  \A u \in Tickers : called'[u] \in {called[u], 0, now}
  BY <1>1, <1>4 DEF Lock, Return
<1>5. ASSUME Unlock
      PROVE  \A u \in Tickers : called'[u] \in {called[u], 0, now}
  <2>1. rotation.by \in Tickers /\ Return(rotation.by)
    BY <1>5 DEF Unlock, TypeOK, Rotations
  <2> QED BY <1>1, <2>1 DEF Return
<1>6. UNCHANGED called => \A u \in Tickers : called'[u] \in {called[u], 0, now}
  OBVIOUS
<1>7. \A u \in Tickers : called'[u] \in {called[u], 0, now}
  BY <1>2, <1>3, <1>4, <1>5, <1>6
  DEF Next, Rotate, Account, Examine, Delete, Free, Approve, Find, Touch,
      CountInRecord, CountInTotals, Clock, vars
<1>8. now' = now \/ now' = now + 1
  BY DEF Next, Rotate, Account, Capture, Call, Lock, Examine, Delete, Free,
         Approve, Unlock, Find, Touch, CountInRecord, CountInTotals, Clock, vars
<1>9. now \in Nat
  BY DEF TypeOK
<1>10. now' \in Nat /\ now <= now'
  BY <1>8, <1>9
<1> QED BY <1>7, <1>10

LEMMA PastStep ==
    ASSUME IInv, [Next]_vars
    PROVE  Past'
<1>0. TypeOK /\ RotationInv /\ Past
  BY DEF IInv
<1>1. now \in Nat /\ now' \in Nat /\ now <= now'
  BY <1>0, CalledStays DEF TypeOK
<1>2. \A th \in Tickers : called'[th] <= now'
  <2> SUFFICES ASSUME NEW th \in Tickers PROVE called'[th] <= now'
    OBVIOUS
  <2>1. called[th] \in Nat /\ called[th] <= now /\ called'[th] \in {called[th], 0, now}
    BY <1>0, CalledStays DEF TypeOK, Past
  <2> QED BY <1>1, <2>1
<1>3. ASSUME NEW k \in DOMAIN history'
      PROVE  \/ k \in DOMAIN history /\ history'[k].last_update_time = history[k].last_update_time
             \/ history'[k].last_update_time = 0
             \/ packet # NoPacket /\ history'[k].last_update_time = packet.t
  <2>1. Unchanged(k) \/ Approved(k) \/ Updated(k) \/ Created(k)
    BY <1>0, RecordSteps
  <2>2. CASE Approved(k)
    <3>1. history[k] \in Record
      BY <1>0, <2>2 DEF Approved, TypeOK
    <3> QED BY <2>2, <3>1 DEF Approved, Record
  <2>3. CASE Updated(k)
    <3>1. packet # NoPacket
      BY <2>3 DEF Updated, NoPacket
    <3>2. history[k] \in Record /\ packet.t \in Nat /\ packet.len \in Nat
      BY <1>0, <2>3, <3>1, PacketFields DEF Updated, TypeOK
    <3>3. /\ Touched(history[k], packet).last_update_time = packet.t
          /\ Counted(history[k], packet).last_update_time = history[k].last_update_time
      BY <3>2, UpdateType DEF Record
    <3> QED BY <2>3, <3>1, <3>3 DEF Updated
  <2> QED BY <2>1, <2>2, <2>3 DEF Unchanged, Created, history_create
<1>4. \A k \in DOMAIN history' : history'[k].last_update_time <= now'
  <2> SUFFICES ASSUME NEW k \in DOMAIN history' PROVE history'[k].last_update_time <= now'
    OBVIOUS
  <2>1. k \in DOMAIN history => history[k].last_update_time \in Nat
                                /\ history[k].last_update_time <= now
    BY <1>0 DEF TypeOK, Record, Past
  <2>2. packet # NoPacket => packet.t \in Nat /\ packet.t <= now
    BY <1>0, PacketFields DEF Past, PacketLatest
  <2> QED BY <1>1, <1>3, <2>1, <2>2
<1>5. ASSUME packet' # NoPacket
      PROVE  /\ packet'.t <= now'
             /\ \A k \in DOMAIN history' : history'[k].last_update_time <= packet'.t
  <2>1. SamePacket \/ NewPacket
    BY <1>0, <1>5, PacketStays
  <2>2. CASE NewPacket
    BY <1>0, <1>1, <2>2 DEF NewPacket, Past
  <2>3. CASE SamePacket
    <3>1. packet'.t = packet.t /\ packet.t \in Nat /\ packet.t <= now
      BY <1>0, <2>3, PacketFields DEF SamePacket, Past, PacketLatest
    <3>2. ASSUME NEW k \in DOMAIN history' PROVE history'[k].last_update_time <= packet.t
      <4>1. k \in DOMAIN history => history[k].last_update_time <= packet.t
        BY <1>0, <2>3 DEF SamePacket, Past, PacketLatest
      <4> QED BY <1>3, <3>1, <4>1
    <3> QED BY <1>1, <3>1, <3>2
  <2> QED BY <2>1, <2>2, <2>3
<1> QED BY <1>2, <1>4, <1>5 DEF Past, PacketLatest

(* While the capture thread rotates, it has no packet past its tick. *)
LEMMA BusyElsewhere ==
    ASSUME TypeOK, RotationInv, packet.step # "tick"
    PROVE  called["capture"] = 0 /\ rotation.by # "capture"
  BY DEF TypeOK, RotationInv

LEMMA RotationStep ==
    ASSUME IInv, [Next]_vars
    PROVE  RotationInv'
<1>0. TypeOK /\ RotationInv
  BY DEF IInv
<1>1. CASE UNCHANGED <<rotation, called, history, unlinked>>
  BY <1>0, <1>1 DEF RotationInv, InHand, OwnVerdict
<1>2. ASSUME NEW k \in Keys, NEW flow \in Flows, NEW len \in Lengths,
             Capture(k, flow, len)
      PROVE  RotationInv'
  <2>1. rotation.by # "capture"
    BY <1>0, <1>2, BusyElsewhere DEF Capture, NoPacket
  <2>2. \A th \in Tickers : th # "capture" => called'[th] = called[th]
    BY <1>0, <1>2 DEF Capture, TypeOK
  <2>3. rotation.by # "none" => rotation.by \in Tickers
    BY <1>0 DEF TypeOK, Rotations
  <2>4. UNCHANGED <<rotation, history, unlinked>>
    BY <1>2 DEF Capture
  <2> QED BY <1>0, <2>1, <2>2, <2>3, <2>4 DEF RotationInv, InHand, OwnVerdict
<1>3. ASSUME NEW th \in Tickers, Call(th) PROVE RotationInv'
  <2>1. /\ UNCHANGED <<rotation, history, unlinked>>
        /\ \A u \in Tickers : called[u] # 0 => called'[u] = called[u]
    BY <1>0, <1>3 DEF Call, TypeOK
  <2>2. called'["capture"] = called["capture"]
    BY <1>0, <1>3, TickersAssumption DEF Call, TypeOK
  <2>3. rotation.by # "none" => rotation.by \in Tickers
    BY <1>0 DEF TypeOK, Rotations
  <2> QED BY <1>0, <2>1, <2>2, <2>3 DEF RotationInv, InHand, OwnVerdict
<1>4. ASSUME NEW th \in Tickers, Lock(th) PROVE RotationInv'
  <2>1. rotation = NoRotation /\ DOMAIN unlinked = {}
    BY <1>0, <1>4 DEF Lock, RotationInv, NoRotation
  <2>2. UNCHANGED <<history, unlinked>>
    BY <1>4 DEF Lock
  <2>3. CASE UNCHANGED rotation
    BY <2>1, <2>2, <2>3 DEF RotationInv, NoRotation
  <2>4. CASE ~ UNCHANGED rotation
    <3>1. /\ rotation' = [by |-> th, step |-> "walk", left |-> DOMAIN history, at |-> {}]
          /\ UNCHANGED called /\ called[th] # 0
      BY <1>4, <2>4 DEF Lock
    <3> QED BY <2>1, <2>2, <3>1, TickersAssumption DEF RotationInv
  <2> QED BY <2>3, <2>4
<1>5. ASSUME NEW k \in rotation.left, Examine(k) PROVE RotationInv'
  <2>1. UNCHANGED <<history, called, unlinked>> /\ rotation.by # "none" /\ rotation.step = "walk"
    BY <1>5 DEF Examine
  <2>2. k \in DOMAIN history /\ rotation.at = {} /\ DOMAIN unlinked = {}
    BY <1>0, <2>1 DEF RotationInv
  <2> DEFINE d == history[k]
             t == called[rotation.by]
  <2>3. CASE Drops(d, t)
    <3>1. /\ rotation'.by = rotation.by /\ rotation'.left = rotation.left \ {k}
          /\ rotation'.step = "delete" /\ rotation'.at = {k}
      BY <1>0, <1>5, <2>3 DEF Examine, TypeOK, Rotations
    <3>2. ~d.approval
      BY <2>3 DEF Drops
    <3> QED BY <1>0, <2>1, <2>2, <2>3, <3>1, <3>2 DEF RotationInv, InHand, OwnVerdict
  <2>4. CASE ~Drops(d, t) /\ ~d.approval
    <3>1. /\ rotation'.by = rotation.by /\ rotation'.left = rotation.left \ {k}
          /\ rotation'.step = "approve" /\ rotation'.at = {k}
      BY <1>0, <1>5, <2>4 DEF Examine, TypeOK, Rotations
    <3> QED BY <1>0, <2>1, <2>2, <2>4, <3>1 DEF RotationInv, InHand, OwnVerdict
  <2>5. CASE ~Drops(d, t) /\ d.approval
    <3>1. /\ rotation'.by = rotation.by /\ rotation'.left = rotation.left \ {k}
          /\ rotation'.step = "walk" /\ rotation'.at = {}
      BY <1>0, <1>5, <2>5 DEF Examine, TypeOK, Rotations
    <3> QED BY <1>0, <2>1, <2>2, <3>1 DEF RotationInv
  <2> QED BY <2>3, <2>4, <2>5
<1>6. ASSUME NEW step, NEW in_hand, GoesOn(step, in_hand)
      PROVE  /\ rotation'.by = rotation.by /\ rotation'.left = rotation.left
             /\ rotation'.step = step /\ rotation'.at = in_hand
  BY <1>0, <1>6 DEF GoesOn, TypeOK, Rotations
<1>7. ASSUME Delete PROVE RotationInv'
  <2>1. /\ rotation'.by = rotation.by /\ rotation'.left = rotation.left
        /\ rotation'.step = "free" /\ rotation'.at = rotation.at
    BY <1>6, <1>7 DEF Delete
  <2>2. /\ DOMAIN history' = DOMAIN history \ rotation.at
        /\ DOMAIN unlinked' = rotation.at /\ UNCHANGED called
    BY <1>7 DEF Delete, Without
  <2>3. rotation.by # "none"
    BY <1>0, <1>7 DEF Delete, RotationInv, NoRotation
  <2> QED BY <1>0, <2>1, <2>2, <2>3 DEF RotationInv, InHand, OwnVerdict
<1>8. ASSUME Free PROVE RotationInv'
  <2>1. /\ rotation'.by = rotation.by /\ rotation'.left = rotation.left
        /\ rotation'.step = "walk" /\ rotation'.at = {}
    BY <1>6, <1>8 DEF Free
  <2>2. DOMAIN unlinked' = {} /\ UNCHANGED <<history, called>>
    BY <1>8 DEF Free, None
  <2>3. rotation.by # "none"
    BY <1>0, <1>8 DEF Free, RotationInv, NoRotation
  <2> QED BY <1>0, <2>1, <2>2, <2>3 DEF RotationInv
<1>9. ASSUME Approve PROVE RotationInv'
  <2>1. /\ rotation'.by = rotation.by /\ rotation'.left = rotation.left
        /\ rotation'.step = "walk" /\ rotation'.at = {}
    BY <1>6, <1>9 DEF Approve
  <2>2. DOMAIN history' = DOMAIN history /\ UNCHANGED <<unlinked, called>>
    BY <1>9 DEF Approve
  <2>3. rotation.by # "none" /\ DOMAIN unlinked = {}
    BY <1>0, <1>9 DEF Approve, RotationInv, NoRotation
  <2> QED BY <1>0, <2>1, <2>2, <2>3 DEF RotationInv
<1>10. ASSUME Unlock PROVE RotationInv'
  <2>1. rotation' = NoRotation /\ UNCHANGED <<history, unlinked>> /\ DOMAIN unlinked = {}
    BY <1>0, <1>10 DEF Unlock, RotationInv
  <2> QED BY <2>1 DEF RotationInv, NoRotation
<1>11. ASSUME Find PROVE RotationInv'
  <2>1. rotation.by # "capture" /\ UNCHANGED <<called, unlinked>>
    BY <1>0, <1>11, BusyElsewhere DEF Find
  <2>2. /\ DOMAIN history \subseteq DOMAIN history'
        /\ \A k \in DOMAIN history : history'[k] = history[k]
    BY <1>11 DEF Find, Inserted
  <2>3. CASE UNCHANGED rotation
    BY <1>0, <2>1, <2>2, <2>3 DEF RotationInv, InHand, OwnVerdict
  <2>4. CASE /\ packet.key \notin DOMAIN history \cup rotation.at
             /\ rotation.left # {}
             /\ rotation' = [rotation EXCEPT !.left = @ \cup {packet.key}]
             /\ history' = Inserted(packet.key)
    <3>1. /\ rotation'.by = rotation.by /\ rotation'.left = rotation.left \cup {packet.key}
          /\ rotation'.step = rotation.step /\ rotation'.at = rotation.at
      BY <1>0, <2>4 DEF TypeOK, Rotations
    <3>2. rotation'.left \subseteq DOMAIN history' \ rotation'.at
      BY <1>0, <2>2, <2>4, <3>1 DEF RotationInv, Inserted
    <3>3. rotation.by # "none"
      BY <1>0, <2>4 DEF RotationInv, NoRotation
    <3> QED BY <1>0, <2>1, <2>2, <3>1, <3>2, <3>3 DEF RotationInv, InHand, OwnVerdict
  <2> QED BY <1>11, <2>3, <2>4 DEF Find
<1>12. ASSUME Touch \/ CountInRecord PROVE RotationInv'
  <2>1. rotation.by # "capture" /\ UNCHANGED <<called, rotation>>
    BY <1>0, <1>12, BusyElsewhere DEF Touch, CountInRecord
  <2>2. DOMAIN history' = DOMAIN history /\ DOMAIN unlinked' = DOMAIN unlinked
    BY <1>12 DEF Touch, CountInRecord, Update
  <2>3. \A k \in DOMAIN history' : history'[k].approval = history[k].approval
    <3> SUFFICES ASSUME NEW k \in DOMAIN history'
                 PROVE  history'[k].approval = history[k].approval
      OBVIOUS
    <3>1. packet # NoPacket
      BY <1>12 DEF Touch, CountInRecord, NoPacket
    <3>2. history[k] \in Record /\ packet.t \in Nat /\ packet.len \in Nat
      BY <1>0, <2>2, <3>1, PacketFields DEF TypeOK
    <3>3. /\ Touched(history[k], packet).approval = history[k].approval
          /\ Counted(history[k], packet).approval = history[k].approval
      BY <3>2, UpdateType DEF Record
    <3>4. Grown(history, history')
      BY <1>12, TouchGrows, CountGrows
    <3> QED BY <2>2, <3>3, <3>4 DEF Grown
  <2> QED BY <1>0, <2>1, <2>2, <2>3 DEF RotationInv, InHand, OwnVerdict
<1> QED
  BY <1>1, <1>2, <1>3, <1>4, <1>5, <1>7, <1>8, <1>9, <1>10, <1>11, <1>12
  DEF Next, Rotate, Account, CountInTotals, Clock, vars

(* Accounting never makes a figure smaller: packets come in time order.      *)
LEMMA UpdateGrows ==
    ASSUME IInv, NEW k, Updated(k)
    PROVE  /\ history[k] \in Record /\ history'[k] \in Record
           /\ history'[k].approval = history[k].approval
           /\ history'[k].create_time = history[k].create_time
           /\ history'[k].last_update_time >= history[k].last_update_time
           /\ history'[k].total_sent >= history[k].total_sent
           /\ history'[k].total_recv >= history[k].total_recv
<1>1. packet # NoPacket
  BY DEF Updated, NoPacket
<1>2. history[k] \in Record /\ packet.t \in Nat /\ packet.len \in Nat
  BY <1>1, PacketFields DEF Updated, IInv, TypeOK
<1>3. packet.t >= history[k].last_update_time
  BY <1>1, <1>2 DEF Updated, IInv, Past, PacketLatest, Record
<1>4. CASE history'[k] = Touched(history[k], packet)
  <2>1. history'[k] = [history[k] EXCEPT !.last_update_time = packet.t]
    BY <1>4 DEF Touched
  <2> QED BY <1>2, <1>3, <2>1 DEF Record
<1>5. CASE history'[k] = Counted(history[k], packet)
  BY <1>2, <1>5, UpdateType DEF Record
<1> QED BY <1>4, <1>5 DEF Updated

LEMMA QualifyStep ==
    ASSUME IInv, [Next]_vars
    PROVE  ApprovedQualify'
<1> SUFFICES ASSUME NEW k \in DOMAIN history', history'[k].approval
             PROVE  Qualifies(history'[k])
  BY DEF ApprovedQualify
<1>1. Unchanged(k) \/ Approved(k) \/ Updated(k) \/ Created(k)
  BY RecordSteps DEF IInv
<1>2. CASE Unchanged(k)
  BY <1>2 DEF Unchanged, IInv, ApprovedQualify
<1>3. CASE Approved(k)
  <2>1. Qualifies(history[k]) /\ history[k] \in Record
    BY <1>3 DEF Approved, IInv, TypeOK
  <2> QED BY <1>3, <2>1 DEF Approved, Qualifies, Age, Total, Record
<1>4. CASE Updated(k)
  <2>1. Qualifies(history[k])
    BY <1>4, UpdateGrows DEF Updated, IInv, ApprovedQualify
  <2>2. Age(history'[k]) >= Age(history[k]) /\ Total(history'[k]) >= Total(history[k])
    BY <1>4, UpdateGrows DEF Age, Total, Record
  <2>3. Age(history[k]) \in Int /\ Age(history'[k]) \in Int
        /\ Total(history[k]) \in Nat /\ Total(history'[k]) \in Nat
    BY <1>4, UpdateGrows DEF Age, Total, Record
  <2> QED BY <2>1, <2>2, <2>3, OptionsAssumption DEF Qualifies
<1>5. CASE Created(k)
  BY <1>5 DEF Created, history_create
<1> QED BY <1>1, <1>2, <1>3, <1>4, <1>5

LEMMA Invariant == Spec => []IInv
<1>1. IInv /\ [Next]_vars => IInv'
  <2> SUFFICES ASSUME IInv, [Next]_vars PROVE IInv'
    OBVIOUS
  <2>1. TypeOK'
    BY TypeStep DEF IInv
  <2> QED BY <2>1, PastStep, RotationStep, QualifyStep DEF IInv
<1> QED BY <1>1, InvInit, PTL DEF Spec

(* History's type invariant, for every value of its constants. *)
THEOREM TypeCorrect == Spec => []TypeOK
<1>1. IInv => TypeOK
  BY DEF IInv
<1> QED BY <1>1, Invariant, PTL

-----------------------------------------------------------------------------
(* Approved records qualify, wherever the updates of the accounting come     *)
(* between the steps of the rotations (iftop.c:186-199, 513-536).            *)
THEOREM ApprovedSafe == Spec => []ApprovedQualify
<1>1. IInv => ApprovedQualify
  BY DEF IInv
<1> QED BY <1>1, Invariant, PTL

(* An approved record is never dropped, and its figures never shrink         *)
(* (iftop.c:195).                                                            *)
THEOREM ApprovedPermanent == Spec => ApprovedStay
<1> DEFINE Stays(k) ==
        /\ k \in DOMAIN history'
        /\ history'[k].approval
        /\ history'[k].total_sent >= history[k].total_sent
        /\ history'[k].total_recv >= history[k].total_recv
        /\ history'[k].last_update_time >= history[k].last_update_time
<1>1. ASSUME IInv, [Next]_vars, NEW k \in DOMAIN history, history[k].approval
      PROVE  Stays(k)
  <2>1. k \in DOMAIN history'
    <3> SUFFICES ASSUME k \notin DOMAIN history' PROVE FALSE
      OBVIOUS
    <3>1. rotation.step = "delete" /\ k \in rotation.at
      BY <1>1, RecordsGone DEF IInv
    <3> QED BY <1>1, <3>1 DEF IInv, RotationInv, InHand
  <2>2. Unchanged(k) \/ Approved(k) \/ Updated(k)
    BY <1>1, <2>1, RecordSteps DEF IInv, Created
  <2>3. history[k] \in Record
    BY <1>1 DEF IInv, TypeOK
  <2>4. CASE Unchanged(k)
    BY <1>1, <2>1, <2>3, <2>4 DEF Unchanged, Record
  <2>5. CASE Approved(k)
    BY <2>1, <2>3, <2>5 DEF Approved, Record
  <2>6. CASE Updated(k)
    BY <1>1, <2>1, <2>6, UpdateGrows
  <2> QED BY <2>2, <2>4, <2>5, <2>6
<1>2. IInv /\ [Next]_vars =>
        [\A k \in DOMAIN history : history[k].approval => Stays(k)]_vars
  BY <1>1
<1> QED BY <1>2, Invariant, PTL DEF Spec, ApprovedStay

(* What the capture thread's own rotation takes out still fails the tests of *)
(* iftop.c:188 when it does: no packet comes in between.                     *)
LEMMA OwnDrop ==
    ASSUME IInv, [Next]_vars, NEW k \in DOMAIN history \ DOMAIN history',
           rotation.by = "capture"
    PROVE  Drops(history[k], called["capture"])
<1>1. rotation.step = "delete" /\ k \in rotation.at
  BY RecordsGone DEF IInv
<1> QED BY <1>1 DEF IInv, RotationInv, OwnVerdict

(* The capture thread's own ticks, however late and whoever ticked while     *)
(* they waited, drop no record with a packet in this very second, provided   *)
(* -d is at most CHECK_AFTER_N_SECS + 1 and -t is not negative.              *)
THEOREM RecentSafe ==
    ASSUME Duration <= CHECK_AFTER_N_SECS + 1, DeleteInterval >= 0
    PROVE  Spec => RecentKept
<1>1. ASSUME IInv, [Next]_vars, NEW k \in DOMAIN history \ DOMAIN history',
             rotation.by = "capture"
      PROVE  history[k].last_update_time < now
  <2> DEFINE t == called["capture"]
  <2>1. Drops(history[k], t)
    BY <1>1, OwnDrop
  <2>2. t \in Nat /\ now \in Nat /\ t <= now
    BY <1>1, TickersAssumption DEF IInv, TypeOK, Past
  <2>3. history[k] \in Record
    BY <1>1 DEF IInv, TypeOK
  <2> HIDE DEF t
  <2>4. CASE is_short_connection(history[k], t)
    BY <2>2, <2>3, <2>4, OptionsAssumption, TimesAssumption
    DEF is_short_connection, Age, Record
  <2>5. CASE is_low_traffic_connection(history[k], t)
    BY <2>2, <2>3, <2>5, OptionsAssumption
    DEF is_low_traffic_connection, Record
  <2> QED BY <2>1, <2>4, <2>5 DEF Drops
<1>2. IInv /\ [Next]_vars =>
        [\A k \in DOMAIN history \ DOMAIN history' :
            rotation.by = "capture" => history[k].last_update_time < now]_vars
  BY <1>1
<1> QED BY <1>2, Invariant, PTL DEF Spec, RecentKept

(* With the capture thread alone no record that qualifies is dropped         *)
(* (iftop.c:195).  A second one may come to do it after the test of a record.*)
THEOREM QualifiedSafe ==
    ASSUME Tickers = {"capture"}
    PROVE  Spec => QualifiedKept
<1>1. ASSUME IInv, [Next]_vars, NEW k \in DOMAIN history \ DOMAIN history'
      PROVE  ~Qualifies(history[k])
  <2>1. rotation.by = "capture"
    <3>1. rotation.step = "delete"
      BY <1>1, RecordsGone DEF IInv
    <3>2. rotation.by # "none"
      BY <1>1, <3>1 DEF IInv, RotationInv, NoRotation
    <3> QED BY <1>1, <3>2 DEF IInv, TypeOK, Rotations
  <2>2. Drops(history[k], called["capture"])
    BY <1>1, <2>1, OwnDrop
  <2>3. history[k] \in Record
    BY <1>1 DEF IInv, TypeOK
  <2>4. Total(history[k]) \in Nat /\ Age(history[k]) \in Int
    BY <2>3 DEF Total, Age, Record
  <2> QED
    BY <2>2, <2>4, OptionsAssumption
    DEF Drops, is_short_connection, is_low_traffic_connection, Qualifies
<1>2. IInv /\ [Next]_vars =>
        [\A k \in DOMAIN history \ DOMAIN history' : ~Qualifies(history[k])]_vars
  BY <1>1
<1> QED BY <1>2, Invariant, PTL DEF Spec, QualifiedKept

(* When only the capture thread ticks, the record it found is still there    *)
(* when it does the accounting (iftop.c:513-536): its own ticks come before. *)
THEOREM AccountingSafe ==
    ASSUME Tickers = {"capture"}
    PROVE  Spec => []RecordIsInTable
<1>1. Init => RecordIsInTable
  BY DEF Init, RecordIsInTable, NoPacket
<1>2. ASSUME IInv, RecordIsInTable, [Next]_vars, packet'.step \in {"touch", "record"}
      PROVE  packet'.key \in DOMAIN history'
  <2>0. TypeOK /\ RotationInv
    BY <1>2 DEF IInv
  <2>1. packet' # NoPacket
    BY <1>2 DEF NoPacket
  <2>2. CASE Find
    <3>1. packet # NoPacket /\ packet' = [packet EXCEPT !.step = "touch"]
      BY <2>1, <2>2 DEF Find, NoPacket
    <3>2. packet'.key = packet.key
      BY <2>0, <3>1, StepOfPacket
    <3> QED BY <2>1, <2>2, <3>2 DEF Find, Inserted
  <2>3. CASE Touch
    <3>1. packet # NoPacket /\ packet' = [packet EXCEPT !.step = "record"]
      BY <2>3 DEF Touch, NoPacket
    <3>2. packet'.key = packet.key
      BY <2>0, <3>1, StepOfPacket
    <3> QED BY <1>2, <2>3, <3>2 DEF Touch, Update, RecordIsInTable
  <2>4. CASE CountInRecord
    <3>1. packet # NoPacket /\ packet' = [packet EXCEPT !.step = "totals"]
      BY <2>4 DEF CountInRecord, NoPacket
    <3> QED BY <1>2, <2>0, <3>1, StepOfPacket
  <2>5. CASE packet.step = "tick"
    <3>1. packet # NoPacket
      BY <2>5 DEF NoPacket
    <3>2. [packet EXCEPT !.step = "find"].step = "find"
      BY <2>0, <3>1, StepOfPacket
    <3>3. UNCHANGED packet \/ packet' = [packet EXCEPT !.step = "find"]
      BY <1>2, <2>5, <3>1
      DEF Next, Rotate, Account, Capture, Call, Lock, Examine, Delete, Free, Approve,
          Unlock, Return, Find, Touch, CountInRecord, CountInTotals, Clock, vars
    <3> QED BY <1>2, <2>5, <3>2, <3>3
  <2>6. CASE packet.step # "tick" /\ ~Find /\ ~Touch /\ ~CountInRecord
    <3>1. rotation.by # "capture" /\ called["capture"] = 0
      BY <2>0, <2>6, BusyElsewhere
    <3>2. rotation = NoRotation
      BY <2>0, <3>1 DEF RotationInv, TypeOK, Rotations
    <3>3. ~Rotate
      BY <3>2 DEF Rotate, Delete, Free, Approve, Unlock, NoRotation
    <3>4. \A th \in Tickers : ~Call(th) /\ ~Lock(th)
      BY <3>1 DEF Call, Lock
    <3>5. UNCHANGED <<packet, history>>
      BY <1>2, <2>1, <2>6, <3>3, <3>4
      DEF Next, Account, Capture, CountInTotals, Clock, vars
    <3> QED BY <1>2, <3>5 DEF RecordIsInTable
  <2> QED BY <2>2, <2>3, <2>4, <2>5, <2>6
<1>3. IInv /\ RecordIsInTable /\ [Next]_vars => RecordIsInTable'
  BY <1>2 DEF RecordIsInTable
<1> QED BY <1>1, <1>3, Invariant, PTL DEF Spec

-----------------------------------------------------------------------------
(* Every byte is somewhere *)

(* Finitely many records: what BytesOf adds up. *)
Bytes(records) == [k \in DOMAIN records |-> Total(records[k])]

Summable(records) ==
    IsFiniteSet(DOMAIN records) /\ \A k \in DOMAIN records : records[k] \in Record

LEMMA BytesType ==
    ASSUME NEW f, Summable(f)
    PROVE  Bytes(f) \in [DOMAIN f -> Nat] /\ BytesOf(f) \in Nat
<1>1. \A d \in Record : Total(d) \in Nat
  BY DEF Total, Record
<1>2. Bytes(f) \in [DOMAIN f -> Nat]
  BY <1>1 DEF Bytes, Summable
<1>3. IsFiniteSet(DOMAIN f) /\ DOMAIN f \in SUBSET DOMAIN f
  BY DEF Summable
<1>4. SumFunction(Bytes(f)) \in Nat
  BY <1>2, <1>3, SumParts
<1> QED BY <1>2, <1>4 DEF BytesOf, Bytes

LEMMA BytesNone ==
    ASSUME NEW f, DOMAIN f = {}
    PROVE  BytesOf(f) = 0
<1>1. DOMAIN [k \in DOMAIN f |-> Total(f[k])] = {}
  OBVIOUS
<1> QED BY <1>1, SumNone DEF BytesOf

LEMMA BytesSame ==
    ASSUME NEW f, NEW g, DOMAIN g = DOMAIN f, \A k \in DOMAIN f : Total(g[k]) = Total(f[k])
    PROVE  BytesOf(g) = BytesOf(f)
<1>1. [k \in DOMAIN g |-> Total(g[k])] = [k \in DOMAIN f |-> Total(f[k])]
  OBVIOUS
<1> QED BY <1>1 DEF BytesOf

LEMMA BytesSplit ==
    ASSUME NEW f, Summable(f), NEW T \in SUBSET DOMAIN f
    PROVE  BytesOf(f) = BytesOf([k \in T |-> f[k]]) + BytesOf(Without(f, T))
<1> DEFINE b == Bytes(f)
           S == DOMAIN f
           inside == [k \in T |-> f[k]]
           outside == Without(f, T)
<1>1. b \in [S -> Nat] /\ IsFiniteSet(S)
  BY BytesType DEF Summable
<1>2. SumFunction(b) = SumFunction([k \in T |-> b[k]]) + SumFunction([k \in S \ T |-> b[k]])
  <2> HIDE DEF b, S
  <2>1. T \in SUBSET S
    BY DEF S
  <2> QED BY <1>1, <2>1, SumParts
<1>3. [k \in DOMAIN inside |-> Total(inside[k])] = [k \in T |-> b[k]]
  BY DEF Bytes
<1>4. [k \in DOMAIN outside |-> Total(outside[k])] = [k \in S \ T |-> b[k]]
  BY DEF Bytes, Without
<1> HIDE DEF inside, outside
<1>5. BytesOf(inside) = SumFunction([k \in T |-> b[k]])
  BY <1>3 DEF BytesOf
<1>6. BytesOf(outside) = SumFunction([k \in S \ T |-> b[k]])
  BY <1>4 DEF BytesOf
<1>7. BytesOf(f) = SumFunction(b)
  BY DEF BytesOf, Bytes
<1>8. BytesOf(f) = BytesOf(inside) + BytesOf(outside)
  BY <1>2, <1>5, <1>6, <1>7
<1> QED BY <1>8 DEF inside, outside

LEMMA BytesUpdated ==
    ASSUME NEW f, NEW g, Summable(f), Summable(g), NEW y \in DOMAIN f, NEW n \in Nat,
           DOMAIN g = DOMAIN f, \A k \in DOMAIN f \ {y} : g[k] = f[k],
           Total(g[y]) = Total(f[y]) + n
    PROVE  BytesOf(g) = BytesOf(f) + n
<1> DEFINE S == DOMAIN f
           b == Bytes(f)
           c == Bytes(g)
<1>1. b \in [S -> Nat] /\ c \in [S -> Nat] /\ IsFiniteSet(S) /\ y \in S
  BY BytesType DEF Summable
<1>2. \A k \in S \ {y} : c[k] = b[k]
  BY DEF Bytes
<1>3. c[y] = b[y] + n /\ b[y] \in Nat
  BY <1>1 DEF Bytes
<1> HIDE DEF S, b, c
<1>4. DifferBy(b, c, y)
  BY <1>1, <1>2, SumChanged
<1>5. SumFunction(c) = SumFunction(b) + n
  <2>1. /\ SumFunction(c) + b[y] = SumFunction(b) + c[y]
        /\ SumFunction(b) \in Nat /\ SumFunction(c) \in Nat
    BY <1>4 DEF DifferBy
  <2>2. PICK p \in Nat, q \in Nat, r \in Nat, s \in Nat :
            p = SumFunction(c) /\ q = SumFunction(b) /\ r = b[y] /\ s = c[y]
    BY <1>3, <2>1
  <2>3. p + r = q + s /\ s = r + n
    BY <1>3, <2>1, <2>2
  <2>4. p = q + n
    BY <2>3
  <2> QED BY <2>2, <2>4
<1> QED BY <1>5 DEF BytesOf, Bytes, b, c

(* A record starts with no bytes. *)
LEMMA BytesInserted ==
    ASSUME NEW key, Summable(history), history_create \in Record
    PROVE  /\ Summable(Inserted(key))
           /\ BytesOf(Inserted(key)) = BytesOf(history)
<1> DEFINE g == Inserted(key)
           S == DOMAIN history
           new == {key} \ S
<1>1. DOMAIN g = S \cup {key} /\ \A k \in S : g[k] = history[k]
  BY DEF Inserted
<1>2. \A k \in new : g[k] = history_create
  BY DEF Inserted
<1>3. Summable(g)
  <2>1. IsFiniteSet(S \cup {key})
    BY FS_AddElement DEF Summable
  <2>2. ASSUME NEW k \in DOMAIN g PROVE g[k] \in Record
    BY <1>1, <1>2, <2>2 DEF Summable
  <2> QED BY <1>1, <2>1, <2>2 DEF Summable
<1>4. new \in SUBSET DOMAIN g
  BY <1>1
<1>5. BytesOf(Without(g, new)) = BytesOf(history)
  <2>1. DOMAIN Without(g, new) = S /\ \A k \in S : Without(g, new)[k] = history[k]
    BY <1>1 DEF Without
  <2> HIDE DEF g, S, new
  <2> QED BY <2>1, BytesSame DEF S
<1>6. BytesOf([k \in new |-> g[k]]) = 0
  <2>1. CASE new = {}
    BY <2>1, BytesNone
  <2>2. CASE new = {key}
    <3> DEFINE one == [k \in {key} |-> g[k]]
               b == Bytes(one)
    <3>1. DOMAIN one = {key} /\ one[key] = history_create
      BY <1>2, <2>2
    <3>2. b \in [{key} -> Nat] /\ b[key] = 0
      BY <3>1 DEF Bytes, Total, history_create
    <3>3. IsFiniteSet({key}) /\ key \in {key}
      BY FS_Singleton
    <3>4. SumFunction(b) = b[key] + SumFunction([x \in {key} \ {key} |-> b[x]])
      <4> HIDE DEF b
      <4> QED BY <3>2, <3>3, SumOne
    <3>5. SumFunction([x \in {key} \ {key} |-> b[x]]) = 0
      <4> HIDE DEF b
      <4>1. DOMAIN [x \in {key} \ {key} |-> b[x]] = {}
        OBVIOUS
      <4> QED BY <4>1, SumNone
    <3>6. SumFunction(b) = 0
      BY <3>2, <3>4, <3>5
    <3> HIDE DEF one
    <3> QED BY <2>2, <3>6 DEF BytesOf, Bytes, one
  <2> QED BY <2>1, <2>2
<1>7. BytesOf(g) = BytesOf([k \in new |-> g[k]]) + BytesOf(Without(g, new))
  <2> HIDE DEF g, new
  <2> QED BY <1>3, <1>4, BytesSplit
<1>8. BytesOf(history) \in Nat
  BY BytesType
<1> HIDE DEF g
<1> QED BY <1>3, <1>5, <1>6, <1>7, <1>8 DEF g

(* The bytes of the packet at hand that its record has and the totals lack. *)
Pending == IF packet.step = "totals" THEN packet.len ELSE 0

CountedSoFar == history_totals.sent + history_totals.recv + Pending
Kept == dropped + BytesOf(history) + BytesOf(unlinked)

SumInv ==
    /\ IsFiniteSet(DOMAIN history) /\ IsFiniteSet(DOMAIN unlinked)
    /\ dropped \in Nat
    /\ TotalsConserved

LEMMA SumFacts ==
    ASSUME TypeOK, SumInv
    PROVE  /\ Summable(history) /\ Summable(unlinked)
           /\ BytesOf(history) \in Nat /\ BytesOf(unlinked) \in Nat
           /\ dropped \in Nat /\ Pending \in Nat
           /\ CountedSoFar \in Nat /\ Kept \in Nat
<1>1. Summable(history) /\ Summable(unlinked)
  BY DEF TypeOK, SumInv, Summable
<1>2. BytesOf(history) \in Nat /\ BytesOf(unlinked) \in Nat
  BY <1>1, BytesType
<1>3. Pending \in Nat
  <2>1. packet.step = "totals" => packet # NoPacket
    BY DEF NoPacket
  <2> QED BY <2>1, PacketFields DEF Pending
<1>4. history_totals.sent \in Nat /\ history_totals.recv \in Nat
  BY DEF TypeOK
<1> QED BY <1>1, <1>2, <1>3, <1>4 DEF SumInv, CountedSoFar, Kept

(* A step that counts as many bytes as it keeps is right. *)
LEMMA SumMoves ==
    ASSUME SumInv, IsFiniteSet(DOMAIN history'), IsFiniteSet(DOMAIN unlinked'),
           dropped' \in Nat, freedUse => freedUse', NEW n,
           CountedSoFar' = CountedSoFar + n, Kept' = Kept + n \/ freedUse'
    PROVE  SumInv'
<1>1. ~freedUse => CountedSoFar = Kept
  BY DEF SumInv, TotalsConserved, CountedSoFar, Kept, Pending
<1>2. ~freedUse' => CountedSoFar' = Kept'
  BY <1>1
<1>3. TotalsConserved'
  BY <1>2 DEF TotalsConserved, CountedSoFar, Kept, Pending
<1> QED BY <1>3 DEF SumInv

(* The bytes of a table after an update for the packet at hand. *)
LEMMA BytesCounted ==
    ASSUME TypeOK, packet # NoPacket, NEW f, Summable(f), packet.key \in DOMAIN f
    PROVE  LET g == [f EXCEPT ![packet.key] = Counted(@, packet)]
               h == [f EXCEPT ![packet.key] = Touched(@, packet)]
           IN  /\ DOMAIN g = DOMAIN f /\ BytesOf(g) = BytesOf(f) + packet.len
               /\ DOMAIN h = DOMAIN f /\ BytesOf(h) = BytesOf(f)
<1> DEFINE y == packet.key
           g == [f EXCEPT ![y] = Counted(@, packet)]
           h == [f EXCEPT ![y] = Touched(@, packet)]
<1>1. f[y] \in Record /\ packet.t \in Nat /\ packet.len \in Nat
  BY PacketFields DEF Summable
<1>2. /\ Counted(f[y], packet) \in Record /\ Total(Counted(f[y], packet)) = Total(f[y]) + packet.len
      /\ Total(Touched(f[y], packet)) = Total(f[y])
  BY <1>1, UpdateType
<1>3. /\ DOMAIN g = DOMAIN f /\ g[y] = Counted(f[y], packet)
      /\ \A k \in DOMAIN f \ {y} : g[k] = f[k]
  OBVIOUS
<1>4. /\ DOMAIN h = DOMAIN f /\ h[y] = Touched(f[y], packet)
      /\ \A k \in DOMAIN f \ {y} : h[k] = f[k]
  OBVIOUS
<1> HIDE DEF g, h, y
<1>5. Summable(g)
  BY <1>2, <1>3 DEF Summable
<1>6. BytesOf(g) = BytesOf(f) + packet.len
  BY <1>1, <1>2, <1>3, <1>5, BytesUpdated DEF y
<1>7. BytesOf(h) = BytesOf(f)
  <2>1. \A k \in DOMAIN f : Total(h[k]) = Total(f[k])
    BY <1>2, <1>4
  <2> QED BY <1>4, <2>1, BytesSame
<1> QED BY <1>3, <1>4, <1>6, <1>7 DEF g, h, y

(* No packet gains or loses pending bytes in a tick. *)
LEMMA PendingStays ==
    ASSUME TypeOK, RotationInv, [Next]_vars
    PROVE  \/ CountInRecord \/ CountInTotals
           \/ Pending' = Pending /\ UNCHANGED history_totals
<1> SUFFICES ASSUME ~CountInRecord, ~CountInTotals
             PROVE  Pending' = Pending /\ UNCHANGED history_totals
  OBVIOUS
<1>1. CASE UNCHANGED packet
  BY <1>1 DEF Pending, Next, Rotate, Account, Capture, Call, Lock, Examine, Delete, Free,
     Approve, Unlock, Find, Touch, CountInTotals, Clock, vars
<1>2. ASSUME NEW th, called["capture"] # 0, Return(th)
      PROVE  Pending' = Pending
  <2>1. packet.step = "tick" /\ packet # NoPacket
    BY <1>2 DEF TypeOK, NoPacket
  <2>2. [packet EXCEPT !.step = "find"].step = "find"
    BY <2>1, StepOfPacket
  <2> QED BY <1>2, <2>1, <2>2 DEF Return, Pending
<1>3. ASSUME NEW th \in Tickers, called[th] # 0, Return(th)
      PROVE  Pending' = Pending
  BY <1>2, <1>3 DEF Return, Pending
<1>4. ASSUME NEW th \in Tickers, Lock(th) PROVE Pending' = Pending /\ UNCHANGED history_totals
  BY <1>3, <1>4 DEF Lock, Pending
<1>5. CASE Unlock
  <2>1. rotation.by \in Tickers /\ called[rotation.by] # 0 /\ Return(rotation.by)
    BY <1>5 DEF Unlock, RotationInv, TypeOK, Rotations
  <2> QED BY <1>3, <1>5, <2>1 DEF Unlock
<1>6. ASSUME NEW k \in Keys, NEW flow \in Flows, NEW len \in Lengths,
             Capture(k, flow, len)
      PROVE  Pending' = Pending /\ UNCHANGED history_totals
  <2>1. packet.step = "idle" /\ packet'.step = "tick"
    BY <1>6 DEF Capture, NoPacket
  <2> QED BY <1>6, <2>1 DEF Pending, Capture
<1>7. CASE Find \/ Touch
  <2>1. packet.step \in {"find", "touch"} /\ packet # NoPacket /\ UNCHANGED history_totals
    BY <1>7 DEF Find, Touch, NoPacket
  <2>2. packet' = NoPacket \/ \E s \in {"touch", "record"} : packet' = [packet EXCEPT !.step = s]
    BY <1>7 DEF Find, Touch
  <2>3. packet'.step \in {"idle", "touch", "record"}
    <3>1. NoPacket.step = "idle"
      BY DEF NoPacket
    <3>2. \A s \in {"touch", "record"} : [packet EXCEPT !.step = s].step = s
      BY <2>1, StepOfPacket
    <3> QED BY <2>2, <3>1, <3>2
  <2> QED BY <2>1, <2>3 DEF Pending
<1> QED
  BY <1>1, <1>4, <1>5, <1>6, <1>7
  DEF Next, Rotate, Account, Call, Examine, Delete, Free, Approve, Clock, vars

LEMMA SumStep ==
    ASSUME IInv, SumInv, [Next]_vars
    PROVE  SumInv'
<1>0. TypeOK /\ TypeOK' /\ RotationInv
  BY TypeStep DEF IInv
<1>1. /\ Summable(history) /\ Summable(unlinked)
      /\ BytesOf(history) \in Nat /\ BytesOf(unlinked) \in Nat
      /\ dropped \in Nat /\ Pending \in Nat /\ CountedSoFar \in Nat /\ Kept \in Nat
      /\ IsFiniteSet(DOMAIN history) /\ IsFiniteSet(DOMAIN unlinked)
  BY <1>0, SumFacts DEF Summable
<1>2. ASSUME Pending' = Pending, UNCHANGED history_totals, IsFiniteSet(DOMAIN history'),
             IsFiniteSet(DOMAIN unlinked'), dropped' \in Nat, freedUse => freedUse',
             Kept' = Kept \/ freedUse'
      PROVE  SumInv'
  <2>1. CountedSoFar' = CountedSoFar
    BY <1>2 DEF CountedSoFar
  <2>2. CountedSoFar' = CountedSoFar + 0 /\ (Kept' = Kept + 0 \/ freedUse')
    BY <1>1, <1>2, <2>1
  <2> QED BY <1>2, <2>2, SumMoves
<1>3. ASSUME UNCHANGED <<history, unlinked, dropped, freedUse>>,
             Pending' = Pending, UNCHANGED history_totals
      PROVE  SumInv'
  BY <1>1, <1>2, <1>3 DEF Kept
<1>4. CASE Delete
  <2>1. rotation.at \in SUBSET DOMAIN history /\ DOMAIN unlinked = {}
    BY <1>0, <1>4 DEF Delete, RotationInv, InHand
  <2>2. /\ history' = Without(history, rotation.at)
        /\ unlinked' = [k \in rotation.at |-> history[k]]
        /\ UNCHANGED <<dropped, freedUse>>
    BY <1>4 DEF Delete
  <2>3. BytesOf(history) = BytesOf(unlinked)' + BytesOf(history)'
    <3>1. BytesOf(history) = BytesOf([k \in rotation.at |-> history[k]])
                              + BytesOf(Without(history, rotation.at))
      BY <1>1, <2>1, BytesSplit
    <3> QED BY <2>2, <3>1
  <2>4. IsFiniteSet(DOMAIN history') /\ IsFiniteSet(DOMAIN unlinked')
    BY <1>1, <2>1, <2>2, FS_Subset DEF Without
  <2>5. Summable(history)' /\ Summable(unlinked)'
    BY <1>0, <2>4 DEF TypeOK, Summable
  <2>6. BytesOf(history)' \in Nat /\ BytesOf(unlinked)' \in Nat
    BY <2>5, BytesType
  <2>7. BytesOf(unlinked) = 0
    BY <2>1, BytesNone
  <2>8. Kept' = Kept
    BY <1>1, <2>2, <2>3, <2>6, <2>7 DEF Kept
  <2>9. Pending' = Pending /\ UNCHANGED history_totals
    BY <1>4 DEF Delete, Pending
  <2> QED BY <1>1, <1>2, <2>2, <2>4, <2>8, <2>9
<1>5. CASE Free
  <2>1. dropped' = dropped + BytesOf(unlinked) /\ DOMAIN unlinked' = {}
    BY <1>5 DEF Free, None
  <2>2. BytesOf(unlinked)' = 0 /\ BytesOf(history)' = BytesOf(history)
    BY <1>5, <2>1, BytesNone DEF Free
  <2>3. Kept' = Kept
    BY <1>1, <2>1, <2>2 DEF Kept
  <2>4. UNCHANGED <<history, freedUse, history_totals>> /\ Pending' = Pending
    BY <1>5 DEF Free, Pending
  <2>5. IsFiniteSet(DOMAIN unlinked')
    BY <2>1, FS_EmptySet
  <2> QED BY <1>1, <1>2, <2>1, <2>3, <2>4, <2>5
<1>6. CASE Approve
  <2>1. DOMAIN history' = DOMAIN history
    BY <1>6 DEF Approve
  <2>2. ASSUME NEW k \in DOMAIN history PROVE Total(history'[k]) = Total(history[k])
    <3>1. history[k] \in Record
      BY <1>0 DEF TypeOK
    <3>2. \/ history'[k] = history[k]
          \/ history'[k] = [history[k] EXCEPT !.approval = TRUE]
      BY <1>6 DEF Approve
    <3> QED BY <3>1, <3>2 DEF Total, Record
  <2>3. BytesOf(history)' = BytesOf(history)
    BY <2>1, <2>2, BytesSame
  <2>4. UNCHANGED <<unlinked, freedUse, dropped, history_totals>> /\ Pending' = Pending
    BY <1>6 DEF Approve, Pending
  <2>5. Kept' = Kept
    BY <2>3, <2>4 DEF Kept
  <2> QED BY <1>1, <1>2, <2>1, <2>4, <2>5
<1>7. CASE Find /\ Pending' = Pending
  <2>1. UNCHANGED <<unlinked, freedUse, dropped, history_totals>>
    BY <1>7 DEF Find
  <2>2. CASE UNCHANGED history
    BY <1>3, <1>7, <2>1, <2>2
  <2>3. CASE history' = Inserted(packet.key)
    <3>1. history_create \in Record
      BY <1>0 DEF history_create, Record, TypeOK
    <3>2. IsFiniteSet(DOMAIN history') /\ BytesOf(history)' = BytesOf(history)
      BY <1>1, <2>3, <3>1, BytesInserted DEF Summable
    <3>3. Kept' = Kept
      BY <2>1, <3>2 DEF Kept
    <3> QED BY <1>1, <1>2, <1>7, <2>1, <3>2, <3>3
  <2> QED BY <1>7, <2>2, <2>3 DEF Find
<1>8. CASE Touch /\ Pending' = Pending
  <2>1. packet # NoPacket /\ UNCHANGED <<dropped, history_totals>>
    BY <1>8 DEF Touch, NoPacket
  <2>2. CASE /\ packet.key \in DOMAIN history
             /\ history' = [history EXCEPT ![packet.key] = Touched(@, packet)]
             /\ UNCHANGED <<unlinked, freedUse>>
    <3>1. DOMAIN history' = DOMAIN history /\ BytesOf(history)' = BytesOf(history)
      BY <1>0, <1>1, <2>1, <2>2, BytesCounted
    <3> QED BY <1>1, <1>2, <1>8, <2>1, <2>2, <3>1 DEF Kept
  <2>3. CASE /\ packet.key \in DOMAIN unlinked
             /\ unlinked' = [unlinked EXCEPT ![packet.key] = Touched(@, packet)]
             /\ UNCHANGED <<history, freedUse>>
    <3>1. DOMAIN unlinked' = DOMAIN unlinked /\ BytesOf(unlinked)' = BytesOf(unlinked)
      BY <1>0, <1>1, <2>1, <2>3, BytesCounted
    <3> QED BY <1>1, <1>2, <1>8, <2>1, <2>3, <3>1 DEF Kept
  <2>4. CASE freedUse' = TRUE /\ UNCHANGED <<history, unlinked>>
    BY <1>1, <1>2, <1>8, <2>1, <2>4
  <2> QED BY <1>8, <2>2, <2>3, <2>4 DEF Touch, Update
<1>9. CASE CountInRecord
  <2>1. packet # NoPacket /\ UNCHANGED <<dropped, history_totals>> /\ Pending = 0
    BY <1>9 DEF CountInRecord, NoPacket, Pending
  <2>2. Pending' = packet.len /\ packet.len \in Nat
    BY <1>0, <1>9, <2>1, StepOfPacket, PacketFields DEF CountInRecord, Pending
  <2>3. CountedSoFar' = CountedSoFar + packet.len
    <3>1. history_totals.sent \in Nat /\ history_totals.recv \in Nat
      BY <1>0 DEF TypeOK
    <3> QED BY <2>1, <2>2, <3>1 DEF CountedSoFar
  <2>4. CASE /\ packet.key \in DOMAIN history
             /\ history' = [history EXCEPT ![packet.key] = Counted(@, packet)]
             /\ UNCHANGED <<unlinked, freedUse>>
    <3>1. DOMAIN history' = DOMAIN history /\ BytesOf(history)' = BytesOf(history) + packet.len
      BY <1>0, <1>1, <2>1, <2>4, BytesCounted
    <3>2. Kept' = Kept + packet.len
      BY <1>1, <2>1, <2>2, <2>4, <3>1 DEF Kept
    <3> QED BY <1>1, <2>1, <2>3, <2>4, <3>1, <3>2, SumMoves
  <2>5. CASE /\ packet.key \in DOMAIN unlinked
             /\ unlinked' = [unlinked EXCEPT ![packet.key] = Counted(@, packet)]
             /\ UNCHANGED <<history, freedUse>>
    <3>1. DOMAIN unlinked' = DOMAIN unlinked /\ BytesOf(unlinked)' = BytesOf(unlinked) + packet.len
      BY <1>0, <1>1, <2>1, <2>5, BytesCounted
    <3>2. Kept' = Kept + packet.len
      BY <1>1, <2>1, <2>2, <2>5, <3>1 DEF Kept
    <3> QED BY <1>1, <2>1, <2>3, <2>5, <3>1, <3>2, SumMoves
  <2>6. CASE freedUse' = TRUE /\ UNCHANGED <<history, unlinked>>
    BY <1>1, <2>1, <2>3, <2>6, SumMoves
  <2> QED BY <1>9, <2>4, <2>5, <2>6 DEF CountInRecord, Update
<1>10. CASE CountInTotals
  <2>1. packet # NoPacket /\ UNCHANGED <<dropped, history, unlinked, freedUse>>
    BY <1>10 DEF CountInTotals, NoPacket
  <2>2. Pending = packet.len /\ packet.len \in Nat /\ Pending' = 0
    BY <1>0, <1>10, <2>1, PacketFields DEF CountInTotals, Pending, NoPacket
  <2>3. CountedSoFar' = CountedSoFar + 0
    <3>1. history_totals \in [sent : Nat, recv : Nat]
      BY <1>0 DEF TypeOK
    <3>2. (history_totals.sent + history_totals.recv)'
            = history_totals.sent + history_totals.recv + packet.len
      BY <1>10, <2>2, <3>1 DEF CountInTotals
    <3> QED BY <2>2, <3>1, <3>2 DEF CountedSoFar
  <2>4. Kept' = Kept + 0
    BY <1>1, <2>1 DEF Kept
  <2> QED BY <1>1, <2>1, <2>3, <2>4, SumMoves
<1>11. CASE Pending' = Pending /\ UNCHANGED history_totals
  BY <1>3, <1>4, <1>5, <1>6, <1>7, <1>8, <1>9, <1>10, <1>11
  DEF Next, Rotate, Account, Capture, Call, Lock, Examine, Unlock, Clock, vars
<1> QED BY <1>0, <1>9, <1>10, <1>11, PendingStays

(* Every byte counted is in a record of the table or went with one that was  *)
(* dropped, whatever step of a rotation comes between the two additions of   *)
(* the accounting, or between them and the search (iftop.c:513-547).         *)
THEOREM TotalsSafe == Spec => []TotalsConserved
<1>1. Init => SumInv
  <2> SUFFICES ASSUME Init PROVE SumInv
    OBVIOUS
  <2>1. DOMAIN history = {} /\ DOMAIN unlinked = {}
    BY DEF Init, None
  <2>2. BytesOf(history) = 0 /\ BytesOf(unlinked) = 0
    BY <2>1, BytesNone
  <2> QED BY <2>1, <2>2, FS_EmptySet DEF Init, SumInv, TotalsConserved, NoPacket
<1>2. IInv /\ SumInv /\ [Next]_vars => SumInv'
  BY SumStep
<1>3. SumInv => TotalsConserved
  BY DEF SumInv
<1> QED BY <1>1, <1>2, <1>3, Invariant, PTL DEF Spec
=============================================================================
