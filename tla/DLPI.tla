-------------------------------- MODULE DLPI --------------------------------
(***************************************************************************)
(* The talk with a STREAMS driver about the interface's hardware address   *)
(* (addrs_dlpi.c over dlcommon.c): attach, bind, ask for information; each *)
(* request waits for its acknowledgement under alarm(MAXWAIT), and nearly  *)
(* every failure ends the program.                                         *)
(*                                                                         *)
(* The alarm stays armed until it is switched off or fires, whatever the   *)
(* program is doing then.                                                  *)
(***************************************************************************)
EXTENDS Integers

CONSTANT Messages  \* what the driver may answer: see Message

VARIABLES
    phase,     \* how far main() has come
    awaited,   \* the primitive getmsg() waits for
    alarm,     \* the timer is running
    hw         \* the hardware address found: [have, addr]

dlpiVars == <<phase, awaited, alarm, hw>>

Nothing == "nothing"
Acks == {"DL_OK_ACK", "DL_BIND_ACK", "DL_INFO_ACK"}

(* whole: as long as the structure; more: there was more than the buffer     *)
(* holds; an address has dl_addr_length bytes, the SAP's among them when     *)
(* dl_sap_length is negative.                                                *)
Message == [prim : Acks \cup {"DL_ERROR_ACK", "unknown"}, whole : BOOLEAN,
            hipri : BOOLEAN, more : BOOLEAN, addr_length : Nat, sap_length : Int]
ASSUME MessageAssumption == Messages \subseteq Message

Stages == {"attach", "bind", "info"}
NoHw == [have |-> FALSE, addr |-> Nothing]

exit == phase' = "exit" /\ awaited' = Nothing /\ alarm' = FALSE

-----------------------------------------------------------------------------
(* The start of strgetmsg(): the timer, then the wait. *)
WaitUntimed(ack) == awaited' = ack /\ UNCHANGED alarm
Wait(ack) == awaited' = ack /\ alarm' = TRUE

(* A request, and the wait for its acknowledgement; putmsg() may fail. *)
Request(stage, ack) ==
    /\ phase = stage /\ awaited = Nothing
    /\ exit \/ (Wait(ack) /\ UNCHANGED phase)
    /\ UNCHANGED hw

dlattachreq == Request("attach", "DL_OK_ACK")
dlbindreq   == Request("bind", "DL_BIND_ACK")
dlinforeq   == Request("info", "DL_INFO_ACK")

(* The rest of strgetmsg(): getmsg() has returned message m. *)
StopForgotten == UNCHANGED alarm
Stop == alarm' = FALSE

expecting(prim, m) == m.prim = prim

Acknowledged(ack, m, next) ==
    /\ awaited = ack
    /\ IF ~m.more /\ expecting(ack, m) /\ m.whole /\ m.hipri
       THEN Stop /\ awaited' = Nothing /\ phase' = next
       ELSE exit

dlokack(m) == Acknowledged("DL_OK_ACK", m, "bind") /\ UNCHANGED hw

dlbindack(m) == Acknowledged("DL_BIND_ACK", m, "info") /\ UNCHANGED hw

(* With the information, the address is taken if it has six bytes. *)
dlinfoack(m, addr) ==
    /\ Acknowledged("DL_INFO_ACK", m, "ip")
    /\ hw' = IF phase' = "ip" /\ m.addr_length + m.sap_length = 6
             THEN [have |-> TRUE, addr |-> addr] ELSE hw

GetmsgFails == awaited # Nothing /\ exit /\ UNCHANGED hw

sigalrm == alarm /\ exit /\ UNCHANGED hw

-----------------------------------------------------------------------------
(* split_dname() wants a number at the end of the name: "/dev/ge" is opened  *)
(* for ge0, or "/dev/ge0".  For "/dev/ge0" both names start with             *)
(* "/dev//dev/".                                                             *)
split_dname(interface) == interface.unit

OpenDevice(interface, opens) ==
    IF split_dname(interface) /\ ~interface.qualified /\ opens THEN "attach" ELSE "ip"
=============================================================================
