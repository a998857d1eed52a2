------------------------------- MODULE PdpSetup -------------------------------
(***************************************************************************)
(* Data-call setup and teardown of the u300 RIL (u300-ril-pdp.c) and the   *)
(* connection state machine fed by "*E2NAP:" (u300-ril.c).                 *)
(* The interface calls of net-utils.c (ifc_init, ifc_down, ifc_configure)  *)
(* are composed in, with usb0 and the shared ioctl socket as state.        *)
(*                                                                         *)
(* Actors:                                                                 *)
(*   - the normal queueRunner, which runs RIL_REQUEST_SETUP_DATA_CALL,     *)
(*     DEACTIVATE_DATA_CALL and LAST_DATA_CALL_FAIL_CAUSE one at a time,   *)
(*     one step per AT command round trip or per state read;               *)
(*   - the prio queueRunner (when the RIL was started with -x), which runs *)
(*     the onPDPContextListChanged events; without -x they run on the      *)
(*     normal runner;                                                      *)
(*   - the AT reader, which runs onConnectionStateChanged for every        *)
(*     "*E2NAP:" line, in the order the modem sent them;                   *)
(*   - the modem's PDP context and the Android data connection tracker,    *)
(*     as environment.                                                     *)
(*                                                                         *)
(* An AT command completes only after the reader has handled every         *)
(* unsolicited line the modem sent before the final response, because the *)
(* reader reads the one channel in order: AT steps of the normal runner    *)
(* are guarded by urc = <<>>.  The radio is taken to be SIM_READY, so      *)
(* processRequest admits every request modelled here.                      *)
(***************************************************************************)
EXTENDS Integers, Sequences

CONSTANTS
  PrioEnabled,   \* the prio queue and its runner exist (-x given)
  Causes,        \* <cause> values the modem reports with "*E2NAP: 0"
  MaxSetups,     \* SETUP_DATA_CALL requests the framework sends
  MaxErrors,     \* AT commands answered ERROR or failing at channel level
  MaxTimeouts,   \* 17 s waits for "*E2NAP" that run out
  MaxDrops,      \* active contexts the network drops
  MaxIfcErrors   \* interface ioctls (net-utils.c) that fail

(* E2NAP states and the causes mbm_check_error_cause sorts (3GPP 24.008   *)
(* numbering, as the comment at u300-ril-pdp.c 164-166 gives it).         *)
E2NAP_ST_DISCONNECTED == 0
E2NAP_ST_CONNECTING   == 1
E2NAP_ST_CONNECTED    == 2
E2NAP_C_SUCCESS       == 0
GRPS_SEM_INCORRECT_MSG        == 95
GPRS_MSG_NOT_COMP_PROTO_STATE == 101
GPRS_PROTO_ERROR_UNSPECIFIED  == 111
REGULAR_DEACTIVATION          == 36
(* RIL_LastDataCallActivateFailCause values (ril.h) the RIL answers.      *)
PDP_FAIL_PROTOCOL_ERRORS   == 111
PDP_FAIL_ERROR_UNSPECIFIED == 65535
(* AT*ENAP? answers.                                                       *)
ENAP_T_NOT_CONNECTED == 0
ENAP_T_CONNECTED     == 1
ENAP_T_CONN_IN_PROG  == 2

Workers == IF PrioEnabled THEN {"normal", "prio"} ELSE {"normal"}
EventQueue == IF PrioEnabled THEN "prio" ELSE "normal"
Requests == {"SETUP_DATA_CALL", "DEACTIVATE_DATA_CALL",
             "LAST_DATA_CALL_FAIL_CAUSE"}
(* The steps of requestSetupDefaultPDP after it took its request.          *)
SetupSteps == {"cgdcont", "cscs_read", "cscs_ucs2", "eiaauw", "cscs_restore",
               "enap", "wait", "e2ipcfg", "configure", "respond", "complete",
               "error", "enap_off"}
(* The character sets requestSetupDefaultPDP switches away from.           *)
SwitchedCharsets == {"GSM", "IRA", "8859-1", "UTF-8"}

(* net-utils.c on ril_iface (usb0).  The kernel keeps the interface's    *)
(* flag IFF_UP, its IPv4 address (0: none; otherwise the number of the   *)
(* context it came from) and whether the host route to the gateway is    *)
(* set.  Bringing an interface down removes the routes through it and   *)
(* keeps its address.                                                    *)
NoIface == [up |-> FALSE, addr |-> 0, route |-> FALSE]
Down(i) == [i EXCEPT !.up = FALSE, !.route = FALSE]

(* ifc_init: a socket() unless ifc_ctl_sock is already open.  ifc_close  *)
(* closes it and sets it back to -1.                                     *)
ifc_init(sock) == "open"
ifc_close(sock) == "closed"

(* ifc_down (ifc_set_flags with IFF_UP cleared): SIOCGIFFLAGS and         *)
(* SIOCSIFFLAGS on ifc_ctl_sock, which fail on a closed socket.           *)
ifc_down(i, sock, ok) == IF sock = "open" /\ ok THEN Down(i) ELSE i
ifc_downOk(sock, ok) == sock = "open" /\ ok
(* ifc_up, ifc_set_addr and ifc_add_host_route as they change usb0 when   *)
(* their ioctl succeeds.                                                 *)
ifc_up(i) == [i EXCEPT !.up = TRUE]
ifc_set_addr(i, a) == [i EXCEPT !.addr = a]
ifc_add_host_route(i) == [i EXCEPT !.route = TRUE]

(* The step of ifc_configure that fails, if any.                          *)
IfcSteps == {"none", "up", "addr", "mask", "route"}

(* ifc_add_ipv4_route, as ifc_add_host_route calls it: ifc_init, the      *)
(* SIOCADDRT ioctl, then ifc_close on every path that reaches the ioctl:  *)
(* the socket it leaves is closed, whoever opened it.                     *)
ifc_add_ipv4_route(sock) == ifc_close(ifc_init(sock))

(* ifc_configure(ril_iface, addr, ...): ifc_init, ifc_up, ifc_set_addr,   *)
(* ifc_set_mask, ifc_add_host_route(gateway), each failure followed by    *)
(* ifc_down (except after ifc_up) and ifc_close; the result is the        *)
(* interface and the socket it leaves for failing step f.                 *)
ifc_configure(i, sock, a, f) ==
  LET s0    == ifc_init(sock)
      upped == ifc_up(i)
      addrd == ifc_set_addr(upped, a)
      sR    == ifc_add_ipv4_route(s0)
  IN CASE f = "none"  -> [iface |-> ifc_add_host_route(addrd),
                          sock |-> ifc_close(sR)]
       [] f = "up"    -> [iface |-> i, sock |-> ifc_close(s0)]
       [] f = "addr"  -> [iface |-> ifc_down(upped, s0, TRUE),
                          sock |-> ifc_close(s0)]
       [] f = "mask"  -> [iface |-> ifc_down(addrd, s0, TRUE),
                          sock |-> ifc_close(s0)]
       [] f = "route" -> [iface |-> ifc_down(addrd, sR, TRUE),
                          sock |-> ifc_close(sR)]

VARIABLES
  s_e2napState, s_e2napCause,  \* u300-ril.c, written by reader and setup
  s_lastPdpFailCause,          \* u300-ril-pdp.c
  cscs,                        \* the TE character set of the modem
  origChSet,                   \* requestSetupDefaultPDP local
  pc,                          \* per runner: handler step, "idle" between
  requests,                    \* normal queue's request FIFO
  events,                      \* onPDPContextListChanged events per queue
  ctx,                         \* modem PDP context 1
  urc,                         \* "*E2NAP" lines sent, not yet read
  fw,                          \* Android data connection tracker state
  fwCause,                     \* last LAST_DATA_CALL_FAIL_CAUSE answer (-1: none)
  seen,                        \* per runner: e2napState read by
                               \* requestOrSendPDPContextList at entry
  ownCause,                    \* history: this setup met a failure of its own
  nSetups, nErrors, nTimeouts, nDrops,
  ifc_ctl_sock,                \* net-utils.c: the ioctl socket, "open" or
                               \* "closed" (-1), shared by every caller
  usb0,                        \* the kernel's view of ril_iface
  ctxAddr,                     \* the address the modem gave context 1
  nIfcErrors

ifc == <<ifc_ctl_sock, usb0, ctxAddr, nIfcErrors>>
ril == <<s_e2napState, s_e2napCause, s_lastPdpFailCause, cscs, origChSet>>
counters == <<nSetups, nErrors, nTimeouts, nDrops>>
vars == <<ril, pc, requests, events, ctx, urc, fw, fwCause, seen, ownCause,
          counters, ifc>>

Init ==
  /\ s_e2napState = -1 /\ s_e2napCause = -1
  /\ s_lastPdpFailCause = PDP_FAIL_ERROR_UNSPECIFIED
  /\ cscs = "UTF-8"              \* initializeCommon: AT+CSCS="UTF-8"
  /\ origChSet = "UTF-8"
  /\ pc = [w \in Workers |-> "idle"]
  /\ requests = <<>>
  /\ events = [w \in Workers |-> 0]
  /\ ctx = "idle" /\ urc = <<>>
  /\ fw = "idle" /\ fwCause = -1
  /\ seen = [w \in Workers |-> -1]
  /\ ownCause = FALSE
  /\ nSetups = 0 /\ nErrors = 0 /\ nTimeouts = 0 /\ nDrops = 0
  /\ ifc_ctl_sock = "closed"
  /\ usb0 = NoIface /\ ctxAddr = 0 /\ nIfcErrors = 0

-----------------------------------------------------------------------------
(* Mutant: the modem's cause number is stored as the fail cause for a      *)
(* cause outside the handled ranges.                                       *)
mbm_check_error_causeRaw(st, c, last) ==
  CASE c < E2NAP_C_SUCCESS \/ st = E2NAP_ST_CONNECTED -> PDP_FAIL_ERROR_UNSPECIFIED
    [] c \in GRPS_SEM_INCORRECT_MSG..GPRS_MSG_NOT_COMP_PROTO_STATE
         -> PDP_FAIL_PROTOCOL_ERRORS
    [] c = GPRS_PROTO_ERROR_UNSPECIFIED -> PDP_FAIL_PROTOCOL_ERRORS
    [] OTHER -> c

(* mbm_check_error_cause: the new s_lastPdpFailCause for E2NAP state st,   *)
(* cause c and the current value last.  Causes outside the two protocol    *)
(* ranges leave the value as it was.                                       *)
mbm_check_error_cause(st, c, last) ==
  CASE c < E2NAP_C_SUCCESS \/ st = E2NAP_ST_CONNECTED -> PDP_FAIL_ERROR_UNSPECIFIED
    [] c \in GRPS_SEM_INCORRECT_MSG..GPRS_MSG_NOT_COMP_PROTO_STATE
         -> PDP_FAIL_PROTOCOL_ERRORS
    [] c = GPRS_PROTO_ERROR_UNSPECIFIED -> PDP_FAIL_PROTOCOL_ERRORS
    [] OTHER -> last

(* Mutant: onPDPContextListChanged is queued for CONNECTED only (== for    *)
(* != in the test before enqueueRILEvent).                                 *)
onConnectionStateChangedOnlyConnected ==
  /\ urc # <<>>
  /\ LET m == Head(urc)
     IN /\ s_e2napState' = m.state
        /\ s_e2napCause' = m.cause
        /\ events' = IF m.state = E2NAP_ST_CONNECTED
                       THEN [events EXCEPT ![EventQueue] = @ + 1]
                       ELSE events
        /\ s_lastPdpFailCause' =
             mbm_check_error_cause(m.state, m.cause, s_lastPdpFailCause)
  /\ urc' = Tail(urc)
  /\ UNCHANGED <<ifc, cscs, origChSet, pc, requests, ctx, fw, fwCause, seen,
                 ownCause, counters>>

(* onConnectionStateChanged, run by the reader for the oldest "*E2NAP"     *)
(* line: store state and cause under s_e2nap_mutex, queue                  *)
(* onPDPContextListChanged unless the state is CONNECTING, then            *)
(* mbm_check_error_cause on the stored values.                             *)
onConnectionStateChanged ==
  /\ urc # <<>>
  /\ LET m == Head(urc)
     IN /\ s_e2napState' = m.state
        /\ s_e2napCause' = m.cause
        /\ events' = IF m.state # E2NAP_ST_CONNECTING
                       THEN [events EXCEPT ![EventQueue] = @ + 1]
                       ELSE events
        /\ s_lastPdpFailCause' =
             mbm_check_error_cause(m.state, m.cause, s_lastPdpFailCause)
  /\ urc' = Tail(urc)
  /\ UNCHANGED <<ifc, cscs, origChSet, pc, requests, ctx, fw, fwCause, seen,
                 ownCause, counters>>

-----------------------------------------------------------------------------
(* The modem's PDP context.  AT*ENAP=1,1 starts an activation that the     *)
(* network accepts or rejects; AT*ENAP=0 starts a deactivation; an active  *)
(* context may be dropped by the network.  Each change is reported with    *)
(* "*E2NAP: <state>[,<cause>]" once it has happened; a line without a      *)
(* cause is parsed to cause -1.                                            *)
E2nap(st, c) == [state |-> st, cause |-> c]

ModemActivated ==
  /\ ctx = "activating"
  /\ ctx' = "active"
  /\ ctxAddr' = nSetups
  /\ urc' = Append(urc, E2nap(E2NAP_ST_CONNECTED, -1))
  /\ UNCHANGED <<ifc_ctl_sock, usb0, nIfcErrors, ril, pc, requests, events, fw, fwCause, seen, ownCause, counters>>

ModemRejected ==
  /\ ctx = "activating"
  /\ \E c \in Causes :
       /\ ctx' = "idle"
       /\ urc' = Append(urc, E2nap(E2NAP_ST_DISCONNECTED, c))
  /\ ownCause' = (ownCause \/ pc["normal"] \in SetupSteps)
  /\ UNCHANGED <<ifc, ril, pc, requests, events, fw, fwCause, seen, counters>>

ModemDropped ==
  /\ ctx = "active"
  /\ nDrops < MaxDrops
  /\ \E c \in Causes :
       /\ ctx' = "idle"
       /\ urc' = Append(urc, E2nap(E2NAP_ST_DISCONNECTED, c))
  /\ nDrops' = nDrops + 1
  /\ ownCause' = (ownCause \/ pc["normal"] \in SetupSteps)
  /\ UNCHANGED <<ifc, ril, pc, requests, events, fw, fwCause, seen, nSetups, nErrors,
                 nTimeouts>>

ModemDeactivated ==
  /\ ctx = "deactivating"
  /\ ctx' = "idle"
  /\ urc' = Append(urc, E2nap(E2NAP_ST_DISCONNECTED, REGULAR_DEACTIVATION))
  /\ UNCHANGED <<ifc, ril, pc, requests, events, fw, fwCause, seen, ownCause, counters>>

(* AT*ENAP? answer for each context state.                                 *)
EnapOf(c) == CASE c = "idle"       -> ENAP_T_NOT_CONNECTED
               [] c = "activating" -> ENAP_T_CONN_IN_PROG
               [] OTHER            -> ENAP_T_CONNECTED
-----------------------------------------------------------------------------
(* AT command outcomes: the final response OK, a final response ERROR      *)
(* (success == 0), or a channel-level failure (err < 0); the last two are  *)
(* bounded by MaxErrors.                                                   *)
Outcomes == IF nErrors < MaxErrors THEN {"ok", "error", "fail"} ELSE {"ok"}

(* Failures of the interface ioctls, bounded by MaxIfcErrors.              *)
IfcFailures(steps) == IF nIfcErrors < MaxIfcErrors THEN steps ELSE {"none"}

(* A step of the normal runner that issues one AT command: it completes    *)
(* once the reader has handled the lines sent before the response, moves  *)
(* to next[o], and counts a non-OK answer.  ownCause records that this     *)
(* setup is failing for a reason of its own.                               *)
AtStepOf(w, from, o, next) ==
  /\ pc[w] = from
  /\ urc = <<>>
  /\ o \in Outcomes
  /\ pc' = [pc EXCEPT ![w] = next[o]]
  /\ nErrors' = IF o = "ok" THEN nErrors ELSE nErrors + 1
  /\ ownCause' = (ownCause \/ next[o] = "error")

AtStep(from, o, next) == AtStepOf("normal", from, o, next)

(* A step of the normal runner that only reads s_e2napState.               *)
Goto(from, to) ==
  /\ pc["normal"] = from
  /\ pc' = [pc EXCEPT !["normal"] = to]

Untouched == <<requests, events, ctx, urc, fw, fwCause, seen>>

(* Mutant: the interface is not brought down before the new context.     *)
requestSetupDefaultPDPNoDown(o) ==
  /\ pc["normal"] = "idle"
  /\ requests # <<>> /\ Head(requests) = "SETUP_DATA_CALL"
  /\ o \in Outcomes \ {"error"}
  /\ requests' = Tail(requests)
  /\ s_e2napState' = -1 /\ s_e2napCause' = -1
  /\ s_lastPdpFailCause' = PDP_FAIL_ERROR_UNSPECIFIED
  /\ pc' = [pc EXCEPT !["normal"] = IF o = "ok" THEN "cgdcont" ELSE "error"]
  /\ nErrors' = IF o = "ok" THEN nErrors ELSE nErrors + 1
  /\ ownCause' = (o # "ok")
  /\ ifc_ctl_sock' = ifc_init(ifc_ctl_sock)
  /\ UNCHANGED usb0
  /\ UNCHANGED <<ctxAddr, nIfcErrors, cscs, origChSet, events, ctx, urc, fw,
                 fwCause, seen, nSetups, nTimeouts, nDrops>>

(* requestSetupDefaultPDP, entry: s_e2napState and s_e2napCause are reset *)
(* to -1 without s_e2nap_mutex, s_lastPdpFailCause to UNSPECIFIED; then    *)
(* ifc_init and ifc_down(ril_iface).  Either may fail: socket() only when  *)
(* the socket is closed, the ioctls of ifc_down on an open one.  The      *)
(* socket is left open on every path.                                     *)
requestSetupDefaultPDP(o) ==
  /\ pc["normal"] = "idle"
  /\ requests # <<>> /\ Head(requests) = "SETUP_DATA_CALL"
  /\ o \in Outcomes \ {"error"}
  /\ requests' = Tail(requests)
  /\ s_e2napState' = -1 /\ s_e2napCause' = -1
  /\ s_lastPdpFailCause' = PDP_FAIL_ERROR_UNSPECIFIED
  /\ pc' = [pc EXCEPT !["normal"] = IF o = "ok" THEN "cgdcont" ELSE "error"]
  /\ nErrors' = IF o = "ok" THEN nErrors ELSE nErrors + 1
  /\ ownCause' = (o # "ok")
  /\ \/ /\ o = "ok"
        /\ ifc_ctl_sock' = ifc_init(ifc_ctl_sock)
        /\ usb0' = ifc_down(usb0, ifc_ctl_sock', TRUE)
     \/ /\ o = "fail"
        /\ ifc_ctl_sock = "closed"
        /\ UNCHANGED <<ifc_ctl_sock, usb0>>
     \/ /\ o = "fail"
        /\ ifc_ctl_sock' = ifc_init(ifc_ctl_sock)
        /\ usb0' = ifc_down(usb0, ifc_ctl_sock', FALSE)
  /\ UNCHANGED <<ctxAddr, nIfcErrors, cscs, origChSet, events, ctx, urc, fw,
                 fwCause, seen, nSetups, nTimeouts, nDrops>>

(* AT+CGDCONT=1,"IP",apn; any failure ends the request.                    *)
SetupCgdcont(o) ==
  /\ AtStep("cgdcont", o, [ok |-> "cscs_read", error |-> "error",
                           fail |-> "error"])
  /\ UNCHANGED <<ifc, ril, Untouched, nSetups, nTimeouts, nDrops>>

(* AT+CSCS?: keep the current set in origChSet and switch to UCS2 if it is *)
(* GSM, IRA, 8859-n or UTF-8; any other set is taken to be UCS2 already.   *)
SetupCscsRead(o) ==
  /\ AtStep("cscs_read", o,
            [ok |-> IF cscs \in SwitchedCharsets THEN "cscs_ucs2" ELSE "eiaauw",
             error |-> "error", fail |-> "error"])
  /\ origChSet' = IF o = "ok" /\ cscs \in SwitchedCharsets THEN cscs
                  ELSE IF o = "ok" THEN "UCS2" ELSE origChSet
  /\ UNCHANGED <<ifc, s_e2napState, s_e2napCause, s_lastPdpFailCause, cscs,
                 Untouched, nSetups, nTimeouts, nDrops>>

(* AT+CSCS="UCS2": only err < 0 is checked, an ERROR answer is ignored.    *)
SetupCscsUcs2(o) ==
  /\ AtStep("cscs_ucs2", o, [ok |-> "eiaauw", error |-> "eiaauw",
                             fail |-> "error"])
  /\ cscs' = IF o = "ok" THEN "UCS2" ELSE cscs
  /\ UNCHANGED <<ifc, s_e2napState, s_e2napCause, s_lastPdpFailCause, origChSet,
                 Untouched, nSetups, nTimeouts, nDrops>>

(* AT*EIAAUW with the UCS-2 user and password: only err < 0 is checked.    *)
SetupEiaauw(o) ==
  /\ AtStep("eiaauw", o, [ok |-> "cscs_restore", error |-> "cscs_restore",
                          fail |-> "error"])
  /\ UNCHANGED <<ifc, ril, Untouched, nSetups, nTimeouts, nDrops>>

(* AT+CSCS=<origChSet>: back to the original set; only err < 0 checked.   *)
SetupCscsRestore(o) ==
  /\ AtStep("cscs_restore", o, [ok |-> "enap", error |-> "enap",
                                fail |-> "error"])
  /\ cscs' = IF o = "ok" THEN origChSet ELSE cscs
  /\ UNCHANGED <<ifc, s_e2napState, s_e2napCause, s_lastPdpFailCause, origChSet,
                 Untouched, nSetups, nTimeouts, nDrops>>

(* AT*ENAP=1,1: the modem accepts it only with context 1 idle and answers  *)
(* ERROR otherwise.                                                        *)
SetupEnap(o) ==
  /\ LET accepted == o = "ok" /\ ctx = "idle"
     IN /\ AtStep("enap", o, [ok |-> IF accepted THEN "wait" ELSE "error",
                              error |-> "error", fail |-> "error"])
        /\ ctx' = IF accepted THEN "activating" ELSE ctx
  /\ UNCHANGED <<ifc, ril, requests, events, urc, fw, fwCause, seen, nSetups,
                 nTimeouts, nDrops>>

(* The loop polling s_e2napState every 200 ms: it ends on CONNECTED or     *)
(* DISCONNECTED, or after MBM_ENAP_WAIT_TIME polls (17 s), and then goes   *)
(* on whatever the state is.                                               *)
SetupWait ==
  /\ pc["normal"] = "wait"
  /\ \/ /\ s_e2napState \in {E2NAP_ST_CONNECTED, E2NAP_ST_DISCONNECTED}
        /\ UNCHANGED <<ifc, ownCause, nTimeouts>>
     \/ /\ s_e2napState \notin {E2NAP_ST_CONNECTED, E2NAP_ST_DISCONNECTED}
        /\ nTimeouts < MaxTimeouts
        /\ nTimeouts' = nTimeouts + 1
        /\ ownCause' = TRUE
  /\ pc' = [pc EXCEPT !["normal"] = "e2ipcfg"]
  /\ UNCHANGED <<ifc, ril, Untouched, nSetups, nErrors, nDrops>>

(* DISCONNECTED ends the request; otherwise AT*E2IPCFG?, which the modem   *)
(* answers with the addresses only while the context is active.            *)
SetupE2ipcfg(o) ==
  \/ /\ s_e2napState = E2NAP_ST_DISCONNECTED
     /\ Goto("e2ipcfg", "error")
     /\ UNCHANGED <<ifc, ril, Untouched, ownCause, counters>>
  \/ /\ s_e2napState # E2NAP_ST_DISCONNECTED
     /\ AtStep("e2ipcfg", o,
               [ok |-> IF ctx = "active" THEN "configure" ELSE "error",
                error |-> "error", fail |-> "error"])
     /\ UNCHANGED <<ifc, ril, Untouched, nSetups, nTimeouts, nDrops>>

(* Before ifc_configure, and again before the answer, a DISCONNECTED state *)
(* ends the request; ifc_configure's own failure is only logged and the   *)
(* request goes on to answer SUCCESS.  The address is the one AT*E2IPCFG?  *)
(* read, that of the context the modem has activated.                     *)
SetupConfigure ==
  \/ /\ s_e2napState = E2NAP_ST_DISCONNECTED
     /\ Goto("configure", "error")
     /\ UNCHANGED <<ifc, ril, Untouched, ownCause, counters>>
  \/ /\ s_e2napState # E2NAP_ST_DISCONNECTED
     /\ Goto("configure", "respond")
     /\ \E f \in IfcFailures(IfcSteps) :
          LET r == ifc_configure(usb0, ifc_ctl_sock, ctxAddr, f)
          IN /\ usb0' = r.iface
             /\ ifc_ctl_sock' = r.sock
             /\ nIfcErrors' = IF f = "none" THEN nIfcErrors ELSE nIfcErrors + 1
     /\ UNCHANGED <<ctxAddr, ril, Untouched, ownCause, counters>>

SetupRespond ==
  /\ Goto("respond", IF s_e2napState = E2NAP_ST_DISCONNECTED
                     THEN "error" ELSE "complete")
  /\ UNCHANGED <<ifc, ril, Untouched, ownCause, counters>>

(* RIL_onRequestComplete(SUCCESS): the tracker moves to connected.         *)
SetupComplete ==
  /\ Goto("complete", "idle")
  /\ fw' = IF fw = "connecting" THEN "connected" ELSE fw
  /\ UNCHANGED <<ifc, ril, requests, events, ctx, urc, fwCause, seen, ownCause,
                 counters>>

(* error: mbm_check_error_cause on the current state and cause.            *)
SetupError ==
  /\ Goto("error", "enap_off")
  /\ s_lastPdpFailCause' =
       mbm_check_error_cause(s_e2napState, s_e2napCause, s_lastPdpFailCause)
  /\ UNCHANGED <<ifc, s_e2napState, s_e2napCause, cscs, origChSet, Untouched,
                 ownCause, counters>>

(* AT*ENAP=0, whatever its answer, then RIL_onRequestComplete(GENERIC_     *)
(* FAILURE): the tracker asks for the fail cause.                          *)
SetupEnapOff(o) ==
  /\ AtStep("enap_off", o, [ok |-> "idle", error |-> "idle", fail |-> "idle"])
  /\ ctx' = IF o = "ok" /\ ctx \in {"activating", "active"}
              THEN "deactivating" ELSE ctx
  /\ fw' = IF fw = "connecting" THEN "failed" ELSE fw
  /\ requests' = IF fw = "connecting"
                   THEN Append(requests, "LAST_DATA_CALL_FAIL_CAUSE") ELSE requests
  /\ UNCHANGED <<ifc, ril, events, urc, fwCause, seen, nSetups, nTimeouts,
                 nDrops>>

-----------------------------------------------------------------------------
(* requestDeactivateDefaultPDP.  AT*ENAP? first; only when the context is  *)
(* reported connected is AT*ENAP=0 sent (its ERROR is ignored) and ENAP?   *)
(* polled once a second until it reads 0, for at most 85 polls.  Success  *)
(* or failure, the tracker takes the answer as the end of the disconnect. *)
DeactivatedFw == IF fw = "disconnecting" THEN "idle" ELSE fw
DeactivateComplete == fw' = DeactivatedFw

requestDeactivateDefaultPDP(o) ==
  /\ pc["normal"] = "idle"
  /\ requests # <<>> /\ Head(requests) = "DEACTIVATE_DATA_CALL"
  /\ requests' = Tail(requests)
  /\ AtStepOf("normal", "idle", o,
       [ok |-> IF EnapOf(ctx) = ENAP_T_CONNECTED THEN "deact_off" ELSE "idle",
        error |-> "idle", fail |-> "idle"])
  /\ fw' = IF pc'["normal"] = "idle" THEN DeactivatedFw ELSE fw
  /\ UNCHANGED <<ifc, ril, events, ctx, urc, fwCause, seen, nSetups, nTimeouts,
                 nDrops>>

DeactivateEnapOff(o) ==
  /\ AtStep("deact_off", o, [ok |-> "deact_poll", error |-> "deact_poll",
                             fail |-> "idle"])
  /\ ctx' = IF o = "ok" THEN "deactivating" ELSE ctx
  /\ fw' = IF o = "fail" THEN DeactivatedFw ELSE fw
  /\ UNCHANGED <<ifc, ril, requests, events, urc, fwCause, seen, nSetups, nTimeouts,
                 nDrops>>

(* One AT*ENAP? poll that ends the loop: it reads 0, it fails, or it is    *)
(* the 85th poll and the context is still not down.                        *)
(* A poll that reads 0 is followed by ifc_init, ifc_down(ril_iface) and,  *)
(* if that worked, ifc_close; a failed ifc_down answers GENERIC_FAILURE   *)
(* and leaves the socket open.                                           *)
DeactivatePoll(o) ==
  /\ AtStep("deact_poll", o, [ok |-> "idle", error |-> "idle", fail |-> "idle"])
  /\ o = "ok" => EnapOf(ctx) = ENAP_T_NOT_CONNECTED
  /\ DeactivateComplete
  /\ IF o = "ok"
       THEN \E f \in IfcFailures({"none", "down"}) :
              LET s0 == ifc_init(ifc_ctl_sock)
              IN /\ usb0' = ifc_down(usb0, s0, f = "none")
                 /\ ifc_ctl_sock' = IF ifc_downOk(s0, f = "none")
                                     THEN ifc_close(s0) ELSE s0
                 /\ nIfcErrors' = IF f = "none" THEN nIfcErrors
                                  ELSE nIfcErrors + 1
       ELSE UNCHANGED <<ifc_ctl_sock, usb0, nIfcErrors>>
  /\ UNCHANGED <<ctxAddr, ril, requests, events, ctx, urc, fwCause, seen, nSetups,
                 nTimeouts, nDrops>>

DeactivatePollTimeout ==
  /\ pc["normal"] = "deact_poll"
  /\ urc = <<>>
  /\ EnapOf(ctx) # ENAP_T_NOT_CONNECTED
  /\ pc' = [pc EXCEPT !["normal"] = "idle"]
  /\ DeactivateComplete
  /\ UNCHANGED <<ifc, ril, requests, events, ctx, urc, fwCause, seen, ownCause,
                 counters>>

(* requestLastPDPFailCause answers s_lastPdpFailCause; the tracker, which  *)
(* asked for it after a failed setup, records it and may try again.        *)
requestLastPDPFailCause ==
  /\ pc["normal"] = "idle"
  /\ requests # <<>> /\ Head(requests) = "LAST_DATA_CALL_FAIL_CAUSE"
  /\ requests' = Tail(requests)
  /\ fwCause' = s_lastPdpFailCause
  /\ fw' = IF fw = "failed" THEN "idle" ELSE fw
  /\ UNCHANGED <<ifc, ril, pc, events, ctx, urc, seen, ownCause, counters>>

(* onPDPContextListChanged on runner w: requestOrSendPDPContextList reads  *)
(* s_e2napState at entry, then sends AT+CGDCONT?.                          *)
onPDPContextListChanged(w) ==
  /\ pc[w] = "idle"
  /\ events[w] > 0
  /\ events' = [events EXCEPT ![w] = @ - 1]
  /\ seen' = [seen EXCEPT ![w] = s_e2napState]
  /\ pc' = [pc EXCEPT ![w] = "list_cgdcont"]
  /\ UNCHANGED <<ifc, ril, requests, ctx, urc, fw, fwCause, ownCause, counters>>

(* AT+CGDCONT? answered: RIL_UNSOL_DATA_CALL_LIST_CHANGED with the context *)
(* active exactly when the state read at entry was CONNECTED; on an error  *)
(* the indication carries no data, which the framework receives as an      *)
(* empty list.  A tracker that is connected and does not find its context  *)
(* active tears the connection down.                                       *)
requestOrSendPDPContextList(w, o) ==
  /\ AtStepOf(w, "list_cgdcont", o, [ok |-> "idle", error |-> "idle",
                                     fail |-> "idle"])
  /\ IF (o # "ok" \/ seen[w] # E2NAP_ST_CONNECTED) /\ fw = "connected"
       THEN /\ fw' = "disconnecting"
            /\ requests' = Append(requests, "DEACTIVATE_DATA_CALL")
       ELSE UNCHANGED <<ifc, fw, requests>>
  /\ UNCHANGED <<ifc, ril, events, ctx, urc, fwCause, seen, nSetups, nTimeouts,
                 nDrops>>

-----------------------------------------------------------------------------
(* The Android data connection tracker: it asks for a data call when it   *)
(* has none, and may hang up a connected one.                              *)
FwConnect ==
  /\ fw = "idle"
  /\ nSetups < MaxSetups
  /\ fw' = "connecting"
  /\ requests' = Append(requests, "SETUP_DATA_CALL")
  /\ nSetups' = nSetups + 1
  /\ UNCHANGED <<ifc, ril, pc, events, ctx, urc, fwCause, seen, ownCause, nErrors,
                 nTimeouts, nDrops>>

FwDisconnect ==
  /\ fw = "connected"
  /\ fw' = "disconnecting"
  /\ requests' = Append(requests, "DEACTIVATE_DATA_CALL")
  /\ UNCHANGED <<ifc, ril, pc, events, ctx, urc, fwCause, seen, ownCause, counters>>

(* The normal runner runs one step of the handler it is in, or takes the   *)
(* next request or event; the prio runner only runs events.                *)
NormalRunner ==
  \/ \E o \in {"ok", "error", "fail"} :
       \/ requestSetupDefaultPDP(o) \/ SetupCgdcont(o) \/ SetupCscsRead(o)
       \/ SetupCscsUcs2(o) \/ SetupEiaauw(o) \/ SetupCscsRestore(o)
       \/ SetupEnap(o) \/ SetupE2ipcfg(o) \/ SetupEnapOff(o)
       \/ requestDeactivateDefaultPDP(o) \/ DeactivateEnapOff(o)
       \/ DeactivatePoll(o)
  \/ SetupWait \/ SetupConfigure \/ SetupRespond \/ SetupComplete
  \/ SetupError \/ DeactivatePollTimeout \/ requestLastPDPFailCause

EventRunner(w) ==
  \/ onPDPContextListChanged(w)
  \/ \E o \in {"ok", "error", "fail"} : requestOrSendPDPContextList(w, o)

Modem == ModemActivated \/ ModemRejected \/ ModemDropped \/ ModemDeactivated

Next ==
  \/ NormalRunner
  \/ \E w \in Workers : EventRunner(w)
  \/ onConnectionStateChanged
  \/ Modem
  \/ FwConnect \/ FwDisconnect

(* Each queueRunner and the reader are threads that keep running; the     *)
(* modem answers an ENAP request and finishes a deactivation.  The network *)
(* need not drop a context and the user need not do anything.              *)
Fairness ==
  /\ WF_vars(NormalRunner)
  /\ \A w \in Workers : WF_vars(EventRunner(w))
  /\ WF_vars(onConnectionStateChanged)
  /\ WF_vars(ModemActivated \/ ModemRejected)
  /\ WF_vars(ModemDeactivated)

Spec == Init /\ [][Next]_vars /\ Fairness


-----------------------------------------------------------------------------
FwStates == {"idle", "connecting", "connected", "failed", "disconnecting"}
FailCauses == {PDP_FAIL_ERROR_UNSPECIFIED, PDP_FAIL_PROTOCOL_ERRORS}
E2napStates == {-1, E2NAP_ST_DISCONNECTED, E2NAP_ST_CONNECTING,
                E2NAP_ST_CONNECTED}

TypeOK ==
  /\ s_e2napState \in E2napStates
  /\ s_e2napCause \in Causes \cup {-1}
  /\ s_lastPdpFailCause \in FailCauses
  /\ cscs \in SwitchedCharsets \cup {"UCS2"}
  /\ pc \in [Workers -> SetupSteps \cup {"idle", "deact_off", "deact_poll",
                                        "list_cgdcont"}]
  /\ PrioEnabled => pc["prio"] \in {"idle", "list_cgdcont"}
  /\ requests \in Seq(Requests)
  /\ events \in [Workers -> Nat]
  /\ ctx \in {"idle", "activating", "active", "deactivating"}
  /\ urc \in Seq([state : E2napStates \ {-1}, cause : Causes \cup {-1}])
  /\ fw \in FwStates /\ fwCause \in FailCauses \cup {-1}
  /\ seen \in [Workers -> E2napStates]
  /\ ownCause \in BOOLEAN
  /\ ifc_ctl_sock \in {"open", "closed"}
  /\ usb0 \in [up : BOOLEAN, addr : 0..MaxSetups, route : BOOLEAN]
  /\ ctxAddr \in 0..MaxSetups

(* A context that went down under a connected tracker is never forgotten:  *)
(* its "*E2NAP: 0" is still to be read, or onConnectionStateChanged has    *)
(* queued onPDPContextListChanged for it, or a requestOrSendPDPContextList *)
(* that read a state other than CONNECTED is on its way to report it.      *)
DropNotified ==
  (fw = "connected" /\ ctx # "active") =>
     \/ \E i \in DOMAIN urc : urc[i].state = E2NAP_ST_DISCONNECTED
     \/ \E w \in Workers :
          \/ events[w] > 0
          \/ pc[w] = "list_cgdcont" /\ seen[w] # E2NAP_ST_CONNECTED

(* When the network drops the data call of a connected tracker, the RIL    *)
(* eventually tells it so (RIL_UNSOL_DATA_CALL_LIST_CHANGED without an     *)
(* active context) and the tracker leaves "connected".                     *)
FrameworkLearnsDrop == (fw = "connected" /\ ctx = "idle") ~> (fw # "connected")

(* A setup the RIL answers GENERIC_FAILURE failed for a reason of its own: *)
(* an AT error, a timeout, or the network rejecting or dropping the        *)
(* context it asked for; never because of a state left from an earlier    *)
(* data call.                                                              *)
FailureHasOwnCause == fw = "failed" => ownCause

(* While the modem's context 1 is active and usb0 is up, usb0 carries     *)
(* that context's address, never one left from an earlier data call: the *)
(* interface requestSetupDefaultPDP configured for a context the network *)
(* then dropped is brought down before the next activation.              *)
AddressCurrent == (usb0.up /\ ctx = "active") => usb0.addr = ctxAddr

(* Once the tracker is idle and no request is queued or running, usb0 is *)
(* down: the data call's end brings the interface down, as the comment   *)
(* "Bring down the interface as well" in requestDeactivateDefaultPDP     *)
(* intends.                                                              *)
IdleIfaceDown == (fw = "idle" /\ pc["normal"] = "idle" /\ requests = <<>>)
                   => ~usb0.up

(* usb0 is up only with its route to the gateway: ifc_configure takes the *)
(* interface down again when one of its steps fails.                       *)
IfaceUpHasRoute == usb0.up => usb0.route

=============================================================================
