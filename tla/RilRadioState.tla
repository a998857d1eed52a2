---------------------------- MODULE RilRadioState ----------------------------
(***************************************************************************)
(* The radio/SIM state machine of the u300 RIL and the threads that move   *)
(* it (u300-ril.c, u300-ril-sim.c):                                        *)
(*   - one queueRunner per request queue ("normal", and "prio" when the    *)
(*     RIL was started with -x), each reopening its AT channel after a     *)
(*     close and then running events and requests;                         *)
(*   - the AT reader thread, which runs onUnsolicited for every line and   *)
(*     onATReaderClosed when the modem goes away;                          *)
(*   - the modem (radio on/off after AT+CFUN, SIM present or not, resets)  *)
(*     and the Android framework, which asks for radio power and reacts to *)
(*     RIL_UNSOL_RESPONSE_RADIO_STATE_CHANGED; both are environment.       *)
(*                                                                         *)
(* Granularity: one step per AT command round trip or per critical         *)
(* section.  setRadioState is two steps, the write under s_state_mutex and *)
(* the read of sState after the unlock that decides what to notify and to  *)
(* enqueue.  Requests are taken in FIFO order; when events fire relative   *)
(* to each other and to requests is left open (the timing of the event     *)
(* list is RilRequestQueue's subject): a runner takes any pending event.   *)
(***************************************************************************)
EXTENDS Naturals, Sequences, SequencesExt

CONSTANTS
  PrioEnabled,        \* the prio queue and its runner exist (-x given)
  RadioPowerIsPrio,   \* RIL_REQUEST_RADIO_POWER is in the prio table
  MaxToggles,         \* framework radio power changes
  MaxSwaps,           \* SIM removals and insertions
  MaxResets,          \* modem resets (AT channel closed)
  MaxBusy,            \* "+CPIN?" answers that are a plain ERROR
  SimPinEnabled,      \* the SIM asks for its PIN after insertion or reset
  MaxPins,            \* PIN entries by the user
  MaxTimeouts,        \* AT commands that time out (onATTimeout)
  MaxCfunErrors,      \* AT+CFUN commands answered with a plain ERROR
  MaxSimFaults        \* SIM power-offs reported with "*ESIMSR: 7"

States == {"UNAVAILABLE", "OFF", "SIM_NOT_READY", "SIM_LOCKED_OR_ABSENT",
           "SIM_READY"}
Workers == IF PrioEnabled THEN {"normal", "prio"} ELSE {"normal"}
Threads == Workers \cup {"reader"}

(* Queue items: events (pollSIMState with its param, onRadioPowerOn,       *)
(* onSIMReady) and RIL_REQUEST_RADIO_POWER requests with onOff.            *)
Item == [k : {"pollSIMState", "onRadioPowerOn", "onSIMReady", "RADIO_POWER",
              "ENTER_SIM_PIN", "resetSim"},
         arg : 0..1]

VARIABLES
  sState,           \* u300-ril.c sState
  pending_hotswap,  \* u300-ril-sim.c sim_hotswap
  closed,           \* closed flag of each RequestQueue
  queue,            \* pending items of each RequestQueue
  pc,               \* where each thread is
  newState,         \* setRadioState's argument, per thread
  oldState,         \* setRadioState's oldState, per thread
  ret,              \* where a thread goes after setRadioState
  mRadio,           \* modem: AT+CFUN=1 ("on") or 4/after reset ("off")
  mSim,             \* modem: a SIM card is inserted
  mPin,             \* modem: the SIM waits for its PIN
  mSimOff,          \* modem: the SIM is powered off (*ESIMSR state 7)
  mSimReset,        \* modem: AT*ESIMR asked for a SIM reset not yet done
  link,             \* modem: "up", or "down" after a reset
  eof,              \* the reader has yet to see the end of the channel
  urc,              \* unsolicited lines the reader has not read yet
  desired,          \* framework: radio power the user asked for
  notified,         \* framework: a RADIO_STATE_CHANGED not yet handled
  refused,          \* framework: a RADIO_POWER for the power it wants was
                    \* answered GENERIC_FAILURE because AT+CFUN failed
  nToggles, nSwaps, nResets, nBusy, nPins, nTimeouts, nSimFaults, nCfunErrors

modem == <<mRadio, mSim, mPin, mSimOff, mSimReset, link, eof, urc>>
framework == <<desired, notified, refused>>
counters == <<nToggles, nSwaps, nResets, nBusy, nPins, nTimeouts, nSimFaults,
             nCfunErrors>>
locals == <<pc, newState, oldState, ret>>
vars == <<sState, pending_hotswap, closed, queue, locals, modem, framework,
          counters>>

Init ==
  /\ sState = "UNAVAILABLE"
  /\ pending_hotswap = FALSE
  /\ closed = [q \in Workers |-> TRUE]
  /\ queue = [q \in Workers |-> <<>>]
  /\ pc = [t \in Threads |-> IF t = "reader" THEN "read" ELSE "open"]
  /\ newState = [t \in Threads |-> "UNAVAILABLE"]
  /\ oldState = [t \in Threads |-> "UNAVAILABLE"]
  /\ ret = [t \in Threads |-> IF t = "reader" THEN "read" ELSE "loop"]
  /\ mRadio = "off" /\ mSim = TRUE /\ mPin = SimPinEnabled /\ mSimOff = FALSE
  /\ mSimReset = FALSE
  /\ link = "up" /\ eof = FALSE
  /\ urc = <<>>
  /\ desired \in {"on", "off"} /\ notified = FALSE /\ refused = FALSE
  /\ nToggles = 0 /\ nSwaps = 0 /\ nResets = 0 /\ nBusy = 0 /\ nPins = 0
  /\ nTimeouts = 0 /\ nSimFaults = 0 /\ nCfunErrors = 0

-----------------------------------------------------------------------------
(* enqueueRILEvent's queue choice: prio when it is enabled.                *)
EventQueue(isPrio) == IF isPrio /\ PrioEnabled THEN "prio" ELSE "normal"

(* onRequest's queue choice for RIL_REQUEST_RADIO_POWER.                   *)
PowerQueue == EventQueue(RadioPowerIsPrio)

(* The model lets a runner take any pending event, and any request but a   *)
(* RADIO_POWER with an earlier one before it, so the order of a queue      *)
(* matters only among its RADIO_POWER requests.  Items are therefore kept  *)
(* sorted by kind, each inserted after the items of its rank and below:    *)
(* RADIO_POWER requests stay in arrival order, and queues that hold the    *)
(* same items in another order are one state.                              *)
Rank(it) ==
  CASE it.k = "pollSIMState" -> it.arg
    [] it.k = "onRadioPowerOn" -> 2
    [] it.k = "onSIMReady" -> 3
    [] it.k = "resetSim" -> 4
    [] it.k = "ENTER_SIM_PIN" -> 5
    [] it.k = "RADIO_POWER" -> 6

Enqueue(qs, q, it) ==
  LET s == qs[q] IN
  [qs EXCEPT ![q] =
     InsertAt(s, Cardinality({j \in DOMAIN s : Rank(s[j]) <= Rank(it)}) + 1, it)]

(* Thread t calls setRadioState(s) and continues at r afterwards.         *)
CallSetRadioState(t, s, r) ==
  /\ newState' = [newState EXCEPT ![t] = s]
  /\ ret' = [ret EXCEPT ![t] = r]
  /\ pc' = [pc EXCEPT ![t] = "setRadioState"]

(* setRadioState, first half: the write under s_state_mutex.               *)
setRadioState(t) ==
  /\ pc[t] = "setRadioState"
  /\ oldState' = [oldState EXCEPT ![t] = sState]
  /\ sState' = newState[t]
  /\ pc' = [pc EXCEPT ![t] = "setRadioStateNotify"]
  /\ UNCHANGED <<pending_hotswap, closed, queue, newState, ret, modem,
                 framework, counters>>

(* The notification and the follow-up event for radio state s: entering   *)
(* SIM_READY enqueues onSIMReady, entering SIM_NOT_READY onRadioPowerOn.   *)
Notify(t, s) ==
  /\ IF s # oldState[t] \/ s = "SIM_LOCKED_OR_ABSENT"
       THEN /\ notified' = TRUE
            /\ queue' = CASE s = "SIM_READY" ->
                               Enqueue(queue, EventQueue(TRUE),
                                       [k |-> "onSIMReady", arg |-> 0])
                          [] s = "SIM_NOT_READY" ->
                               Enqueue(queue, "normal",
                                       [k |-> "onRadioPowerOn", arg |-> 0])
                          [] OTHER -> queue
       ELSE UNCHANGED <<notified, queue>>
  /\ pc' = [pc EXCEPT ![t] = ret[t]]
  /\ UNCHANGED <<sState, pending_hotswap, closed, newState, oldState, ret,
                 modem, desired, refused, counters>>

(* setRadioState, second half, after the unlock: it reads sState again,    *)
(* which another thread may have changed since the write.                  *)
setRadioStateNotify(t) ==
  /\ pc[t] = "setRadioStateNotify"
  /\ Notify(t, sState)

-----------------------------------------------------------------------------
(* initializeCommon, as far as the radio state is concerned: it clears a  *)
(* pending hotswap; the rest is AT configuration (echo, result codes,     *)
(* CSCS, CMEE, E2NAP and EESIMSWAP reporting) with no state of the RIL.    *)
initializeCommon == pending_hotswap' = FALSE

(* Mutant: the normal runner reopens without setRadioState(OFF).          *)
OpenChannelSkipOff(q) ==
  /\ pc[q] = "open"
  /\ link = "up" /\ ~eof
  /\ initializeCommon
  /\ closed' = [closed EXCEPT ![q] = FALSE]
  /\ pc' = [pc EXCEPT ![q] = IF q = "normal" THEN "initializeChannel" ELSE "loop"]
  /\ UNCHANGED <<sState, queue, newState, oldState, ret, modem, framework,
                 counters>>

(* queueRunner, top of the outer loop: open the AT channel once the modem  *)
(* is back, initializeCommon (clears the pending hotswap), clear closed;   *)
(* the normal runner goes on with initializeChannel, which begins with     *)
(* setRadioState(RADIO_STATE_OFF).                                         *)
OpenChannel(q) ==
  /\ pc[q] = "open"
  /\ link = "up" /\ ~eof
  /\ initializeCommon
  /\ closed' = [closed EXCEPT ![q] = FALSE]
  /\ IF q = "normal"
       THEN CallSetRadioState(q, "OFF", "initializeChannel")
       ELSE /\ pc' = [pc EXCEPT ![q] = "loop"]
            /\ UNCHANGED <<newState, ret>>
  /\ UNCHANGED <<sState, queue, oldState, modem, framework, counters>>

(* initializeChannel after setRadioState(OFF): AT+CGREG=2 and AT+CFUN=4.   *)
(* A failed command closes the channel and retries the open; otherwise     *)
(* isRadioOn() reads the radio just switched off, and the state stays OFF. *)
initializeChannel(q) ==
  /\ pc[q] = "initializeChannel"
  /\ IF link = "up"
       THEN /\ mRadio' = "off"
            /\ pc' = [pc EXCEPT ![q] = "loop"]
       ELSE /\ pc' = [pc EXCEPT ![q] = "open"]
            /\ UNCHANGED mRadio
  /\ UNCHANGED <<sState, pending_hotswap, closed, queue, newState, oldState,
                 ret, mSim, mPin, mSimOff, mSimReset, link, eof, urc, framework, counters>>

(* queueRunner finds its queue closed: at_close() and reopen.              *)
CloseChannel(q) ==
  /\ pc[q] = "loop"
  /\ closed[q]
  /\ pc' = [pc EXCEPT ![q] = "open"]
  /\ UNCHANGED <<sState, pending_hotswap, closed, queue, newState, oldState,
                 ret, modem, framework, counters>>

(* queueRunner takes item i off its open queue; Taken is what remains.    *)
CanTake(q) == pc[q] = "loop" /\ ~closed[q]
Taken(q, i) == [queue EXCEPT ![q] = RemoveAt(@, i)]

(* An AT command that gets no answer in time: the command thread runs     *)
(* onATTimeout (u300-ril.c 1631-1641), at_send_escape, then                *)
(* setRadioState(UNAVAILABLE) and signalCloseQueues; the handler then      *)
(* takes its error path, which is named by r: "close" (nothing more),     *)
(* "close_pollSIMState" or "close_resetSim" (the event it queues again).   *)
Timeouts == IF nTimeouts < MaxTimeouts THEN {"timeout"} ELSE {}

onATTimeout(t, r) ==
  /\ nTimeouts' = nTimeouts + 1
  /\ CallSetRadioState(t, "UNAVAILABLE", r)

FollowUp == [close |-> <<>>,
             close_pollSIMState |-> <<[k |-> "pollSIMState", arg |-> 0]>>,
             close_resetSim |-> <<[k |-> "resetSim", arg |-> 0]>>]

(* onATTimeout's signalCloseQueues, then the rest of the error path.       *)
TimeoutClose(t) ==
  /\ pc[t] \in DOMAIN FollowUp
  /\ closed' = [q \in Workers |-> TRUE]
  /\ queue' = IF FollowUp[pc[t]] = <<>> THEN queue
              ELSE Enqueue(queue, EventQueue(TRUE), Head(FollowUp[pc[t]]))
  /\ pc' = [pc EXCEPT ![t] = "loop"]
  /\ UNCHANGED <<sState, pending_hotswap, newState, oldState, ret, modem,
                 framework, counters>>

(* getSIMStatus, as seen from the radio state s and the modem: no AT       *)
(* command when OFF or UNAVAILABLE; otherwise "+CPIN?" fails on a closed   *)
(* channel (SIM_NOT_READY), times out, or answers READY, a plain ERROR     *)
(* (SIM_NOT_READY) or CME SIM_NOT_INSERTED / SIM_FAILURE (SIM_ABSENT, also *)
(* for a SIM the module has powered off); a SIM waiting for its PIN        *)
(* answers "+CPIN: SIM PIN" (SIM_PIN).                                     *)
getSIMStatus(s) ==
  IF s \in {"OFF", "UNAVAILABLE"} \/ link = "down" THEN {"SIM_NOT_READY"}
  ELSE Timeouts \cup
       IF ~mSim \/ mSimOff THEN {"SIM_ABSENT"}
       ELSE (IF mPin THEN {"SIM_PIN"} ELSE {"SIM_READY"})
              \cup (IF nBusy < MaxBusy THEN {"BUSY"} ELSE {})

(* pollSIMState(param) with the queues rest: the validity check,           *)
(* getSIMStatus and its outcome: absent or PIN ->                          *)
(* setRadioState(SIM_LOCKED_OR_ABSENT), not ready -> poll again after      *)
(* TIMEVAL_SIMPOLL on the prio queue, ready -> setRadioState(READY).       *)
(* The states in which a pollSIMState without param 1 still polls are a   *)
(* parameter, for the mutant below.                                        *)
PollSIMBody(q, param, rest, pollable) ==
  IF param # 1 /\ sState \notin pollable
    THEN /\ queue' = rest
         /\ UNCHANGED <<pc, newState, ret, nBusy, nTimeouts>>
    ELSE \E st \in getSIMStatus(sState) :
           /\ nBusy' = IF st = "BUSY" THEN nBusy + 1 ELSE nBusy
           /\ CASE st \in {"SIM_ABSENT", "SIM_PIN"} ->
                     /\ queue' = rest
                     /\ CallSetRadioState(q, "SIM_LOCKED_OR_ABSENT", "loop")
                     /\ UNCHANGED nTimeouts
                [] st = "SIM_READY" ->
                     /\ queue' = rest
                     /\ CallSetRadioState(q, "SIM_READY", "loop")
                     /\ UNCHANGED nTimeouts
                [] st = "timeout" ->
                     /\ queue' = rest
                     /\ onATTimeout(q, "close_pollSIMState")
                [] OTHER ->
                     /\ queue' = Enqueue(rest, EventQueue(TRUE),
                                         [k |-> "pollSIMState", arg |-> 0])
                     /\ UNCHANGED <<pc, newState, ret, nTimeouts>>

PollSIM(q, i, pollable) ==
  /\ CanTake(q)
  /\ queue[q][i].k = "pollSIMState"
  /\ PollSIMBody(q, queue[q][i].arg, Taken(q, i), pollable)
  /\ UNCHANGED <<sState, pending_hotswap, closed, oldState, modem, framework,
                 nToggles, nSwaps, nResets, nPins, nSimFaults, nCfunErrors>>

(* Mutant: the validity check forgets SIM_LOCKED_OR_ABSENT.               *)
pollSIMStateLockedSkipped(q, i) == PollSIM(q, i, {"SIM_NOT_READY"})

PollableStates == {"SIM_NOT_READY", "SIM_LOCKED_OR_ABSENT"}

pollSIMState(q, i) == PollSIM(q, i, PollableStates)

(* onRadioPowerOn: enqueue pollSIMState on the prio queue.                 *)
onRadioPowerOn(q, i) ==
  /\ CanTake(q)
  /\ queue[q][i].k = "onRadioPowerOn"
  /\ queue' = Enqueue(Taken(q, i), EventQueue(TRUE),
                      [k |-> "pollSIMState", arg |-> 0])
  /\ UNCHANGED <<sState, pending_hotswap, closed, locals, modem, framework,
                 counters>>

(* onSIMReady: SMS, network and STK setup commands; no radio state change. *)
onSIMReady(q, i) ==
  /\ CanTake(q)
  /\ queue[q][i].k = "onSIMReady"
  /\ queue' = Taken(q, i)
  /\ UNCHANGED <<sState, pending_hotswap, closed, locals, modem, framework,
                 counters>>

(* processRequest admission for RIL_REQUEST_RADIO_POWER (refused only in   *)
(* UNAVAILABLE), then requestRadioPower: AT+CFUN=4 and setRadioState(      *)
(* offState) unless already OFF; AT+CFUN=1 and setRadioState(onState) only *)
(* from OFF; anything else is GENERIC_FAILURE.  A failed AT+CFUN is        *)
(* GENERIC_FAILURE too: a plain ERROR leaves the modem and sState as they  *)
(* were and notifies nothing, so the framework is not asked again; a       *)
(* timed-out AT+CFUN may or may not have reached the modem.                *)
CfunErrors == IF nCfunErrors < MaxCfunErrors THEN {"ERROR"} ELSE {}

RadioPower(q, i, offState, onState) ==
  LET onOff  == queue[q][i].arg
      target == IF onOff = 0 THEN "off" ELSE "on"
      sent   == /\ sState # "UNAVAILABLE" /\ link = "up"
                /\ \/ onOff = 0 /\ sState # "OFF"
                   \/ onOff = 1 /\ sState = "OFF"
  IN
  /\ CanTake(q)
  /\ queue[q][i].k = "RADIO_POWER"
  /\ \A j \in 1..(i - 1) : queue[q][j].k # "RADIO_POWER"
  /\ queue' = Taken(q, i)
  /\ IF sent
       THEN \E o \in {"ok"} \cup CfunErrors \cup Timeouts :
              CASE o = "ok" ->
                     /\ mRadio' = target
                     /\ CallSetRadioState(q, IF onOff = 0 THEN offState
                                                          ELSE onState, "loop")
                     /\ UNCHANGED <<nTimeouts, nCfunErrors, refused>>
                [] o = "ERROR" ->
                     /\ nCfunErrors' = nCfunErrors + 1
                     /\ refused' = (refused \/ target = desired)
                     /\ UNCHANGED <<mRadio, pc, newState, ret, nTimeouts>>
                [] OTHER ->
                     /\ mRadio' \in {mRadio, target}
                     /\ onATTimeout(q, "close")
                     /\ UNCHANGED <<nCfunErrors, refused>>
       ELSE UNCHANGED <<mRadio, pc, newState, ret, nTimeouts, nCfunErrors,
                        refused>>
  /\ UNCHANGED <<sState, pending_hotswap, closed, oldState, mSim, mPin,
                 mSimOff, mSimReset, link, eof, urc, desired, notified,
                 nToggles, nSwaps, nResets, nBusy, nPins, nSimFaults>>

(* Mutant: power on sets a CDMA state (RADIO_STATE_RUIM_NOT_READY).        *)
requestRadioPowerWrongEnum(q, i) == RadioPower(q, i, "OFF", "RUIM_NOT_READY")

(* Mutant: power on leaves the state at OFF.                               *)
requestRadioPowerNoStateUpdate(q, i) == RadioPower(q, i, "OFF", "OFF")

(* Mutant: the two target states swapped.                                  *)
requestRadioPowerSwapped(q, i) == RadioPower(q, i, "SIM_NOT_READY", "OFF")

requestRadioPower(q, i) == RadioPower(q, i, "OFF", "SIM_NOT_READY")

(* processRequest admission for RIL_REQUEST_ENTER_SIM_PIN (refused in      *)
(* UNAVAILABLE, OFF and SIM_NOT_READY), then requestEnterSimPin: AT+CPIN   *)
(* unlocks a powered SIM waiting for its PIN, and the module announces the *)
(* change with *EPEV; any other answer completes the request with an      *)
(* error.  A timed-out AT+CPIN may or may not have unlocked the SIM.       *)
Unlock(done) ==
  IF done /\ mSim /\ mPin /\ ~mSimOff
    THEN mPin' = FALSE /\ urc' = Append(urc, "*EPEV")
    ELSE UNCHANGED <<mPin, urc>>

requestEnterSimPin(q, i) ==
  /\ CanTake(q)
  /\ queue[q][i].k = "ENTER_SIM_PIN"
  /\ queue' = Taken(q, i)
  /\ IF sState \notin {"UNAVAILABLE", "OFF", "SIM_NOT_READY"} /\ link = "up"
       THEN \E o \in {"ok"} \cup Timeouts :
              IF o = "ok"
                THEN Unlock(TRUE) /\ UNCHANGED <<pc, newState, ret, nTimeouts>>
                ELSE (\E done \in BOOLEAN : Unlock(done))
                     /\ onATTimeout(q, "close")
       ELSE UNCHANGED <<mPin, urc, pc, newState, ret, nTimeouts>>
  /\ UNCHANGED <<sState, pending_hotswap, closed, oldState, mRadio, mSim,
                 mSimOff, mSimReset, link, eof, framework, nToggles, nSwaps, nResets,
                 nBusy, nPins, nSimFaults, nCfunErrors>>

(* resetSim (u300-ril-sim.c 68-109), queued on the prio queue by           *)
(* onSimStateChanged and by itself: AT*ESIMSR? reads the SIM state; while  *)
(* it is 7 (powered off) AT*ESIMR resets the SIM and resetSim is queued    *)
(* again TIMEVAL_SIMRESET later; otherwise SIM_STATUS_CHANGED goes to the  *)
(* framework and pollSIMState(NULL) runs inline.  A failed or timed-out   *)
(* query ends the loop (goto error).  AT*ESIMR's answer is not checked;   *)
(* whether the SIM comes back is up to the module (SimPowerOn).            *)

resetSim(q, i) ==
  LET rest == Taken(q, i) IN
  /\ CanTake(q)
  /\ queue[q][i].k = "resetSim"
  /\ IF link = "down"
       THEN /\ queue' = rest
            /\ UNCHANGED <<pc, newState, ret, nBusy, nTimeouts, mSimReset>>
       ELSE \E o \in {"ok"} \cup Timeouts :
              CASE o = "timeout" ->
                     /\ queue' = rest
                     /\ onATTimeout(q, "close")
                     /\ UNCHANGED <<nBusy, mSimReset>>
                [] mSimOff ->
                     /\ mSimReset' = TRUE
                     /\ UNCHANGED nBusy
                     /\ \E o2 \in {"ok"} \cup Timeouts :
                          IF o2 = "ok"
                            THEN /\ queue' = Enqueue(rest, EventQueue(TRUE),
                                                     [k |-> "resetSim", arg |-> 0])
                                 /\ UNCHANGED <<pc, newState, ret, nTimeouts>>
                            ELSE /\ queue' = rest
                                 /\ onATTimeout(q, "close_resetSim")
                [] OTHER ->
                     /\ PollSIMBody(q, 0, rest, PollableStates)
                     /\ UNCHANGED mSimReset
  /\ UNCHANGED <<sState, pending_hotswap, closed, oldState, mRadio, mSim,
                 mPin, mSimOff, link, eof, urc, framework, nToggles, nSwaps, nResets, nPins,
                 nSimFaults, nCfunErrors>>

Worker(q) ==
  \/ OpenChannel(q) \/ initializeChannel(q) \/ CloseChannel(q)
  \/ \E i \in DOMAIN queue[q] :
       \/ pollSIMState(q, i) \/ onRadioPowerOn(q, i) \/ onSIMReady(q, i)
       \/ requestRadioPower(q, i) \/ requestEnterSimPin(q, i)
       \/ resetSim(q, i)
  \/ setRadioState(q) \/ setRadioStateNotify(q) \/ TimeoutClose(q)

-----------------------------------------------------------------------------
(* onSimHotswap for "*EESIMSWAP:0": the reader calls                      *)
(* setRadioState(SIM_LOCKED_OR_ABSENT) whatever the state.                 *)
onSimHotswap == CallSetRadioState("reader", "SIM_LOCKED_OR_ABSENT", "read")

(* Mutant: the SIM check is queued without param 1, so pollSIMState finds *)
(* nothing to do in SIM_READY.                                             *)
onSimStateChangedPollNull(qs) ==
  Enqueue(Enqueue(qs, EventQueue(TRUE), [k |-> "pollSIMState", arg |-> 0]),
          EventQueue(TRUE), [k |-> "resetSim", arg |-> 0])

(* onSimStateChanged for "*ESIMSR: 7" (u300-ril-sim.c 111-145): queue      *)
(* pollSIMState with param 1, which polls whatever the state, and, the SIM *)
(* being powered off, resetSim; both on the prio queue and due at once.    *)
onSimStateChanged(qs) ==
  Enqueue(Enqueue(qs, EventQueue(TRUE), [k |-> "pollSIMState", arg |-> 1]),
          EventQueue(TRUE), [k |-> "resetSim", arg |-> 0])

(* The reader thread runs onUnsolicited on the next line: nothing while    *)
(* UNAVAILABLE; "*EPEV" -> pollSIMState on the prio queue; "*ESIMSR: 7" -> *)
(* onSimStateChanged; "*EESIMSWAP:0" -> onSimHotswap ->                    *)
(* setRadioState(SIM_LOCKED_OR_ABSENT); "*EESIMSWAP:1" ->                  *)
(* set_pending_hotswap(1).                                                 *)
onUnsolicited ==
  /\ pc["reader"] = "read"
  /\ urc # <<>>
  /\ urc' = Tail(urc)
  /\ queue' = CASE sState = "UNAVAILABLE" -> queue
               [] Head(urc) = "*EPEV" ->
                    Enqueue(queue, EventQueue(TRUE),
                            [k |-> "pollSIMState", arg |-> 0])
               [] Head(urc) = "*ESIMSR:7" -> onSimStateChanged(queue)
               [] OTHER -> queue
  /\ CASE sState = "UNAVAILABLE" \/ Head(urc) \in {"*EPEV", "*ESIMSR:7"} ->
            UNCHANGED <<pending_hotswap, pc, newState, ret>>
       [] Head(urc) = "*EESIMSWAP:0" ->
            /\ onSimHotswap
            /\ UNCHANGED pending_hotswap
       [] OTHER ->
            /\ pending_hotswap' = TRUE
            /\ UNCHANGED <<pc, newState, ret>>
  /\ UNCHANGED <<sState, closed, oldState, mRadio, mSim, mPin, mSimOff, mSimReset, link,
                 eof, framework, counters>>

(* Mutant: onATReaderClosed without signalCloseQueues.                    *)
onATReaderClosedNoClose ==
  /\ pc["reader"] = "read"
  /\ eof /\ urc = <<>>
  /\ eof' = FALSE
  /\ IF ~pending_hotswap
       THEN CallSetRadioState("reader", "UNAVAILABLE", "read")
       ELSE UNCHANGED <<pc, newState, ret>>
  /\ UNCHANGED <<sState, pending_hotswap, closed, queue, oldState, mRadio,
                 mSim, mPin, mSimOff, mSimReset, link, urc, framework, counters>>

(* The reader reaches the end of the channel: onATReaderClosed sets        *)
(* UNAVAILABLE unless a hotswap is pending, then signalCloseQueues.        *)
onATReaderClosed ==
  /\ pc["reader"] = "read"
  /\ eof /\ urc = <<>>
  /\ eof' = FALSE
  /\ IF ~pending_hotswap
       THEN CallSetRadioState("reader", "UNAVAILABLE", "signalCloseQueues")
       ELSE /\ pc' = [pc EXCEPT !["reader"] = "signalCloseQueues"]
            /\ UNCHANGED <<newState, ret>>
  /\ UNCHANGED <<sState, pending_hotswap, closed, queue, oldState, mRadio,
                 mSim, mPin, mSimOff, mSimReset, link, urc, framework, counters>>

(* signalCloseQueues: set closed on every queue and wake its runner.       *)
signalCloseQueues ==
  /\ pc["reader"] = "signalCloseQueues"
  /\ closed' = [q \in Workers |-> TRUE]
  /\ pc' = [pc EXCEPT !["reader"] = "read"]
  /\ UNCHANGED <<sState, pending_hotswap, queue, newState, oldState, ret,
                 modem, framework, counters>>

Reader ==
  \/ onUnsolicited \/ onATReaderClosed \/ signalCloseQueues
  \/ setRadioState("reader") \/ setRadioStateNotify("reader")

-----------------------------------------------------------------------------
(* Environment: the modem.  A reset drops the channel and the radio; the   *)
(* device comes back once the reader has seen the end of the old channel. *)
ModemReset ==
  /\ nResets < MaxResets /\ link = "up"
  /\ nResets' = nResets + 1
  /\ link' = "down" /\ mRadio' = "off" /\ eof' = TRUE
  /\ mPin' = SimPinEnabled /\ mSimOff' = FALSE /\ mSimReset' = FALSE
  /\ UNCHANGED <<sState, pending_hotswap, closed, queue, locals, mSim, urc,
                 framework, nToggles, nSwaps, nBusy, nPins, nTimeouts, nSimFaults,
                 nCfunErrors>>

ModemUp ==
  /\ link = "down" /\ ~eof
  /\ link' = "up"
  /\ UNCHANGED <<sState, pending_hotswap, closed, queue, locals, mRadio,
                 mSim, mPin, mSimOff, mSimReset, eof, urc, framework, counters>>

(* The SIM is pulled or inserted; the module reports it with *EESIMSWAP.   *)
(* An inserted SIM asks for its PIN again.                                 *)
SimSwap ==
  /\ nSwaps < MaxSwaps
  /\ nSwaps' = nSwaps + 1
  /\ mSim' = ~mSim
  /\ mPin' = SimPinEnabled /\ mSimOff' = FALSE /\ mSimReset' = FALSE
  /\ urc' = IF link = "up"
              THEN Append(urc, IF mSim THEN "*EESIMSWAP:0" ELSE "*EESIMSWAP:1")
              ELSE urc
  /\ UNCHANGED <<sState, pending_hotswap, closed, queue, locals, mRadio, link,
                 eof, framework, nToggles, nResets, nBusy, nPins, nTimeouts, nSimFaults,
                 nCfunErrors>>

(* The module powers the SIM off (a SIM failure) and reports "*ESIMSR: 7". *)
SimPowerOff ==
  /\ nSimFaults < MaxSimFaults
  /\ link = "up" /\ mSim /\ ~mSimOff
  /\ nSimFaults' = nSimFaults + 1
  /\ mSimOff' = TRUE
  /\ urc' = Append(urc, "*ESIMSR:7")
  /\ UNCHANGED <<sState, pending_hotswap, closed, queue, locals, mRadio, mSim,
                 mPin, mSimReset, link, eof, framework, nToggles, nSwaps, nResets, nBusy,
                 nPins, nTimeouts, nCfunErrors>>

(* The SIM reset asked by AT*ESIMR completes: the SIM is powered again    *)
(* and asks for its PIN.  It may never complete.                           *)
SimPowerOn ==
  /\ mSimOff /\ mSimReset
  /\ mSimOff' = FALSE /\ mSimReset' = FALSE
  /\ mPin' = SimPinEnabled
  /\ UNCHANGED <<sState, pending_hotswap, closed, queue, locals, mRadio, mSim,
                 link, eof, urc, framework, counters>>

(* Environment: the framework.  The user switches airplane mode, which     *)
(* sends RIL_REQUEST_RADIO_POWER; on RADIO_STATE_CHANGED the framework     *)
(* reads currentState() and asks again for the power it wants when the     *)
(* state disagrees (OFF while wanted on; on, i.e. neither OFF nor          *)
(* UNAVAILABLE, while wanted off).                                         *)
ToggleRadio ==
  /\ nToggles < MaxToggles
  /\ nToggles' = nToggles + 1
  /\ desired' = IF desired = "on" THEN "off" ELSE "on"
  /\ queue' = Enqueue(queue, PowerQueue,
                      [k |-> "RADIO_POWER", arg |-> IF desired = "on" THEN 0 ELSE 1])
  /\ refused' = FALSE
  /\ UNCHANGED <<sState, pending_hotswap, closed, locals, modem, notified,
                 nSwaps, nResets, nBusy, nPins, nTimeouts, nSimFaults,
                 nCfunErrors>>

(* The user types the PIN when the SIM lock screen shows, i.e. while the   *)
(* RIL reports SIM_LOCKED_OR_ABSENT.                                       *)
EnterSimPin ==
  /\ nPins < MaxPins
  /\ sState = "SIM_LOCKED_OR_ABSENT"
  /\ nPins' = nPins + 1
  /\ queue' = Enqueue(queue, "normal", [k |-> "ENTER_SIM_PIN", arg |-> 0])
  /\ UNCHANGED <<sState, pending_hotswap, closed, locals, modem, framework,
                 nToggles, nSwaps, nResets, nBusy, nTimeouts, nSimFaults,
                 nCfunErrors>>

RadioStateChanged ==
  /\ notified
  /\ notified' = FALSE
  /\ queue' = CASE desired = "on" /\ sState = "OFF" ->
                     Enqueue(queue, PowerQueue, [k |-> "RADIO_POWER", arg |-> 1])
                [] desired = "off" /\ sState \notin {"OFF", "UNAVAILABLE"} ->
                     Enqueue(queue, PowerQueue, [k |-> "RADIO_POWER", arg |-> 0])
                [] OTHER -> queue
  /\ UNCHANGED <<sState, pending_hotswap, closed, locals, modem, desired,
                 refused, counters>>

Next ==
  \/ \E q \in Workers : Worker(q)
  \/ Reader
  \/ ModemReset \/ ModemUp \/ SimSwap \/ SimPowerOff \/ SimPowerOn
  \/ ToggleRadio \/ RadioStateChanged \/ EnterSimPin

(* Every runner and the reader are scheduled while they have work; the     *)
(* framework handles every notification; a reset modem comes back.  The   *)
(* user, the SIM and the resets themselves get no fairness.                *)
Fairness ==
  /\ \A q \in Workers : WF_vars(Worker(q))
  /\ WF_vars(Reader)
  /\ WF_vars(RadioStateChanged)
  /\ WF_vars(ModemUp)

Spec == Init /\ [][Next]_vars /\ Fairness

-----------------------------------------------------------------------------
TypeOK ==
  /\ sState \in States
  /\ pending_hotswap \in BOOLEAN
  /\ closed \in [Workers -> BOOLEAN]
  /\ queue \in [Workers -> Seq(Item)]
  /\ newState \in [Threads -> States] /\ oldState \in [Threads -> States]
  /\ mRadio \in {"on", "off"} /\ mSim \in BOOLEAN /\ mPin \in BOOLEAN
  /\ mSimOff \in BOOLEAN /\ mSimReset \in BOOLEAN
  /\ link \in {"up", "down"} /\ eof \in BOOLEAN
  /\ urc \in Seq({"*EESIMSWAP:0", "*EESIMSWAP:1", "*EPEV", "*ESIMSR:7"})
  /\ desired \in {"on", "off"} /\ notified \in BOOLEAN /\ refused \in BOOLEAN

On == {"SIM_NOT_READY", "SIM_LOCKED_OR_ABSENT", "SIM_READY"}

(* Airplane mode off is honoured: once the user wants the radio on and     *)
(* leaves it so, the modem radio ends up on (AT+CFUN=1) and the RIL        *)
(* reports an "on" state, whatever requestRadioPower, pollSIMState,        *)
(* hotswap and reset handling did in between.  The one excuse is a         *)
(* request for that power answered GENERIC_FAILURE because the modem       *)
(* answered AT+CFUN with ERROR: the RIL then reported the failure, and     *)
(* asking again is the framework's business.  A refusal by the RIL's own   *)
(* state ("Erroneous input") is no excuse.                                 *)
RadioOnHonoured ==
  <>[](desired = "on" /\ ~refused) => <>[](mRadio = "on" /\ sState \in On)

(* Airplane mode on is honoured: once the user wants the radio off and     *)
(* leaves it so, the modem radio ends up off and the RIL reports OFF, even *)
(* when a SIM poll on the other runner finishes after the power-off; the   *)
(* excuse is the same as for RadioOnHonoured.                              *)
RadioOffHonoured ==
  <>[](desired = "off" /\ ~refused) => <>[](mRadio = "off" /\ sState = "OFF")

(* A pulled SIM is reported: once the SIM stays out, the RIL eventually    *)
(* stops reporting SIM_READY, even when a "+CPIN?" answered READY just     *)
(* before the *EESIMSWAP:0 was handled.                                    *)
SimAbsenceReported ==
  <>[](~mSim) => <>[](sState # "SIM_READY")

(* An unlocked SIM is reported: once the SIM is in, powered, its PIN       *)
(* entered and the user wants the radio on, the RIL ends in SIM_READY; the *)
(* *EPEV that follows AT+CPIN, or the resetSim loop that brought a         *)
(* powered-off SIM back, must lead to a pollSIMState that still finds the  *)
(* state worth polling, across command timeouts and channel reopens.  A    *)
(* power-on the modem refused (RadioOnHonoured) is excused here too.       *)
SimUnlockReported ==
  <>[](mSim /\ ~mPin /\ ~mSimOff /\ desired = "on" /\ ~refused)
    => <>[](sState = "SIM_READY")

(* A SIM the module powered off is reported: once it stays off with the    *)
(* radio wanted on, the RIL stops reporting SIM_READY and reports          *)
(* SIM_LOCKED_OR_ABSENT; "*ESIMSR: 7" arrives while the state is           *)
(* SIM_READY, so onSimStateChanged's pollSIMState must poll anyway.  A    *)
(* power-on the modem refused is excused, as in RadioOnHonoured.           *)
SimFaultReported ==
  <>[](mSimOff /\ desired = "on" /\ ~refused)
    => <>[](sState = "SIM_LOCKED_OR_ABSENT")
=============================================================================
