# TLA+ models of the MBM u300 RIL

These are TLA+ specifications of the Ericsson/ST-Ericsson MBM "u300" Radio
Interface Layer in `src/mbm/mbm-ril/`, the library Android's `rild` loads to
drive the F3307/F3607/F5521 modems. With them come the TLC configurations
that check the specifications. Every module was written from the C source;
the comment above each action names the function and lines it models.
`PROJECT.json` holds the line map, the runs, the mutants, the findings and
the hazards.

## The system

The RIL is a multithreaded C library with these parts:

| Part | Source | What it does |
|---|---|---|
| Request queues and scheduler | `u300-ril.c` (`enqueueRILEvent`, `onRequest`, `queueRunner`, `signalCloseQueues`) | Two queues: "normal" always, and "prio" when `-x` names a second tty. Each queue has a FIFO of framework requests, a doubly linked list of timed events sorted by `abstime`, a mutex, a condition variable and a `closed` flag. One `queueRunner` thread per queue opens the tty, waits for `*EMRDY`, initialises the channel, then loops: it takes a due event or the oldest request and runs it. |
| Radio/SIM state | `u300-ril.c` (`sState`, `setRadioState`, `requestRadioPower`, `onSIMReady`, `initializeChannel`, `onATReaderClosed`), `u300-ril-sim.c` (`pollSIMState`, `getSIMStatus`, `onSimHotswap`) | `sState` is one of UNAVAILABLE, OFF, SIM_NOT_READY, SIM_LOCKED_OR_ABSENT and SIM_READY. `setRadioState` writes it under `s_state_mutex`, then after the unlock tells the framework and queues `onSIMReady` or `onRadioPowerOn`. |
| Request admission | `u300-ril.c` (`processRequest`) | Refuses most requests outside SIM_READY; RADIO_POWER and SIM queries are let through in more states. |
| Unsolicited demultiplexer | `u300-ril.c` (`onUnsolicited`) | The AT reader thread's callback. It drops everything while UNAVAILABLE, otherwise dispatches by prefix to the SIM, SMS, network and PDP handlers. |
| SMS acknowledge gate | `u300-ril-messaging.c` | At most one SMS or status report is unacknowledged by the framework at a time; later ones are held in a FIFO until `RIL_REQUEST_SMS_ACKNOWLEDGE`. |
| PDP (data call) | `u300-ril-pdp.c` | Connects with `AT*ENAP`, waits for `*E2NAP` from the reader, reads `*E2IPCFG`, raises the interface through `net-utils.c`. |
| Network selection and registration | `u300-ril-network.c` (`requestSetNetworkSelectionAutomatic`, `pollOperatorSelected`, `requestRegistrationState`, `requestGprsRegistrationState`), `u300-ril.c` (`setScreenState`) | Automatic selection sends `AT+COPS=0` and re-polls `AT+COPS?` every two seconds (TIMEVAL_OPERATOR_SELECT_POLL) as a timed event until the modem is registered. The registration queries and the screen switch take `s_screen_state_mutex` and flip `+CREG`/`+CGREG` reporting to the extended form while they ask. A denied registration leaves its reject cause in the global `s_registrationDeniedReason`. |
| SIM I/O | `u300-ril-sim.c` (`requestSIM_IO`, `sendSimIOCmd`, `getUICCType`, `simIOGetLogicalChannel`, `simIOSelectPath`) | Reads SIM files for the framework. It tries `AT+CRSM` first and falls back to `AT+CGLA` on a logical channel opened once with `AT+CCHO`. The card type, the channel number and the last selected file are cached in function-static variables. |
| SMS services | `u300-ril-messaging.c` (`requestGSMSetBroadcastSMSConfig`, `requestGSMGetBroadcastSMSConfig`, `requestGSMSMSBroadcastActivation`, `onNewBroadcastSms`, `onNewSmsOnSIM`), `u300-ril.c` (`onSIMReady`) | Cell-broadcast configuration through `AT+CSCB` (the framework's ranges are written as a mids string and read back and parsed), broadcast activation through a read-modify-write of `AT+CNMI`, and the `+CBM`/`+CMTI` indications. `onSIMReady` sets the routing `AT+CNMI=2,2,2,1,0` once the SIM is ready. |
| Network interface utilities | `net-utils.c` (`ifc_init`, `ifc_up`, `ifc_down`, `ifc_set_addr`, `ifc_add_host_route`, `ifc_configure`) | ioctl wrappers on one shared socket, `ifc_ctl_sock`, that the PDP handlers use to bring `usb0` up or down, give it the context's address and add its host route. |
| Supplementary services | `u300-ril-services.c` (`onUSSDReceived`, `onSuppServiceNotification`) | The handlers of the `+CUSD`, `+CSSI` and `+CSSU` lines. The file's request handlers (CLIP, CLIR, call forwarding, call waiting, SET_SUPP_SVC_NOTIFICATION) have no case in `processRequest`, so they never run: its default answers REQUEST_NOT_SUPPORTED (`u300-ril.c` 1209). |
| Other SIM, messaging and network requests | `-sim.c`, `-messaging.c`, `-network.c` | Request handlers that issue AT commands and format the answers. |
| AT channel | `atchannel.c` (not in this repository; `atchannel.h` is) | The reader thread, command/response matching, timeouts. |
| BUG 2.0 sensors HAL | `src/bug20/libsensors/` | A separate library that polls an accelerometer. |

The queueRunners and the AT reader are the concurrent actors. They share
`sState`, the queues, the SMS gate and the PDP state, and each takes its own
mutex. The modem (radio power, SIM presence, resets) and the Android
framework (radio power requests, SMS acknowledgements) are the environment.

## Modules

Each module is one component, with the others abstracted to the variables it
reads.

### `RilRequestQueue` (+ `MC_RilRequestQueue`)

This module models the queues and the scheduler at the pointer level:
- The heap is a set of node model values `Nodes` with functions `next`,
  `prev`, `abstime` and `evid`, and one `head` per queue.
- `ChainFrom` (RECURSIVE) walks a list. `InsertEvent` is the sorted insertion
  of `enqueueRILEvent`, case for case.
- `enqueueRILEvent` allocates a node, stamps its `abstime` and inserts it
  into the queue chosen by `EventQueue`. The `goto again` pass for
  `RIL_EVENT_QUEUE_ALL` is left out because no caller passes ALL (see "Not
  modelled").
- `onRequest` appends a request.
- `signalCloseQueues` sets both `closed` flags.
- `queueRunner` is split into:
  - `OpenChannel`: reopen, which clears its own queue's `closed` flag;
  - `CloseChannel`: `closed` is seen;
  - `TakeWork`: one pass under the mutex, which takes the head event if it
    is due, otherwise the oldest request;
  - `RunEvent` and `RunRequest`.
- Time is a discrete clock `now` that `Tick` advances, as `gettimeofday` does.
- The history variables `posted`, `fired`, `submitted` and `processed` record
  what happened for the properties.

### `SmsDelivery`

This is the abstract specification of the SMS flow control promised in
spec section 3. Every indication the modem delivered is shown to the
framework in order. The framework has at most one unacknowledged indication
at a time. When none is outstanding, the oldest waiting one is shown in the
same step.

### `SmsAckGate` (+ `MC_SmsAckGate`)

This module models the gate of `u300-ril-messaging.c` with its two entry paths:
- **Reader path.** `onUnsolicited` handles `+CMT` and `+CDS` and calls
  `onNewSms` or `onNewStatusReport`, which prepends the SMSC "00".
- **Worker path.** A queueRunner runs `processRequest`'s admission, then
  `requestSMSAcknowledge`.

Both paths hold `s_held_pdus_mutex` for their whole body, so each is one
step. `sState` moves freely (`setRadioState`) within the constant
`RadioStates`.

The gate refines `SmsDelivery` through the mapping:
- `arrivals <- received`, the indications that entered the gate;
- `shown <- host`, the `RIL_onUnsolicitedResponse` calls;
- `acked <- gateAcks`, the executions of `requestSMSAcknowledge`.

### `RilRadioState`

This module models the radio/SIM state machine and every thread that moves it:
- One or two queueRunners, each with its own `pc` and the locals of
  `setRadioState` (`newState`, `oldState`, `ret`).
- The reader thread, which handles `*EESIMSWAP:0` through `onSimHotswap`,
  `*EPEV`, `*ESIMSR: 7` through `onSimStateChanged`, and EOF through
  `onATReaderClosed`.
- The modem: `mRadio`, `mSim`, `mPin`, `mSimOff`, `mSimReset`, `link`, `eof`, and `urc` (pending unsolicited
  lines).
- The framework: `desired`, `notified` for
  RIL_UNSOL_RESPONSE_RADIO_STATE_CHANGED, and `refused`, set when a
  RADIO_POWER for the power the user wants was answered GENERIC_FAILURE
  because the modem answered AT+CFUN with ERROR (cleared by the next toggle).

**AT+CFUN ERROR.** Up to `MaxCfunErrors` times the modem answers AT+CFUN
with a plain ERROR (`u300-ril.c` 542, 547). `requestRadioPower` then answers
GENERIC_FAILURE, leaves `sState` and the modem as they were, and notifies
nothing. The framework in the model asks for power again only after
RADIO_STATE_CHANGED or a user toggle, so the user's choice is then not
applied until something else changes the state. Whether Android retries a
failed RADIO_POWER is the framework's business, which is not in this
repository. The radio properties therefore excuse exactly this case
(`~refused` in their premise). A refusal by the RIL's own state
("Erroneous input") is not excused, and findings 2 and 3 are of that kind.

Steps are one AT round trip or one critical section. `setRadioState` is two
steps: the write, then the notify and enqueue decided on a fresh read of
`sState` after the unlock. `getSIMStatus` is an operator giving the set of
answers that `+CPIN?` can produce in the current modem state.

The SIM PIN path is modelled when `SimPinEnabled` holds: `mPin` says the
modem still wants the PIN, so `+CPIN?` answers SIM PIN and `pollSIMState`
reports SIM_LOCKED_OR_ABSENT. The framework sends ENTER_SIM_PIN (at most
`MaxPins` times); `requestEnterSimPin` unlocks the SIM, and the modem then
sends `*EPEV`, which the reader turns into a prio `pollSIMState` without
its "forced" parameter. That poll only runs in SIM_NOT_READY or
SIM_LOCKED_OR_ABSENT. `initializeCommon` is reduced to its one effect on
this state, clearing `pending_hotswap`.

**AT timeouts.** Up to `MaxTimeouts` AT commands get no answer in time:
AT+CFUN in `requestRadioPower`, `+CPIN?` in the SIM poll, AT+CPIN= in
`requestEnterSimPin`, and both commands of `resetSim`. The command thread
then runs `onATTimeout` (`onATTimeout` then `TimeoutClose`): UNAVAILABLE
through `setRadioState`, then `signalCloseQueues`, then the handler's own
error path (`FollowUp`: the SIM poll queues itself again, `resetSim`
queues itself again after AT*ESIMR, the others do nothing). A timed-out
command may or may not have taken effect in the modem, so `mRadio` and
`mPin` may change or not. `at_close` does not call `onATReaderClosed`, so
the link stays up; the runners reopen and set OFF as after a reset.

**SIM power-off (`*ESIMSR: 7`).** Up to `MaxSimFaults` times the module
powers the SIM off (`SimPowerOff`, `mSimOff`) and sends `*ESIMSR: 7`. The
reader's `onSimStateChanged` queues `pollSIMState` with param 1 and
`resetSim` on the prio queue. `resetSim` asks `AT*ESIMSR?`; while the SIM
is off it sends `AT*ESIMR` (`mSimReset`) and queues itself again, otherwise
it runs the SIM poll inline. Whether a reset brings the SIM back is up to
the module (`SimPowerOn`, which has no fairness). A powered-off SIM answers
`+CPIN?` with SIM_ABSENT.

**Queue order.** A runner in the model takes any event, and any request
except a RADIO_POWER with another RADIO_POWER before it. The order of a
queue therefore matters only among RADIO_POWER requests. `Enqueue` keeps
each queue sorted by `Rank` of the item kind, with RADIO_POWER last and in
arrival order, so two queues that hold the same items are one state.

The framework follows Android's ServiceStateTracker:
- On a state change it asks for power on if the state is OFF and the user
  wants the radio on.
- It asks for power off if the state is one of the "on" states and the user
  wants it off.
- A user toggle always sends RADIO_POWER.

`RadioPowerIsPrio` stands for the `prioRequests` table, which no file in
`src/` defines (spec line 257). It is FALSE in every run, so RADIO_POWER
goes to the normal queue.

### `PdpSetup`

This module models the data call. Its actors are:
- The normal queueRunner, which runs SETUP_DATA_CALL, DEACTIVATE_DATA_CALL
  and LAST_DATA_CALL_FAIL_CAUSE one at a time. `pc["normal"]` names the step
  of the handler it is in.
- The prio runner (only when `PrioEnabled`), which runs the
  `onPDPContextListChanged` events that `onConnectionStateChanged` queues on
  PRIO. Without `-x` these events run on the normal runner between requests.
- The reader, which runs `onConnectionStateChanged` for each `*E2NAP` line
  in `urc`, in order.
- The modem's context 1 (`ctx`: idle, activating, active, deactivating),
  and the Android tracker (`fw`), as environment.

`requestSetupDefaultPDP` is one action per AT round trip or state read:
- the entry reset (`s_e2napState`/`s_e2napCause` to -1, outside the mutex),
- CGDCONT,
- `AT+CSCS?` and the switch to UCS2; an ERROR answer is ignored there
  (`at_send_command(cmd, NULL)`),
- EIAAUW and the restore,
- ENAP=1,1,
- the wait loop (it ends on CONNECTED, DISCONNECTED or a timeout, and then
  carries on),
- E2IPCFG,
- the two later DISCONNECTED checks,
- success, and the error path: `mbm_check_error_cause`, then `AT*ENAP=0`
  without waiting, then GENERIC_FAILURE.

An AT step completes only when `urc` is empty, because the reader reads the
one channel in order and handles every line sent before a final response
first. Each AT command may answer OK, ERROR or fail at channel level (err < 0,
bounded by `MaxErrors`). The model keeps which of these the code checks and
which it ignores.

The tracker's behaviour follows Android's GsmDataConnectionTracker:
- After a failure it asks LAST_DATA_CALL_FAIL_CAUSE and may retry.
- It ignores DATA_CALL_LIST_CHANGED unless it is connected.
- When connected, it tears the call down (DEACTIVATE_DATA_CALL) if the list
  does not show its context as active. An errored AT+CGDCONT? gives the
  framework an empty list, so this case includes it.

The `net-utils.c` calls are composed into the PDP actions where their
callers make them; the interface is `usb0` (`up`, `addr`, `route`) and
the shared socket `ifc_ctl_sock`:
- the entry step of `requestSetupDefaultPDP` calls `ifc_init` and
  `ifc_down` (an ioctl failure leaves the interface as it was; a failed
  `ifc_init` leaves the socket closed);
- the interface step calls `ifc_configure` (`ifc_up`, `ifc_set_addr`, the
  netmask, `ifc_add_host_route` through `ifc_add_ipv4_route`), with a
  failure at each step (`IfcFailures`, bounded by `MaxIfcErrors`) and the
  `ifc_down` rollback. `ifc_add_ipv4_route` opens and always closes the
  shared socket, so the rollback after a route failure runs on a closed
  socket and does nothing. Whatever `ifc_configure` returns, the setup
  answers SUCCESS (pdp.c 453);
- `requestDeactivateDefaultPDP` calls `ifc_init`, `ifc_down` and
  `ifc_close`, but only when `AT*ENAP?` reports the context connected.

The address is abstracted to the number of the setup that activated the
context (`ctxAddr`): what matters is whether `usb0` carries the current
context's address. Linux behaviour is assumed for the ioctls: `ifc_down`
removes the interface's routes and keeps its address. `ifc_configure` is
called with `dns1` twice (pdp.c 453), so `dns2` is never set; the DNS
properties are not modelled.

### `NetworkRegistration`

This module models automatic and manual network selection, the selection-mode
query, the two registration
queries and the screen switch, on the normal runner and (with `-x`) the prio
runner. Its state:
- `s_screenState`, the holder of `s_screen_state_mutex` (`lockOwner`) and
  `s_registrationDeniedReason`, the RIL globals;
- `pc`, each runner's place inside a handler, and `requests`/`polls`, the
  requests and the timed `pollOperatorSelected` events waiting on each queue;
- `mReg`, `mCause`, `mCops`, `mCreg`, `mCgreg`, the modem's registration,
  its reject cause, its `+COPS` selection mode (0 automatic, 1 manual) and its
  two reporting modes;
- `selPending`, `selKind`, `selReplies` and `fwMode`, the framework's view of
  the selection: whether one is pending, which kind, the answers so far and
  the mode of the last selection answered SUCCESS.

The actions follow the handlers:
- `requestSetNetworkSelectionAutomatic` sends `AT+COPS=0` and queues the first
  poll on the normal queue two seconds later, or answers GENERIC_FAILURE.
  Only `err < 0` counts as a failure, so an ERROR answer still queues the
  poll; the model's failure outcome is the `err < 0` one.
- `requestSetNetworkSelectionManual` sends `AT+COPS=1,2,"<mccmnc>"` and
  answers at once. The comment above it asks for mode 4 (manual with
  automatic fallback); the code sends mode 1, and the model follows the code.
- `requestQueryNetworkSelectionMode` sends `AT+COPS?` and answers its first
  field. It changes no state.
- `pollOperatorSelected` answers GENERIC_FAILURE after 30 polls or on an AT
  failure, SUCCESS once `+COPS?` names an operator, ILLEGAL_SIM_OR_ME when the
  global reason is IMSI_UNKNOWN_IN_HLR or ILLEGAL_ME, and otherwise re-queues
  itself two seconds later on the prio queue (normal without `-x`).
- `requestRegistrationState` is split where the code releases control or
  another thread can look: `RegLock` takes the mutex and sets `+CREG=2`,
  `RegQuery` asks `+CREG?` and stores the converted reject cause,
  `RegReset` writes DEFAULT_VALUE back, and `RegFinally` restores `+CREG=0` if
  the screen is off and unlocks. `requestGprsRegistrationState` is the same
  for `+CGREG`.
- `requestScreenState` is `ScreenLock`, `ScreenCgreg`, `ScreenRest` and
  `ScreenUnlock`, with `ScreenFail` for the error path.
- The framework submits requests, the network may change (`NetChange`), and
  each AT step may fail (bounded by `MaxErrors`).

`convertRegistrationDeniedReason` is modelled by its table (13, 16, 17, 18
to the four RIL causes, anything else to GENERAL). The string formatting of
the replies is left out.

### `SimIO`

This module models `RIL_REQUEST_SIM_IO` for READ BINARY (B0) and GET
RESPONSE (C0), run on the normal runner one request at a time, one step per
AT round trip:
- `Type1` and `Type2`: the two calls of `getUICCType`, the first in
  `requestSIM_IO` and the second in `sendSimIOCmd` (`GetUICCType`). Each
  sends `AT+CUAD` while the static type is UNKNOWN. OK means USIM, and an
  ERROR answer leaves UNKNOWN. Any `err < 0` is stored as legacy SIM.
- `Crsm`: `AT+CRSM` on the basic channel, then the workaround's condition,
  written as in the code (`sw1 != 0x90 && sw2 != 0x00`, and not a legacy SIM).
- `Lc` and `Ccho`: `simIOGetLogicalChannel`. While `g_lc` is 0 it sends
  `AT+CUAD`, then `AT+CCHO`, and keeps the channel number.
- `SelectPath`, `SelPath` and `SelFid`: `simIOSelectPath`. The cache check
  is `CacheHit`. The loop selects each path id and then the file
  (`simIOSelectFile`, `SelectOk`). The path and file are cached even when
  the file's select failed.
- `Cgla`: the command on the logical channel.
- `Reply`: `convertSimIoFcp` for a GET RESPONSE unless the type is legacy
  SIM, then the answer.

The UICC is the environment. It has a small file tree (MF, the USIM ADF,
DF telecom, EF ICCID, EF ADN and EF FDN) and a selection per logical
channel. A SELECT by file id reaches what ISO 7816-4 allows from the current
file. The framework sends SIM_IO requests, each with the path Android uses
for its file. Any AT command may be answered ERROR (`MaxErrors`) or not at
all (`MaxTimeouts`). After a timeout, `onATTimeout` has closed the channel,
so the handler's later commands fail with `err < 0`. A command that timed
out may or may not have reached the card. `Reset` is a modem reset or SIM
re-power. It closes every logical channel and the AT channel, and the
runner reopens the AT channel (`Reopen`). The card is a USIM: what a modem
answers to `AT+CUAD` for a legacy SIM is not in the source (see "Not
modelled").

### `RilServices`

This module models the service handlers that share the runners once the
SIM is ready: the cell-broadcast and SMS-routing handlers of
`u300-ril-messaging.c`, with `onSIMReady` and `setRadioState(SIM_READY)` from
`u300-ril.c`, and the reachable part of `u300-ril-services.c`. The runners (`Workers`: the normal one, and the prio one when
`PrioEnabled`) take requests and events as the queue runner does:
- `processRequestRefused`: `processRequest` answers RADIO_NOT_AVAILABLE
  outside SIM_READY.
- `requestGSMSetBroadcastSMSConfig`: the selected entries are written as
  `from-to` pairs joined by commas (`MidsOf`). An empty mids string is a
  GENERIC_FAILURE. Otherwise `AT+CSCB=0,"<mids>"` is sent and the answer
  returned.
- `requestGSMGetBroadcastSMSConfig`: `AT+CSCB?` and the parse of its mids
  (`GetResult`: `SplitAt`, `ParseRange`, `NumOf`, `ParseMids`). The parse
  stops at `BROADCAST_MAX_RANGES_SUPPORTED` ranges, and a range without `-to`
  gets `to = from`.
- `ActivationRead` and `ActivationWrite`: `requestGSMSMSBroadcastActivation`
  reads `AT+CNMI?` into locals, changes `bm`, and writes all five fields
  back with a second command. These are two AT round trips, and a step of
  the other runner can fall between them.
- `onSIMReady`: an event queued by `setRadioState(SIM_READY)` on the prio
  queue when there is one. It sets `AT+CNMI=2,2,2,1,0`.
- `onNewBroadcastSms` and `onNewSmsOnSIM`: the `+CBM` and `+CMTI` lines
  from the reader. `+CBM` is shown only while `bm = 2` and only for the
  176-character (88-octet) PDU. `+CMTI` is shown only for memory "SM".
- `processRequestNotSupported`: a supplementary-service request
  (`SUPP_SERVICE`) reaches `processRequest`'s default and is answered
  REQUEST_NOT_SUPPORTED.
- `onUSSDReceived`: `+CUSD: <m>[,<str>,<dcs>]`. A line with `<m>` outside
  0..5 is dropped. For `<m>` 0 or 1 the text is read as a second string,
  and the line is dropped when there is none. RIL_UNSOL_ON_USSD carries one
  string, or two for `<m>` below 2.
- `onSuppServiceNotification`: `+CSSI: <code1>[,<index>]` and
  `+CSSU: <code2>[,<index>]`. The index is read for code 16 and for the
  closed user group codes (`CugCode`), and the line is dropped when it has
  none. The lines the modem may send are those of 27.007 (`UssdLines`,
  `SsnLines`): the USSD text is optional for every `<m>`, and an index comes
  with exactly the closed user group codes, and perhaps with the vendor
  code 16.

Text is a sequence of one-character strings, so the formatting and the
parsing are modelled by what they do. The modem is the environment: it
accepts a mids string only if it is in the 27.005 grammar (`ModemAcceptsMids`),
and `AT+CSCB?` returns what it stored, where it may print a range `a-a` as
`a` (`ModemAnswers`). `at_tok.c` is not in this repository;
`at_tok_nextstr` is taken to split at every comma as `strsep` does, and
`at_tok_nextint` to read the leading digits and fail without any.
`BROADCAST_MAX_RANGES_SUPPORTED` is 10 in the code and 2 in the
configuration, so that the limit is reached with three configured entries.

## Runs

| Run | Config | Expect | What it shows |
|---|---|---|---|
| queue_prio | `RilRequestQueue_prio.cfg` | pass | Both runners, NORMAL and PRIO events with delays 0 and 1, one request, one close and reopen. Events fire once, on their own queue, in abstime order with ties in call order (`EventsFireInTimeOrder`, `EventFiresOnceOnItsQueue`). Every event and request is eventually run (`EventsEventuallyFire`, `RequestsEventuallyProcessed`). |
| sms_anystate | `SmsAckGate_anystate.cfg` | pass | With `sState` moving through all five states and 4 arrivals of 2 PDUs of both kinds, every step is a `SmsDelivery` step (`DeliverySafety`). The flag matches the framework's view, and PDUs are held only behind a shown indication (`GateMatchesHost`). In every behaviour where no acknowledgement meets a state other than SIM_READY, every indication is eventually shown (`AdmittedAcksDelivered`). |
| sms_ack_rejected | `SmsAckGate_rejected.cfg` | violation | `AllDelivered` fails once the state can leave SIM_READY (finding 1). |
| radio_single | `RilRadioState_single.cfg` | pass | One runner, two airplane-mode toggles, a SIM that wants its PIN and one ENTER_SIM_PIN, one AT timeout anywhere, one AT+CFUN answered ERROR, and one SIM power-off. The radio ends on, with an "on" state reported, when the user wants it on (`RadioOnHonoured`), and off, reported OFF, when they want it off (`RadioOffHonoured`), even when AT+CFUN, `+CPIN?` or AT+CPIN= times out, unless the modem refused the AT+CFUN for that choice and the RIL reported it. Once the PIN is in and the radio stays wanted on, the `*EPEV` poll brings the state to SIM_READY (`SimUnlockReported`). A SIM that the module powers off and never brings back ends reported as SIM_LOCKED_OR_ABSENT (`SimFaultReported`): the `pollSIMState(1)` queued by `onSimStateChanged` polls even from SIM_READY. |
| radio_prio_reset | `RilRadioState_prio_reset.cfg` | pass | Both runners, a fixed airplane-mode choice, a SIM pulled and reinserted once, one modem reset, one `+CPIN?` ERROR, one AT+CFUN ERROR, and the framework's RADIO_POWER after each state change. `RadioOffHonoured` holds across `onATReaderClosed`, `signalCloseQueues` and the reopen of both channels. |
| radio_prio_on | `RilRadioState_prio_on.cfg` | violation | `RadioOnHonoured` fails with two runners (finding 2). |
| pdp_single | `PdpSetup_single.cfg` | pass | No `-x`, three setups, rejects and drops with a protocol cause or a regular deactivation, one wait timeout, two AT failures and one failed interface ioctl. A context that went down under a connected tracker always has its notification pending (`DropNotified`), and the tracker eventually leaves connected (`FrameworkLearnsDrop`). While the context is active, an `usb0` that is up carries the context's own address, never one left from an earlier setup (`AddressCurrent`): the setup's `ifc_down` at entry and `ifc_configure` keep it current, even when an ioctl fails. The mutant that skips the entry `ifc_down` breaks it. |
| pdp_stale | `PdpSetup_stale.cfg` | violation | `FailureHasOwnCause` fails: a retry fails on the previous attempt's `*E2NAP: 0` (finding 4). |
| pdp_prio_drop | `PdpSetup_prio.cfg` | violation | With `-x`, `FrameworkLearnsDrop` fails: a drop just before the setup's success is lost (finding 5). |
| net_select | `NetworkRegistration_select.cfg` | pass | Both runners; one selection (automatic or manual, with the mode query among the other requests) racing two registration queries (CS and GPRS), two screen switches, a network change and one AT failure. The selection is answered exactly once (`SelectionAnsweredOnce`) and eventually (`SelectionAnswered`), through every re-poll. Whenever no command failed and both runners are idle, `+CREG`/`+CGREG` reporting is extended exactly when the screen is on (`ReportingMatchesScreen`). |
| simio | `SimIO.cfg` | pass | One runner and three SIM_IO requests over ADN, FDN and ICCID, with one ERROR answer, one unanswered command and one modem reset. A SIM_IO answered with status 9000 always carries the requested file (`SimIoReadsRequestedFile`). This holds although `simIOSelectPath` skips the selects on a cache hit and caches a file whose select failed: a stale entry leaves a DF selected or a closed channel, and both are answered with an error status, never with another EF's data. The mutant that compares only the path reads ADN for FDN. |
| sms_cb | `RilServices.cfg` | pass | One runner, two requests of any kind (an unsupported supplementary-service request included) with up to three configured entries, one SIM_READY, one AT failure and one unsolicited line (`+CBM`, `+CMTI`, `+CUSD`, `+CSSI` or `+CSSU`). After a SET that succeeded, every answer the modem may give to `AT+CSCB?` parses back to the configured selected ranges, cut at the limit (`ConfigRoundTrip`). With one runner the AT+CNMI read-modify-write cannot race `onSIMReady`, so `SmsRoutingKept` is checked only with `-x`, where it fails (`RilServices_prio.cfg`). |

Further configurations check cases that no longer have a slot in the run
list:
- `NetworkRegistration_denied.cfg`: `IllegalSimReported` fails. A selection
  that follows a registration denied for an illegal SIM answers
  GENERIC_FAILURE instead of ILLEGAL_SIM_OR_ME (finding 6).
- `RilServices_prio.cfg`: with `-x`, `SmsRoutingKept` fails (finding 9).
- `PdpSetup_ifc.cfg`: `IfaceUpHasRoute` fails. A host route that cannot
  be added leaves `usb0` up with its address and no route, and the setup
  answers SUCCESS (finding 10).
- `PdpSetup_idle.cfg`: `IdleIfaceDown` fails. After a network drop the
  deactivation finds the context idle and leaves `usb0` up (finding 11).
- `NetworkRegistration_mode.cfg`: `SelectionModeKept` fails (finding 13).
- `RilServices_ussd.cfg`: `UssdDelivered` fails. A `+CUSD: 0` without text
  is dropped (finding 12).
- `SmsAckGate_ready.cfg`: in SIM_READY the gate implements `SmsDelivery`,
  liveness included (`DeliverySpec`). It passes.
- `RilRadioState_prio.cfg` (two runners, three toggles, one SIM swap) and
  `RilRadioState_reset.cfg` (one runner, two resets): `RadioOffHonoured`,
  and under resets alone `RadioOnHonoured`, hold. They pass.
- `RilRadioState_swap_on.cfg`: `*EESIMSWAP:0` while the radio is OFF moves
  the state to SIM_LOCKED_OR_ABSENT. Spec 4.F has no such transition, and
  `requestRadioPower(1)` powers on only from OFF, so `RadioOnHonoured` fails
  (`u300-ril-sim.c:151`).
- `RilRadioState_sim_removed.cfg`: the stale `+CPIN` READY of finding 2
  also overwrites the reader's SIM_LOCKED_OR_ABSENT after a SIM removal, so
  `SimAbsenceReported` fails (`u300-ril-sim.c:390`).
- `RilRadioState_reset_toggle.cfg`: finding 3; `RadioOnHonoured` fails when
  a reset meets RADIO_POWER off.
- `SimIO_type.cfg`: one unanswered `AT+CUAD` stores a USIM as a legacy SIM
  (`u300-ril-sim.c:267`). A later GET RESPONSE skips `convertSimIoFcp` and
  the framework gets the 3G FCP, so `GetResponseConverted` fails (finding 7).
- `SimIO_channel.cfg`: after a modem reset, `g_lc` still names the channel
  the card has closed, and nothing ever opens another
  (`u300-ril-sim.c:468`). `LogicalChannelOpen` fails (finding 8).

Each property of a passing run has a mutant in `PROJECT.json`: a plausible
bug in a mapped definition that TLC shows the property catches. Examples are
a tie inserted before equal abstimes, a held PDU queued at the head, the
acknowledge flag not cleared, requestRadioPower's states swapped, and the
reopen skipping `setRadioState(OFF)`.

### Bounds

- **Queue runs.** Three nodes and two events are enough for a tie and for
  an event inserted before the head. An insert into the middle of a list
  needs a third event, and that run takes close to five minutes, so the
  middle-of-list branch of `enqueueRILEvent` is not reached. One request and one
  close per queue give the close/reopen path.
- **SMS runs.** Two PDUs and 3-4 arrivals are enough to hold two PDUs of
  different kinds behind an outstanding one.
- **PDP runs.** Two causes cover both sides of `mbm_check_error_cause`: 95
  is a protocol error, and 36 leaves the old value. Three setups allow a
  failure, its retry, and a connect after a disconnect. One drop and one
  timeout reach the success-with-late-drop and timeout-then-E2IPCFG paths.
  One ioctl failure (`MaxIfcErrors`) puts a failure at each step of
  `ifc_configure` or of the deactivation's `ifc_down`, in any of the setups.
- **Network runs.** One selection with two registration queries lets a
  query's write and reset of the reject cause fall on either side of a poll.
  Two screen switches turn reporting off and back on, and one AT failure
  reaches every error path. The 30-poll cap is kept as in the code;
  `MaxRegQueries` bounds how often the modem is asked.
- **Radio runs.** The toggle bounds let the user go on→off→on→off, which is
  what the races need. In `radio_single`, two toggles (off→on→off), one AT
  timeout, one AT+CFUN ERROR and one SIM power-off put a timeout in every
  handler that sends a command, a refused AT+CFUN before or after either
  toggle, and a power-off before or after the PIN and either toggle.
  `MaxBusy` is 0 there because a `+CPIN?` ERROR on top doubles a run that
  already takes two minutes. `radio_single` has one runner, no swap and no
  reset, so the races between threads are `radio_prio_reset`'s subject. In
  `radio_prio_reset` the user does not toggle: with two runners, one swap,
  one reset, one `+CPIN?` ERROR (the one-second re-poll) and one AT+CFUN
  ERROR, a toggle multiplies the states past what one run can check in
  minutes. Its `MaxTimeouts` is 0 for the same reason. The framework still sends RADIO_POWER after every
  RADIO_STATE_CHANGED, which is the request that races the reset and the
  SIM polls.

- **SMS services run.** Three entries against a limit of 2 reach the
  truncation, an unselected last entry, and an empty selection. Ids 0 and
  1 give both `a-a` and `a-b`. Two requests let a SET be followed by a
  GET or an activation, and one SIM_READY with one AT failure puts
  `onSIMReady` and an error before or after either of them. One unsolicited
  line of any kind is enough: the line handlers run on the reader and
  touch only the indications, so a second line adds orderings and nothing
  that a property reads (with two, the run has six times the states).
- **SIM I/O run.** Three requests reach: a first request that opens the
  channel and fills the cache; a second that hits or misses the cache
  (two EFs under one DF, so only the file id tells them apart); and a third
  after a fault or a reset. One ERROR, one timeout and one reset put each
  fault at any AT step of any of the three. Two logical channels are
  enough, because `AT+CCHO` is sent again only after a timed-out one.

Every counter that the environment drives is capped by a named constant. When
the caps are reached the threads idle waiting for work. That is why the
configurations say `CHECK_DEADLOCK FALSE`: the real RIL also idles there.

### Fairness

Weak fairness is given to:
- each queueRunner, because its thread is woken by `pthread_cond_broadcast`
  whenever work is queued;
- the reader, because the modem's lines are read as they come;
- the framework's reaction to RADIO_STATE_CHANGED, and its SMS acknowledgements;
- `ModemUp`: a reset modem comes back;
- not `SimPowerOn`: the module may keep a SIM powered off for good, and
  `SimFaultReported` is about exactly that case;
- in `SimIO`, the runner's steps; requests and resets get none;
- in `NetworkRegistration`, each runner, for the same reason; the modem's
  registration and the framework's requests get none;
- in `RilServices`, each runner, for the same reason; requests,
  indications and SIM_READY get none;
- in `PdpSetup`, the modem's answer to ENAP=1,1 (activated or rejected) and
  the completion of a deactivation. A network drop gets no fairness.

The user's toggles, SIM swaps and resets get no fairness. The liveness
properties are stated as `<>[](desired = ...) => ...`, so they only ask
something of a user who stops changing their mind.

## Findings

1. **`u300-ril.c:975`.** `processRequest` refuses SMS_ACKNOWLEDGE outside
   SIM_READY without touching the gate. `s_outstanding_acknowledge` stays 1,
   and every later SMS is held forever.
2. **`u300-ril-sim.c:390`.** A prio `pollSIMState` writes SIM_READY from a
   `+CPIN` answer taken before the normal runner's `AT+CFUN=4` and
   `setRadioState(OFF)`. The radio is off, the state says on, and the
   framework's power-on is refused.
3. **`u300-ril.c:544`** (`RilRadioState_reset_toggle.cfg`, outside the run
   list). A modem reset between `AT+CFUN=4` and `setRadioState(OFF)` gets
   its UNAVAILABLE overwritten by OFF. The reopen then announces no change,
   and the framework never asks for power again.
4. **`u300-ril-pdp.c:205`.** `requestSetupDefaultPDP` resets
   `s_e2napState` at entry, well before `AT*ENAP=1,1`. The previous failed
   attempt sent `AT*ENAP=0` (line 481) and returned without waiting. Its
   `*E2NAP: 0` can be read after the reset. The wait loop then breaks on that
   DISCONNECTED at once, and the new activation is torn down and reported
   as a failure.
5. **`u300-ril.c:1670`, with `-x`.** The drop's `onPDPContextListChanged`
   runs on the prio runner while the setup is between its last
   `getE2napState` (pdp.c 460) and RIL_onRequestComplete(SUCCESS). The
   tracker is still connecting and ignores the indication. No other
   `*E2NAP` follows, so it stays connected on a dead context. Without `-x`
   the event waits behind the setup on the normal queue, and `pdp_single`
   shows that the drop is then always learnt.

6. **`u300-ril-network.c:1261`.** `requestRegistrationState` stores the
   converted reject cause in `s_registrationDeniedReason` at line 1257 and
   writes DEFAULT_VALUE over it four lines later. `pollOperatorSelected`
   (line 127) can therefore see IMSI_UNKNOWN_IN_HLR or ILLEGAL_ME only in a
   data race between those lines on the other runner. A selection after a
   registration denied for an illegal SIM keeps polling and ends in
   GENERIC_FAILURE, never the ILLEGAL_SIM_OR_ME the switch was written to
   return.
7. **`u300-ril-sim.c:267`** (`SimIO_type.cfg`). `getUICCType` takes any
   `err < 0` from `AT+CUAD` for a legacy SIM and stores it in a static. A
   timeout, or a channel closed by `onATTimeout` or a reset, is such an
   error. With a USIM, every later GET RESPONSE then skips
   `convertSimIoFcp`, and the framework gets a 3G FCP where it parses the
   TS 51.011 form. The `AT+CGLA` fallback is never tried either. Only a
   restart of the RIL clears it.
8. **`u300-ril-sim.c:468`** (`SimIO_channel.cfg`). `g_lc` is set once by
   `AT+CCHO` and never cleared. After a modem reset or a SIM re-power the
   card has closed the channel, so every `AT+CGLA` is answered ERROR. The
   fallback that the workaround in `sendSimIOCmd` relies on is dead until
   the RIL restarts.

9. **`u300-ril-messaging.c:342`, with `-x`** (`RilServices_prio.cfg`).
   `requestGSMSMSBroadcastActivation` reads `AT+CNMI?` and writes all five
   fields back with a second command. `onSIMReady` runs on the prio runner,
   and it can set `AT+CNMI=2,2,2,1,0` between the two. The write then
   restores the stale `mt = 0` and `ds = 0`, and new SMS (`+CMT`) and status
   reports (`+CDS`) are no longer routed to the RIL.
10. **`net-utils.c:173`** (`PdpSetup_ifc.cfg`). `ifc_add_ipv4_route` closes
   the shared `ifc_ctl_sock` on its way out, whether or not it succeeded.
   When the host route fails, `ifc_configure`'s rollback `ifc_down` (line
   231) therefore runs on fd -1 and fails, and `usb0` stays up with an
   address and no route. `requestSetupDefaultPDP` only logs the failure and
   answers SUCCESS (pdp.c 453), so the framework has a data call whose
   interface carries no traffic.
11. **`u300-ril-pdp.c:516`** (`PdpSetup_idle.cfg`). `requestDeactivateDefaultPDP`
   brings `usb0` down only when `AT*ENAP?` reports the context connected.
   After a network drop the context is already idle, so the
   deactivation the tracker sends answers SUCCESS and `usb0` stays up with
   the dead context's address until the next setup.
12. **`u300-ril-services.c:225`** (`RilServices_ussd.cfg`). For `<m>` 0 or 1,
   `onUSSDReceived` requires the text and drops the line without it. 27.007
   makes `<str>` optional, so a `+CUSD: 0` that ends a session without text
   never reaches the framework, which keeps the USSD session open.
13. **`u300-ril-network.c:318`** (`NetworkRegistration_mode.cfg`).
   `requestSetNetworkSelectionAutomatic` switches the modem to automatic
   selection with `AT+COPS=0` before `pollOperatorSelected` decides the
   answer. When a poll fails, the 30 polls run out while the modem searches,
   or the reject cause is an illegal SIM, the framework is told the
   selection failed, but the modem is already in automatic mode. After an
   earlier manual selection answered SUCCESS, the framework believes the
   phone is still manual, and nothing restores the modem's mode. TLC finds
   this in four steps: a manual selection, `AT+COPS=0` answered OK, a
   `+COPS?` poll that fails, GENERIC_FAILURE.

Other observations, listed as hazards: `MidsOf` writes a comma after every
selected entry but the last of the array, so an unselected last entry leaves
a trailing comma (`u300-ril-messaging.c:299`), which the modem's grammar
rejects. A configuration with no selected entry cannot be set, and an empty
`AT+CSCB?` answer makes GET fail. `onSIMReady` sets `bm = 2` on every
SIM_READY, undoing a deactivation. `onNewBroadcastSms` passes
`sizeof(char *)` as the PDU length.

Findings 3 and 6 to 13 are reproduced by configurations outside the run list,
which is full. `PROJECT.json` lists them as hazards with that note.

## Not modelled, and the plan for later work

- **The `RIL_EVENT_QUEUE_ALL` copy** (`u300-ril.c` 226-234). No caller
  passes ALL, so this is dead code. Read on its own, it is wrong: `memcpy`
  copies the node that is already linked into the normal list, its
  `next`/`prev` included, and then inserts the copy into the prio list, so
  the two lists share nodes. A model of it is easy to write, but no run of
  this program can reach it.

- **SIM request handlers other than ENTER_SIM_PIN and SIM_IO.** PUK, change-PIN
  and facility lock are AT wrappers with no RIL state.
- **The end of the `resetSim` loop.** The loop is modelled, but no run
  states that it ends: a failed `AT*ESIMSR?` ends it while the SIM is still
  off (`u300-ril-sim.c` 76), and while the SIM stays off it never ends,
  although the comment at line 122 says "for a minute or so". Both are
  listed as hazards.
- **The rest of SIM I/O.** The UPDATE commands take the same path as the
  reads, with data. `getCardStatus` is a table lookup on `getSIMStatus`.
  For a legacy SIM, what the modem answers to `AT+CUAD` (ERROR, or no
  answer as the TODO at line 266 suggests) is not in the source, so
  `SimIO` takes a USIM. The `sw1 != 0x90 && sw2 != 0x00` retry condition
  is kept as written, but `AT+CRSM` answers only 9000 or 6A82. Statuses
  with sw2 = 00, which that condition would not retry, are left out.
- **The rest of messaging.** SendSMS, SMSC address, memory status and
  delete-on-SIM are AT wrappers with no RIL state beyond the acknowledge
  gate, which `SmsAckGate` models.
- **The services request handlers** (`u300-ril-services.c`). CLIP, CLIR,
  call forwarding, call waiting and SET_SUPP_SVC_NOTIFICATION have no case
  in `processRequest` (the last one is commented out at `u300-ril.c` 1187),
  and the USSD send/cancel handlers are compiled out (`#if 0`). None of them
  can run, so the model has the REQUEST_NOT_SUPPORTED answer in their
  place. Read on its own, `requestSetCallWaiting` checks only `err < 0` and
  would answer SUCCESS to an ERROR.
- **PDP text conversions.** `ucs2StringCreate` is not modelled. It prints
  `%04x` per `char`, so a signed char at or above 0x80 prints eight digits
  and overruns its buffer, and UTF-8 is encoded per byte. E2IPCFG parsing
  is also left out. The model keeps only whether it succeeds. The channel reopen, which resets `s_e2nap*` and sets UTF-8 in
  `initializeCommon`, is not part of `PdpSetup` either.
- **The AT channel.** `atchannel.c` is not in this repository. The models
  abstract it as a link that is up or down, a queue of unsolicited lines,
  and one step per command round trip.
- **The rest of `u300-ril-network.c`.** Network scans, operator and
  signal queries, neighbouring cells and the `+CREG`/`*ETZV`/`+CIEV`
  unsolicited handlers are AT wrappers or formatting. Two paths of the
  modelled handlers are left out: `requestGprsRegistrationState` returns
  without answering when `AT+CGEQNEG` is malformed (line 981), and
  `onSIMReady` turns `+CREG=2` on whatever the screen state.
- **`requestScreenState`'s error path unlocks `s_screen_state_mutex` twice**
  (`u300-ril.c` 664 and 658). The second unlock is undefined for a default
  mutex. `ScreenUnlock` models it as releasing the mutex whoever holds it.
  The `prioRequests` table is not in this repository; the runs take it as
  empty (`PrioRequests = {}`), so every request that takes the mutex runs on
  the normal queue, no other thread can hold the mutex at that moment, and
  the hazard is not reached.
- **The rest of `net-utils.c`.** The netmask value (`~0`, only its failure
  is kept), the `net.<ifc>.gw`/`dns` properties `ifc_configure` writes last,
  and `ifc_create_default_route` with `get_ipv4_netmask`, which nothing
  calls.
- **RIL_Init's option parsing.** Its only state effect is `PrioEnabled`.
- **The sensors HAL** (`sensors_bug20_ml8953.c`). What its descriptor
  handling does depends on how the sensor service passes the native handle
  from `control_open_data_source` to `sensors_open`, in the same process or
  as a binder dup. That caller is not in this repository. The rest is a
  sequential read loop. Reading it shows the following:
  - `sensors_open` closes the handle it receives, and `control_close` closes
    `sensor_fd` again (lines 246 and 231). In the same process, this
    closes a descriptor twice.
  - `sensors_poll` tests `ev.code` without `ev.type` (line 278). A
    SYN_REPORT has code 0 == ABS_X, so it can be taken as an X sample.
  - A failed read returns 0 (line 305). That is ID_ACCELERATION when
    SENSORS_HANDLE_BASE is 0.
  - `close_sensors` leaves `event_fd` set (lines 129-130).
  - The `event_fd > 0` tests skip descriptor 0.
