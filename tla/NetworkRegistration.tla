------------------------- MODULE NetworkRegistration -------------------------
(***************************************************************************)
(* Network selection and registration reporting of the MBM u300 RIL        *)
(* (u300-ril-network.c, with requestScreenState of u300-ril.c).            *)
(*                                                                         *)
(* Actors:                                                                 *)
(*   - the queueRunners "normal" and, with -x, "prio"; each runs one       *)
(*     request or one RILEvent at a time;                                  *)
(*   - the framework, which sends SET_NETWORK_SELECTION_AUTOMATIC or       *)
(*     _MANUAL (and waits for the answer, keeping the mode of the last one *)
(*     answered SUCCESS), REGISTRATION_STATE, GPRS_REGISTRATION_STATE,    *)
(*     QUERY_NETWORK_SELECTION_MODE and SCREEN_STATE;                      *)
(*   - the modem: its registration (searching, registered, denied with a   *)
(*     detailed cause), its +COPS selection mode and its +CREG / +CGREG    *)
(*     reporting modes.                                                    *)
(*                                                                         *)
(* The radio is on and the SIM ready throughout, so processRequest admits  *)
(* every request modelled here.  An AT round trip is one step whose        *)
(* outcome is "ok" or, at most MaxErrors times, a failure (err < 0).       *)
(* Timer delays (TIMEVAL_OPERATOR_SELECT_POLL) are not timed: a queued     *)
(* poll may run before or after any queued request.                        *)
(***************************************************************************)
EXTENDS Integers, Sequences

CONSTANTS PrioEnabled,     \* s_requestQueuePrio.enabled (-x given)
          PrioRequests,    \* the request kinds listed in prioRequests
          DenyCauses,      \* *E2REG cs_status values the modem may report
          MaxSelections,   \* bound on SET_NETWORK_SELECTION_AUTOMATIC
          MaxRegQueries,   \* bound on (GPRS_)REGISTRATION_STATE requests
          MaxScreens,      \* bound on SCREEN_STATE requests
          MaxNetChanges,   \* bound on registration changes of the modem
          MaxErrors        \* bound on failed AT commands

(* #define REPOLL_OPERATOR_SELECTED 30 *)
REPOLL_OPERATOR_SELECTED == 30

(* Reg_Deny_DetailReason (atchannel.h) *)
DEFAULT_VALUE == -1
GENERAL == 0
AUTHENTICATION_FAILURE == 1
IMSI_UNKNOWN_IN_HLR == 2
ILLEGAL_MS == 3
ILLEGAL_ME == 4
DenyReasons == {DEFAULT_VALUE, GENERAL, AUTHENTICATION_FAILURE,
                IMSI_UNKNOWN_IN_HLR, ILLEGAL_MS, ILLEGAL_ME}

(* The reasons for which pollOperatorSelected stops polling.               *)
IllegalSimReasons == {IMSI_UNKNOWN_IN_HLR, ILLEGAL_ME}

(* Mutant: the modem's cs_status is stored without conversion.            *)
convertRegistrationDeniedReasonRaw(cs) == cs

(* convertRegistrationDeniedReason, for the causes a model may use.        *)
convertRegistrationDeniedReason(cs) ==
  CASE cs = 13 -> AUTHENTICATION_FAILURE
    [] cs = 16 -> IMSI_UNKNOWN_IN_HLR
    [] cs = 17 -> ILLEGAL_MS
    [] cs = 18 -> ILLEGAL_ME
    [] OTHER   -> GENERAL

Queues == {"normal", "prio"}
Workers == IF PrioEnabled THEN Queues ELSE {"normal"}
RequestKinds == {"SELECT_AUTO", "SELECT_MANUAL", "REGISTRATION",
                 "GPRS_REGISTRATION", "QUERY_MODE", "SCREEN_ON", "SCREEN_OFF"}
(* The +COPS <mode> each selection request asks for: 0 automatic, 1 manual *)
SelMode == [auto |-> 0, manual |-> 1]
SelectReplies == {"SUCCESS", "GENERIC_FAILURE", "ILLEGAL_SIM_OR_ME"}

(* onRequest: prio queue for a prio request when -x was given.            *)
RequestQueue(kind) ==
  IF PrioEnabled /\ kind \in PrioRequests THEN "prio" ELSE "normal"

(* enqueueRILEvent: the prio queue falls back to the normal one.           *)
EventQueue(isPrio) == IF PrioEnabled /\ isPrio THEN "prio" ELSE "normal"

VARIABLES
  s_screenState,               \* u300-ril.c s_screenState
  lockOwner,                   \* s_screen_state_mutex: a worker or "none"
  s_registrationDeniedReason,  \* u300-ril-network.c
  pc,                          \* where each queueRunner is
  requests,                    \* per queue, framework requests not yet taken
  polls,                       \* per queue, loopcounts of queued polls
  mReg,                        \* modem: "searching", "registered", "denied"
  mCause,                      \* modem: *E2REG cs_status while denied
  mCops,                       \* modem: +COPS <mode> (0 or 1)
  mCreg, mCgreg,               \* modem: +CREG / +CGREG <n> (0 or 2)
  selPending,                  \* the selection token is unanswered
  selKind,                     \* the kind of the last selection sent
  selReplies,                  \* answers to selections: [code, known]
  fwMode,                      \* framework: mode of the last selection
                               \* answered SUCCESS
  deniedKnown,                 \* the last registration answer reported an
                               \* illegal SIM/ME denial still in force
  nSelections, nRegQueries, nScreens, nNetChanges, nErrors

ril == <<s_screenState, lockOwner, s_registrationDeniedReason, pc,
         requests, polls>>
modem == <<mReg, mCause, mCops, mCreg, mCgreg>>
fw == <<selPending, selKind, selReplies, fwMode, deniedKnown>>
counters == <<nSelections, nRegQueries, nScreens, nNetChanges, nErrors>>
vars == <<ril, modem, fw, counters>>

Init ==
  /\ s_screenState = TRUE
  /\ lockOwner = "none"
  /\ s_registrationDeniedReason = DEFAULT_VALUE
  /\ pc = [w \in Workers |-> "idle"]
  /\ requests = [q \in Queues |-> <<>>]
  /\ polls = [q \in Queues |-> <<>>]
  /\ mReg \in {"searching", "registered", "denied"}
  /\ mCause \in DenyCauses
  /\ mCops = 0 /\ mCreg = 2 /\ mCgreg = 2
  /\ selPending = FALSE /\ selKind = "auto" /\ selReplies = <<>>
  /\ fwMode = 0 /\ deniedKnown = FALSE
  /\ nSelections = 0 /\ nRegQueries = 0 /\ nScreens = 0
  /\ nNetChanges = 0 /\ nErrors = 0

(* The outcome of one AT command: "ok", or a failure within the budget.    *)
Outcomes == IF nErrors < MaxErrors THEN {"ok", "err"} ELSE {"ok"}
CountError(o) == nErrors' = nErrors + (IF o = "err" THEN 1 ELSE 0)

Goto(w, l) == pc' = [pc EXCEPT ![w] = l]

(* Answer the selection token; the framework keeps the mode of a          *)
(* selection answered SUCCESS.                                             *)
ReplySelect(code) ==
  /\ selPending' = FALSE
  /\ selReplies' = Append(selReplies, [code |-> code,
                                        known |-> deniedKnown /\ selKind = "auto"])
  /\ fwMode' = IF code = "SUCCESS" THEN SelMode[selKind] ELSE fwMode
  /\ UNCHANGED selKind
NoReply == UNCHANGED <<selPending, selKind, selReplies, fwMode>>

(* A +CREG/+CGREG <n> command changes the mode only when it went through.  *)
SendMode(o, cur, n) == IF o = "ok" THEN n ELSE cur

(* The queueRunner w takes the request at the head of its queue.           *)
TakeRequest(w, kind) ==
  /\ pc[w] = "idle"
  /\ requests[w] # <<>>
  /\ Head(requests[w]) = kind
  /\ requests' = [requests EXCEPT ![w] = Tail(@)]

-----------------------------------------------------------------------------
(* RIL_REQUEST_SET_NETWORK_SELECTION_AUTOMATIC (network.c 311-339):        *)
(* AT+COPS=0, then the first poll goes on the normal queue.                *)
requestSetNetworkSelectionAutomatic(w) ==
  /\ TakeRequest(w, "SELECT_AUTO")
  /\ \E o \in Outcomes :
       /\ CountError(o)
       /\ IF o = "err"
            THEN ReplySelect("GENERIC_FAILURE") /\ UNCHANGED <<polls, mCops>>
            ELSE /\ mCops' = SelMode["auto"]
                 /\ polls' = [polls EXCEPT ![EventQueue(FALSE)] =
                                Append(@, 0)]
                 /\ NoReply
  /\ UNCHANGED <<s_screenState, lockOwner, s_registrationDeniedReason, pc,
                 mReg, mCause, mCreg, mCgreg, deniedKnown, nSelections,
                 nRegQueries, nScreens, nNetChanges>>

(* Requeue(ps, lc): the poll with loopcount lc is appended to the prio    *)
(* event queue of the queues ps.                                           *)
Requeue(ps, lc) ==
  polls' = [ps EXCEPT ![EventQueue(TRUE)] = Append(@, lc)]

(* Mutant: the illegal SIM/ME case falls through to the default branch.    *)
PollOutcomeFallThrough(ps, lc) ==
  IF s_registrationDeniedReason \in IllegalSimReasons
    THEN ReplySelect("ILLEGAL_SIM_OR_ME") /\ Requeue(ps, lc + 1)
    ELSE Requeue(ps, lc + 1) /\ NoReply

(* Mutant: the loop counter is not advanced.                               *)
PollOutcomeNoCount(ps, lc) ==
  IF s_registrationDeniedReason \in IllegalSimReasons
    THEN ReplySelect("ILLEGAL_SIM_OR_ME") /\ polls' = ps
    ELSE Requeue(ps, lc) /\ NoReply

(* +COPS? named no operator: stop on an illegal SIM/ME denial, else poll   *)
(* again on the prio queue with loopcount + 1 (network.c 125-137).  ps are *)
(* the event queues once the running poll is taken off.                    *)
PollOutcome(ps, lc) ==
  IF s_registrationDeniedReason \in IllegalSimReasons
    THEN ReplySelect("ILLEGAL_SIM_OR_ME") /\ polls' = ps
    ELSE Requeue(ps, lc + 1) /\ NoReply

(* pollOperatorSelected (network.c 93-154), run by the queueRunner of the  *)
(* queue the event is on.                                                  *)
pollOperatorSelected(w) ==
  /\ pc[w] = "idle"
  /\ polls[w] # <<>>
  /\ LET lc == Head(polls[w])
         ps == [polls EXCEPT ![w] = Tail(@)]
     IN  \/ /\ lc >= REPOLL_OPERATOR_SELECTED
            /\ ReplySelect("GENERIC_FAILURE")
            /\ polls' = ps
            /\ UNCHANGED nErrors
         \/ /\ lc < REPOLL_OPERATOR_SELECTED
            /\ \E o \in Outcomes :
                 /\ CountError(o)
                 /\ CASE o = "err" ->
                           ReplySelect("GENERIC_FAILURE") /\ polls' = ps
                      [] mReg = "registered" ->
                           ReplySelect("SUCCESS") /\ polls' = ps
                      [] OTHER -> PollOutcome(ps, lc)
  /\ UNCHANGED <<s_screenState, lockOwner, s_registrationDeniedReason, pc,
                 requests, modem, deniedKnown, nSelections, nRegQueries,
                 nScreens, nNetChanges>>

(* RIL_REQUEST_SET_NETWORK_SELECTION_MANUAL (network.c 346-387): a NULL   *)
(* operator fails at once (the framework always names one); otherwise      *)
(* AT+COPS=1,2,"<mccmnc>", manual selection without fallback, and its      *)
(* answer.  The modem keeps its mode when it refuses the operator.         *)
requestSetNetworkSelectionManual(w) ==
  /\ TakeRequest(w, "SELECT_MANUAL")
  /\ \E o \in Outcomes :
       /\ CountError(o)
       /\ IF o = "err"
            THEN ReplySelect("GENERIC_FAILURE") /\ UNCHANGED mCops
            ELSE ReplySelect("SUCCESS") /\ mCops' = SelMode["manual"]
  /\ UNCHANGED <<s_screenState, lockOwner, s_registrationDeniedReason, pc,
                 polls, mReg, mCause, mCreg, mCgreg, deniedKnown, nSelections,
                 nRegQueries, nScreens, nNetChanges>>

(* RIL_REQUEST_QUERY_NETWORK_SELECTION_MODE (network.c 630-668): AT+COPS? *)
(* and its first field, the modem's <mode>, as the answer; no RIL state    *)
(* changes.                                                                *)
requestQueryNetworkSelectionMode(w) ==
  /\ TakeRequest(w, "QUERY_MODE")
  /\ \E o \in Outcomes : CountError(o)
  /\ UNCHANGED <<s_screenState, lockOwner, s_registrationDeniedReason, pc,
                 polls, modem, fw, nSelections, nRegQueries, nScreens,
                 nNetChanges>>

-----------------------------------------------------------------------------
(* RIL_REQUEST_REGISTRATION_STATE (network.c 1108-1292), in four steps:    *)
(* the screen-state lock with AT+CREG=2 when the screen is off; AT+CREG?   *)
(* with AT*E2REG? on a denial; the reset of the reason and the answer;     *)
(* AT+CREG=0 when the screen is off and the unlock.                        *)
RegLock(w) ==
  /\ TakeRequest(w, "REGISTRATION")
  /\ lockOwner = "none"
  /\ lockOwner' = w
  /\ \E o \in Outcomes :
       /\ CountError(IF s_screenState THEN "ok" ELSE o)
       /\ mCreg' = IF s_screenState THEN mCreg ELSE SendMode(o, mCreg, 2)
  /\ Goto(w, "reg_query")
  /\ UNCHANGED <<s_screenState, s_registrationDeniedReason, polls, mReg,
                 mCause, mCops, mCgreg, fw, nSelections, nRegQueries, nScreens,
                 nNetChanges>>

(* AT+CREG? and, on +CREG stat 3 (denied), AT*E2REG?: the detailed reason  *)
(* is stored (1256-1257) and the reset waits for the next step.  Not       *)
(* denied, the reason is reset and the state answered at once.  A failed   *)
(* command answers GENERIC_FAILURE.                                        *)
RegQuery(w) ==
  /\ pc[w] = "reg_query"
  /\ \E o \in Outcomes :
       /\ CountError(o)
       /\ CASE o = "err" ->
                 Goto(w, "reg_finally")
                 /\ UNCHANGED <<s_registrationDeniedReason, deniedKnown>>
            [] mReg = "denied" ->
                 /\ s_registrationDeniedReason' =
                      convertRegistrationDeniedReason(mCause)
                 /\ Goto(w, "reg_reset")
                 /\ UNCHANGED deniedKnown
            [] OTHER ->
                 /\ s_registrationDeniedReason' = DEFAULT_VALUE
                 /\ deniedKnown' = FALSE
                 /\ Goto(w, "reg_finally")
  /\ UNCHANGED <<s_screenState, lockOwner, requests, polls, modem,
                 selPending, selKind, selReplies, fwMode, nSelections,
                 nRegQueries, nScreens, nNetChanges>>

(* s_registrationDeniedReason = DEFAULT_VALUE (1261), then the answer     *)
(* with response[13], the reason stored by the previous step.              *)
RegReset(w) ==
  /\ pc[w] = "reg_reset"
  /\ s_registrationDeniedReason' = DEFAULT_VALUE
  /\ deniedKnown' = (s_registrationDeniedReason \in IllegalSimReasons)
  /\ Goto(w, "reg_finally")
  /\ UNCHANGED <<s_screenState, lockOwner, requests, polls, modem,
                 selPending, selKind, selReplies, fwMode, counters>>

(* finally: AT+CREG=0 when the screen is off, releaseScreenStateLock.      *)
RegFinally(w) ==
  /\ pc[w] = "reg_finally"
  /\ lockOwner' = "none"
  /\ \E o \in Outcomes :
       /\ CountError(IF s_screenState THEN "ok" ELSE o)
       /\ mCreg' = IF s_screenState THEN mCreg ELSE SendMode(o, mCreg, 0)
  /\ Goto(w, "idle")
  /\ UNCHANGED <<s_screenState, s_registrationDeniedReason, requests, polls,
                 mReg, mCause, mCops, mCgreg, fw, nSelections, nRegQueries,
                 nScreens, nNetChanges>>

(* RIL_REQUEST_GPRS_REGISTRATION_STATE (network.c 810-1090), as far as the *)
(* lock and +CGREG reporting go: AT+CGREG=2 when the screen is off; the    *)
(* queries (+CGREG?, *ERINFO?, +CGEQNEG) and the answer; AT+CGREG=0 when  *)
(* the screen is off and the unlock.                                       *)
GprsLock(w) ==
  /\ TakeRequest(w, "GPRS_REGISTRATION")
  /\ lockOwner = "none"
  /\ lockOwner' = w
  /\ \E o \in Outcomes :
       /\ CountError(IF s_screenState THEN "ok" ELSE o)
       /\ mCgreg' = IF s_screenState THEN mCgreg ELSE SendMode(o, mCgreg, 2)
  /\ Goto(w, "gprs_query")
  /\ UNCHANGED <<s_screenState, s_registrationDeniedReason, polls, mReg,
                 mCause, mCops, mCreg, fw, nSelections, nRegQueries, nScreens,
                 nNetChanges>>

GprsQuery(w) ==
  /\ pc[w] = "gprs_query"
  /\ \E o \in Outcomes : CountError(o)
  /\ Goto(w, "gprs_finally")
  /\ UNCHANGED <<s_screenState, lockOwner, s_registrationDeniedReason,
                 requests, polls, modem, fw, nSelections, nRegQueries,
                 nScreens, nNetChanges>>

(* Mutant: the GPRS finally restores +CREG instead of +CGREG.              *)
GprsFinallyCreg(w) ==
  /\ pc[w] = "gprs_finally"
  /\ lockOwner' = "none"
  /\ \E o \in Outcomes :
       /\ CountError(IF s_screenState THEN "ok" ELSE o)
       /\ mCreg' = IF s_screenState THEN mCreg ELSE SendMode(o, mCreg, 0)
  /\ Goto(w, "idle")
  /\ UNCHANGED <<s_screenState, s_registrationDeniedReason, requests, polls,
                 mReg, mCause, mCops, mCgreg, fw, nSelections, nRegQueries,
                 nScreens, nNetChanges>>

GprsFinally(w) ==
  /\ pc[w] = "gprs_finally"
  /\ lockOwner' = "none"
  /\ \E o \in Outcomes :
       /\ CountError(IF s_screenState THEN "ok" ELSE o)
       /\ mCgreg' = IF s_screenState THEN mCgreg ELSE SendMode(o, mCgreg, 0)
  /\ Goto(w, "idle")
  /\ UNCHANGED <<s_screenState, s_registrationDeniedReason, requests, polls,
                 mReg, mCause, mCops, mCreg, fw, nSelections, nRegQueries,
                 nScreens, nNetChanges>>

-----------------------------------------------------------------------------
(* RIL_REQUEST_SCREEN_STATE: requestScreenState (u300-ril.c 613-666).      *)
(* Under the lock it stores the state and sends AT+CREG=<n>, AT+CGREG=<n>  *)
(* and then AT+CGEREP (with AT+CMER when on), n = 2 for on, 0 for off.    *)
(* A failed command goes to error:, which calls releaseScreenStateLock and *)
(* then unlocks the mutex a second time in finally:.                       *)
ScreenFail(w) ==
  /\ lockOwner' = "none"
  /\ Goto(w, "screen_unlock")

ScreenLock(w) ==
  /\ pc[w] = "idle"
  /\ requests[w] # <<>>
  /\ Head(requests[w]) \in {"SCREEN_ON", "SCREEN_OFF"}
  /\ requests' = [requests EXCEPT ![w] = Tail(@)]
  /\ lockOwner = "none"
  /\ LET on == Head(requests[w]) = "SCREEN_ON"
     IN  /\ s_screenState' = on
         /\ \E o \in Outcomes :
              /\ CountError(o)
              /\ mCreg' = SendMode(o, mCreg, IF on THEN 2 ELSE 0)
              /\ IF o = "ok"
                   THEN lockOwner' = w /\ Goto(w, "screen_cgreg")
                   ELSE ScreenFail(w)
  /\ UNCHANGED <<s_registrationDeniedReason, polls, mReg, mCause, mCops,
                 mCgreg, fw, nSelections, nRegQueries, nScreens, nNetChanges>>

ScreenCgreg(w) ==
  /\ pc[w] = "screen_cgreg"
  /\ \E o \in Outcomes :
       /\ CountError(o)
       /\ mCgreg' = SendMode(o, mCgreg, IF s_screenState THEN 2 ELSE 0)
       /\ IF o = "ok" THEN Goto(w, "screen_rest") /\ UNCHANGED lockOwner
                      ELSE ScreenFail(w)
  /\ UNCHANGED <<s_screenState, s_registrationDeniedReason, requests, polls,
                 mReg, mCause, mCops, mCreg, fw, nSelections, nRegQueries,
                 nScreens, nNetChanges>>

(* AT+CGEREP (and AT+CMER), then the answer and the unlock of finally:.    *)
ScreenRest(w) ==
  /\ pc[w] = "screen_rest"
  /\ \E o \in Outcomes :
       /\ CountError(o)
       /\ IF o = "ok" THEN lockOwner' = "none" /\ Goto(w, "idle")
                      ELSE ScreenFail(w)
  /\ UNCHANGED <<s_screenState, s_registrationDeniedReason, requests, polls,
                 modem, fw, nSelections, nRegQueries, nScreens, nNetChanges>>

(* The second pthread_mutex_unlock of the error path: it releases the      *)
(* mutex whoever holds it by now.                                          *)
ScreenUnlock(w) ==
  /\ pc[w] = "screen_unlock"
  /\ lockOwner' = "none"
  /\ Goto(w, "idle")
  /\ UNCHANGED <<s_screenState, s_registrationDeniedReason, requests, polls,
                 modem, fw, counters>>

-----------------------------------------------------------------------------
(* The framework.  Selection is answered before the next is sent; the      *)
(* registration queries and the display changes come at any time.        *)
Submit(kind) ==
  requests' = [requests EXCEPT ![RequestQueue(kind)] = Append(@, kind)]

FwSelect ==
  /\ ~selPending
  /\ nSelections < MaxSelections
  /\ nSelections' = nSelections + 1
  /\ selPending' = TRUE
  /\ \E k \in DOMAIN SelMode :
       /\ selKind' = k
       /\ Submit(IF k = "auto" THEN "SELECT_AUTO" ELSE "SELECT_MANUAL")
  /\ UNCHANGED <<s_screenState, lockOwner, s_registrationDeniedReason, pc,
                 polls, modem, selReplies, fwMode, deniedKnown, nRegQueries,
                 nScreens, nNetChanges, nErrors>>

FwRegQuery ==
  /\ nRegQueries < MaxRegQueries
  /\ nRegQueries' = nRegQueries + 1
  /\ \E k \in {"REGISTRATION", "GPRS_REGISTRATION", "QUERY_MODE"} : Submit(k)
  /\ UNCHANGED <<s_screenState, lockOwner, s_registrationDeniedReason, pc,
                 polls, modem, fw, nSelections, nScreens, nNetChanges,
                 nErrors>>

FwScreen ==
  /\ nScreens < MaxScreens
  /\ nScreens' = nScreens + 1
  /\ \E k \in {"SCREEN_ON", "SCREEN_OFF"} : Submit(k)
  /\ UNCHANGED <<s_screenState, lockOwner, s_registrationDeniedReason, pc,
                 polls, modem, fw, nSelections, nRegQueries, nNetChanges,
                 nErrors>>

(* The modem's registration changes: the framework's last answer about a  *)
(* denial no longer describes it.                                          *)
NetChange ==
  /\ nNetChanges < MaxNetChanges
  /\ nNetChanges' = nNetChanges + 1
  /\ \E r \in {"searching", "registered", "denied"} \ {mReg}, c \in DenyCauses :
       mReg' = r /\ mCause' = c
  /\ deniedKnown' = FALSE
  /\ UNCHANGED <<ril, mCops, mCreg, mCgreg, selPending, selKind, selReplies,
                 fwMode, nSelections, nRegQueries, nScreens, nErrors>>

Worker(w) ==
  \/ requestSetNetworkSelectionAutomatic(w) \/ pollOperatorSelected(w)
  \/ requestSetNetworkSelectionManual(w) \/ requestQueryNetworkSelectionMode(w)
  \/ RegLock(w) \/ RegQuery(w) \/ RegReset(w) \/ RegFinally(w)
  \/ GprsLock(w) \/ GprsQuery(w) \/ GprsFinally(w)
  \/ ScreenLock(w) \/ ScreenCgreg(w) \/ ScreenRest(w) \/ ScreenUnlock(w)

Next ==
  \/ \E w \in Workers : Worker(w)
  \/ FwSelect \/ FwRegQuery \/ FwScreen \/ NetChange

(* Each queueRunner keeps taking work; the framework and the modem may     *)
(* stop.                                                                   *)
Spec == Init /\ [][Next]_vars /\ \A w \in Workers : WF_vars(Worker(w))

-----------------------------------------------------------------------------
TypeOK ==
  /\ s_screenState \in BOOLEAN
  /\ lockOwner \in Workers \cup {"none"}
  /\ s_registrationDeniedReason \in DenyReasons
  /\ \A q \in Queues : requests[q] \in Seq(RequestKinds)
  /\ \A q \in Queues : polls[q] \in Seq(0..REPOLL_OPERATOR_SELECTED)
  /\ mReg \in {"searching", "registered", "denied"} /\ mCause \in DenyCauses
  /\ {mCreg, mCgreg} \subseteq {0, 2} /\ {mCops, fwMode} \subseteq {0, 1}
  /\ selReplies \in Seq([code : SelectReplies, known : BOOLEAN])

(* Every SET_NETWORK_SELECTION_AUTOMATIC is answered, however long the     *)
(* modem searches: the chain of pollOperatorSelected events re-enqueued on *)
(* the prio queue ends after REPOLL_OPERATOR_SELECTED polls.               *)
SelectionAnswered == selPending ~> ~selPending

(* The selection token is answered exactly once: no poll chain outlives    *)
(* its answer, even when a poll on the prio runner reads the denial reason *)
(* requestRegistrationState is writing on the normal one.                  *)
SelectionAnsweredOnce ==
  Len(selReplies) = nSelections - (IF selPending THEN 1 ELSE 0)

(* While no AT command has failed, whenever no runner is inside a screen-  *)
(* state section, the modem reports +CREG and +CGREG exactly when the      *)
(* screen is on: the temporary AT+CREG=2 / AT+CGREG=2 of the registration  *)
(* queries are undone and requestScreenState sets both.                    *)
ReportingMatchesScreen ==
  (nErrors = 0 /\ \A w \in Workers : pc[w] = "idle")
    => /\ (mCreg = 2) = s_screenState
       /\ (mCgreg = 2) = s_screenState

(* The comment on s_registrationDeniedReason (network.c 41-50): once the  *)
(* RIL has reported an IMSI-unknown or illegal-ME denial, a pending        *)
(* automatic selection is answered ILLEGAL_SIM_OR_ME instead of polling    *)
(* on until GENERIC_FAILURE.                                               *)
IllegalSimReported ==
  \A i \in DOMAIN selReplies :
    selReplies[i].known => selReplies[i].code = "ILLEGAL_SIM_OR_ME"
(* The framework's selection mode is the modem's: once a selection is     *)
(* answered, the +COPS <mode> the modem runs in is the one of the last     *)
(* selection the framework saw succeed.  An automatic selection whose      *)
(* AT+COPS=0 went through but whose operator polls then failed is answered *)
(* GENERIC_FAILURE with the modem already automatic.                       *)
SelectionModeKept == ~selPending => mCops = fwMode
====
