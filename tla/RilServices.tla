---------------------------- MODULE RilServices ----------------------------
(***************************************************************************)
(* The service request handlers that share the queueRunners once the SIM  *)
(* is ready.  From u300-ril-messaging.c, the SMS services other than the   *)
(* acknowledge gate: cell broadcast configuration (AT+CSCB), cell          *)
(* broadcast activation (the <bm> field of AT+CNMI), and the "+CBM:" and   *)
(* "+CMTI:" indications, together with onSIMReady of u300-ril.c, which     *)
(* writes AT+CNMI=2,2,2,1,0 from the prio queue each time the SIM becomes  *)
(* ready.  From u300-ril-services.c, the handlers of the "+CUSD:",         *)
(* "+CSSI:" and "+CSSU:" lines, which onUnsolicited runs on the reader     *)
(* thread; the request handlers of that file have no case in               *)
(* processRequest, whose default answers REQUEST_NOT_SUPPORTED.            *)
(*                                                                         *)
(* Actors:                                                                 *)
(*   - the queueRunners "normal" and, with -x, "prio": the framework's     *)
(*     requests run on the normal one, onSIMReady on the prio one (on the  *)
(*     normal one without -x); each AT command is one atomic step;         *)
(*   - the framework, which sends the requests and whose knowledge of the  *)
(*     configuration is the last SET it saw answered SUCCESS;              *)
(*   - the radio, which becomes SIM_READY (setRadioState enqueues          *)
(*     onSIMReady) and leaves it again;                                    *)
(*   - the modem, which stores <mids> and the CNMI fields and writes the   *)
(*     unsolicited lines.                                                  *)
(*                                                                         *)
(* Text on the AT channel is a sequence of one-character strings; service  *)
(* ids are single digits, so "%d" writes one character.  at_tok_nextstr    *)
(* splits at every comma as strsep does (an empty token included) and      *)
(* at_tok_nextint reads the leading digits of a token as strtol does,      *)
(* failing when there are none.  The "+CUSD:", "+CSSI:" and "+CSSU:" lines *)
(* are read field by field, so such a line is a record of the fields the   *)
(* modem wrote.                                                            *)
(***************************************************************************)
EXTENDS Integers, Sequences, SequencesExt

CONSTANTS PrioEnabled,     \* s_requestQueuePrio.enabled (-x given)
          PrioRequests,    \* the request kinds listed in prioRequests
          Ids,             \* service ids the framework uses (0..9)
          MaxConfigs,      \* bound on ranges in one SET_BROADCAST_SMS_CONFIG
          BROADCAST_MAX_RANGES_SUPPORTED,
          MaxRequests,     \* bound on framework requests
          MaxSimReady,     \* bound on transitions into SIM_READY
          MaxErrors,       \* bound on AT commands answered ERROR
          MaxIndications   \* bound on unsolicited lines

(* The characters "0" .. "9"; Digit[d] is how "%d" writes d.              *)
Digit == [d \in 0..9 |-> <<"0", "1", "2", "3", "4", "5", "6", "7", "8", "9">>[d + 1]]
DigitChars == {Digit[d] : d \in 0..9}
DigitValue(c) == CHOOSE d \in 0..9 : Digit[d] = c

(* at_tok_nextstr on an unquoted list: the tokens strsep(p, ",") yields,   *)
(* in order, empty ones included.                                          *)
RECURSIVE SplitAt(_, _)
SplitAt(s, sep) ==
  LET i == SelectInSeq(s, LAMBDA c : c = sep)
  IN  IF i = 0 THEN <<s>>
               ELSE <<SubSeq(s, 1, i - 1)>> \o SplitAt(SubSeq(s, i + 1, Len(s)), sep)

NoNum == -1
(* at_tok_nextint: strtol over the leading digits, an error without one.   *)
NumOf(tok) ==
  LET stop  == SelectInSeq(tok, LAMBDA c : c \notin DigitChars)
      lead  == IF stop = 0 THEN tok ELSE SubSeq(tok, 1, stop - 1)
  IN  IF lead = <<>> THEN NoNum
      ELSE FoldLeft(LAMBDA acc, c : 10 * acc + DigitValue(c), 0, lead)

Config == [fromServiceId : Ids, toServiceId : Ids, selected : BOOLEAN]
CbRange == [from : 0..99, to : 0..99]

(* Mutant: every entry is written, selected or not.                       *)
MidsOfAll(cfg) ==
  FoldLeftDomain(
    LAMBDA acc, i :
      acc \o <<Digit[cfg[i].fromServiceId], "-", Digit[cfg[i].toServiceId]>>
          \o (IF i = Len(cfg) THEN <<>> ELSE <<",">>),
    <<>>, cfg)

(* The <mids> requestGSMSetBroadcastSMSConfig builds: "%s%d-%d%s" for each *)
(* selected entry, the comma left out only after the last entry of the    *)
(* request.  mids stays NULL when no entry is selected.                    *)
MidsOf(cfg) ==
  FoldLeftDomain(
    LAMBDA acc, i :
      IF cfg[i].selected
        THEN acc \o <<Digit[cfg[i].fromServiceId], "-",
                       Digit[cfg[i].toServiceId]>>
                 \o (IF i = Len(cfg) THEN <<>> ELSE <<",">>)
        ELSE acc,
    <<>>, cfg)

(* The ranges a request asks for: its selected entries, in order.         *)
Selected(cfg) ==
  LET sel == SelectSeq(cfg, LAMBDA c : c.selected)
  IN  [i \in DOMAIN sel |-> [from |-> sel[i].fromServiceId,
                             to   |-> sel[i].toServiceId]]

(* Mutant: a range without a second number keeps toServiceId unset.       *)
ParseRangeNoDefault(tok) ==
  LET parts == SplitAt(ReplaceAll(tok, "-", ","), ",")
  IN  [from |-> NumOf(parts[1]),
       to   |-> IF Len(parts) >= 2 THEN NumOf(parts[2]) ELSE 0]

(* One range of requestGSMGetBroadcastSMSConfig: '-' replaced by ',', the  *)
(* first number is fromServiceId (an error without one), the second        *)
(* toServiceId, or fromServiceId when it is missing.                       *)
ParseRange(tok) ==
  LET parts == SplitAt(ReplaceAll(tok, "-", ","), ",")
      from  == NumOf(parts[1])
      to    == IF Len(parts) >= 2 THEN NumOf(parts[2]) ELSE NoNum
  IN  [from |-> from, to |-> IF to = NoNum THEN from ELSE to]

(* The while loop over the mids tokens: stop at the end of the list or     *)
(* once BROADCAST_MAX_RANGES_SUPPORTED ranges are read; an unreadable      *)
(* fromServiceId fails the whole request.                                  *)
RECURSIVE ParseMids(_, _)
ParseMids(toks, acc) ==
  CASE toks = <<>> -> [ok |-> TRUE, ranges |-> acc]
    [] Len(acc) >= BROADCAST_MAX_RANGES_SUPPORTED -> [ok |-> TRUE, ranges |-> acc]
    [] ParseRange(Head(toks)).from = NoNum -> [ok |-> FALSE, ranges |-> <<>>]
    [] OTHER -> ParseMids(Tail(toks), Append(acc, ParseRange(Head(toks))))

(* What requestGSMGetBroadcastSMSConfig answers for the <mids> shown.      *)
GetResult(mids) == ParseMids(SplitAt(mids, ","), <<>>)
(* Truncated(r): the ranges a GET can return for a configuration r.       *)
Truncated(r) ==
  SubSeq(r, 1, IF Len(r) < BROADCAST_MAX_RANGES_SUPPORTED
                 THEN Len(r) ELSE BROADCAST_MAX_RANGES_SUPPORTED)

(* The modem accepts a <mids> of 3GPP TS 27.005: a comma-separated list of *)
(* ids and id ranges; it answers ERROR to anything else.                   *)
IsNumber(t) == t # <<>> /\ \A i \in DOMAIN t : t[i] \in DigitChars
IsMidsEntry(t) ==
  \/ IsNumber(t)
  \/ \E k \in DOMAIN t : /\ t[k] = "-"
                         /\ IsNumber(SubSeq(t, 1, k - 1))
                         /\ IsNumber(SubSeq(t, k + 1, Len(t)))
ModemAcceptsMids(m) == \A i \in DOMAIN SplitAt(m, ",") : IsMidsEntry(SplitAt(m, ",")[i])

(* What the modem may answer to AT+CSCB? for the <mids> it stored: each    *)
(* range "a-a" as it was written or as the single id "a".                  *)
ShortForms(t) ==
  IF Len(t) = 3 /\ t[2] = "-" /\ t[1] = t[3] THEN {t, <<t[1]>>} ELSE {t}
JoinMids(ts) ==
  FoldLeftDomain(LAMBDA acc, i : acc \o (IF i = 1 THEN <<>> ELSE <<",">>) \o ts[i],
                 <<>>, ts)
ModemAnswers(m) ==
  LET ts == SplitAt(m, ",")
  IN  {JoinMids(r) : r \in {r \in [DOMAIN ts -> UNION {ShortForms(ts[i]) : i \in DOMAIN ts}] :
                              \A i \in DOMAIN ts : r[i] \in ShortForms(ts[i])}}

(* The CNMI fields: AT+CNMI=<mode>,<mt>,<bm>,<ds>,<bfr>.                   *)
Cnmi(mode, mt, bm, ds, bfr) ==
  [mode |-> mode, mt |-> mt, bm |-> bm, ds |-> ds, bfr |-> bfr]
(* The fields onSIMReady writes: AT+CNMI=2,2,2,1,0.                        *)
SimReadyCnmi == Cnmi(2, 2, 2, 1, 0)

Queues == {"normal", "prio"}
Workers == IF PrioEnabled THEN Queues ELSE {"normal"}
(* SUPP_SERVICE stands for the supplementary-service requests              *)
(* (QUERY_CALL_WAITING, SET_CLIR, ...) that processRequest has no case for. *)
RequestKinds == {"SET_CONFIG", "GET_CONFIG", "ACTIVATION", "SUPP_SERVICE"}
Codes == {"SUCCESS", "GENERIC_FAILURE", "RADIO_NOT_AVAILABLE",
          "REQUEST_NOT_SUPPORTED"}

(* "+CUSD: <m>[,<str>,<dcs>]" (3GPP TS 27.007): <m> 0..5, the text        *)
(* optional whatever <m> is.                                               *)
UssdLines == [m : 0..5, str : BOOLEAN]
(* "+CSSI: <code1>[,<index>]" (type 0) and "+CSSU: <code2>[,<index>]"      *)
(* (type 1): the index follows the closed user group codes (4 of +CSSI,    *)
(* 1 of +CSSU) and no other code of 27.007; the vendor code 16 the         *)
(* handler also expects may come with or without one.                      *)
CugCode(type, code) == (type = 0 /\ code = 4) \/ (type = 1 /\ code = 1)
SsnLines ==
  {l \in [type : {0, 1}, code : {0, 1, 4, 16}, index : BOOLEAN] :
     l.index = CugCode(l.type, l.code) \/ l.code = 16}

(* onRequest: prio queue for a prio request when -x was given.            *)
RequestQueue(kind) ==
  IF PrioEnabled /\ kind \in PrioRequests THEN "prio" ELSE "normal"
(* enqueueRILEvent: the prio queue falls back to the normal one.           *)
EventQueue(isPrio) == IF PrioEnabled /\ isPrio THEN "prio" ELSE "normal"

(* What the framework may send: up to MaxConfigs entries.                 *)
ConfigRequests == UNION {[1..n -> Config] : n \in 0..MaxConfigs}

VARIABLES
  sState,        \* radio state: "OFF" (any state but SIM_READY) or "SIM_READY"
  pc,            \* where each queueRunner is
  actLocal,      \* per runner: the CNMI fields requestGSMSMSBroadcastActivation read
  requests,      \* per queue, framework requests not yet taken
  events,        \* per queue, onSIMReady events not yet run
  cscb,          \* modem: the <mids> text of AT+CSCB
  cnmi,          \* modem: the AT+CNMI fields
  fwConfig,      \* framework: ranges of the last SET answered SUCCESS
  configured,    \* onSIMReady's AT+CNMI=2,2,2,1,0 went through
  answer,        \* the last RIL_onRequestComplete: [req, code]
  indications,   \* RIL_onUnsolicitedResponse calls, in order
  nRequests, nSimReady, nErrors, nLines,
  nUssd          \* "+CUSD:" lines the modem has sent

vars == <<sState, pc, actLocal, requests, events, cscb, cnmi, fwConfig,
          configured, answer, indications, nRequests, nSimReady, nErrors,
          nLines, nUssd>>

Init ==
  /\ sState = "OFF"
  /\ pc = [w \in Workers |-> "idle"]
  /\ actLocal = [w \in Workers |-> Cnmi(0, 0, 0, 0, 0)]
  /\ requests = [q \in Queues |-> <<>>]
  /\ events = [q \in Queues |-> 0]
  /\ cscb = <<>>
  /\ cnmi = Cnmi(0, 0, 0, 0, 0)
  /\ fwConfig = [known |-> FALSE, ranges |-> <<>>]
  /\ configured = FALSE
  /\ answer = [req |-> "none", code |-> "none"] /\ indications = <<>>
  /\ nRequests = 0 /\ nSimReady = 0 /\ nErrors = 0 /\ nLines = 0
  /\ nUssd = 0

(* The outcome of one AT command: "ok", or ERROR within the budget.        *)
Outcomes == IF nErrors < MaxErrors THEN {"ok", "err"} ELSE {"ok"}
CountError(o) == nErrors' = nErrors + (IF o = "err" THEN 1 ELSE 0)

(* RIL_onRequestComplete; the ranges of a GET are GetResult(cscb).         *)
Answer(req, code) == answer' = [req |-> req, code |-> code]

(* The runner w takes the request at the head of its queue; processRequest *)
(* admits it only in SIM_READY.                                            *)
TakeRequest(w, kind) ==
  /\ pc[w] = "idle"
  /\ requests[w] # <<>>
  /\ Head(requests[w]) = kind
  /\ requests' = [requests EXCEPT ![w] = Tail(@)]
  /\ sState = "SIM_READY"
(* processRequest outside SIM_READY: RADIO_NOT_AVAILABLE, no handler.      *)
processRequestRefused(w) ==
  /\ pc[w] = "idle"
  /\ requests[w] # <<>>
  /\ sState # "SIM_READY"
  /\ requests' = [requests EXCEPT ![w] = Tail(@)]
  /\ Answer(Head(requests[w]), "RADIO_NOT_AVAILABLE")
  /\ UNCHANGED <<sState, pc, actLocal, events, cscb, cnmi, fwConfig,
                 configured, indications, nRequests, nSimReady, nErrors,
                 nLines, nUssd>>

(* RIL_REQUEST_GSM_SET_BROADCAST_SMS_CONFIG: no selected entry fails      *)
(* before any AT command; otherwise AT+CSCB=0,"<mids>".                    *)
requestGSMSetBroadcastSMSConfig(w) ==
  /\ TakeRequest(w, "SET_CONFIG")
  /\ \E cfg \in ConfigRequests :
       LET mids == MidsOf(cfg) IN
       IF mids = <<>>
         THEN /\ Answer("SET_CONFIG", "GENERIC_FAILURE")
              /\ UNCHANGED <<cscb, fwConfig, nErrors>>
         ELSE \E o \in Outcomes :
                /\ CountError(o)
                /\ IF o = "ok" /\ ModemAcceptsMids(mids)
                     THEN /\ cscb' = mids
                          /\ fwConfig' = [known |-> TRUE, ranges |-> Selected(cfg)]
                          /\ Answer("SET_CONFIG", "SUCCESS")
                     ELSE /\ Answer("SET_CONFIG", "GENERIC_FAILURE")
                          /\ UNCHANGED <<cscb, fwConfig>>
  /\ UNCHANGED <<sState, pc, actLocal, events, cnmi, configured, indications,
                 nRequests, nSimReady, nLines, nUssd>>

(* RIL_REQUEST_GSM_GET_BROADCAST_SMS_CONFIG: AT+CSCB? and the parse of     *)
(* the <mids> the modem answers.                                           *)
requestGSMGetBroadcastSMSConfig(w) ==
  /\ TakeRequest(w, "GET_CONFIG")
  /\ \E o \in Outcomes, shown \in ModemAnswers(cscb) :
       /\ CountError(o)
       /\ IF o = "ok" /\ GetResult(shown).ok
            THEN Answer("GET_CONFIG", "SUCCESS")
            ELSE Answer("GET_CONFIG", "GENERIC_FAILURE")
  /\ UNCHANGED <<sState, pc, actLocal, events, cscb, cnmi, fwConfig,
                 configured, indications, nRequests, nSimReady, nLines, nUssd>>

(* RIL_REQUEST_GSM_SMS_BROADCAST_ACTIVATION, first command: AT+CNMI? and  *)
(* the five fields of its answer; bm is 2 to activate (data 0), else 0.    *)
ActivationRead(w) ==
  /\ TakeRequest(w, "ACTIVATION")
  /\ \E o \in Outcomes, activation \in {0, 1} :
       /\ CountError(o)
       /\ IF o = "ok"
            THEN /\ actLocal' = [actLocal EXCEPT ![w] =
                      Cnmi(cnmi.mode, cnmi.mt,
                           IF activation = 0 THEN 2 ELSE 0, cnmi.ds, cnmi.bfr)]
                 /\ pc' = [pc EXCEPT ![w] = "act_write"]
                 /\ UNCHANGED answer
            ELSE /\ Answer("ACTIVATION", "GENERIC_FAILURE")
                 /\ UNCHANGED <<actLocal, pc>>
  /\ UNCHANGED <<sState, events, cscb, cnmi, fwConfig, configured,
                 indications, nRequests, nSimReady, nLines, nUssd>>

(* Second command: AT+CNMI=<mode>,<mt>,<bm>,<ds>,<bfr> with the fields     *)
(* read by the first one.                                                  *)
ActivationWrite(w) ==
  /\ pc[w] = "act_write"
  /\ pc' = [pc EXCEPT ![w] = "idle"]
  /\ \E o \in Outcomes :
       /\ CountError(o)
       /\ IF o = "ok"
            THEN /\ cnmi' = actLocal[w]
                 /\ Answer("ACTIVATION", "SUCCESS")
            ELSE /\ Answer("ACTIVATION", "GENERIC_FAILURE")
                 /\ UNCHANGED cnmi
  /\ UNCHANGED <<sState, actLocal, requests, events, cscb, fwConfig,
                 configured, indications, nRequests, nSimReady, nLines, nUssd>>

(* Mutant: the runner runs an event whether or not one is queued.          *)
onSIMReadyUnguarded(w) ==
  /\ pc[w] = "idle"
  /\ events' = [events EXCEPT ![w] = @ - 1]
  /\ \E o \in Outcomes :
       /\ CountError(o)
       /\ IF o = "ok" THEN cnmi' = SimReadyCnmi /\ configured' = TRUE
                      ELSE UNCHANGED <<cnmi, configured>>
  /\ UNCHANGED <<sState, pc, actLocal, requests, cscb, fwConfig, answer,
                 indications, nRequests, nSimReady, nLines, nUssd>>

(* onSIMReady, run by the runner of the queue the event is on: of its      *)
(* best-effort commands only AT+CNMI=2,2,2,1,0 touches the state here.     *)
onSIMReady(w) ==
  /\ pc[w] = "idle"
  /\ events[w] > 0
  /\ events' = [events EXCEPT ![w] = @ - 1]
  /\ \E o \in Outcomes :
       /\ CountError(o)
       /\ IF o = "ok" THEN cnmi' = SimReadyCnmi /\ configured' = TRUE
                      ELSE UNCHANGED <<cnmi, configured>>
  /\ UNCHANGED <<sState, pc, actLocal, requests, cscb, fwConfig, answer,
                 indications, nRequests, nSimReady, nLines, nUssd>>

(* setRadioState(SIM_READY): the state, then onSIMReady on the prio queue. *)
setRadioStateSimReady ==
  /\ sState # "SIM_READY"
  /\ nSimReady < MaxSimReady
  /\ nSimReady' = nSimReady + 1
  /\ sState' = "SIM_READY"
  /\ events' = [events EXCEPT ![EventQueue(TRUE)] = @ + 1]
  /\ UNCHANGED <<pc, actLocal, requests, cscb, cnmi, fwConfig, configured,
                 answer, indications, nRequests, nErrors, nLines, nUssd>>

(* The radio leaves SIM_READY (RADIO_POWER off, SIM removed, ...).         *)
setRadioStateOther ==
  /\ sState = "SIM_READY"
  /\ sState' = "OFF"
  /\ UNCHANGED <<pc, actLocal, requests, events, cscb, cnmi, fwConfig,
                 configured, answer, indications, nRequests, nSimReady,
                 nErrors, nLines, nUssd>>

(* The framework sends a request at any time.                              *)
FwRequest ==
  /\ nRequests < MaxRequests
  /\ nRequests' = nRequests + 1
  /\ \E k \in RequestKinds :
       requests' = [requests EXCEPT ![RequestQueue(k)] = Append(@, k)]
  /\ UNCHANGED <<sState, pc, actLocal, events, cscb, cnmi, fwConfig,
                 configured, answer, indications, nSimReady, nErrors, nLines, nUssd>>

(* "+CBM:" (sent by the modem while <bm> is 2): onNewBroadcastSms shows   *)
(* the PDU only when it is 2 * 88 hex digits long.                        *)
onNewBroadcastSms ==
  /\ nLines < MaxIndications
  /\ nLines' = nLines + 1
  /\ cnmi.bm = 2
  /\ \E len \in {2 * 88, 2 * 88 - 2} :
       IF len = 2 * 88
         THEN indications' = Append(indications, [unsol |-> "NEW_BROADCAST_SMS"])
         ELSE UNCHANGED indications
  /\ UNCHANGED <<sState, pc, actLocal, requests, events, cscb, cnmi, fwConfig,
                 configured, answer, nRequests, nSimReady, nErrors, nUssd>>

(* "+CMTI: <mem>,<index>": onNewSmsOnSIM shows the index for "SM" only.    *)
onNewSmsOnSIM ==
  /\ nLines < MaxIndications
  /\ nLines' = nLines + 1
  /\ \E mem \in {"SM", "ME"} :
       IF mem = "SM"
         THEN indications' = Append(indications, [unsol |-> "NEW_SMS_ON_SIM"])
         ELSE UNCHANGED indications
  /\ UNCHANGED <<sState, pc, actLocal, requests, events, cscb, cnmi, fwConfig,
                 configured, answer, nRequests, nSimReady, nErrors, nUssd>>

(* processRequest's default: a request without a case is answered          *)
(* REQUEST_NOT_SUPPORTED.                                                  *)
processRequestNotSupported(w) ==
  /\ TakeRequest(w, "SUPP_SERVICE")
  /\ Answer("SUPP_SERVICE", "REQUEST_NOT_SUPPORTED")
  /\ UNCHANGED <<sState, pc, actLocal, events, cscb, cnmi, fwConfig,
                 configured, indications, nRequests, nSimReady, nErrors,
                 nLines, nUssd>>

(* "+CUSD:": onUSSDReceived reads <m>, drops the line when it is outside   *)
(* 0..5, and for <m> 0 or 1 reads the text as a second string, dropping    *)
(* the line when there is none; RIL_UNSOL_ON_USSD carries n strings.       *)
onUSSDReceived ==
  /\ nLines < MaxIndications
  /\ nLines' = nLines + 1
  /\ nUssd' = nUssd + 1
  /\ \E l \in UssdLines :
       IF l.m < 2 /\ ~l.str
         THEN UNCHANGED indications
         ELSE indications' = Append(indications,
                [unsol |-> "ON_USSD", n |-> IF l.m < 2 THEN 2 ELSE 1])
  /\ UNCHANGED <<sState, pc, actLocal, requests, events, cscb, cnmi, fwConfig,
                 configured, answer, nRequests, nSimReady, nErrors>>

(* "+CSSI:" / "+CSSU:": onSuppServiceNotification reads the code and, for  *)
(* code 16 and the closed user group codes, the index, dropping the line   *)
(* when the index is missing; any other index stays 0 from the memset.     *)
onSuppServiceNotification ==
  /\ nLines < MaxIndications
  /\ nLines' = nLines + 1
  /\ \E l \in SsnLines :
       LET readsIndex == l.code = 16 \/ CugCode(l.type, l.code) IN
       IF readsIndex /\ ~l.index
         THEN UNCHANGED indications
         ELSE indications' = Append(indications,
                [unsol |-> "SUPP_SVC_NOTIFICATION", index |-> readsIndex])
  /\ UNCHANGED <<sState, pc, actLocal, requests, events, cscb, cnmi, fwConfig,
                 configured, answer, nRequests, nSimReady, nErrors, nUssd>>

Worker(w) ==
  \/ processRequestRefused(w) \/ processRequestNotSupported(w)
  \/ requestGSMSetBroadcastSMSConfig(w) \/ requestGSMGetBroadcastSMSConfig(w)
  \/ ActivationRead(w) \/ ActivationWrite(w)
  \/ onSIMReady(w)

Next ==
  \/ \E w \in Workers : Worker(w)
  \/ setRadioStateSimReady \/ setRadioStateOther \/ FwRequest
  \/ onNewBroadcastSms \/ onNewSmsOnSIM
  \/ onUSSDReceived \/ onSuppServiceNotification

(* Each queueRunner keeps taking work; the framework, the radio and the    *)
(* modem may stop.                                                         *)
Spec == Init /\ [][Next]_vars /\ \A w \in Workers : WF_vars(Worker(w))

-----------------------------------------------------------------------------
TypeOK ==
  /\ sState \in {"OFF", "SIM_READY"}
  /\ pc \in [Workers -> {"idle", "act_write"}]
  /\ \A q \in Queues : requests[q] \in Seq(RequestKinds) /\ events[q] \in Nat
  /\ cscb \in Seq(DigitChars \cup {"-", ","})
  /\ fwConfig.known \in BOOLEAN /\ fwConfig.ranges \in Seq(CbRange)
  /\ answer.code \in Codes \cup {"none"}

(* The configuration the framework last set is the one it reads back:     *)
(* after a SET_BROADCAST_SMS_CONFIG answered SUCCESS, whatever failed or   *)
(* refused requests follow, GET_BROADCAST_SMS_CONFIG parses the modem's    *)
(* <mids>, in either form the modem may give a one-id range, into exactly *)
(* the selected ranges, in order, cut to                                   *)
(* BROADCAST_MAX_RANGES_SUPPORTED: the text requestGSMSetBroadcastSMSConfig *)
(* writes and the text requestGSMGetBroadcastSMSConfig reads agree.        *)
ConfigRoundTrip ==
  fwConfig.known =>
    \A shown \in ModemAnswers(cscb) :
      GetResult(shown) = [ok |-> TRUE, ranges |-> Truncated(fwConfig.ranges)]

(* Once onSIMReady has routed SMS-DELIVERs and status reports to the RIL   *)
(* (AT+CNMI=2,2,_,1,0), they stay routed: the read-modify-write of         *)
(* requestGSMSMSBroadcastActivation changes <bm> and nothing else.         *)
SmsRoutingKept ==
  configured =>
    /\ cnmi.mode = SimReadyCnmi.mode /\ cnmi.mt = SimReadyCnmi.mt
    /\ cnmi.ds = SimReadyCnmi.ds /\ cnmi.bfr = SimReadyCnmi.bfr
(* Every "+CUSD:" line the network sends reaches the framework as an     *)
(* RIL_UNSOL_ON_USSD: onUSSDReceived must not lose the end of a session    *)
(* ("+CUSD: 0" or "+CUSD: 2") or a network request.                        *)
UssdDelivered ==
  nUssd = Len(SelectSeq(indications,
                        LAMBDA i : i.unsol = "ON_USSD"))
====
