----------------------------- MODULE SmsAckGate -----------------------------
(***************************************************************************)
(* The SMS acknowledge gate of u300-ril-messaging.c, with the two paths    *)
(* into it:                                                                *)
(*   - the AT reader thread routes "+CMT:" and "+CDS:" through             *)
(*     onUnsolicited (u300-ril.c) to onNewSms / onNewStatusReport;         *)
(*   - the framework's RIL_REQUEST_SMS_ACKNOWLEDGE is run by a queueRunner *)
(*     through the admission checks of processRequest and then            *)
(*     requestSMSAcknowledge.                                              *)
(* Both gate paths hold s_held_pdus_mutex for their whole body, so each is *)
(* one atomic step.  The radio state sState is written by other parts of   *)
(* the RIL (RilRadioState); here it may be any state in RadioStates at any *)
(* time, which is what the gate sees of it.                                *)
(*                                                                         *)
(* A PDU is a sequence of model values; a status report is shown with the  *)
(* SMSC prefix "00" prepended, as asprintf("%s%s", "00", sms_pdu) does.    *)
(***************************************************************************)
EXTENDS Naturals, Sequences

CONSTANTS Pdus,          \* PDU payloads the modem may deliver
          RadioStates,   \* values sState may take while SMS arrive
          MaxArrivals    \* bound on "+CMT:"/"+CDS:" lines from the modem

AllRadioStates == {"UNAVAILABLE", "OFF", "SIM_NOT_READY",
                   "SIM_LOCKED_OR_ABSENT", "SIM_READY"}

OUTSTANDING_SMS == 0
OUTSTANDING_STATUS == 1

Unsol == {"NEW_SMS", "NEW_SMS_STATUS_REPORT"}
(* What the framework may be shown: an SMS PDU as received, a status      *)
(* report with the SMSC prefix "00".                                       *)
Indication ==
  [unsol : {"NEW_SMS"}, payload : {<<p>> : p \in Pdus}] \cup
  [unsol : {"NEW_SMS_STATUS_REPORT"}, payload : {<<"00", p>> : p \in Pdus}]

VARIABLES
  sState,                      \* radio state (u300-ril.c sState)
  s_outstanding_acknowledge,   \* 0 or 1
  s_held_pdus,                 \* FIFO of [type, sms_pdu]
  received,                    \* history: indications handed to the gate
  host,                        \* RIL_onUnsolicitedResponse calls, in order
  hostAcks,                    \* acknowledgements the framework has sent
  ackInFlight,                 \* an SMS_ACKNOWLEDGE request awaits a worker
  gateAcks                     \* requestSMSAcknowledge executions

vars == <<sState, s_outstanding_acknowledge, s_held_pdus, received, host,
          hostAcks, ackInFlight, gateAcks>>

Init ==
  /\ sState \in RadioStates
  /\ s_outstanding_acknowledge = 0
  /\ s_held_pdus = <<>>
  /\ received = <<>>
  /\ host = <<>>
  /\ hostAcks = 0
  /\ ackInFlight = FALSE
  /\ gateAcks = 0

UnsolOf(type) == IF type = OUTSTANDING_SMS THEN "NEW_SMS"
                                           ELSE "NEW_SMS_STATUS_REPORT"

(* Mutant: the queue is extended at the head instead of walked to the tail. *)
enqueue_held_pdu_AtHead(type, sms_pdu) ==
  s_held_pdus' = <<[type |-> type, sms_pdu |-> sms_pdu]>> \o s_held_pdus

(* enqueue_held_pdu: append at the tail of the list. *)
enqueue_held_pdu(type, sms_pdu) ==
  s_held_pdus' = Append(s_held_pdus, [type |-> type, sms_pdu |-> sms_pdu])

(* The body both onNewSms and onNewStatusReport run under the mutex.       *)
Gate(type, pdu) ==
  /\ received' = Append(received, [unsol |-> UnsolOf(type), payload |-> pdu])
  /\ IF s_outstanding_acknowledge = 1
       THEN /\ enqueue_held_pdu(type, pdu)
            /\ UNCHANGED <<s_outstanding_acknowledge, host>>
       ELSE /\ s_outstanding_acknowledge' = 1
            /\ host' = Append(host, [unsol |-> UnsolOf(type), payload |-> pdu])
            /\ UNCHANGED s_held_pdus

onNewSms(sms_pdu) == Gate(OUTSTANDING_SMS, sms_pdu)

(* Mutant: the held copy is the raw PDU, not the "00"-prefixed response.   *)
onNewStatusReportRawHeld(sms_pdu) ==
  IF s_outstanding_acknowledge = 1
    THEN /\ received' = Append(received, [unsol |-> "NEW_SMS_STATUS_REPORT",
                                          payload |-> <<"00">> \o sms_pdu])
         /\ enqueue_held_pdu(OUTSTANDING_STATUS, sms_pdu)
         /\ UNCHANGED <<s_outstanding_acknowledge, host>>
    ELSE Gate(OUTSTANDING_STATUS, <<"00">> \o sms_pdu)

onNewStatusReport(sms_pdu) == Gate(OUTSTANDING_STATUS, <<"00">> \o sms_pdu)

(* The modem reports an SMS ("+CMT:") or a status report ("+CDS:") to the  *)
(* reader thread; onUnsolicited drops it while the radio is UNAVAILABLE.   *)
onUnsolicited ==
  /\ Len(received) < MaxArrivals
  /\ sState # "UNAVAILABLE"
  /\ \E p \in Pdus : onNewSms(<<p>>) \/ onNewStatusReport(<<p>>)
  /\ UNCHANGED <<sState, hostAcks, ackInFlight, gateAcks>>

(* Other parts of the RIL move the radio state (setRadioState).            *)
setRadioState ==
  /\ sState' \in RadioStates \ {sState}
  /\ UNCHANGED <<s_outstanding_acknowledge, s_held_pdus, received, host,
                 hostAcks, ackInFlight, gateAcks>>

(* The framework acknowledges each indication once, one request at a time. *)
FrameworkAck ==
  /\ ~ackInFlight
  /\ hostAcks < Len(host)
  /\ hostAcks' = hostAcks + 1
  /\ ackInFlight' = TRUE
  /\ UNCHANGED <<sState, s_outstanding_acknowledge, s_held_pdus, received,
                 host, gateAcks>>

(* processRequest admission for RIL_REQUEST_SMS_ACKNOWLEDGE: it is         *)
(* refused in UNAVAILABLE, OFF and SIM_NOT_READY (RADIO_NOT_AVAILABLE) and *)
(* in SIM_LOCKED_OR_ABSENT (GENERIC_FAILURE).                              *)
AckAdmitted(s) == s = "SIM_READY"

(* Mutant: the held list is popped but the flag is kept when it is empty.  *)
requestSMSAcknowledgeKeepFlag ==
  /\ IF s_held_pdus # <<>>
       THEN /\ host' = Append(host, [unsol |-> UnsolOf(Head(s_held_pdus).type),
                                     payload |-> Head(s_held_pdus).sms_pdu])
            /\ s_held_pdus' = Tail(s_held_pdus)
       ELSE UNCHANGED <<host, s_held_pdus>>
  /\ UNCHANGED s_outstanding_acknowledge

(* requestSMSAcknowledge: dequeue_held_pdu; show the held PDU, or clear   *)
(* the flag when nothing is held.                                          *)
requestSMSAcknowledge ==
  IF s_held_pdus # <<>>
    THEN /\ host' = Append(host, [unsol |-> UnsolOf(Head(s_held_pdus).type),
                                  payload |-> Head(s_held_pdus).sms_pdu])
         /\ s_held_pdus' = Tail(s_held_pdus)
         /\ UNCHANGED s_outstanding_acknowledge
    ELSE /\ s_outstanding_acknowledge' = 0
         /\ UNCHANGED <<host, s_held_pdus>>

(* A queueRunner takes the SMS_ACKNOWLEDGE request: processRequest either  *)
(* completes it with an error or runs requestSMSAcknowledge.               *)
processRequest ==
  /\ ackInFlight
  /\ ackInFlight' = FALSE
  /\ \/ /\ AckAdmitted(sState)
        /\ requestSMSAcknowledge
        /\ gateAcks' = gateAcks + 1
     \/ /\ ~AckAdmitted(sState)
        /\ UNCHANGED <<s_outstanding_acknowledge, s_held_pdus, host, gateAcks>>
  /\ UNCHANGED <<sState, received, hostAcks>>

Next == onUnsolicited \/ setRadioState \/ FrameworkAck \/ processRequest

(* The framework answers every indication and a queueRunner is always      *)
(* eventually scheduled; the modem and the radio state get no fairness.   *)
Spec == Init /\ [][Next]_vars /\ WF_vars(FrameworkAck) /\ WF_vars(processRequest)

-----------------------------------------------------------------------------
TypeOK ==
  /\ sState \in AllRadioStates
  /\ s_outstanding_acknowledge \in {0, 1}
  /\ \A i \in DOMAIN s_held_pdus :
       [unsol |-> UnsolOf(s_held_pdus[i].type),
        payload |-> s_held_pdus[i].sms_pdu] \in Indication
  /\ received \in Seq(Indication) /\ host \in Seq(Indication)
  /\ hostAcks \in 0..MaxArrivals /\ gateAcks \in 0..MaxArrivals
  /\ ackInFlight \in BOOLEAN

(* The flag s_outstanding_acknowledge is set exactly while the framework   *)
(* has been shown an indication that requestSMSAcknowledge has not yet     *)
(* consumed, and PDUs are held only behind such an indication: the reader  *)
(* and the worker keep flag, list and framework view consistent.           *)
GateMatchesHost ==
  /\ (s_outstanding_acknowledge = 1) <=> (Len(host) > gateAcks)
  /\ Len(host) <= gateAcks + 1
  /\ s_held_pdus # <<>> => s_outstanding_acknowledge = 1

(* The gate implements SmsDelivery: what the framework is shown is the     *)
(* sequence of indications that entered the gate, in order, one at a time, *)
(* as soon as the previous one was acknowledged.                           *)
Delivery == INSTANCE SmsDelivery
              WITH Indications <- Indication,
                   arrivals <- received, shown <- host, acked <- gateAcks

(* Safety part of the refinement: every step is an SmsDelivery step.       *)
DeliverySafety == Delivery!Init /\ [][Delivery!Next]_Delivery!vars

(* The whole refinement, liveness included: every SMS or status report     *)
(* that entered the gate is eventually shown to the framework.             *)
DeliverySpec == Delivery!Spec

(* Every SMS or status report that entered the gate is eventually shown,   *)
(* whatever the radio state does while the acknowledgement is queued.      *)
AllDelivered == Delivery!AllShown

(* Delivery is live exactly as far as processRequest admits the            *)
(* acknowledgements: in every behaviour where no SMS_ACKNOWLEDGE finds the *)
(* radio outside SIM_READY, every indication that entered the gate is      *)
(* eventually shown, whatever the radio does in between.                  *)
AdmittedAcksDelivered ==
  [](ackInFlight => AckAdmitted(sState)) => Delivery!AllShown
=============================================================================
