---------------------------- MODULE MC_SmsAckGate ----------------------------
(* Model values for the PDUs the modem delivers.                           *)
EXTENDS SmsAckGate

CONSTANTS p1, p2

MC_Pdus == {p1, p2}
=============================================================================
