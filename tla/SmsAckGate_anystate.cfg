\* The radio state changes freely while SMS arrive and acknowledgements
\* wait in the request queue, so processRequest both admits and refuses
\* SMS_ACKNOWLEDGE.
CONSTANTS
  p1 = p1
  p2 = p2
  Pdus <- MC_Pdus
  RadioStates = {"UNAVAILABLE", "OFF", "SIM_NOT_READY", "SIM_LOCKED_OR_ABSENT", "SIM_READY"}
  MaxArrivals = 4
SPECIFICATION Spec
INVARIANT TypeOK
INVARIANT GateMatchesHost
PROPERTY DeliverySafety
PROPERTY AdmittedAcksDelivered
\* Once the modem stops sending the reader and the queueRunners idle.
CHECK_DEADLOCK FALSE
