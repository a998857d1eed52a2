\* The radio is switched off while an SMS_ACKNOWLEDGE is queued: the
\* request is refused and later SMS stay held.
CONSTANTS
  p1 = p1
  p2 = p2
  Pdus <- MC_Pdus
  RadioStates = {"SIM_READY", "OFF"}
  MaxArrivals = 2
SPECIFICATION Spec
PROPERTY AllDelivered
CHECK_DEADLOCK FALSE
