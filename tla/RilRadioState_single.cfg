\* One queueRunner (no -x); the user changes airplane mode twice; the SIM
\* asks for its PIN, which the user enters once; one AT command times out
\* (onATTimeout), the modem answers one AT+CFUN with a plain ERROR, and the
\* module powers the SIM off once ("*ESIMSR: 7"); the modem does not reset
\* and the SIM stays in.  A "+CPIN?" ERROR on top of these makes the state
\* space too large; RilRadioState_prio_reset.cfg has one.
CONSTANTS
  PrioEnabled = FALSE
  RadioPowerIsPrio = FALSE
  MaxToggles = 2
  MaxSwaps = 0
  MaxResets = 0
  MaxBusy = 0
  SimPinEnabled = TRUE
  MaxPins = 1
  MaxTimeouts = 1
  MaxSimFaults = 1
  MaxCfunErrors = 1
SPECIFICATION Spec
INVARIANT TypeOK
PROPERTY RadioOnHonoured RadioOffHonoured SimUnlockReported SimFaultReported
\* When the user, the SIM and the modem have done all they may, the runner
\* and the reader idle waiting for work: that end is not a deadlock.
CHECK_DEADLOCK FALSE
