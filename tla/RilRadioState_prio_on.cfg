\* Both runners: a SIM poll on the prio runner finishes after RADIO_POWER
\* off on the normal runner and leaves SIM_READY with the radio off.
CONSTANTS
  PrioEnabled = TRUE
  RadioPowerIsPrio = FALSE
  MaxToggles = 2
  MaxSwaps = 0
  MaxResets = 0
  MaxBusy = 1
  SimPinEnabled = FALSE
  MaxPins = 0
  MaxTimeouts = 0
  MaxSimFaults = 0
  MaxCfunErrors = 0
SPECIFICATION Spec
PROPERTY RadioOnHonoured
\* When the user, the SIM and the modem have done all they may, the runners
\* and the reader idle waiting for work: that end is not a deadlock.
CHECK_DEADLOCK FALSE
