\* Both queueRunners (-x given): SIM polls on the prio runner race
\* RADIO_POWER on the normal one; the user keeps one airplane-mode choice,
\* the SIM is pulled once, the modem resets once, answers one "+CPIN?" and
\* one AT+CFUN with a plain ERROR, so the hotswap, the
\* reset and the framework's power request after the reopen can each land
\* inside the others' steps.  A user change on top of these makes the state
\* space too large; toggles are checked with two runners by
\* RilRadioState_prio.cfg and with resets by RilRadioState_reset.cfg.
CONSTANTS
  PrioEnabled = TRUE
  RadioPowerIsPrio = FALSE
  MaxToggles = 0
  MaxSwaps = 1
  MaxResets = 1
  MaxBusy = 1
  SimPinEnabled = FALSE
  MaxPins = 0
  MaxTimeouts = 0
  MaxSimFaults = 0
  MaxCfunErrors = 1
SPECIFICATION Spec
PROPERTY RadioOffHonoured
\* When the user, the SIM and the modem have done all they may, the runners
\* and the reader idle waiting for work: that end is not a deadlock.
CHECK_DEADLOCK FALSE
