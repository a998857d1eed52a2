\* One queueRunner: a setup fails, its AT*ENAP=0 deactivation is reported
\* by "*E2NAP: 0" only after the tracker's retry has reset s_e2napState.
CONSTANTS
  PrioEnabled = FALSE
  Causes = {36, 95}
  MaxSetups = 2
  MaxErrors = 0
  MaxTimeouts = 1
  MaxDrops = 0
  MaxIfcErrors = 0
SPECIFICATION Spec
INVARIANT FailureHasOwnCause
CHECK_DEADLOCK FALSE
