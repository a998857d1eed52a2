\* Both queueRunners (-x given): onPDPContextListChanged runs on the prio
\* runner while requestSetupDefaultPDP runs on the normal one.  The network
\* drops the new context between the setup's last state check and its
\* RIL_onRequestComplete(SUCCESS).
CONSTANTS
  PrioEnabled = TRUE
  Causes = {36, 95}
  MaxSetups = 1
  MaxErrors = 0
  MaxTimeouts = 0
  MaxDrops = 1
  MaxIfcErrors = 0
SPECIFICATION Spec
PROPERTY FrameworkLearnsDrop
CHECK_DEADLOCK FALSE
