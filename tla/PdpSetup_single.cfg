\* One queueRunner (no -x): onPDPContextListChanged runs on the normal
\* runner between requests.  The tracker asks for three data calls, the
\* network rejects or drops with a protocol cause or a regular
\* deactivation, one "*E2NAP" wait runs out and two AT commands fail.
CONSTANTS
  PrioEnabled = FALSE
  Causes = {36, 95}
  MaxSetups = 3
  MaxErrors = 2
  MaxTimeouts = 1
  MaxDrops = 1
  MaxIfcErrors = 1
SPECIFICATION Spec
INVARIANT TypeOK DropNotified AddressCurrent
PROPERTY FrameworkLearnsDrop
\* Once the tracker has used its setups the runners and the reader idle.
CHECK_DEADLOCK FALSE
