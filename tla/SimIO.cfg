\* One runner and three SIM_IO requests, each for ADN or FDN under DF telecom
\* or the ICCID under the MF, with one ERROR answer, one unanswered command
\* and one reset.
CONSTANTS
  ReqFiles = {28474, 28475, 12258}  \* 6F3A (ADN), 6F3B (FDN), 2FE2 (ICCID)
  MaxRequests = 3
  MaxErrors = 1
  MaxTimeouts = 1
  MaxResets = 1
SPECIFICATION Spec
INVARIANT TypeOK
INVARIANT SimIoReadsRequestedFile
\* Once the requests and faults are spent the runner waits for work.
CHECK_DEADLOCK FALSE
