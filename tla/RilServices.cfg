\* One queueRunner (no -x): the framework's cell broadcast requests and the
\* onSIMReady of a SIM_READY transition share the normal runner.  Up to
\* three ranges per SET against a limit of two kept by a GET, two requests,
\* one AT ERROR and one unsolicited line.  With one runner, onSIMReady cannot
\* fall inside the broadcast activation's AT+CNMI read-modify-write; that race
\* is RilServices_prio.cfg's subject.
CONSTANTS
  PrioEnabled = FALSE
  PrioRequests = {}
  Ids = {0, 1}
  MaxConfigs = 3
  BROADCAST_MAX_RANGES_SUPPORTED = 2
  MaxRequests = 2
  MaxSimReady = 1
  MaxErrors = 1
  MaxIndications = 1
SPECIFICATION Spec
INVARIANT TypeOK
INVARIANT ConfigRoundTrip
\* Once the framework, the radio and the modem stop, the runner waits.
CHECK_DEADLOCK FALSE
