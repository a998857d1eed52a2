\* Both queueRunners (-x given): the first operator poll runs on the normal
\* runner, the re-enqueued ones on the prio runner, while the framework's
\* registration queries and display changes run on the normal one.  One
\* automatic selection, two registration queries, two display changes, one
\* change of the modem's registration and one failed AT command.
CONSTANTS
  PrioEnabled = TRUE
  PrioRequests = {}
  DenyCauses = {13, 16}
  MaxSelections = 1
  MaxRegQueries = 2
  MaxScreens = 2
  MaxNetChanges = 1
  MaxErrors = 1
SPECIFICATION Spec
INVARIANT TypeOK
INVARIANT SelectionAnsweredOnce
INVARIANT ReportingMatchesScreen
PROPERTY SelectionAnswered
\* Once the framework and the modem stop, both runners wait for work.
CHECK_DEADLOCK FALSE
