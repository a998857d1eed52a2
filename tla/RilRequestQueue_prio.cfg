\* Both queues enabled (a -x priority tty), callers use NORMAL and PRIO as
\* the code's callers do; both queueRunners close and reopen their channel.
\* Two events with delays 0 and 1 give equal and unequal abstimes on one
\* queue, so ties and reordering by time both happen.
CONSTANTS
    n1 = n1
    n2 = n2
    n3 = n3
    Nil = Nil
    Nodes <- MC_Nodes
    PrioEnabled = TRUE
    Targets = {"NORMAL", "PRIO"}
    Delays = {0, 1}
    MaxTime = 2
    MaxEvents = 2
    MaxRequests = 1
    MaxCloses = 1
SPECIFICATION Spec
 
INVARIANT EventsFireInTimeOrder
INVARIANT EventFiresOnceOnItsQueue
PROPERTY RequestsEventuallyProcessed
PROPERTY EventsEventuallyFire
\* The queueRunner threads block in pthread_cond_wait once the bounded
\* producers have stopped: the RIL idles there, it is not a deadlock.
CHECK_DEADLOCK FALSE
