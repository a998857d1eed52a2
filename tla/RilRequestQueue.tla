-------------------------- MODULE RilRequestQueue ---------------------------
(***************************************************************************)
(* The request queues and timed-event scheduler of the MBM u300 RIL        *)
(* (src/mbm/mbm-ril/u300-ril.c).                                           *)
(*                                                                         *)
(* Two RequestQueues, "normal" and "prio", each own a FIFO of RILRequests  *)
(* and a doubly linked list of RILEvents kept in ascending abstime order.  *)
(* One queueRunner thread serves each queue; the prio queue exists only    *)
(* when a priority tty was given (PrioEnabled).  Producers are the host    *)
(* (onRequest) and any thread calling enqueueRILEvent.                     *)
(*                                                                         *)
(* The RILEvent list is modelled as a heap of nodes with next/prev         *)
(* pointers, because enqueueRILEvent manipulates raw pointers: a node's    *)
(* links are kept exactly as the code leaves them.  RIL_EVENT_QUEUE_ALL,   *)
(* which no caller passes, is not modelled.  Time is a discrete clock      *)
(* "now"; abstime = now + delay, and an event is due when abstime < now,  *)
(* as in the timespec_cmp(..., <) of queueRunner.                          *)
(***************************************************************************)
EXTENDS Integers, Sequences, FiniteSets

CONSTANTS
    Nodes,        \* the RILEvent allocations malloc may hand out
    Nil,          \* the NULL pointer
    PrioEnabled,  \* s_requestQueuePrio.enabled (a -x tty was given)
    Targets,      \* isPrio arguments callers pass: subset of {"NORMAL","PRIO"}
    Delays,       \* relativeTime values (in clock ticks) callers pass
    MaxTime,      \* bound on the clock
    MaxEvents,    \* bound on enqueueRILEvent calls
    MaxRequests,  \* bound on onRequest calls
    MaxCloses     \* bound on signalCloseQueues calls

ASSUME Nil \notin Nodes
ASSUME PrioEnabled \in BOOLEAN
ASSUME Targets \subseteq {"NORMAL", "PRIO"}
ASSUME Delays \subseteq Nat /\ MaxTime \in Nat
ASSUME {MaxEvents, MaxRequests, MaxCloses} \subseteq Nat

Queues  == {"normal", "prio"}
Workers == IF PrioEnabled THEN Queues ELSE {"normal"}
Ptr     == Nodes \cup {Nil}

VARIABLES
    now,        \* gettimeofday(), in ticks
    inUse,      \* RILEvent nodes currently allocated
    next, prev, \* RILEvent.next / RILEvent.prev
    abstime,    \* RILEvent.abstime
    evid,       \* RILEvent.eventCallback/param, as the id of the enqueue call
    head,       \* RequestQueue.eventList per queue
    requests,   \* RequestQueue.requestList per queue
    closed,     \* RequestQueue.closed per queue
    pc,         \* where each queueRunner thread is
    curEvent,   \* e taken by the queueRunner in this iteration
    curReq,     \* r taken by the queueRunner in this iteration (0 = NULL)
    nEvents, nRequests, nCloses, \* bounded counters of producer calls
    posted,     \* history: <<id, queue>> pairs enqueueRILEvent targeted
    fired,      \* history: per queue, <<id, abstime>> in firing order
    submitted,  \* history: per queue, request ids in onRequest order
    processed   \* history: per queue, request ids in processRequest order

heap == <<inUse, next, prev, abstime, evid, head>>
vars == <<now, heap, requests, closed, pc, curEvent, curReq,
          nEvents, nRequests, nCloses, posted, fired, submitted, processed>>

-----------------------------------------------------------------------------
(* The list reached from node n by following next, at most k nodes.        *)
RECURSIVE ChainFrom(_, _, _)
ChainFrom(nx, n, k) ==
    IF n = Nil \/ k = 0 THEN <<>> ELSE <<n>> \o ChainFrom(nx, nx[n], k - 1)

EventList(q) == ChainFrom(next, head[q], Cardinality(Nodes) + 1)

(* Mutant of InsertEvent: ties inserted ahead of equal abstimes ("<="     *)
(* for ">").                                                                *)
InsertEventTieFirst(nx, pv, hd, at, q, e) ==
    LET L     == ChainFrom(nx, hd[q], Cardinality(Nodes) + 1)
        later == {i \in DOMAIN L : at[L[i]] >= at[e]}
    IN  CASE hd[q] = Nil ->
               [next |-> nx, prev |-> pv, head |-> [hd EXCEPT ![q] = e]]
          [] at[hd[q]] >= at[e] ->
               [next |-> [nx EXCEPT ![e] = hd[q]],
                prev |-> [pv EXCEPT ![hd[q]] = e],
                head |-> [hd EXCEPT ![q] = e]]
          [] later # {} ->
               LET t == L[CHOOSE i \in later : \A j \in later : i <= j]
               IN  [next |-> [nx EXCEPT ![pv[t]] = e, ![e] = t],
                    prev |-> [pv EXCEPT ![e] = pv[t], ![t] = e],
                    head |-> hd]
          [] OTHER ->
               LET t == L[Len(L)]
               IN  [next |-> [nx EXCEPT ![t] = e],
                    prev |-> [pv EXCEPT ![e] = t],
                    head |-> hd]

(* The sorted insertion of enqueueRILEvent (u300-ril.c 196-221) of node e  *)
(* into the list of q, on pointer maps nx, pv and heads hd.  The result is *)
(* the new [next, prev, head].  Links of e the code does not assign keep   *)
(* whatever value e already carried.                                       *)
InsertEvent(nx, pv, hd, at, q, e) ==
    LET L     == ChainFrom(nx, hd[q], Cardinality(Nodes) + 1)
        later == {i \in DOMAIN L : at[L[i]] > at[e]}
    IN  CASE hd[q] = Nil ->
               [next |-> nx, prev |-> pv, head |-> [hd EXCEPT ![q] = e]]
          [] at[hd[q]] > at[e] ->
               [next |-> [nx EXCEPT ![e] = hd[q]],
                prev |-> [pv EXCEPT ![hd[q]] = e],
                head |-> [hd EXCEPT ![q] = e]]
          [] later # {} ->
               LET t == L[CHOOSE i \in later : \A j \in later : i <= j]
               IN  [next |-> [nx EXCEPT ![pv[t]] = e, ![e] = t],
                    prev |-> [pv EXCEPT ![e] = pv[t], ![t] = e],
                    head |-> hd]
          [] OTHER ->
               LET t == L[Len(L)]
               IN  [next |-> [nx EXCEPT ![t] = e],
                    prev |-> [pv EXCEPT ![e] = t],
                    head |-> hd]

(* The queue enqueueRILEvent picks first (u300-ril.c 187-192).             *)
EventQueue(isPrio) ==
    IF ~PrioEnabled \/ isPrio = "NORMAL" THEN "normal" ELSE "prio"

-----------------------------------------------------------------------------
Init ==
    /\ now = 0
    /\ inUse = {}
    /\ next = [n \in Nodes |-> Nil]
    /\ prev = [n \in Nodes |-> Nil]
    /\ abstime = [n \in Nodes |-> 0]
    /\ evid = [n \in Nodes |-> 0]
    /\ head = [q \in Queues |-> Nil]
    /\ requests = [q \in Queues |-> <<>>]
    /\ closed = [q \in Queues |-> TRUE]
    /\ pc = [q \in Workers |-> "open"]
    /\ curEvent = [q \in Workers |-> Nil]
    /\ curReq = [q \in Workers |-> 0]
    /\ nEvents = 0 /\ nRequests = 0 /\ nCloses = 0
    /\ posted = {}
    /\ fired = [q \in Queues |-> <<>>]
    /\ submitted = [q \in Queues |-> <<>>]
    /\ processed = [q \in Queues |-> <<>>]

(* enqueueRILEvent, first pass (u300-ril.c 159-224): malloc and zero a     *)
(* node, stamp abstime, insert it into its queue and wake the runner.     *)
enqueueRILEvent(isPrio, d) ==
    /\ nEvents < MaxEvents
    /\ now + d < MaxTime
    /\ \E e \in Nodes \ inUse :
         LET q   == EventQueue(isPrio)
             nx0 == [next EXCEPT ![e] = Nil]
             pv0 == [prev EXCEPT ![e] = Nil]
             at0 == [abstime EXCEPT ![e] = now + d]
             r   == InsertEvent(nx0, pv0, head, at0, q, e)
         IN /\ inUse' = inUse \cup {e}
            /\ abstime' = at0
            /\ evid' = [evid EXCEPT ![e] = nEvents + 1]
            /\ next' = r.next /\ prev' = r.prev /\ head' = r.head
            /\ posted' = posted \cup {<<nEvents + 1, q>>}
    /\ nEvents' = nEvents + 1
    /\ UNCHANGED <<now, requests, closed, pc, curEvent, curReq, nRequests,
                   nCloses, fired, submitted, processed>>

(* onRequest (u300-ril.c 1224-1256): append to the tail of the prio queue  *)
(* if it is enabled and isPrioRequest(request), else of the normal queue.  *)
onRequest(isPrioRequest) ==
    /\ nRequests < MaxRequests
    /\ LET q == IF PrioEnabled /\ isPrioRequest THEN "prio" ELSE "normal"
       IN  /\ requests' = [requests EXCEPT ![q] = Append(@, nRequests + 1)]
           /\ submitted' = [submitted EXCEPT ![q] = Append(@, nRequests + 1)]
    /\ nRequests' = nRequests + 1
    /\ UNCHANGED <<now, heap, closed, pc, curEvent, curReq, nEvents, nCloses,
                   posted, fired, processed>>

(* signalCloseQueues (u300-ril.c 1608-1619): set closed on both queues.    *)
signalCloseQueues ==
    /\ nCloses < MaxCloses
    /\ closed' = [q \in Queues |-> TRUE]
    /\ nCloses' = nCloses + 1
    /\ UNCHANGED <<now, heap, requests, pc, curEvent, curReq, nEvents,
                   nRequests, posted, fired, submitted, processed>>

Tick ==
    /\ now < MaxTime
    /\ now' = now + 1
    /\ UNCHANGED <<heap, requests, closed, pc, curEvent, curReq, nEvents,
                   nRequests, nCloses, posted, fired, submitted, processed>>

-----------------------------------------------------------------------------
(* queueRunner, one thread per enabled queue (u300-ril.c 1708-1925).       *)

(* Mutant of OpenChannel: every runner clears s_requestQueue.closed, as if *)
(* the prio runner kept q = &s_requestQueue (u300-ril.c 1820).             *)
OpenChannelNormalOnly(q) ==
    /\ pc[q] = "open"
    /\ closed' = [closed EXCEPT !["normal"] = FALSE]
    /\ pc' = [pc EXCEPT ![q] = "loop"]
    /\ UNCHANGED <<now, heap, requests, curEvent, curReq, nEvents, nRequests,
                   nCloses, posted, fired, submitted, processed>>

(* The transport is (re)opened and the channel initialised; the runner     *)
(* clears its own queue's closed flag (u300-ril.c 1822-1834).              *)
OpenChannel(q) ==
    /\ pc[q] = "open"
    /\ closed' = [closed EXCEPT ![q] = FALSE]
    /\ pc' = [pc EXCEPT ![q] = "loop"]
    /\ UNCHANGED <<now, heap, requests, curEvent, curReq, nEvents, nRequests,
                   nCloses, posted, fired, submitted, processed>>

(* closed seen at the top of the loop: break, at_close (1860-1864, 1921).  *)
CloseChannel(q) ==
    /\ pc[q] = "loop"
    /\ closed[q]
    /\ pc' = [pc EXCEPT ![q] = "open"]
    /\ UNCHANGED <<now, heap, requests, closed, curEvent, curReq, nEvents,
                   nRequests, nCloses, posted, fired, submitted, processed>>

(* Mutant of TakeWork: the taken event is not unlinked from eventList.     *)
TakeWorkNoUnlink(q) ==
    LET e == IF head[q] # Nil /\ abstime[head[q]] < now THEN head[q] ELSE Nil
    IN  /\ pc[q] = "loop"
        /\ ~closed[q]
        /\ e # Nil \/ requests[q] # <<>>
        /\ curEvent' = [curEvent EXCEPT ![q] = e]
        /\ curReq' = [curReq EXCEPT ![q] =
                        IF requests[q] # <<>> THEN Head(requests[q]) ELSE 0]
        /\ requests' = [requests EXCEPT ![q] =
                          IF @ # <<>> THEN Tail(@) ELSE @]
        /\ pc' = [pc EXCEPT ![q] = IF e # Nil THEN "event" ELSE "request"]
        /\ UNCHANGED <<now, inUse, next, prev, abstime, evid, head, 
                       closed, nEvents, nRequests, nCloses, posted, fired,
                       submitted, processed>>

(* One pass under queueMutex (1858-1907): the waits end once a request is  *)
(* queued or the head event is due; take the head event if its abstime is  *)
(* before now, and the head request if any.                                *)
TakeWork(q) ==
    LET e == IF head[q] # Nil /\ abstime[head[q]] < now THEN head[q] ELSE Nil
    IN  /\ pc[q] = "loop"
        /\ ~closed[q]
        /\ e # Nil \/ requests[q] # <<>>
        /\ head' = IF e # Nil THEN [head EXCEPT ![q] = next[e]] ELSE head
        /\ curEvent' = [curEvent EXCEPT ![q] = e]
        /\ curReq' = [curReq EXCEPT ![q] =
                        IF requests[q] # <<>> THEN Head(requests[q]) ELSE 0]
        /\ requests' = [requests EXCEPT ![q] =
                          IF @ # <<>> THEN Tail(@) ELSE @]
        /\ pc' = [pc EXCEPT ![q] = IF e # Nil THEN "event" ELSE "request"]
        /\ UNCHANGED <<now, inUse, next, prev, abstime, evid, closed,
                       nEvents, nRequests, nCloses, posted, fired, submitted,
                       processed>>

(* Mutant of RunEvent: back to the loop, forgetting the request r taken in *)
(* the same pass.                                                          *)
RunEventDropRequest(q) ==
    LET e == curEvent[q]
    IN  /\ pc[q] = "event"
        /\ fired' = [fired EXCEPT ![q] = Append(@, <<evid[e], abstime[e]>>)]
        /\ inUse' = inUse \ {e}
        /\ pc' = [pc EXCEPT ![q] = "loop"]
        /\ UNCHANGED <<now, next, prev, abstime, evid, head, requests,
                       closed, curEvent, curReq, nEvents, nRequests, nCloses,
                       posted, submitted, processed>>

(* e->eventCallback(e->param); free(e) (1909-1912).                        *)
RunEvent(q) ==
    LET e == curEvent[q]
    IN  /\ pc[q] = "event"
        /\ fired' = [fired EXCEPT ![q] = Append(@, <<evid[e], abstime[e]>>)]
        /\ inUse' = inUse \ {e}
        /\ pc' = [pc EXCEPT ![q] = IF curReq[q] # 0 THEN "request" ELSE "loop"]
        /\ UNCHANGED <<now, next, prev, abstime, evid, head, requests,
                       closed, curEvent, curReq, nEvents, nRequests, nCloses,
                       posted, submitted, processed>>

(* processRequest(r...); free(r) (1914-1918).                              *)
RunRequest(q) ==
    /\ pc[q] = "request"
    /\ processed' = [processed EXCEPT ![q] = Append(@, curReq[q])]
    /\ pc' = [pc EXCEPT ![q] = "loop"]
    /\ UNCHANGED <<now, heap, requests, closed, curEvent, curReq, nEvents,
                   nRequests, nCloses, posted, fired, submitted>>

Worker(q) ==
    \/ OpenChannel(q) \/ CloseChannel(q) \/ TakeWork(q)
    \/ RunEvent(q) \/ RunRequest(q)

Next ==
    \/ \E t \in Targets, d \in Delays : enqueueRILEvent(t, d)
    \/ \E b \in BOOLEAN : onRequest(b)
    \/ signalCloseQueues
    \/ Tick
    \/ \E q \in Workers : Worker(q)

(* Every queueRunner thread keeps running, the clock keeps advancing and   *)
(* the producers may stop.                                                 *)
Fairness ==
    /\ \A q \in Workers : WF_vars(Worker(q))
    /\ WF_vars(Tick)

Spec == Init /\ [][Next]_vars /\ Fairness

-----------------------------------------------------------------------------
TypeOK ==
    /\ now \in 0..MaxTime
    /\ inUse \subseteq Nodes
    /\ next \in [Nodes -> Ptr] /\ prev \in [Nodes -> Ptr]
    /\ head \in [Queues -> Ptr]
    /\ closed \in [Queues -> BOOLEAN]
    /\ pc \in [Workers -> {"open", "loop", "event", "request"}]
    /\ \A q \in Queues : requests[q] \in Seq(1..MaxRequests)

(* Spec 3 and 8: within a queue, events fire in ascending abstime, those   *)
(* with equal abstime in the order enqueueRILEvent was called.  This is    *)
(* what the sorted insertion of enqueueRILEvent and the head-only due test *)
(* of queueRunner must give together.                                      *)
EventsFireInTimeOrder ==
    \A q \in Queues :
      \A i, j \in DOMAIN fired[q] :
        i < j => \/ fired[q][i][2] < fired[q][j][2]
                 \/ /\ fired[q][i][2] = fired[q][j][2]
                    /\ fired[q][i][1] < fired[q][j][1]

(* Spec 3: an event fires at most once, and only from a queue it was       *)
(* enqueued to.                                                            *)
EventFiresOnceOnItsQueue ==
    \A q \in Queues :
      \A i \in DOMAIN fired[q] :
        /\ <<fired[q][i][1], q>> \in posted
        /\ \A j \in DOMAIN fired[q] : i # j => fired[q][i][1] # fired[q][j][1]

(* Every request handed to onRequest is eventually processed by its        *)
(* queueRunner, across channel close and reopen.                           *)
RequestsEventuallyProcessed ==
    \A q \in Queues, r \in 1..MaxRequests :
      (\E i \in DOMAIN submitted[q] : submitted[q][i] = r)
        ~> (\E i \in DOMAIN processed[q] : processed[q][i] = r)

(* Every scheduled event eventually fires on every queue it targeted.      *)
EventsEventuallyFire ==
    \A q \in Queues, id \in 1..MaxEvents :
      (<<id, q>> \in posted) ~> (\E i \in DOMAIN fired[q] : fired[q][i][1] = id)
=============================================================================
