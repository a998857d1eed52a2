---------------------------- MODULE SmsDelivery ----------------------------
(***************************************************************************)
(* What the RIL promises the Android framework about incoming SMS and SMS  *)
(* status reports (spec section 3, "SMS flow control"): the framework sees *)
(* the indications in the order the modem delivered them, never has more   *)
(* than one indication it has not acknowledged, and as soon as it has none *)
(* outstanding, the oldest waiting one is shown to it.                     *)
(*                                                                         *)
(* arrivals : every indication the modem has produced, oldest first,       *)
(*            already in the form the framework is to see it               *)
(* shown    : the indications the framework has been given                 *)
(* acked    : how many of them it has acknowledged                         *)
(***************************************************************************)
EXTENDS Naturals, Sequences

CONSTANTS Indications,   \* what the framework may be shown
          MaxArrivals    \* bound on the number of modem deliveries

VARIABLES arrivals, shown, acked

vars == <<arrivals, shown, acked>>

Init ==
  /\ arrivals = <<>>
  /\ shown = <<>>
  /\ acked = 0

(* Eager surfacing: when the framework has acknowledged everything it was  *)
(* shown and an indication is waiting, the same step shows the oldest one. *)
Surface ==
  shown' = IF acked' = Len(shown) /\ Len(shown) < Len(arrivals')
             THEN Append(shown, arrivals'[Len(shown) + 1])
             ELSE shown

Arrive(m) ==
  /\ Len(arrivals) < MaxArrivals
  /\ arrivals' = Append(arrivals, m)
  /\ acked' = acked
  /\ Surface

Ack ==
  /\ acked < Len(shown)
  /\ acked' = acked + 1
  /\ arrivals' = arrivals
  /\ Surface

Next == (\E m \in Indications : Arrive(m)) \/ Ack

(* The framework acknowledges what it is shown; nothing else is assumed.   *)
Spec == Init /\ [][Next]_vars /\ WF_vars(Ack)

(* Every indication the modem produced is eventually shown.                *)
AllShown == \A k \in 1..MaxArrivals : (Len(arrivals) >= k) ~> (Len(shown) >= k)
=============================================================================
