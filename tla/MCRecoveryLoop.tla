--------------------------- MODULE MCRecoveryLoop ---------------------------
(* Small instances of RecoveryLoop: two constraints of the carrier template,  *)
(* a pickup time and a plain "available", and the replies a dispatcher gives. *)
EXTENDS RecoveryLoop, TLC

Pickup == "pickup_time"
Available == "available"
CostPct == "cost_increase_pct"

MCKeys == {Pickup, Available}
MCTimeKeys == {Pickup}

Reply(structured, hedged, said) == [structured |-> structured, hedged |-> hedged, said |-> said]
Said(v, f) == [val |-> v, flag |-> f]

\* Flags, in the order of the facts: pickup, available, cost.
Full(p, pf, a, c) ==
    Reply(TRUE, FALSE, Pickup :> Said(p, pf) @@ Available :> Said(a, "confirmed")
                         @@ CostPct :> Said(c, "unknown"))

InTime == Full(2, "confirmed", 1, 0)
Dear == Full(2, "confirmed", 1, 20)
Late == Full(9, "confirmed", 1, 0)
Hedged == Full(2, "approximate", 1, 0)
Changed == Full(3, "confirmed", 1, 0)
NoTime == Full(NoVal, "unknown", 1, NoVal)
NotAvailable == Full(2, "confirmed", 0, 0)
OnlyTime == Reply(TRUE, FALSE, Pickup :> Said(2, "confirmed"))
Mumbled == Reply(TRUE, TRUE, Pickup :> Said(2, "unknown") @@ Available :> Said(1, "confirmed")
                               @@ CostPct :> Said(20, "unknown"))
RoughCost == Reply(TRUE, TRUE, Pickup :> Said(2, "confirmed") @@ Available :> Said(1, "confirmed")
                                 @@ CostPct :> Said(10, "unknown"))
Cancelled == Reply(FALSE, FALSE, [k \in {} |-> NoVal])
Spoken == Reply(FALSE, FALSE, Pickup :> Said(2, "unknown") @@ Available :> Said(1, "unknown"))

AllReplies == {InTime, Dear, Late, Hedged, Changed, NoTime, NotAvailable, OnlyTime, Mumbled,
               RoughCost, Cancelled, Spoken}
FewReplies == {InTime, Dear, Late, Hedged, OnlyTime}
ClockReplies == {InTime, Dear, Late, Hedged, Changed, OnlyTime}
=============================================================================
