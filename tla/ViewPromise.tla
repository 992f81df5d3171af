---------------------------- MODULE ViewPromise ----------------------------
(***************************************************************************)
(* What an open mission page promises its reader: it shows a prefix of the *)
(* audit trail, as far as it stood at some moment since the page was       *)
(* opened, and it never takes back what it has shown.  EventStream         *)
(* implements it.                                                          *)
(***************************************************************************)
EXTENDS Naturals

VARIABLES
    trail,      \* how many events the audit trail holds
    shown       \* how many of them the page shows

promiseVars == <<trail, shown>>

Init == trail \in Nat /\ shown = 0

Record == trail' = trail + 1 /\ UNCHANGED shown

Show == shown' \in (shown + 1) .. trail /\ UNCHANGED trail

Next == Record \/ Show

Safety == Init /\ [][Next]_promiseVars
=============================================================================
