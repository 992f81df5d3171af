--------------------------- MODULE ResultPromise ---------------------------
(***************************************************************************)
(* What the delivery of call results promises to the recovery loop: a      *)
(* request is accepted or refused, and the result of an accepted call is   *)
(* ingested, once.  RecoveryLoop relies on it in IngestCallState;          *)
(* CallIngestion implements it.                                            *)
(***************************************************************************)
EXTENDS Naturals

CONSTANT Calls

VARIABLES
    phase,      \* what has become of each call
    results     \* how often its result was ingested

promiseVars == <<phase, results>>

Init == phase = [c \in Calls |-> "requested"] /\ results = [c \in Calls |-> 0]

Accept(c) ==
    /\ phase[c] = "requested"
    /\ phase' = [phase EXCEPT ![c] = "open"]
    /\ UNCHANGED results

Refuse(c) ==
    /\ phase[c] = "requested"
    /\ phase' = [phase EXCEPT ![c] = "closed"]
    /\ UNCHANGED results

Close(c) ==
    /\ phase[c] = "open"
    /\ phase' = [phase EXCEPT ![c] = "closed"]
    /\ results' = [results EXCEPT ![c] = @ + 1]

Next == \E c \in Calls : Accept(c) \/ Refuse(c) \/ Close(c)

Safety == Init /\ [][Next]_promiseVars

Spec == Safety /\ \A c \in Calls : WF_promiseVars(Close(c))
=============================================================================
