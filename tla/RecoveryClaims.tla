--------------------------- MODULE RecoveryClaims ---------------------------
(***************************************************************************)
(* What the repository says of the recovery loop and the code does not do. *)
(* What the property restates is one sentence of the CHANGELOG; its run    *)
(* ends in a counterexample that README.md explains.                       *)
(***************************************************************************)
EXTENDS MCRecoveryLoop

\* CHANGELOG.md: dead numbers "cannot change on a second attempt [...]. Those skip the
\* retry."  A dead number reported by a call result reaches _handle_call_failure as
\* the bare outcome "failed", which names no code.
DeadNumbersAreNotRedialled ==
    \A o \in DOMAIN ops : ops[o].purpose = "retry" => ops[o - 1].cause # "number"
=============================================================================
