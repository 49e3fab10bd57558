------------------------------ MODULE MCWorkflow ------------------------------
(***************************************************************************)
(* Small instances of WorkflowService for TLC.  The callers are a manager, *)
(* who may start and take every decision, and a risk analyst, who may      *)
(* approve and reject but neither start nor escalate.                      *)
(***************************************************************************)
EXTENDS WorkflowInvariant, TLC

CONSTANTS mira, ravi   \* the two users

MCUsers == {mira, ravi}
MCRolesOf == mira :> {"manager"} @@ ravi :> {"risk_analyst"}

DeciderSymmetry == Permutations(Deciders)

=============================================================================
