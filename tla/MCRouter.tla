------------------------------ MODULE MCRouter ------------------------------
(***************************************************************************)
(* Small instances of ModelRouter for TLC.                                 *)
(***************************************************************************)
EXTENDS ModelRouter

CONSTANTS c1, c2

(* Three providers after one another; a chain without the stub, whose      *)
(* first provider may say that it is not available; one provider only.      *)
MCConfigs ==
  {[policy |-> "prefer_online", primary |-> "groq",
    fallback |-> "local_gemma", env |-> "local"],
   [policy |-> "prefer_online", primary |-> "probing",
    fallback |-> "local_gemma", env |-> "production"],
   [policy |-> "offline_only", primary |-> "groq",
    fallback |-> "local_gemma", env |-> "staging"],
   [policy |-> "online_only", primary |-> "groq",
    fallback |-> "local_gemma", env |-> "production"]}

(* A short answer, which groq serves for less than the table can show, and *)
(* a longer one that is no full thousand of tokens.                        *)
MCUsages == {[prompt |-> 4, completion |-> 2],
             [prompt |-> 700, completion |-> 150]}

=============================================================================
