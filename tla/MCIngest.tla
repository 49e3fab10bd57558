------------------------------- MODULE MCIngest -------------------------------
(***************************************************************************)
(* A small instance of DocumentIngest: two uploads, which may have the     *)
(* same content under the same key (names that differ in their directory   *)
(* only).  The bodies are a text of three chunks, one that fills a chunk   *)
(* exactly, a blank one and one above the ceiling.                         *)
(***************************************************************************)
EXTENDS DocumentIngest, TLC

CONSTANTS long, exact, blank, huge   \* the bodies

MCWordsIn == long :> 8 @@ exact :> 4 @@ blank :> 0 @@ huge :> 1
MCFilenames == {<<"policy">>, <<"archive", "policy">>, <<>>}
MCCallerRoles == {{"banking_operations_executive"}, {"auditor"}}

Symmetry == Permutations(Uploads) \cup Permutations(Processes)

=============================================================================
