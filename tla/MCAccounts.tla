------------------------------ MODULE MCAccounts ------------------------------
(***************************************************************************)
(* Small instances of AuthTokens.  The two roles an operator gives and     *)
(* takes have different permissions.                                       *)
(***************************************************************************)
EXTENDS AuthTokens

MCGiven == {{"auditor"}, {"system_admin"}}

=============================================================================
