------------------------------ MODULE MCSeeding ------------------------------
(***************************************************************************)
(* A small instance of Seeding: an empty database, one with the catalogue  *)
(* of an older release, one that lacks the account only, and one with an   *)
(* account that an operator has deactivated.                               *)
(***************************************************************************)
EXTENDS Seeding

OlderRows == {x \in Catalogue : {x[1], x[2]} \cap {"admin:manage", "auditor"} = {}}

MCInstalled == {{}, OlderRows, Catalogue}
MCAccounts == {NoAccount, [active |-> FALSE, roles |-> {"manager"}]}

=============================================================================
