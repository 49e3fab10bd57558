------------------------------- MODULE Seeding -------------------------------
(***************************************************************************)
(* The startup of the API processes: main.py (lifespan, _seed_if_local)    *)
(* and services/seed.py.  Every process of a local deployment fills in     *)
(* what is missing of the role catalogue and the admin account, in one     *)
(* transaction, by reading first and inserting what it did not find.  The  *)
(* names are unique columns, so of two processes that start together one   *)
(* may fail; whatever it raises is suppressed, and the process serves.     *)
(*                                                                         *)
(* An INSERT of a name that another open transaction has inserted waits    *)
(* for that transaction to end.  The rows of one flush are inserted at     *)
(* once here; the order of their statements may let two transactions wait  *)
(* for each other, and the database then fails one of them: SeedFails.     *)
(***************************************************************************)
EXTENDS Rbac

CONSTANTS
  Processes,   \* the API processes that share the database
  Installed,   \* bound: the catalogue rows there may be at first
  Accounts     \* bound: the admin accounts there may be at first, or NoAccount

(* The unique names the seeds claim: permissions.code, roles.name, the     *)
(* pairs of role_permissions and, beside this catalogue, users.email.      *)
Codes == {"permission"} \X Permission
Names == {"role"} \X Role
Grants == {g \in Role \X Permission : g[2] \in ROLE_PERMISSIONS[g[1]]}
Catalogue == Codes \cup Names \cup Grants
Admin == {<<"user", "admin">>}

NoAccount == [active |-> FALSE, roles |-> {"nobody"}]

(* User(...): the development admin as seed_admin creates it.              *)
SeededAccount == [active |-> TRUE, roles |-> {"system_admin"}]

ASSUME SeedingAssumption ==
  /\ Installed \subseteq SUBSET Catalogue
  /\ Accounts \subseteq [active : BOOLEAN, roles : SUBSET Role] \cup {NoAccount}

VARIABLES
  rows,      \* tables permissions, roles, role_permissions: committed rows
  account,   \* table users: the row of seed_admin_email
  phase,     \* phase[s]: what process s does next
  seen,      \* seen[s]: the rows its last SELECT returned
  pending,   \* pending[s]: the rows its open transaction has inserted
  outcome    \* outcome[s]: how its seeding ended

vars == <<rows, account, phase, seen, pending, outcome>>

(* A stage's rows are looked up, then inserted.                            *)
Stages == {"permissions", "roles", "admin"}
Lookup == [permissions |-> "insert_permissions", roles |-> "insert_roles",
           admin |-> "insert_admin"]
Inserting == [insert_permissions |-> "roles", insert_roles |-> "admin",
              insert_admin |-> "commit"]

Wanted(ph) == CASE ph = "insert_permissions" -> Codes
                [] ph = "insert_roles" -> Names \cup Grants
                [] ph = "insert_admin" -> Admin

Starting == Stages \cup DOMAIN Inserting \cup {"commit"}

Init ==
  /\ rows \in Installed
  /\ account \in Accounts
  /\ phase = [s \in Processes |-> "down"]
  /\ seen = [s \in Processes |-> {}]
  /\ pending = [s \in Processes |-> {}]
  /\ outcome = [s \in Processes |-> "none"]

-----------------------------------------------------------------------------
(* A process starts: locally it seeds first, elsewhere it serves at once.  *)
Start(s) ==
  /\ phase[s] = "down"
  /\ \/ /\ phase' = [phase EXCEPT ![s] = "permissions"]
        /\ UNCHANGED outcome
     \/ /\ phase' = [phase EXCEPT ![s] = "serving"]
        /\ outcome' = [outcome EXCEPT ![s] = "skipped"]
  /\ UNCHANGED <<rows, account, seen, pending>>

Committed == rows \cup (IF account = NoAccount THEN {} ELSE Admin)

(* select(PermissionModel), select(RoleModel), select(User)                *)
Select(s) ==
  /\ phase[s] \in Stages
  /\ seen' = [seen EXCEPT ![s] = Committed \cup pending[s]]
  /\ phase' = [phase EXCEPT ![s] = Lookup[@]]
  /\ UNCHANGED <<rows, account, pending, outcome>>

Missing(s) == Wanted(phase[s]) \ seen[s]

Blocked(s) == \E t \in Processes \ {s} : Missing(s) \cap pending[t] # {}

(* flush: the missing rows, or nothing; an existing account is returned as *)
(* it is.                                                                  *)
InsertCommitting(s) ==  \* variant: every stage is committed by itself
  /\ phase[s] \in DOMAIN Inserting
  /\ Missing(s) \cap Committed = {}
  /\ ~Blocked(s)
  /\ rows' = rows \cup (Missing(s) \cap Catalogue)
  /\ account' = IF Admin \subseteq Missing(s) THEN SeededAccount ELSE account
  /\ phase' = [phase EXCEPT ![s] = Inserting[@]]
  /\ UNCHANGED <<seen, pending, outcome>>
Insert(s) ==
  /\ phase[s] \in DOMAIN Inserting
  /\ Missing(s) \cap Committed = {}
  /\ ~Blocked(s)
  /\ pending' = [pending EXCEPT ![s] = @ \cup Missing(s)]
  /\ phase' = [phase EXCEPT ![s] = Inserting[@]]
  /\ UNCHANGED <<rows, account, seen, outcome>>

(* The session is closed, its transaction over; the process serves.        *)
AbandonHolding(s, how) ==  \* variant: the session is not closed
  /\ phase' = [phase EXCEPT ![s] = "serving"]
  /\ outcome' = [outcome EXCEPT ![s] = how]
  /\ UNCHANGED <<seen, pending>>
Abandon(s, how) ==
  /\ phase' = [phase EXCEPT ![s] = "serving"]
  /\ seen' = [seen EXCEPT ![s] = {}]
  /\ pending' = [pending EXCEPT ![s] = {}]
  /\ outcome' = [outcome EXCEPT ![s] = how]

(* A name it did not see has been committed since: IntegrityError.         *)
Duplicate(s) ==
  /\ phase[s] \in DOMAIN Inserting
  /\ Missing(s) \cap Committed # {}
  /\ Abandon(s, "duplicate")
  /\ UNCHANGED <<rows, account>>

(* A statement or the commit fails for another reason: no connection, no   *)
(* tables yet, a deadlock.                                                 *)
SeedFails(s) ==
  /\ phase[s] \in Starting
  /\ Abandon(s, "failed")
  /\ UNCHANGED <<rows, account>>

(* The commit, whose acknowledgement may be lost.                          *)
CommitSeeds(s) ==
  /\ phase[s] = "commit"
  /\ rows' = rows \cup (pending[s] \cap Catalogue)
  /\ account' = IF Admin \subseteq pending[s] THEN SeededAccount ELSE account
  /\ \E how \in {"seeded", "failed"} : Abandon(s, how)

(* The process ends, at any point: the database drops its transaction.     *)
Crash(s) ==
  /\ phase[s] # "down"
  /\ phase' = [phase EXCEPT ![s] = "down"]
  /\ seen' = [seen EXCEPT ![s] = {}]
  /\ pending' = [pending EXCEPT ![s] = {}]
  /\ outcome' = [outcome EXCEPT ![s] = "none"]
  /\ UNCHANGED <<rows, account>>

SeedStep(s) == Select(s) \/ Insert(s) \/ Duplicate(s) \/ CommitSeeds(s)

Next == \E s \in Processes : Start(s) \/ SeedStep(s) \/ SeedFails(s) \/ Crash(s)

Spec == Init /\ [][Next]_vars

(* A starting process keeps running its coroutine, and the database gives  *)
(* a name to the transaction that has waited for it: hence strong          *)
(* fairness, as another process may start, insert and die again and again. *)
FairSpec == Spec /\ \A s \in Processes : SF_vars(SeedStep(s))

-----------------------------------------------------------------------------
(* Properties.                                                             *)

(* Losing the race is as good as winning it: a process whose seeding       *)
(* committed, or failed on a name that was there already, serves a whole   *)
(* catalogue and an account, though its own transaction may have been      *)
(* rolled back and its error is suppressed (seed_rbac, seed_admin,         *)
(* lifespan).  And whatever fails, no process sees part of another's work: *)
(* a catalogue that is short of a name is as it was installed.             *)
SeedsAgree ==
  /\ \A s \in Processes : outcome[s] \in {"seeded", "duplicate"} =>
       Catalogue \subseteq rows /\ account # NoAccount
  /\ Catalogue \subseteq rows \/ rows \in Installed

(* Every starting process gets to serve, or is stopped: processes that     *)
(* wait for each other's names do not wait forever (seed_rbac takes the    *)
(* names in one order).                                                    *)
StartupEnds ==
  \A s \in Processes :
    phase[s] \in Starting ~> phase[s] \in {"serving", "down"}

=============================================================================
