---------------------------- MODULE SeedingProofs ----------------------------
(***************************************************************************)
(* Losing the race of the seeds is as good as winning it, for any number   *)
(* of processes that start, fail, die and start again over any database.   *)
(***************************************************************************)
EXTENDS Seeding, TLAPS

-----------------------------------------------------------------------------
(* The inductive invariant.                                                *)

Phases == Starting \cup {"down", "serving"}

SeedTypes ==
  /\ rows \subseteq Catalogue
  /\ phase \in [Processes -> Phases]
  /\ seen \in [Processes -> SUBSET (Catalogue \cup Admin)]
  /\ pending \in [Processes -> SUBSET (Catalogue \cup Admin)]
  /\ outcome \in [Processes -> {"none", "skipped", "seeded", "duplicate", "failed"}]

(* The database has every name the seeds claim.                            *)
Complete == Catalogue \subseteq rows /\ account # NoAccount

(* A transaction has the names of the stages behind it, its own or         *)
(* committed ones.                                                         *)
Behind(s) ==
  LET there == Committed \cup pending[s] IN
  /\ phase[s] \in {"roles", "insert_roles", "admin", "insert_admin", "commit"} =>
       Codes \subseteq there
  /\ phase[s] \in {"admin", "insert_admin", "commit"} => Names \cup Grants \subseteq there
  /\ phase[s] = "commit" => Admin \subseteq there

(* A reading is made of what is there; and it can be out of date only when *)
(* another process has committed, that is, when nothing is missing.        *)
ReadingSound(s) ==
  phase[s] \in DOMAIN Inserting =>
    /\ seen[s] \subseteq Committed \cup pending[s]
    /\ Committed \subseteq seen[s] \/ Complete

SeedInv ==
  /\ SeedTypes
  /\ \A s \in Processes : Behind(s) /\ ReadingSound(s)
  /\ SeedsAgree

-----------------------------------------------------------------------------
(* The account's name is no name of the catalogue.                         *)
LEMMA AdminApart == Admin \cap Catalogue = {}
<1> SUFFICES ASSUME <<"user", "admin">> \in Catalogue PROVE FALSE
  BY DEF Admin
<1>1. <<"user", "admin">> \notin Codes
  BY DEF Codes
<1>2. <<"user", "admin">> \notin Names
  BY DEF Names
<1>3. <<"user", "admin">> \notin Grants
  BY DEF Grants, Role
<1> QED
  BY <1>1, <1>2, <1>3 DEF Catalogue

LEMMA AccountsApart == SeededAccount # NoAccount
BY DEF SeededAccount, NoAccount

LEMMA StageNames ==
  /\ DOMAIN Inserting = {"insert_permissions", "insert_roles", "insert_admin"}
  /\ Inserting["insert_permissions"] = "roles"
  /\ Inserting["insert_roles"] = "admin"
  /\ Inserting["insert_admin"] = "commit"
  /\ Lookup["permissions"] = "insert_permissions"
  /\ Lookup["roles"] = "insert_roles"
  /\ Lookup["admin"] = "insert_admin"
BY DEF Inserting, Lookup

(* Every process but the one that moves keeps its session, and the tables  *)
(* only grow, so what is said of it stays true.                            *)
LEMMA OthersKeep ==
  ASSUME NEW s \in Processes, Behind(s), ReadingSound(s),
         phase'[s] = phase[s], seen'[s] = seen[s], pending'[s] = pending[s],
         Committed \subseteq Committed',
         Committed' = Committed \/ Complete', Complete => Complete'
  PROVE  Behind(s)' /\ ReadingSound(s)'
BY DEF Behind, ReadingSound, Inserting

LEMMA InitSeeds == Init => SeedInv
<1> SUFFICES ASSUME Init PROVE SeedInv
  OBVIOUS
<1>1. SeedTypes
  BY SeedingAssumption DEF Init, SeedTypes, Phases
<1>2. SeedsAgree
  BY DEF Init, SeedsAgree
<1>3. ASSUME NEW s \in Processes PROVE Behind(s) /\ ReadingSound(s)
  BY <1>3, StageNames DEF Init, Behind, ReadingSound
<1> QED
  BY <1>1, <1>2, <1>3 DEF SeedInv

(* A step that leaves the tables alone and touches one session.            *)
LEMMA SessionStep ==
  ASSUME SeedInv, NEW s \in Processes, UNCHANGED <<rows, account>>,
         NEW ph \in Phases, phase' = [phase EXCEPT ![s] = ph],
         NEW x \in SUBSET (Catalogue \cup Admin),
         seen' = [seen EXCEPT ![s] = x],
         NEW y \in SUBSET (Catalogue \cup Admin),
         pending' = [pending EXCEPT ![s] = y],
         NEW o \in {"none", "skipped", "seeded", "duplicate", "failed"},
         outcome' = [outcome EXCEPT ![s] = o],
         o \in {"seeded", "duplicate"} => Complete,
         Behind(s)', ReadingSound(s)'
  PROVE  SeedInv'
<1>1. Committed' = Committed /\ Complete' = Complete
  BY DEF Committed, Complete
<1>2. SeedTypes'
  BY <1>1 DEF SeedInv, SeedTypes
<1>3. ASSUME NEW t \in Processes PROVE Behind(t)' /\ ReadingSound(t)'
  <2>1. CASE t = s
    BY <2>1
  <2>2. CASE t # s
    <3>1. phase'[t] = phase[t] /\ seen'[t] = seen[t] /\ pending'[t] = pending[t]
      BY <2>2 DEF SeedInv, SeedTypes
    <3> QED
      BY <1>1, <3>1, OthersKeep DEF SeedInv
  <2> QED
    BY <2>1, <2>2
<1>4. SeedsAgree'
  BY DEF SeedInv, SeedTypes, SeedsAgree, Complete
<1> QED
  BY <1>2, <1>3, <1>4 DEF SeedInv

LEMMA StartKeeps ==
  ASSUME SeedInv, NEW s \in Processes, Start(s)
  PROVE  SeedInv'
<1>1. SeedTypes /\ phase[s] = "down" /\ UNCHANGED <<rows, account, seen, pending>>
  BY DEF SeedInv, Start
<1>2. PICK ph \in {"permissions", "serving"}, o \in {outcome[s], "skipped"} :
        /\ phase' = [phase EXCEPT ![s] = ph]
        /\ outcome' = [outcome EXCEPT ![s] = o]
  BY <1>1 DEF Start, SeedTypes
<1>3. Behind(s)' /\ ReadingSound(s)'
  BY <1>1, <1>2, StageNames DEF SeedTypes, Behind, ReadingSound
<1>4. /\ seen' = [seen EXCEPT ![s] = seen[s]]
      /\ pending' = [pending EXCEPT ![s] = pending[s]]
      /\ seen[s] \in SUBSET (Catalogue \cup Admin)
      /\ pending[s] \in SUBSET (Catalogue \cup Admin)
  BY <1>1 DEF SeedTypes
<1>5. ph \in Phases
  BY <1>2 DEF Phases, Starting, Stages
<1>6. o \in {"seeded", "duplicate"} => Complete
  BY <1>2 DEF SeedInv, SeedsAgree, Complete
<1>7. o \in {"none", "skipped", "seeded", "duplicate", "failed"}
  BY <1>1, <1>2 DEF SeedTypes
<1> QED
  BY <1>1, <1>2, <1>3, <1>4, <1>5, <1>6, <1>7, SessionStep

LEMMA SelectKeeps ==
  ASSUME SeedInv, NEW s \in Processes, Select(s)
  PROVE  SeedInv'
<1> DEFINE x == Committed \cup pending[s]
           ph == Lookup[phase[s]]
<1>1. /\ SeedTypes /\ phase[s] \in Stages
      /\ seen' = [seen EXCEPT ![s] = x]
      /\ phase' = [phase EXCEPT ![s] = ph]
      /\ UNCHANGED <<rows, account, pending, outcome>>
  BY DEF SeedInv, Select
<1>2. Committed' = Committed /\ pending'[s] = pending[s] /\ seen'[s] = x
  BY <1>1 DEF Committed, SeedTypes
<1>3. phase'[s] = ph /\ ph \in DOMAIN Inserting /\ ph \in Phases
  BY <1>1, StageNames DEF SeedTypes, Stages, Phases, Starting
<1>4. ReadingSound(s)'
  BY <1>2, <1>3 DEF ReadingSound
<1>5. Behind(s)'
  <2>1. Behind(s)
    BY DEF SeedInv
  <2>2. /\ ph = "insert_roles" => phase[s] = "roles"
        /\ ph = "insert_admin" => phase[s] = "admin"
        /\ ph \in {"insert_permissions", "insert_roles", "insert_admin"}
    BY <1>1, StageNames DEF Stages
  <2> QED
    BY <1>2, <1>3, <2>1, <2>2 DEF Behind
<1>6. /\ pending' = [pending EXCEPT ![s] = pending[s]]
      /\ outcome' = [outcome EXCEPT ![s] = outcome[s]]
      /\ x \in SUBSET (Catalogue \cup Admin)
      /\ pending[s] \in SUBSET (Catalogue \cup Admin)
      /\ outcome[s] \in {"none", "skipped", "seeded", "duplicate", "failed"}
  BY <1>1 DEF SeedTypes, Committed
<1>7. outcome[s] \in {"seeded", "duplicate"} => Complete
  BY DEF SeedInv, SeedsAgree, Complete
<1> QED
  BY <1>1, <1>3, <1>4, <1>5, <1>6, <1>7, SessionStep

LEMMA InsertKeeps ==
  ASSUME SeedInv, NEW s \in Processes, Insert(s)
  PROVE  SeedInv'
<1> DEFINE y == pending[s] \cup Missing(s)
           ph == Inserting[phase[s]]
<1>1. /\ SeedTypes /\ phase[s] \in DOMAIN Inserting
      /\ pending' = [pending EXCEPT ![s] = y]
      /\ phase' = [phase EXCEPT ![s] = ph]
      /\ UNCHANGED <<rows, account, seen, outcome>>
  BY DEF SeedInv, Insert
<1>2. Committed' = Committed /\ pending'[s] = y /\ phase'[s] = ph
  BY <1>1 DEF Committed, SeedTypes
<1>3. /\ ph \in {"roles", "admin", "commit"} /\ ph \in Phases
      /\ ph = "roles" => phase[s] = "insert_permissions"
      /\ ph = "admin" => phase[s] = "insert_roles"
      /\ ph = "commit" => phase[s] = "insert_admin"
  BY <1>1, StageNames DEF Phases, Starting, Stages
<1>4. /\ Wanted(phase[s]) \subseteq Committed \cup y
      /\ y \subseteq Catalogue \cup Admin
  <2>1. seen[s] \subseteq Committed \cup pending[s]
    BY <1>1 DEF SeedInv, ReadingSound
  <2>2. Wanted(phase[s]) \subseteq Catalogue \cup Admin
    BY <1>1, StageNames DEF Wanted, Catalogue
  <2>3. pending[s] \subseteq Catalogue \cup Admin
    BY <1>1 DEF SeedTypes
  <2> QED
    BY <2>1, <2>2, <2>3 DEF Missing
<1>5. ReadingSound(s)'
  BY <1>2, <1>3, StageNames DEF ReadingSound
<1>6. Behind(s)'
  <2>1. Behind(s)
    BY DEF SeedInv
  <2>2. CASE phase[s] = "insert_permissions"
    <3>1. Codes \subseteq Committed \cup y
      BY <1>4, <2>2 DEF Wanted
    <3> QED
      BY <1>2, <1>3, <2>2, <3>1, StageNames DEF Behind
  <2>3. CASE phase[s] = "insert_roles"
    <3>1. Codes \cup Names \cup Grants \subseteq Committed \cup y
      BY <1>4, <2>1, <2>3 DEF Wanted, Behind
    <3> QED
      BY <1>2, <1>3, <2>3, <3>1, StageNames DEF Behind
  <2>4. CASE phase[s] = "insert_admin"
    <3>1. Codes \cup Names \cup Grants \cup Admin \subseteq Committed \cup y
      BY <1>4, <2>1, <2>4 DEF Wanted, Behind
    <3> QED
      BY <1>2, <1>3, <2>4, <3>1, StageNames DEF Behind
  <2> QED
    BY <1>1, <2>2, <2>3, <2>4, StageNames
<1>7. /\ seen' = [seen EXCEPT ![s] = seen[s]]
      /\ outcome' = [outcome EXCEPT ![s] = outcome[s]]
      /\ seen[s] \in SUBSET (Catalogue \cup Admin)
      /\ outcome[s] \in {"none", "skipped", "seeded", "duplicate", "failed"}
  BY <1>1 DEF SeedTypes
<1>8. outcome[s] \in {"seeded", "duplicate"} => Complete
  BY DEF SeedInv, SeedsAgree, Complete
<1> QED
  BY <1>1, <1>3, <1>4, <1>5, <1>6, <1>7, <1>8, SessionStep

(* A session that ends without a commit, or with the process.              *)
LEMMA EndKeeps ==
  ASSUME SeedInv, NEW s \in Processes, UNCHANGED <<rows, account>>,
         NEW ph \in {"serving", "down"}, phase' = [phase EXCEPT ![s] = ph],
         seen' = [seen EXCEPT ![s] = {}], pending' = [pending EXCEPT ![s] = {}],
         NEW o \in {"none", "duplicate", "failed"},
         outcome' = [outcome EXCEPT ![s] = o],
         o = "duplicate" => Complete
  PROVE  SeedInv'
<1>1. phase'[s] = ph /\ ph \in Phases
  BY DEF SeedInv, SeedTypes, Phases
<1>2. Behind(s)' /\ ReadingSound(s)'
  BY <1>1, StageNames DEF Behind, ReadingSound
<1> QED
  BY <1>1, <1>2, SessionStep

(* The name that is there already was committed after the reading, so      *)
(* nothing is missing.                                                     *)
LEMMA DuplicateKeeps ==
  ASSUME SeedInv, NEW s \in Processes, Duplicate(s)
  PROVE  SeedInv'
<1>1. Complete
  <2>1. ~(Committed \subseteq seen[s])
    BY DEF Duplicate, Missing
  <2> QED
    BY <2>1 DEF SeedInv, ReadingSound, Duplicate
<1> QED
  BY <1>1, EndKeeps DEF Duplicate, Abandon

LEMMA FailureKeeps ==
  ASSUME SeedInv, NEW s \in Processes, SeedFails(s) \/ Crash(s)
  PROVE  SeedInv'
BY EndKeeps DEF SeedFails, Crash, Abandon

(* A commit makes the database complete, whoever wrote what.               *)
LEMMA CommitKeeps ==
  ASSUME SeedInv, NEW s \in Processes, CommitSeeds(s)
  PROVE  SeedInv'
<1>1. /\ SeedTypes /\ phase[s] = "commit"
      /\ rows' = rows \cup (pending[s] \cap Catalogue)
      /\ account' = IF Admin \subseteq pending[s] THEN SeededAccount ELSE account
      /\ phase' = [phase EXCEPT ![s] = "serving"]
      /\ seen' = [seen EXCEPT ![s] = {}]
      /\ pending' = [pending EXCEPT ![s] = {}]
  BY DEF SeedInv, CommitSeeds, Abandon
<1>2. PICK o \in {"seeded", "failed"} : outcome' = [outcome EXCEPT ![s] = o]
  BY DEF CommitSeeds, Abandon
<1>3. Catalogue \cup Admin \subseteq Committed \cup pending[s]
  BY <1>1 DEF SeedInv, Behind, Catalogue
<1>4. Complete'
  <2>1. Catalogue \subseteq rows'
    BY <1>1, <1>3, AdminApart DEF Committed
  <2>2. account' # NoAccount
    <3>1. CASE Admin \subseteq pending[s]
      BY <1>1, <3>1, AccountsApart
    <3>2. CASE ~(Admin \subseteq pending[s])
      <4>1. \E g \in Admin : g \in Committed /\ g \notin rows
        BY <1>1, <1>3, <3>2, AdminApart DEF SeedTypes
      <4> QED
        BY <1>1, <3>2, <4>1 DEF Committed
    <3> QED
      BY <3>1, <3>2
  <2> QED
    BY <2>1, <2>2 DEF Complete
<1>5. Committed \subseteq Committed'
  BY <1>1, <1>4 DEF Committed, Complete
<1>6. SeedTypes'
  BY <1>1, <1>2 DEF SeedTypes, Phases
<1>7. ASSUME NEW t \in Processes PROVE Behind(t)' /\ ReadingSound(t)'
  <2>1. CASE t = s
    BY <1>1, <2>1, StageNames DEF SeedTypes, Behind, ReadingSound
  <2>2. CASE t # s
    <3>1. phase'[t] = phase[t] /\ seen'[t] = seen[t] /\ pending'[t] = pending[t]
      BY <1>1, <2>2 DEF SeedTypes
    <3> QED
      BY <1>4, <1>5, <3>1, OthersKeep DEF SeedInv
  <2> QED
    BY <2>1, <2>2
<1>8. SeedsAgree'
  BY <1>4 DEF SeedsAgree, Complete
<1> QED
  BY <1>6, <1>7, <1>8 DEF SeedInv

LEMMA SeedStepKeeps == SeedInv /\ [Next]_vars => SeedInv'
<1> SUFFICES ASSUME SeedInv, [Next]_vars PROVE SeedInv'
  OBVIOUS
<1>1. CASE UNCHANGED vars
  BY <1>1 DEF vars, SeedInv, SeedTypes, SeedsAgree, Behind, ReadingSound,
              Committed, Complete
<1>2. CASE Next
  BY <1>2, StartKeeps, SelectKeeps, InsertKeeps, DuplicateKeeps, CommitKeeps,
     FailureKeeps DEF Next, SeedStep
<1> QED
  BY <1>1, <1>2

LEMMA SeedInvariance == Spec => []SeedInv
BY InitSeeds, SeedStepKeeps, PTL DEF Spec

(* A process whose seeding committed, or failed on a name that was there   *)
(* already, serves a whole catalogue and an account, and nobody ever sees  *)
(* part of a seeding: for any number of processes and any rows installed   *)
(* before (seed_rbac, seed_admin, lifespan).                               *)
THEOREM SeedingAgrees == Spec => []SeedsAgree
BY SeedInvariance, PTL DEF SeedInv

=============================================================================
