--------------------------- MODULE AuthTokensProofs ---------------------------
(***************************************************************************)
(* Stateless tokens keep up with the account, for every pair of lifetimes, *)
(* any number of concurrent logins and refreshes and every sequence of     *)
(* edits of the account.                                                   *)
(***************************************************************************)
EXTENDS AuthTokens, FiniteSetTheorems, TLAPS

-----------------------------------------------------------------------------
(* The inductive invariant.  PrivilegeIsRecent speaks about now; what it   *)
(* rests on is what was true when the token was issued, exp - AccessTTL.   *)

(* The account was active, and had the roles an access token claims, at    *)
(* the token's issue or later.                                             *)
TokenBacked(k) ==
  k.type = "access" =>
    /\ AccessTTL < k.exp /\ k.exp <= now + AccessTTL
    /\ account.active \/ k.exp <= lastActive + AccessTTL
    /\ \A r \in k.roles : \/ r \in account.roles
                          \/ k.exp <= lastHeld[r] + AccessTTL

(* A handler past its first SELECT saw an active account, at this moment   *)
(* of the clock.                                                           *)
RequestBacked(c) == request[c].live => account.active \/ lastActive = now

AuthInv ==
  /\ TypeOK
  /\ lastActive <= now
  /\ \A k \in tokens : TokenBacked(k)
  /\ \A c \in Clients : RequestBacked(c)

-----------------------------------------------------------------------------
(* The pairs issued so far are finitely many, so the next number is one.   *)
LEMMA PairCount ==
  ASSUME TypeOK
  PROVE  /\ Cardinality(Pairs) \in Nat
         /\ MayIssue => Cardinality(Pairs) + 1 \in 1 .. MaxPairs
<1> USE TokenAssumption
<1>1. Pairs \subseteq 1 .. MaxPairs
  BY DEF TypeOK, Pairs
<1>2. IsFiniteSet(1 .. MaxPairs)
  BY FS_Interval
<1>3. IsFiniteSet(Pairs)
  BY <1>1, <1>2, FS_Subset
<1>4. Cardinality(Pairs) \in Nat
  BY <1>3, FS_CardinalityType
<1> QED
  BY <1>4 DEF MayIssue

LEMMA InitAuth == Init => AuthInv
BY TokenAssumption
   DEF Init, AuthInv, TypeOK, NoAccount, NoRequest, NoPair, Never, RequestBacked

(* What remembering does: nothing recorded gets older, and what the        *)
(* account is now is on record.                                            *)
LEMMA RememberFacts ==
  ASSUME TypeOK, lastActive <= now, Remember
  PROVE  /\ lastActive' \in 0 .. MaxTime
         /\ lastHeld' \in [Role -> 0 .. MaxTime]
         /\ lastActive <= lastActive' /\ lastActive' <= now
         /\ account.active => lastActive' = now
         /\ \A r \in Role : \/ lastHeld'[r] = now
                            \/ lastHeld'[r] = lastHeld[r] /\ r \notin account.roles
BY TokenAssumption DEF TypeOK, Remember

LEMMA LoginKeeps ==
  ASSUME AuthInv, NEW c \in Clients, Login(c)
  PROVE  AuthInv'
<1> DEFINE begun == [NoRequest EXCEPT !.live = TRUE]
           Held == [live : BOOLEAN, from : 0 .. MaxPairs, claims : SUBSET Role]
<1>0. begun.live = TRUE /\ begun \in Held
  <2>1. NoRequest \in Held
    BY TokenAssumption DEF NoRequest, NoPair
  <2> QED
    BY <2>1
<1> HIDE DEF begun
<1>1. /\ account.active
      /\ request' = [request EXCEPT ![c] = begun]
      /\ UNCHANGED <<account, now, tokens, lastActive, lastHeld>>
  BY DEF Login, history, begun
<1>2. TypeOK'
  BY <1>0, <1>1 DEF AuthInv, TypeOK
<1> QED
  BY <1>1, <1>2 DEF AuthInv, TypeOK, RequestBacked, TokenBacked

LEMMA RefreshKeeps ==
  ASSUME AuthInv, NEW c \in Clients, Refresh(c)
  PROVE  AuthInv'
<1>1. PICK k \in tokens :
        /\ account.active
        /\ request' = [request EXCEPT ![c] = [live |-> TRUE, from |-> k.pair,
                                              claims |-> k.roles]]
        /\ UNCHANGED <<account, now, tokens, lastActive, lastHeld>>
  BY DEF Refresh, history
<1>2. k.pair \in 0 .. MaxPairs /\ k.roles \subseteq Role
  BY TokenAssumption DEF AuthInv, TypeOK
<1>3. TypeOK'
  BY <1>1, <1>2 DEF AuthInv, TypeOK
<1> QED
  BY <1>1, <1>3 DEF AuthInv, TypeOK, RequestBacked, TokenBacked

LEMMA DropKeeps ==
  ASSUME AuthInv, NEW c \in Clients, Drop(c)
  PROVE  AuthInv'
BY TokenAssumption
   DEF AuthInv, Drop, TypeOK, NoRequest, NoPair, RequestBacked, TokenBacked, history

(* The new pair is issued now, with the roles of now.                      *)
LEMMA IssueKeeps ==
  ASSUME AuthInv, NEW c \in Clients, IssueTokens(c)
  PROVE  AuthInv'
<1> USE TokenAssumption
<1> DEFINE n == Cardinality(Pairs) + 1
<1>1. /\ TypeOK
      /\ n \in 1 .. MaxPairs
      /\ UNCHANGED <<account, now, lastActive, lastHeld>>
      /\ request' = [request EXCEPT ![c] = NoRequest]
      /\ account.active \/ lastActive = now
  BY PairCount DEF AuthInv, IssueTokens, history, RequestBacked
<1>2. ASSUME NEW k \in tokens'
      PROVE  \/ k \in tokens
             \/ \E type \in {"access", "refresh"} :
                  k = Token(n, type, account.roles, request[c].from)
  BY <1>2 DEF IssueTokens, RoleNames
<1>3. ASSUME NEW type \in {"access", "refresh"}, NEW k,
             k = Token(n, type, account.roles, request[c].from)
      PROVE  /\ k.pair \in 1 .. MaxPairs
             /\ k.type \in {"access", "refresh"}
             /\ k.roles \subseteq Role
             /\ k.from \in 0 .. MaxPairs
             /\ k.exp \in Nat
             /\ TokenBacked(k)
  BY <1>1, <1>3 DEF TypeOK, Token, TokenBacked
<1>4. TypeOK'
  <2>1. \A k \in tokens' : /\ k.pair \in 1 .. MaxPairs
                           /\ k.type \in {"access", "refresh"}
                           /\ k.roles \subseteq Role
                           /\ k.from \in 0 .. MaxPairs
                           /\ k.exp \in Nat
    BY <1>1, <1>2, <1>3 DEF TypeOK
  <2> QED
    BY <1>1, <2>1 DEF TypeOK, NoRequest, NoPair
<1>5. \A k \in tokens' : TokenBacked(k)'
  <2>1. \A k \in tokens' : TokenBacked(k)
    BY <1>2, <1>3 DEF AuthInv
  <2> QED
    BY <1>1, <2>1 DEF TokenBacked
<1>6. lastActive' <= now' /\ \A x \in Clients : RequestBacked(x)'
  BY <1>1 DEF AuthInv, TypeOK, RequestBacked, NoRequest
<1> QED
  BY <1>4, <1>5, <1>6 DEF AuthInv


(* What TokenBacked says stays true when the account changes, or time      *)
(* passes, with what it was on record.                                     *)
LEMMA TokensRemembered ==
  ASSUME AuthInv, Remember, now' \in Nat, now <= now', UNCHANGED tokens
  PROVE  \A k \in tokens' : TokenBacked(k)'
<1> SUFFICES ASSUME NEW k \in tokens, k.type = "access"
             PROVE  /\ AccessTTL < k.exp /\ k.exp <= now' + AccessTTL
                    /\ k.exp <= lastActive' + AccessTTL
                    /\ \A r \in k.roles : k.exp <= lastHeld'[r] + AccessTTL
  BY DEF TokenBacked
<1> USE TokenAssumption
<1>1. /\ TypeOK /\ TokenBacked(k)
      /\ lastActive <= lastActive'
      /\ account.active => lastActive' = now
      /\ lastActive' \in Nat /\ lastHeld' \in [Role -> Nat]
      /\ \A r \in Role : \/ lastHeld'[r] = now
                         \/ lastHeld'[r] = lastHeld[r] /\ r \notin account.roles
  BY RememberFacts DEF AuthInv
<1>2. k.exp \in Nat /\ k.roles \subseteq Role /\ now \in Nat /\ lastActive \in Nat
  BY <1>1 DEF TypeOK
<1>3. AccessTTL < k.exp /\ k.exp <= now + AccessTTL
  BY <1>1 DEF TokenBacked
<1>4. k.exp <= lastActive' + AccessTTL
  BY <1>1, <1>2, <1>3 DEF TokenBacked
<1>5. ASSUME NEW r \in k.roles PROVE k.exp <= lastHeld'[r] + AccessTTL
  BY <1>1, <1>2, <1>3 DEF TokenBacked
<1> QED
  BY <1>2, <1>3, <1>4, <1>5

LEMMA EditKeeps ==
  ASSUME AuthInv, Edit
  PROVE  AuthInv'
<1> USE TokenAssumption
<1>1. /\ TypeOK /\ Remember /\ lastActive <= now
      /\ account' \in [active : BOOLEAN, roles : SUBSET Role]
      /\ UNCHANGED <<now, tokens, request>>
  BY DEF AuthInv, Edit
<1>2. TypeOK' /\ lastActive' <= now'
  BY <1>1, RememberFacts DEF TypeOK
<1>3. \A k \in tokens' : TokenBacked(k)'
  <2>1. now' \in Nat /\ now <= now'
    BY <1>1 DEF TypeOK
  <2> QED
    BY <1>1, <2>1, TokensRemembered
<1>4. ASSUME NEW c \in Clients PROVE RequestBacked(c)'
  <2>1. /\ account.active => lastActive' = now
        /\ lastActive <= lastActive' /\ lastActive' <= now
        /\ lastActive' \in Nat /\ lastActive \in Nat /\ now \in Nat
    BY <1>1, RememberFacts DEF TypeOK
  <2> QED
    BY <1>1, <2>1 DEF AuthInv, RequestBacked
<1> QED
  BY <1>2, <1>3, <1>4 DEF AuthInv

LEMMA TickKeeps ==
  ASSUME AuthInv, Tick
  PROVE  AuthInv'
<1> USE TokenAssumption
<1>1. /\ TypeOK /\ Remember /\ lastActive <= now
      /\ now < MaxTime /\ now' = now + 1
      /\ \A c \in Clients : ~request[c].live
      /\ UNCHANGED <<account, tokens, request>>
  BY DEF AuthInv, Tick
<1>2. TypeOK' /\ lastActive' <= now'
  BY <1>1, RememberFacts DEF TypeOK
<1>3. \A k \in tokens' : TokenBacked(k)'
  <2>1. now' \in Nat /\ now <= now'
    BY <1>1 DEF TypeOK
  <2> QED
    BY <1>1, <2>1, TokensRemembered
<1> QED
  BY <1>1, <1>2, <1>3 DEF AuthInv, RequestBacked

LEMMA AuthStep == AuthInv /\ [Next]_vars => AuthInv'
<1> SUFFICES ASSUME AuthInv, [Next]_vars PROVE AuthInv'
  OBVIOUS
<1>1. CASE UNCHANGED vars
  BY <1>1 DEF vars, history, AuthInv, TypeOK, RequestBacked, TokenBacked
<1>2. CASE Next
  BY <1>2, LoginKeeps, RefreshKeeps, IssueKeeps, DropKeeps, EditKeeps, TickKeeps
     DEF Next
<1> QED
  BY <1>1, <1>2

LEMMA AuthInvariance == Spec => []AuthInv
BY InitAuth, AuthStep, PTL DEF Spec

(* The account, the clock, the tokens and the handlers keep their types:   *)
(* a refreshed pair claims names of roles and nothing else.                *)
THEOREM TypeCorrect == Spec => []TypeOK
BY AuthInvariance, PTL DEF AuthInv

LEMMA RecencyFromInvariant == AuthInv => PrivilegeIsRecent
<1> SUFFICES ASSUME AuthInv, NEW k \in tokens, NEW p \in Permission, Admits(k, p)
             PROVE  /\ account.active \/ Recent(lastActive)
                    /\ \E r \in Role :
                         /\ p \in ROLE_PERMISSIONS[r]
                         /\ r \in account.roles \/ Recent(lastHeld[r])
  BY DEF PrivilegeIsRecent
<1> USE TokenAssumption
<1>1. /\ TypeOK /\ TokenBacked(k)
      /\ k.type = "access" /\ now < k.exp
      /\ p \in PermissionsForRoles(k.roles)
  BY DEF AuthInv, Admits, Decodes
<1>2. /\ k.exp \in Nat /\ now \in Nat /\ lastActive \in Nat
      /\ lastHeld \in [Role -> Nat]
  BY <1>1 DEF TypeOK
<1>3. account.active \/ Recent(lastActive)
  BY <1>1, <1>2 DEF TokenBacked, Recent, Never
<1>4. PICK r \in k.roles \cap Role : p \in ROLE_PERMISSIONS[r]
  BY <1>1 DEF PermissionsForRoles
<1>5. r \in account.roles \/ Recent(lastHeld[r])
  BY <1>1, <1>2 DEF TokenBacked, Recent, Never
<1> QED
  BY <1>3, <1>4, <1>5

(* A privilege outlives its grant by less than the life of an access       *)
(* token, whatever the lifetimes, however old the refresh token, and       *)
(* however logins, refreshes and edits of the account interleave.          *)
THEOREM PrivilegesAreRecent == Spec => []PrivilegeIsRecent
BY AuthInvariance, RecencyFromInvariant, PTL

=============================================================================
