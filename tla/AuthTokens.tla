------------------------------ MODULE AuthTokens ------------------------------
(***************************************************************************)
(* Login, refresh and the use of tokens: services/user_service.py under    *)
(* api/v1/auth.py, the tokens of core/security.py and the check every      *)
(* endpoint makes (api/deps.py), for one account.                          *)
(*                                                                         *)
(* Tokens are stateless: nothing of them is stored, so an access token     *)
(* speaks for the roles its owner had when it was issued.  The account is  *)
(* read by two SELECTs (the users row, then its roles), between which an   *)
(* operator may change it.  Signatures are taken for sound, and a request  *)
(* with a wrong password or a token that does not decode changes nothing   *)
(* and is left out.  No token is ever used up: a refresh token yields a    *)
(* new pair as often as it is presented, until it expires.  Time is        *)
(* counted in units longer than a request.                                 *)
(***************************************************************************)
EXTENDS Rbac, Naturals, FiniteSets

CONSTANTS
  Clients,      \* the login and refresh requests under way
  AccessTTL,    \* security_access_token_ttl_seconds
  RefreshTTL,   \* security_refresh_token_ttl_seconds
  Given,        \* bound: the role sets an operator gives the account
  MaxTime,      \* bound: the last moment considered
  MaxPairs      \* bound: how many token pairs are issued

ASSUME TokenAssumption ==
  /\ AccessTTL \in Nat \ {0} /\ RefreshTTL \in Nat \ {0}
  /\ Given \subseteq SUBSET Role
  /\ MaxTime \in Nat \ {0} /\ MaxPairs \in Nat

VARIABLES
  account,   \* table users: the row, with its roles
  now,       \* the clock
  tokens,    \* the tokens issued so far
  request,   \* request[c]: what the handler of request c holds
  lastActive,  \* history: when the account was last active
  lastHeld     \* history: lastHeld[r], when it last had role r

history == <<lastActive, lastHeld>>
vars == <<account, now, tokens, request, history>>

-----------------------------------------------------------------------------
Never == 0     \* the clock starts at 1
NoPair == 0

NoAccount == [active |-> FALSE, roles |-> {}]

NoRequest == [live |-> FALSE, from |-> NoPair, claims |-> {}]

(* create_token: a token of pair n, issued now, in exchange for a refresh  *)
(* token of pair from.                                                     *)
Token(n, type, roles, from) ==
  [pair |-> n, type |-> type, roles |-> roles, from |-> from,
   exp |-> now + (IF type = "access" THEN AccessTTL ELSE RefreshTTL)]

Pairs == {k.pair : k \in tokens}

TypeOK ==
  /\ account \in [active : BOOLEAN, roles : SUBSET Role]
  /\ now \in 1 .. MaxTime
  /\ \A k \in tokens : /\ k.pair \in 1 .. MaxPairs
                       /\ k.type \in {"access", "refresh"}
                       /\ k.roles \subseteq Role
                       /\ k.from \in 0 .. MaxPairs
                       /\ k.exp \in Nat
  /\ request \in [Clients -> [live : BOOLEAN, from : 0 .. MaxPairs,
                              claims : SUBSET Role]]
  /\ lastActive \in 0 .. MaxTime
  /\ lastHeld \in [Role -> 0 .. MaxTime]

Init ==
  /\ account = NoAccount
  /\ now = 1
  /\ tokens = {}
  /\ request = [c \in Clients |-> NoRequest]
  /\ lastActive = Never
  /\ lastHeld = [r \in Role |-> Never]

-----------------------------------------------------------------------------
MayIssue == Cardinality(Pairs) < MaxPairs

(* POST /auth/login: the password matches, the account is there and active.*)
Login(c) ==
  /\ MayIssue /\ ~request[c].live
  /\ account.active
  /\ request' = [request EXCEPT ![c] = [NoRequest EXCEPT !.live = TRUE]]
  /\ UNCHANGED <<account, now, tokens, history>>

(* decode_token: of the expected type and not expired.                     *)
Decodes(k, type) == k.type = type /\ now < k.exp

(* POST /auth/refresh: the token decodes, its subject is there and active. *)
Refresh(c) ==
  \E k \in tokens :
    /\ MayIssue /\ ~request[c].live
    /\ Decodes(k, "refresh")
    /\ account.active
    /\ request' = [request EXCEPT ![c] = [live |-> TRUE, from |-> k.pair,
                                          claims |-> k.roles]]
    /\ UNCHANGED <<account, now, tokens, history>>

(* role_names, as the second SELECT finds them.                            *)
RolesClaimed(c) ==  \* variant: a refreshed pair copies the claims of the old
  IF request[c].from = NoPair THEN account.roles ELSE request[c].claims
RolesResolved(c) == PermissionsForRoles(account.roles)  \* variant
RoleNames(c) == account.roles

(* issue_tokens: a new pair, whatever became of the old one.               *)
IssueTokens(c) ==
  /\ MayIssue /\ request[c].live
  /\ tokens' = tokens \cup
       {Token(Cardinality(Pairs) + 1, type, RoleNames(c), request[c].from) :
          type \in {"access", "refresh"}}
  /\ request' = [request EXCEPT ![c] = NoRequest]
  /\ UNCHANGED <<account, now, history>>

(* The second SELECT fails, or the process dies.                           *)
Drop(c) ==
  /\ request[c].live
  /\ request' = [request EXCEPT ![c] = NoRequest]
  /\ UNCHANGED <<account, now, tokens, history>>

(* History: what the account is, it has been until now.                    *)
Remember == /\ lastActive' = IF account.active THEN now ELSE lastActive
            /\ lastHeld' = [r \in Role |-> IF r \in account.roles
                                           THEN now ELSE lastHeld[r]]

(* The seeds or an operator write the account: no endpoint does.           *)
Edit ==
  /\ \E active \in BOOLEAN, roles \in Given :
       account' = [active |-> active, roles |-> roles]
  /\ Remember
  /\ UNCHANGED <<now, tokens, request>>

(* A unit of time passes: no request lasts that long.                      *)
Tick ==
  /\ now < MaxTime
  /\ \A c \in Clients : ~request[c].live
  /\ now' = now + 1
  /\ Remember
  /\ UNCHANGED <<account, tokens, request>>

Next ==
  \/ \E c \in Clients : Login(c) \/ Refresh(c) \/ IssueTokens(c) \/ Drop(c)
  \/ Edit \/ Tick

Spec == Init /\ [][Next]_vars

-----------------------------------------------------------------------------
(* The check of an endpoint that requires permission p (current_principal_ *)
(* dep, require_permissions).  It reads nothing but the token.             *)
Admits(k, p) == Decodes(k, "access") /\ p \in PermissionsForRoles(k.roles)

(* Properties.                                                             *)

(* A privilege outlives its grant by less than the life of an access       *)
(* token, however old the refresh token and however requests and edits     *)
(* interleave: a token that an endpoint admits belongs to an account that  *)
(* was active, and had a role with that permission, less than AccessTTL    *)
(* ago (UserService.refresh, decode_token, current_principal_dep).         *)
Recent(t) == t # Never /\ now < t + AccessTTL

PrivilegeIsRecent ==
  \A k \in tokens, p \in Permission : Admits(k, p) =>
    /\ account.active \/ Recent(lastActive)
    /\ \E r \in Role : /\ p \in ROLE_PERMISSIONS[r]
                       /\ r \in account.roles \/ Recent(lastHeld[r])

=============================================================================
