------------------------------- MODULE Access -------------------------------
(***************************************************************************)
(* security/auth.py as the API uses it (api/dependencies.py,               *)
(* api/routers/auth.py): tokens signed at login and at refresh, roles and  *)
(* permissions of the users, API keys, and the middleware that turns what  *)
(* a request carries into an identity.  Tokens cannot be made without the  *)
(* secret, nor keys guessed: a token is its claims, a key is its id.       *)
(***************************************************************************)
EXTENDS Integers, FiniteSets

CONSTANTS User,          \* users, those without an account included
          AccessTtl, RefreshTtl,    \* the lives of the tokens, in ticks
          MaxClock, MaxTokens, MaxKeys    \* bounds

\* An access token lives no longer than a refresh token: 30 minutes against 7 days, where
\* nothing else is configured.
ASSUME AccessAssumption ==
  /\ AccessTtl \in Nat \ {0} /\ RefreshTtl \in Nat /\ AccessTtl <= RefreshTtl
  /\ MaxClock \in Nat /\ MaxTokens \in Nat /\ MaxKeys \in Nat

Role == {"admin", "operator", "observer", "rover"}

\* Two of the permissions: what observers may not do, and what grants the rest.
Permission == {"rover:command", "system:admin"}

RolePermissions ==
  [r \in Role |->
     CASE r = "admin" -> Permission
       [] r = "operator" -> {"rover:command"}
       [] OTHER -> {}]

\* _DEMO_USERS
DemoRole == [u \in {"admin", "operator", "observer"} |-> u]
Account == User \cap DOMAIN DemoRole

\* str() of a member of Role names the member, and Role() of that is no role.
Str == [admin |-> "Role.ADMIN", operator |-> "Role.OPERATOR",
        observer |-> "Role.OBSERVER", rover |-> "Role.ROVER"]
NoClaim == ""

Token == [sub : User, type : {"access", "refresh"},
          role : {Str[r] : r \in Role} \cup {NoClaim}, exp : Nat]

VARIABLES clock,
          tokens,      \* the tokens handed out
          userRole, userPermissions,    \* RbacProvider's tables
          keys,        \* ApiKeyProvider's table: user and is_active, by key id
          caller,      \* the identity the last request was given, how and when
          until        \* history: when each user's session must have ended

accessVars == <<clock, tokens, userRole, userPermissions, keys, caller, until>>

KeyId == DOMAIN keys
Identity == [user : User, role : Role, permissions : SUBSET Permission,
             by : {"access", "refresh", "key"}]
Nobody == [by |-> "nothing"]

AccessTypeOK ==
  /\ clock \in Nat
  /\ tokens \subseteq Token
  /\ DOMAIN userRole \subseteq User /\ userRole \in [DOMAIN userRole -> Role]
  /\ DOMAIN userPermissions \subseteq User
  /\ userPermissions \in [DOMAIN userPermissions -> SUBSET Permission]
  /\ KeyId = 1..Cardinality(KeyId) /\ keys \in [KeyId -> [user : User, active : BOOLEAN]]
  /\ caller \in Identity \cup {Nobody}
  /\ until \in [User -> Nat]

AccessInit ==
  /\ clock = 0 /\ tokens = {}
  /\ userRole = [u \in {} |-> "observer"] /\ userPermissions = [u \in {} |-> {}]
  /\ keys = [k \in {} |-> [user |-> "", active |-> FALSE]]
  /\ caller = Nobody /\ until = [u \in User |-> 0]

GetRole(u) == IF u \in DOMAIN userRole THEN userRole[u] ELSE "observer"

GetUserPermissions(u) ==
  IF u \in DOMAIN userPermissions THEN userPermissions[u] ELSE {}

\* create_access_token().  The claims of permissions, written like the role, are
\* read back by no one, and are left out.
AccessToken(u, r) ==
  [sub |-> u, type |-> "access", role |-> Str[r], exp |-> clock + AccessTtl]

RefreshToken(u) ==
  [sub |-> u, type |-> "refresh", role |-> NoClaim, exp |-> clock + RefreshTtl]

\* Mutant: the lives of tokens are not looked at.
ValidForever(t) == t \in tokens

\* validate_token()
Valid(t) == t \in tokens /\ clock < t.exp

Issue(u, r) ==
  /\ Cardinality(tokens) + 2 <= MaxTokens
  /\ tokens' = tokens \cup {AccessToken(u, r), RefreshToken(u)}

\* login() with the right password.
Login(u) ==
  /\ u \in Account
  /\ Issue(u, DemoRole[u])
  /\ until' = [until EXCEPT ![u] = clock + RefreshTtl]
  /\ UNCHANGED <<clock, userRole, userPermissions, keys, caller>>

\* refresh_access_token()
Refreshable(t) == Valid(t) /\ t.type = "refresh"

\* refresh(): the role is the one RbacProvider knows.
Refresh(t) ==
  /\ Refreshable(t)
  /\ Issue(t.sub, GetRole(t.sub))
  /\ until' = IF clock < until[t.sub] THEN [until EXCEPT ![t.sub] = clock + RefreshTtl] ELSE until
  /\ UNCHANGED <<clock, userRole, userPermissions, keys, caller>>

Assign(f, u, x) == [v \in DOMAIN f \cup {u} |-> IF v = u THEN x ELSE f[v]]

\* assign_role(): what had been added or removed before is forgotten.
AssignRole(u, r) ==
  /\ userRole' = Assign(userRole, u, r)
  /\ userPermissions' = Assign(userPermissions, u, RolePermissions[r])
  /\ UNCHANGED <<clock, tokens, keys, caller, until>>

AddPermission(u, p) ==
  /\ userPermissions' = Assign(userPermissions, u, GetUserPermissions(u) \cup {p})
  /\ UNCHANGED <<clock, tokens, userRole, keys, caller, until>>

RemovePermission(u, p) ==
  /\ u \in DOMAIN userPermissions
  /\ userPermissions' = [userPermissions EXCEPT ![u] = @ \ {p}]
  /\ UNCHANGED <<clock, tokens, userRole, keys, caller, until>>

\* generate_key()
GenerateKey(u) ==
  LET k == Cardinality(KeyId) + 1 IN
  /\ k <= MaxKeys
  /\ keys' = [i \in 1..k |-> IF i = k THEN [user |-> u, active |-> TRUE] ELSE keys[i]]
  /\ UNCHANGED <<clock, tokens, userRole, userPermissions, caller, until>>

RevokeKey(k) ==
  /\ keys' = [keys EXCEPT ![k].active = FALSE]
  /\ UNCHANGED <<clock, tokens, userRole, userPermissions, caller, until>>

\* get_user_from_token(): a claim that is no role makes an observer, and so does
\* none; the permissions are those of the role.
TokenIdentity(t) ==
  LET r == IF t.role \in Role THEN t.role ELSE "observer" IN
  [user |-> t.sub, role |-> r, permissions |-> RolePermissions[r],
   by |-> t.type]

\* What a valid key is worth: the role and the permissions of its user by now.
KeyIdentity(k) ==
  LET u == keys[k].user IN
  [user |-> u, role |-> GetRole(u), permissions |-> GetUserPermissions(u),
   by |-> "key"]

\* validate_key()
KeyOpens(k) == k \in KeyId /\ keys[k].active

\* extract_bearer_token() and extract_api_key(): a request has one or none of each.
Credentials(S) == {{}} \cup {{x} : x \in S}

\* authenticate_request(): the token goes first, and a key stands in for a bad one.
Authenticated(bearer, key) ==
  IF \E t \in bearer : Valid(t) THEN TokenIdentity(CHOOSE t \in bearer : TRUE)
  ELSE IF \E k \in key : KeyOpens(k) THEN KeyIdentity(CHOOSE k \in key : TRUE)
  ELSE Nobody

\* get_current_user() refuses nobody, get_optional_user() lets nobody pass as such.
GetCurrentUser(bearer, key) ==
  /\ caller' = Authenticated(bearer, key)
  /\ UNCHANGED <<clock, tokens, userRole, userPermissions, keys, until>>

ClockTick ==
  /\ clock < MaxClock /\ clock' = clock + 1
  /\ UNCHANGED <<tokens, userRole, userPermissions, keys, caller, until>>

AccessNext ==
  \/ ClockTick
  \/ \E u \in User :
       \/ Login(u) \/ GenerateKey(u)
       \/ \E r \in Role : AssignRole(u, r)
       \/ \E p \in Permission : AddPermission(u, p) \/ RemovePermission(u, p)
  \/ \E t \in tokens : Refresh(t)
  \/ \E k \in KeyId : RevokeKey(k)
  \/ \E bearer \in Credentials(tokens), key \in Credentials(KeyId) : GetCurrentUser(bearer, key)

AccessSpec == AccessInit /\ [][AccessNext]_accessVars
-----------------------------------------------------------------------------
(* Properties *)

\* A session ends: a user who lets the life of a refresh token go by without coming
\* back is not let in again by any token, however often tokens were refreshed before,
\* until the next login.
SessionsEnd ==
  [][caller' # caller /\ caller'.by \in {"access", "refresh"}
       => clock < until[caller'.user]]_accessVars
=============================================================================
