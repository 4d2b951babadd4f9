------------------------------ MODULE Access ------------------------------
(***************************************************************************)
(* Who may do what in a tenant: API keys, OIDC tokens, memberships and the *)
(* role check in front of the handlers.  A request reads the key or the    *)
(* membership, decides, and then acts, each in a step of its own, while    *)
(* other requests create and revoke keys and change memberships.  The      *)
(* first principal of a tenant without members becomes its owner.  The     *)
(* identity provider and the signature checks are external.                *)
(***************************************************************************)
EXTENDS Integers, FiniteSets

CONSTANTS Principals,   \* subjects of OIDC tokens
          ApiKeys,      \* keys that can be issued
          Callers,      \* requests, each used again and again
          GivenRoles,   \* roles the requests give to keys and members
          KeyLifetime,  \* of the keys that are made to expire
          MaxAccessTime \* bound on the clock

ASSUME AccessConstants == KeyLifetime \in Nat /\ MaxAccessTime \in Nat

VARIABLES members,      \* members[p]: the role of p, or "none"
          keys,         \* keys[k]: the row of api_keys
          time,
          caller,       \* caller[q]: the request
          entitled,     \* entitled[q]: its subject has had the role it needs
                        \* at some moment since it began
          vacant        \* vacant[q]: so has the tenant been without members

accessVars == <<members, keys, time, caller, entitled, vacant>>

Unending == MaxAccessTime + KeyLifetime + 1
NoKey == [issued |-> FALSE, role |-> "none", expires |-> Unending, revoked |-> FALSE]
NoCaller == [at |-> "idle", subject |-> "none", op |-> "none"]

AccessInit ==
  /\ members = [p \in Principals |-> "none"]
  /\ keys = [k \in ApiKeys |-> NoKey]
  /\ time = 0
  /\ caller = [q \in Callers |-> NoCaller]
  /\ entitled = [q \in Callers |-> FALSE]
  /\ vacant = [q \in Callers |-> FALSE]

Level == [owner |-> 40, admin |-> 30, developer |-> 20, viewer |-> 10]

HasPermission(role, required) == role # "none" /\ Level[role] >= Level[required]

\* What the handlers ask for: rbacWrap and requireRole.
RequiredRole(op) ==
  CASE op = "start_run"                         -> "developer"
    [] op \in {"create_key", "revoke_key"}      -> "admin"
    [] op \in {"set_member", "delete_member"}   -> "owner"

Operations == {"start_run", "create_key", "revoke_key", "set_member", "delete_member"}

RoleOf(subject, memberRows, keyRows) ==
  IF subject \in Principals THEN memberRows[subject] ELSE keyRows[subject].role

NoMembers == \A p \in Principals : members[p] = "none"

\* The history of the requests under way, brought up to date by every step.
Track ==
  LET Busy(q) == caller'[q].at # "idle"
      Begun(q) == caller[q].at # "idle"
  IN /\ entitled' = [q \in Callers |-> Busy(q) /\
                       (\/ Begun(q) /\ entitled[q]
                        \/ HasPermission(RoleOf(caller'[q].subject, members', keys'),
                                         RequiredRole(caller'[q].op)))]
     /\ vacant' = [q \in Callers |-> Busy(q) /\ ((Begun(q) /\ vacant[q]) \/ NoMembers')]

CallerGoto(q, at) == caller' = [caller EXCEPT ![q].at = at]
Return(q) == caller' = [caller EXCEPT ![q] = NoCaller]

\* RBACMiddleware with a known role: 403 or the handler.
Decide(q, role) ==
  IF HasPermission(role, RequiredRole(caller[q].op)) THEN CallerGoto(q, "act") ELSE Return(q)

(***************************************************************************)
(* Authentication.                                                         *)
(***************************************************************************)
\* WithAuth: a bearer token is checked against the key set of the identity
\* provider; a failure is answered 401 and changes nothing.
WithAuth(q) ==
  /\ caller[q].at = "idle"
  /\ \E p \in Principals, op \in Operations :
       caller' = [caller EXCEPT ![q] = [at |-> "role", subject |-> p, op |-> op]]
  /\ UNCHANGED <<members, keys, time>>

KeyAccepted(k) == keys[k].issued /\ ~keys[k].revoked /\ time <= keys[k].expires

\* APIKeyMiddleware: the key is looked up by its prefix, its hash compared,
\* its revocation and its expiry checked; its role stands for a membership.
ApiKeyMiddleware(q) ==
  /\ caller[q].at = "idle"
  /\ \E k \in ApiKeys, op \in Operations :
       /\ KeyAccepted(k) /\ HasPermission(keys[k].role, RequiredRole(op))
       /\ caller' = [caller EXCEPT ![q] = [at |-> "act", subject |-> k, op |-> op]]
  /\ UNCHANGED <<members, keys, time>>

(***************************************************************************)
(* RBACMiddleware for a principal.                                         *)
(***************************************************************************)
GetRole(q) ==
  /\ caller[q].at = "role"
  /\ LET role == members[caller[q].subject]
     IN IF role = "none" THEN CallerGoto(q, "count") ELSE Decide(q, role)
  /\ UNCHANGED <<members, keys, time>>

CountOwners(q) ==
  /\ caller[q].at = "count"
  /\ IF \A p \in Principals : members[p] # "owner" THEN CallerGoto(q, "bootstrap") ELSE Return(q)
  /\ UNCHANGED <<members, keys, time>>

CountMembers(q) ==
  /\ caller[q].at = "count"
  /\ IF NoMembers THEN CallerGoto(q, "bootstrap") ELSE Return(q)
  /\ UNCHANGED <<members, keys, time>>

\* First-user bootstrap; the check of the role that follows cannot fail.
Bootstrap(q) ==
  /\ caller[q].at = "bootstrap"
  /\ members' = [members EXCEPT ![caller[q].subject] = "owner"]
  /\ CallerGoto(q, "act")
  /\ UNCHANGED <<keys, time>>

\* A failing store ends the request, and so does a run that is started.
Ends(q) ==
  /\ caller[q].at # "idle"
  /\ Return(q)
  /\ UNCHANGED <<members, keys, time>>

(***************************************************************************)
(* The handlers.                                                           *)
(***************************************************************************)
Handler(q, op) ==
  /\ caller[q].at = "act" /\ caller[q].op = op
  /\ Return(q)
  /\ UNCHANGED <<time>>

HandleAPIKeyCreate(q) ==
  /\ Handler(q, "create_key")
  /\ \E k \in ApiKeys, role \in GivenRoles, expires \in {Unending, time + KeyLifetime} :
       /\ ~keys[k].issued
       /\ keys' = [keys EXCEPT ![k] =
                     [issued |-> TRUE, role |-> role, expires |-> expires, revoked |-> FALSE]]
  /\ UNCHANGED members

\* Revoke touches only a row that is not revoked; else the answer is 404.
HandleAPIKeyRevoke(q) ==
  /\ Handler(q, "revoke_key")
  /\ \E k \in ApiKeys : keys' = [keys EXCEPT ![k].revoked = @ \/ keys[k].issued]
  /\ UNCHANGED members

SetMember(q) ==
  /\ Handler(q, "set_member")
  /\ \E p \in Principals, role \in GivenRoles :
       members' = [members EXCEPT ![p] = role]
  /\ UNCHANGED keys

DeleteMember(q) ==
  /\ Handler(q, "delete_member")
  /\ \E p \in Principals : members' = [members EXCEPT ![p] = "none"]
  /\ UNCHANGED keys

AccessTick ==
  /\ time < MaxAccessTime
  /\ time' = time + 1
  /\ UNCHANGED <<members, keys, caller>>

AccessNext ==
  /\ \/ \E q \in Callers :
          \/ WithAuth(q) \/ ApiKeyMiddleware(q)
          \/ GetRole(q) \/ CountMembers(q) \/ Bootstrap(q) \/ Ends(q)
          \/ HandleAPIKeyCreate(q) \/ HandleAPIKeyRevoke(q)
          \/ SetMember(q) \/ DeleteMember(q)
     \/ AccessTick
  /\ Track

\* Type invariant of keys, members and requests.
AccessTypeOK ==
  /\ members \in [Principals -> DOMAIN Level \union {"none"}]
  /\ \A k \in ApiKeys : keys[k].expires \in 0..Unending
  /\ time \in 0..MaxAccessTime
  /\ \A q \in Callers : caller[q].at \in {"idle", "role", "count", "bootstrap", "act"}

\* A request acts only when its subject had a sufficient role at some moment
\* since it began, however the memberships change meanwhile, and it makes its
\* principal the owner only when the tenant was without members at such a
\* moment (RBACMiddleware, first-user bootstrap).
AccessIsJustified ==
  \A q \in Callers :
    /\ caller[q].at = "act" => entitled[q]
    /\ caller[q].at = "bootstrap" => vacant[q]

\* A key keeps its role and its expiry and stays revoked: once Revoke has
\* answered, no request that comes later is accepted with the key
\* (PgAPIKeyStore.Revoke, APIKeyMiddleware).
RevocationIsFinal ==
  [][\A k \in ApiKeys :
       /\ keys[k].issued =>
            /\ keys'[k].expires = keys[k].expires /\ keys'[k].role = keys[k].role
            /\ keys[k].revoked => keys'[k].revoked
       /\ \A q \in Callers :
            caller[q].at = "idle" /\ caller'[q].subject = k => KeyAccepted(k)]_accessVars

=============================================================================
