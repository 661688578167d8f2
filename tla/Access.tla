------------------------------- MODULE Access -------------------------------
(***************************************************************************)
(* Roles, the permission codes they grant, and the cache of the codes of   *)
(* an account (identity/services.py, identity/models.py).                  *)
(*                                                                         *)
(* A request loads the account's row, looks for its codes under the        *)
(* account and its permission_version, and else reads the active roles,    *)
(* then their codes, and caches what it found.  Administrators write       *)
(* meanwhile: a call reads, and later commits what it writes together with *)
(* a higher permission_version of the accounts it found to be affected.    *)
(* The forms of roles and of accounts save the rows they read.             *)
(*                                                                         *)
(* Superusers, who have every code and are never looked up, are left out.  *)
(* Menus and scopes are not cached: a call that sets them matters here for *)
(* the versions it raises.                                                 *)
(***************************************************************************)
EXTENDS Naturals, FiniteSets

CONSTANTS
  Account, Role, Permission,
  Admin,         \* calls that administer accounts and roles
  Reader,        \* requests that need the codes of their account
  MaxVersion,    \* bound on how often the roles of an account change
  MaxAdminCalls  \* bound on the administrators' calls

ASSUME AccessInputs == MaxVersion \in Nat /\ MaxAdminCalls \in Nat

VARIABLES
  accounts, roles,
  cached,        \* entries of the cache, of which each key has at most one
  desk,          \* what each administrator's call has read and will write
  asked,         \* what each request has read
  adminCalls,    \* calls administrators have begun
  \* Only to state the property: accounts of which a role was changed by its form,
  \* or while it was being given to them, and whose version was not raised since;
  \* and accounts that got a permission_version back that a form had read.
  behind, rewound

accessVars == <<accounts, roles, cached, desk, asked, adminCalls, behind, rewound>>

AccountRow == [roles : SUBSET Role, version : 0..MaxVersion, active : BOOLEAN]
RoleRow    == [active : BOOLEAN, codes : SUBSET Permission]
Entry      == [account : Account, version : 0..MaxVersion, codes : SUBSET Permission]

NoCall == [call |-> "none"]
Calls ==
  {NoCall}
    \union [call : {"permissions"}, role : Role, from : SUBSET Permission, to : SUBSET Permission,
            affected : SUBSET Account]
    \union [call : {"menus"}, role : Role, affected : SUBSET Account]
    \union [call : {"roles"}, account : Account, from : SUBSET Role, to : SUBSET Role]
    \union [call : {"role_form"}, role : Role, active : BOOLEAN]
    \union [call : {"account_form"}, account : Account, row : AccountRow]

NoRequest == [stage |-> "none"]
Requests ==
  {NoRequest}
    \union [stage : {"loaded"}, account : Account, version : 0..MaxVersion]
    \union [stage : {"roles"}, account : Account, version : 0..MaxVersion, roles : SUBSET Role]
    \union [stage : {"codes"}, account : Account, version : 0..MaxVersion, codes : SUBSET Permission]

AccessTypeOK ==
  /\ accounts \in [Account -> AccountRow]
  /\ roles \in [Role -> RoleRow]
  /\ cached \subseteq Entry
  /\ desk \in [Admin -> Calls]
  /\ asked \in [Reader -> Requests]
  /\ adminCalls \in 0..MaxAdminCalls
  /\ behind \subseteq Account /\ rewound \subseteq Account

Holders(r) == {a \in Account : r \in accounts[a].roles}

active_roles(a) == {r \in accounts[a].roles : roles[r].active}

CodesOf(held) == UNION {roles[r].codes : r \in held}

\* permission_codes, as the tables have them.
permission_codes(a) == CodesOf(active_roles(a))

AccessInit ==
  /\ accounts \in [Account -> {[roles |-> held, version |-> 0, active |-> TRUE] : held \in SUBSET Role}]
  /\ roles \in [Role -> {[active |-> TRUE, codes |-> granted] : granted \in SUBSET Permission}]
  /\ cached = {} /\ adminCalls = 0 /\ behind = {} /\ rewound = {}
  /\ desk = [d \in Admin |-> NoCall]
  /\ asked = [q \in Reader |-> NoRequest]

-----------------------------------------------------------------------------
(* Requests that need permission codes.                                    *)

\* An account that is not active is not authenticated.
LoadAccount(q, a) ==
  /\ asked[q].stage = "none" /\ accounts[a].active
  /\ asked' = [asked EXCEPT ![q] =
       [stage |-> "loaded", account |-> a, version |-> accounts[a].version]]
  /\ UNCHANGED <<accounts, roles, cached, desk, adminCalls, behind, rewound>>

Found(q) == {e \in cached : e.account = asked[q].account /\ e.version = asked[q].version}

UseCached(q) ==
  /\ asked[q].stage = "loaded" /\ Found(q) # {}
  /\ asked' = [asked EXCEPT ![q] = NoRequest]
  /\ UNCHANGED <<accounts, roles, cached, desk, adminCalls, behind, rewound>>

ReadRoles(q) ==
  /\ asked[q].stage = "loaded" /\ Found(q) = {}
  /\ asked' = [asked EXCEPT ![q] =
       [stage |-> "roles", account |-> asked[q].account, version |-> asked[q].version,
        roles |-> active_roles(asked[q].account)]]
  /\ UNCHANGED <<accounts, roles, cached, desk, adminCalls, behind, rewound>>

ReadCodes(q) ==
  /\ asked[q].stage = "roles"
  /\ asked' = [asked EXCEPT ![q] =
       [stage |-> "codes", account |-> asked[q].account, version |-> asked[q].version,
        codes |-> CodesOf(asked[q].roles)]]
  /\ UNCHANGED <<accounts, roles, cached, desk, adminCalls, behind, rewound>>

\* Bug: the version is read again for the key.
FillLate(q) ==
  /\ asked[q].stage = "codes"
  /\ LET a == asked[q].account
         e == [account |-> a, version |-> accounts[a].version, codes |-> asked[q].codes]
     IN  cached' = {f \in cached : f.account # a \/ f.version # e.version} \union {e}
  /\ asked' = [asked EXCEPT ![q] = NoRequest]
  /\ UNCHANGED <<accounts, roles, desk, adminCalls, behind, rewound>>

\* The codes go under the version the request came with, over what is there.
FillCache(q) ==
  /\ asked[q].stage = "codes"
  /\ cached' = (cached \ Found(q)) \union
       {[account |-> asked[q].account, version |-> asked[q].version,
         codes |-> asked[q].codes]}
  /\ asked' = [asked EXCEPT ![q] = NoRequest]
  /\ UNCHANGED <<accounts, roles, desk, adminCalls, behind, rewound>>

\* PERMISSION_CACHE_TTL_SECONDS pass, or the cache gives an entry up.
ForgetEntry(e) ==
  /\ cached' = cached \ {e}
  /\ UNCHANGED <<accounts, roles, desk, asked, adminCalls, behind, rewound>>

-----------------------------------------------------------------------------
(* Calls that administer roles and accounts.                               *)

Take(d, call) ==
  /\ desk[d] = NoCall /\ adminCalls < MaxAdminCalls
  /\ desk' = [desk EXCEPT ![d] = call]
  /\ adminCalls' = adminCalls + 1
  /\ UNCHANGED <<accounts, roles, cached, asked, behind, rewound>>

BeginSetPermissions(d, r) ==
  \E to \in SUBSET Permission :
    Take(d, [call |-> "permissions", role |-> r, from |-> roles[r].codes, to |-> to,
             affected |-> Holders(r)])

\* set_role_menus and set_role_scope raise the same versions.
BeginSetMenus(d, r) == Take(d, [call |-> "menus", role |-> r, affected |-> Holders(r)])

\* Roles that are not active are refused.
BeginAssignRoles(d, a) ==
  \E to \in SUBSET {r \in Role : roles[r].active} :
    Take(d, [call |-> "roles", account |-> a, from |-> accounts[a].roles, to |-> to])

BeginUpdateRole(d, r) ==
  \E active \in BOOLEAN : Take(d, [call |-> "role_form", role |-> r, active |-> active])

BeginUpdateAccount(d, a) ==
  Take(d, [call |-> "account_form", account |-> a, row |-> accounts[a]])

\* What is committed when rows were taken out and put in by a call that had found `from`.
Merged(now, from, to) == (now \ (from \ to)) \union (to \ from)

\* _bump_users_permission_version
Raise(affected) ==
  /\ \A a \in affected : accounts[a].version < MaxVersion
  /\ accounts' = [a \in Account |->
       IF a \in affected THEN [accounts[a] EXCEPT !.version = @ + 1] ELSE accounts[a]]

set_role_permissions(d) ==
  LET call == desk[d] IN
  /\ call.call = "permissions"
  /\ roles' = [roles EXCEPT ![call.role].codes = Merged(@, call.from, call.to)]
  /\ Raise(call.affected)
  /\ behind' = (behind \union Holders(call.role)) \ call.affected
  /\ desk' = [desk EXCEPT ![d] = NoCall]
  /\ UNCHANGED <<cached, asked, adminCalls, rewound>>

set_role_menus(d) ==
  LET call == desk[d] IN
  /\ call.call = "menus"
  /\ Raise(call.affected)
  /\ behind' = behind \ call.affected
  /\ desk' = [desk EXCEPT ![d] = NoCall]
  /\ UNCHANGED <<roles, cached, asked, adminCalls, rewound>>

\* _sync_user_roles
assign_user_roles(d) ==
  LET call == desk[d] IN
  /\ call.call = "roles" /\ accounts[call.account].version < MaxVersion
  /\ accounts' = [accounts EXCEPT ![call.account].roles = Merged(@, call.from, call.to),
                                  ![call.account].version = @ + 1]
  /\ behind' = behind \ {call.account}
  /\ desk' = [desk EXCEPT ![d] = NoCall]
  /\ UNCHANGED <<roles, cached, asked, adminCalls, rewound>>

\* The form of a role raises no version.
update_role(d) ==
  LET call == desk[d] IN
  /\ call.call = "role_form"
  /\ roles' = [roles EXCEPT ![call.role].active = call.active]
  /\ behind' = IF call.active = roles[call.role].active THEN behind
               ELSE behind \union Holders(call.role)
  /\ desk' = [desk EXCEPT ![d] = NoCall]
  /\ UNCHANGED <<accounts, cached, asked, adminCalls, rewound>>

\* The form of an account saves every column of the row that was read; roles are in
\* a table of their own.
update_user(d) ==
  LET call == desk[d] IN
  /\ call.call = "account_form"
  /\ accounts' = [accounts EXCEPT ![call.account].version = call.row.version,
                                  ![call.account].active = call.row.active]
  /\ rewound' = IF call.row.version = accounts[call.account].version THEN rewound
                ELSE rewound \union {call.account}
  /\ desk' = [desk EXCEPT ![d] = NoCall]
  /\ UNCHANGED <<roles, cached, asked, adminCalls, behind>>

set_user_active(a, active) ==
  /\ adminCalls < MaxAdminCalls /\ adminCalls' = adminCalls + 1
  /\ accounts' = [accounts EXCEPT ![a].active = active]
  /\ UNCHANGED <<roles, cached, desk, asked, behind, rewound>>

-----------------------------------------------------------------------------
ReaderNext ==
  \/ \E q \in Reader, a \in Account : LoadAccount(q, a)
  \/ \E q \in Reader : UseCached(q) \/ ReadRoles(q) \/ ReadCodes(q) \/ FillCache(q)
  \/ \E e \in cached : ForgetEntry(e)

AdminNext ==
  \/ \E d \in Admin, r \in Role :
       BeginSetPermissions(d, r) \/ BeginSetMenus(d, r) \/ BeginUpdateRole(d, r)
  \/ \E d \in Admin, a \in Account : BeginAssignRoles(d, a) \/ BeginUpdateAccount(d, a)
  \/ \E d \in Admin :
       \/ set_role_permissions(d) \/ set_role_menus(d) \/ assign_user_roles(d)
       \/ update_role(d) \/ update_user(d)
  \/ \E a \in Account, active \in BOOLEAN : set_user_active(a, active)

AccessNext == ReaderNext \/ AdminNext
AccessSpec == AccessInit /\ [][AccessNext]_accessVars

-----------------------------------------------------------------------------
\* identity/models.py:191: the codes that are cached under the version an account has
\* now are those of its active roles, however requests and administrators overtake each
\* other, but for an account whose role was switched by its form or changed while it
\* was being given out, until its version is raised, and one a form has set back.
CachedCodesAreCurrent ==
  \A e \in cached :
    /\ e.version = accounts[e.account].version
    /\ e.account \notin behind \union rewound
    => e.codes = permission_codes(e.account)
=============================================================================
