------------------------------- MODULE Scopes -------------------------------
(***************************************************************************)
(* Which rows the roles of an account show it (core/selectors.py).         *)
(*                                                                         *)
(* Of an account's active roles those of the widest type count.  Companies *)
(* bound what is shown, the account's own and those of all its roles; what *)
(* the roles of that type were granted picks rows within, each dimension   *)
(* by the field that the table has for it, and a table without the field   *)
(* shows nothing.  Accounts here have active roles only, and are no        *)
(* superusers.                                                             *)
(***************************************************************************)
EXTENDS Naturals, FiniteSets

CONSTANTS
  Company, Factory, Department, Warehouse,
  Parent,        \* [Department -> Department \union {Nothing}]
  LEVELS,        \* how deep departments are followed
  Nothing,
  GivenScopes,   \* the scopes roles are given
  Tables,        \* sets of fields by which tables can be filtered
  GivenRows,     \* rows there are
  Self,          \* the account
  MaxRoles       \* bound on the roles of the account

Dimension == {"factory", "department", "warehouse"}
OrganisationsOf == [factory |-> Factory, department |-> Department, warehouse |-> Warehouse]
Types == {"all", "company", "custom", "self"} \union Dimension

ScopeRow == [type : Types, company : Company \union {Nothing},
             grants : SUBSET (Company \union Factory \union Department \union Warehouse)]

ASSUME ScopeInputs ==
  /\ GivenScopes \subseteq ScopeRow
  /\ Parent \in [Department -> Department \union {Nothing}]
  /\ \A fields \in Tables : fields \subseteq Dimension \union {"company", "owner"}
  /\ Dimension \union {"company", "owner"} \in Tables
  /\ LEVELS \in Nat

VARIABLE staff   \* the account's company and the scopes of its roles

ScopesTypeOK ==
  staff \in [company : Company \union {Nothing}, scopes : SUBSET GivenScopes]

rank_map ==
  [all |-> 100, company |-> 80, custom |-> 70, factory |-> 60, warehouse |-> 50,
   department |-> 40, self |-> 10]

TypeOf(scopes) ==
  (CHOOSE s \in scopes : \A t \in scopes : rank_map[t.type] <= rank_map[s.type]).type

\* _department_descendants
WithDescendants(roots) ==
  LET found[n \in 0..LEVELS] ==
        IF n = 0 THEN roots
        ELSE found[n - 1] \union {d \in Department : Parent[d] \in found[n - 1]}
  IN  found[LEVELS]

\* Bug: only the first of the roles of the widest type counts.
GrantsOfOne(who) ==
  LET s == CHOOSE s \in who.scopes : s.type = TypeOf(who.scopes)
  IN  s.grants

\* What the roles of the widest type were granted.
Grants(who) == UNION {s.grants : s \in {t \in who.scopes : t.type = TypeOf(who.scopes)}}

GrantedIn(who, dim) ==
  LET ids == Grants(who) \intersect OrganisationsOf[dim]
  IN  IF dim = "department" THEN WithDescendants(ids) ELSE ids

CompaniesOf(who) ==
  ({who.company} \union {s.company : s \in who.scopes}
    \union (IF TypeOf(who.scopes) = "custom" THEN Grants(who) \intersect Company ELSE {}))
  \ {Nothing}

Bounded(who, fields) == "company" \in fields /\ CompaniesOf(who) # {}

\* The dimensions by which a custom scope picks rows of a table.
Picking(who, fields) == {dim \in Dimension \intersect fields : GrantedIn(who, dim) # {}}

\* resolve_data_scope and apply_data_scope
Shows(who, fields, row) ==
  LET type == TypeOf(who.scopes)
      within == Bounded(who, fields) => row.company \in CompaniesOf(who)
  IN  /\ who.scopes # {}
      /\ \/ type = "all"
         \/ type = "self" /\ "owner" \in fields /\ row.owner = Self
         \/ type = "company" /\ Bounded(who, fields) /\ within
         \/ type \in Dimension \intersect fields /\ within /\ row[type] \in GrantedIn(who, type)
         \/ /\ type = "custom" /\ within
            /\ IF Picking(who, fields) = {} THEN Bounded(who, fields)
               ELSE \E dim \in Picking(who, fields) : row[dim] \in GrantedIn(who, dim)

Shown(who, fields) == {row \in GivenRows : Shows(who, fields, row)}

ScopesInit ==
  staff \in {[company |-> c, scopes |-> {}] : c \in Company \union {Nothing}}

GiveRole(s) ==
  /\ s \notin staff.scopes /\ Cardinality(staff.scopes) < MaxRoles
  /\ staff' = [staff EXCEPT !.scopes = @ \union {s}]

\* set_role_scope replaces what a role was granted.
SetScope(s, t) ==
  /\ s \in staff.scopes /\ t \notin staff.scopes
  /\ staff' = [staff EXCEPT !.scopes = (@ \ {s}) \union {t}]

ScopesNext ==
  \/ \E s \in GivenScopes : GiveRole(s)
  \/ \E s \in staff.scopes, t \in GivenScopes : SetScope(s, t)

ScopesSpec == ScopesInit /\ [][ScopesNext]_staff

-----------------------------------------------------------------------------
\* An account that was bound to no company gets into the bounds of one; or roles that
\* name only companies meet one that names parts of a company, which then picks.
Narrows(more, fields) ==
  \/ ~ Bounded(staff, fields) /\ Bounded(more, fields)
  \/ /\ TypeOf(staff.scopes) = "custom"
     /\ Picking(staff, fields) = {} /\ Picking(more, fields) # {}

\* docs/permission-matrix.md, rules 5 to 7: a further role of the same type hides no row
\* that was shown before, in any table, but in these two cases.
RolesAddUp ==
  [][\A fields \in Tables :
       /\ staff.scopes # {} /\ staff.scopes \subseteq staff'.scopes
       /\ TypeOf(staff'.scopes) = TypeOf(staff.scopes)
       /\ ~ Narrows(staff', fields)
       => Shown(staff, fields) \subseteq Shown(staff', fields)]_staff
=============================================================================
