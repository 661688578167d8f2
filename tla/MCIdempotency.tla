---------------------------- MODULE MCIdempotency ----------------------------
(***************************************************************************)
(* A small instance of the calls that are executed once, of the scopes     *)
(* that requests are judged by, and of the pages that send them.  What a   *)
(* behaviour is about is chosen at its start, for these do not interact;   *)
(* their invariants are those of all.                                      *)
(***************************************************************************)
EXTENDS Idempotency, Scopes, Pages, TLC

CONSTANTS x, y, companyA, companyB, factoryA, factoryB, parent, child, store, someone

VARIABLE subject

\* The endpoint's fingerprint tells the contents apart.
Whole == [content \in Content |-> content]

MCParent == (parent :> Nothing) @@ (child :> parent)

\* Scopes of every type, with and without companies and grants.
MCScopes ==
  [type : {"all", "self"}, company : {Nothing}, grants : {{}}]
    \union [type : {"company"}, company : {Nothing, companyA, companyB}, grants : {{}}]
    \union [type : {"factory"}, company : {Nothing, companyB},
            grants : SUBSET {factoryA, factoryB}]
    \union [type : {"department"}, company : {Nothing}, grants : {{parent}, {child}}]
    \union [type : {"warehouse"}, company : {Nothing}, grants : {{}, {store}}]
    \union [type : {"custom"}, company : {Nothing, companyB},
            grants : {{}, {companyA}, {factoryA}, {parent}, {companyA, factoryB}, {factoryB, store}}]

MCRows ==
  [company : {companyA}, factory : {factoryA}, department : {parent, child}, warehouse : {store},
   owner : {someone}]
    \union [company : {companyB}, factory : {factoryB}, department : {child}, warehouse : {Nothing},
            owner : {Self, someone}]

MCTables == {Dimension \union {"company", "owner"}, {"company", "factory"}, {"warehouse", "owner"}}

MCInit ==
  /\ Init /\ ScopesInit /\ PagesInit
  /\ subject \in {"calls", "scopes", "pages"}
  \* One start is enough where things stay as they are.
  /\ subject # "calls" => request = [c \in Call |-> CHOOSE r \in [key : Key, content : Content] : TRUE]
  /\ subject # "scopes" => staff.company = Nothing

\* Which step a behaviour takes depends on what it is about.
MCNext ==
  /\ \/ subject = "calls" /\ Next /\ UNCHANGED <<staff, pageVars>>
     \/ subject = "scopes" /\ ScopesNext /\ UNCHANGED <<vars, pageVars>>
     \/ subject = "pages" /\ PagesNext /\ UNCHANGED <<vars, staff>>
  /\ UNCHANGED subject

MCSpec == MCInit /\ [][MCNext]_<<subject, vars, staff, pageVars>>

\* As FairSpec is fair to calls that were begun.
MCFairSpec ==
  MCSpec /\ \A c \in Call : WF_vars(subject = "calls" /\ Step(c))
=============================================================================
