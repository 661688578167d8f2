------------------------------ MODULE MCApproval ------------------------------
(***************************************************************************)
(* Small instances of Approval (an order decided in two steps, a           *)
(* requisition and two versions of a BOM), of Versions (two planners and a *)
(* style with one SKU) and of Access (an account and two roles).           *)
(* A behaviour is about approvals (three of an order, two of the order and *)
(* the requisition, or three of the BOM versions with one filed by hand),  *)
(* about creations of BOMs that overlap while numbers are taken and each   *)
(* has one line (what else is refused gives up its number), about what     *)
(* becomes of versions, which are then made one at a time, or about roles, *)
(* which then grant all.                                                   *)
(***************************************************************************)
EXTENDS Approval, Versions, Access, TLC

CONSTANTS ann, ben, so, pr, bomA, bomB

VARIABLE subject

MCKind == [d \in Document |->
  CASE d = so -> "sales.order"
    [] d = pr -> "procurement.requisition"
    [] OTHER -> "planning.bom"]
MCScope == [d \in Document |-> 1]
MCTemplate == {"two steps", "one step", "own"}
MCTemplateOf == [d \in Document |->
  CASE d = so -> "two steps" [] d = pr -> "one step" [] OTHER -> "own"]
MCRoute == [t \in MCTemplate |-> IF t = "two steps" THEN <<{ben}, {ann, ben}>> ELSE <<{ann, ben}>>]

Normal(m) == [material |-> m, substitute |-> FALSE, of |-> 0]
\* One line, the same line twice, and a line with a substitute.
MCLines == {<<Normal(1)>>, <<Normal(1), Normal(1)>>,
            <<Normal(1), [material |-> 2, substitute |-> TRUE, of |-> 1]>>}

MCTyped == {[shown |-> 0, number |-> 2]}

OneCreates == \A c, d \in Caller : creating'[c] # NotCreating /\ creating'[d] # NotCreating => c = d

\* A behaviour about approvals is about orders or about BOMs, which share nothing.
About == CASE subject = "order" -> {so} [] subject = "orders" -> {so, pr}
           [] subject = "boms" -> {bomA, bomB} [] OTHER -> {}

Approvals ==
  /\ About # {} /\ Next
  /\ \A d \in Document \ About : docs'[d] = docs[d]
  /\ {row.doc : row \in editing'} \subseteq About
  /\ \A i \in 1..Len(instances') :
       /\ instances'[i].doc \in About
       /\ instances'[i].filed => instances'[i].template = "one step"
  /\ subject = "orders" => Len(instances') <= 2
  /\ subject = "boms" =>
       edits' <= 1 /\ \A i, j \in 1..Len(instances') : instances'[i].filed /\ instances'[j].filed => i = j

OneLine == \A c \in Caller : Len(creating'[c].lines) <= 1

MCInit == /\ Init /\ VersionsInit /\ AccessInit
          /\ subject \in {"order", "orders", "boms", "numbers", "versions", "access"}
          /\ \A r \in Role : roles[r].codes = Permission
          /\ subject # "access" => \A a \in Account : accounts[a].roles = {}
          /\ kind = "routing" => subject = "versions"
          /\ ~ rule.resets \/ ~ rule.dated => subject = "numbers"

MCNext ==
  /\ \/ Approvals /\ UNCHANGED <<numberVars, versionVars, accessVars>>
     \/ /\ subject = "numbers" /\ (MakeNext \/ RuleNext) /\ OneLine
        /\ UNCHANGED <<vars, accessVars>>
     \/ /\ subject = "versions" /\ (MakeNext \/ LifeNext) /\ OneCreates
        /\ UNCHANGED <<vars, accessVars>>
     \/ subject = "access" /\ AccessNext /\ UNCHANGED <<vars, numberVars, versionVars>>
  /\ UNCHANGED subject

MCSpec == MCInit /\ [][MCNext]_<<vars, numberVars, versionVars, accessVars, subject>>

Alike == Permutations({bomA, bomB}) \union Permutations(Caller)
           \union Permutations(Role) \union Permutations(Admin)
=============================================================================
