------------------------------- MODULE Approval -------------------------------
(***************************************************************************)
(* Approvals (apps/workflow/services.py) and the documents they decide on: *)
(* sales and purchase orders, purchase requisitions, BOMs and routings.    *)
(*                                                                         *)
(* Submitting a document creates an instance that goes through the steps   *)
(* of a route; users may also file one by hand, for any document and with  *)
(* any template.  The last decision calls back into the module of the      *)
(* document named, in the same transaction: that is the part split into    *)
(* steps here, because what is read and locked in between differs between  *)
(* modules.  Every other call locks its row first and is one step.         *)
(*                                                                         *)
(* Abstracted: what a document says is a content number; a template stands *)
(* for one of them with an amount and a department, and its route for the  *)
(* candidates of the nodes that match.                                     *)
(***************************************************************************)
EXTENDS Integers, Sequences, FiniteSets

CONSTANTS
  Document,
  Kind,           \* the biz_type of each document
  Scope,          \* style and SKU of each BOM or routing
  User,
  Applicants,     \* users who may submit documents
  Filers,         \* users who may file approvals by hand
  Template,
  TemplateOf,     \* the template each document is submitted with
  Route,          \* the candidates of each step, by template
  SelfApproval,   \* templates that let applicants approve
  ScansByStatus,  \* the optimizer finds versions in force by their status, not their scope
  MaxInstances, MaxEdits   \* bounds on a behaviour

Kinds == {"sales.order", "procurement.order", "procurement.requisition",
          "planning.bom", "planning.routing"}

ASSUME InputsTyped ==
  /\ Kind \in [Document -> Kinds]
  /\ Applicants \subseteq User /\ Filers \subseteq User
  /\ TemplateOf \in [Document -> Template] /\ SelfApproval \subseteq Template
  /\ Route \in [Template -> Seq(SUBSET User)]
  /\ \A t \in Template : Len(Route[t]) > 0
  /\ ScansByStatus \in BOOLEAN
  /\ MaxInstances \in Nat /\ MaxEdits \in Nat

VARIABLES
  docs,       \* the documents' rows: status, content and approval_instance
  instances,  \* ApprovalInstance rows with their steps, in the order of their ids
  deciding,   \* the transaction each user has open to end an approval
  editing,    \* rows of requisitions that were read to be changed
  edits       \* contents written so far

vars == <<docs, instances, deciding, editing, edits>>

DocStatus == {"draft", "submitted", "approved", "rejected", "cancelled", "obsolete"}
Outcomes == {"approved", "rejected", "withdrawn"}
\* approval is the id of the instance that was made at the last submission.
Row == [status : DocStatus, content : Nat, approval : Nat]
\* content is what was submitted; filed tells those that were made by hand; steps
\* before step are approved, approvals says by whom.
Instance == [doc : Document, content : Nat, applicant : User, template : Template,
             filed : BOOLEAN, status : Outcomes \union {"draft", "pending"},
             step : Nat \ {0}, approvals : Seq(User)]
\* applies tells whether the document was found submitted, found are the
\* versions in force that the new one replaces.
Decision == [stage : {"idle", "decided", "read", "replaced"}, instance : Nat,
             outcome : Outcomes, applies : BOOLEAN, found : SUBSET Document]

Idle == [stage |-> "idle", instance |-> 0, outcome |-> "withdrawn",
         applies |-> FALSE, found |-> {}]

TypeOK ==
  /\ docs \in [Document -> Row]
  /\ instances \in Seq(Instance)
  /\ \A i \in 1..Len(instances) : instances[i].step <= Len(Route[instances[i].template])
  /\ deciding \in [User -> Decision]
  /\ \A u \in User : deciding[u].stage # "idle" => deciding[u].instance \in 1..Len(instances)
  /\ editing \subseteq [doc : Document, approval : Nat]
  /\ edits \in 0..MaxEdits

Init ==
  /\ docs = [d \in Document |-> [status |-> "draft", content |-> 0, approval |-> 0]]
  /\ instances = <<>>
  /\ deciding = [u \in User |-> Idle]
  /\ editing = {}
  /\ edits = 0

-----------------------------------------------------------------------------
(* Row locks.                                                              *)

\* BOMs and routings are versions of which one is in force.
Versioned(d) == Kind[d] \in {"planning.bom", "planning.routing"}

InstanceFree(i) == \A u \in User : deciding[u].stage # "idle" => deciding[u].instance # i

DocumentOf(u) == instances[deciding[u].instance].doc

\* Only the callbacks of BOMs and routings lock the document they read.
Locks(u, d) ==
  \/ deciding[u].stage \in {"read", "replaced"} /\ Versioned(DocumentOf(u)) /\ DocumentOf(u) = d
  \/ d \in deciding[u].found

DocumentFree(d) == \A u \in User : ~ Locks(u, d)

-----------------------------------------------------------------------------
(* The documents.                                                          *)

\* Bug: submitted documents can still be changed.
UpdateAnytime(d) ==
  /\ Kind[d] # "procurement.requisition" /\ DocumentFree(d) /\ edits < MaxEdits
  /\ docs[d].status \in {"draft", "submitted"}
  /\ docs' = [docs EXCEPT ![d].content = edits + 1]
  /\ edits' = edits + 1
  /\ UNCHANGED <<instances, deciding, editing>>

UpdateDocument(d) ==
  /\ Kind[d] # "procurement.requisition" /\ DocumentFree(d) /\ edits < MaxEdits
  /\ docs[d].status = "draft"
  /\ docs' = [docs EXCEPT ![d].content = edits + 1]
  /\ edits' = edits + 1
  /\ UNCHANGED <<instances, deciding, editing>>

\* update_requisition judges the row its caller read, without a lock ...
ReadRequisition(d) ==
  /\ Kind[d] = "procurement.requisition" /\ \A row \in editing : row.doc # d
  /\ docs[d].status = "draft"
  /\ editing' = editing \union {[doc |-> d, approval |-> docs[d].approval]}
  /\ UNCHANGED <<docs, instances, deciding, edits>>

\* ... and saves every field of it, the status too.
SaveRequisition(row) ==
  /\ row \in editing /\ edits < MaxEdits
  /\ docs' = [docs EXCEPT ![row.doc] =
       [status |-> "draft", content |-> edits + 1, approval |-> row.approval]]
  /\ editing' = editing \ {row}
  /\ edits' = edits + 1
  /\ UNCHANGED <<instances, deciding>>

\* What create_instance stores, and submit_instance at once for a document's own.
NewInstance(u, d, t, byHand) ==
  [doc |-> d, content |-> docs[d].content, applicant |-> u, template |-> t,
   filed |-> byHand, status |-> IF byHand THEN "draft" ELSE "pending", step |-> 1, approvals |-> <<>>]

\* create_instance, submit_instance and the status, in one transaction.
Submit(u, d) ==
  /\ DocumentFree(d) /\ Len(instances) < MaxInstances
  /\ docs[d].status = "draft"
  /\ instances' = Append(instances, NewInstance(u, d, TemplateOf[d], FALSE))
  /\ docs' = [docs EXCEPT ![d] = [@ EXCEPT !.status = "submitted", !.approval = Len(instances) + 1]]
  /\ UNCHANGED <<deciding, editing, edits>>

\* An approval filed by hand: nobody looks at the document it names.
CreateInstance(u, d, t) ==
  /\ Len(instances) < MaxInstances
  /\ instances' = Append(instances, NewInstance(u, d, t, TRUE))
  /\ UNCHANGED <<docs, deciding, editing, edits>>

\* Whoever may file approvals and sees this one submits it.
SubmitInstance(i) ==
  /\ instances[i].status = "draft"
  /\ instances' = [instances EXCEPT ![i].status = "pending"]
  /\ UNCHANGED <<docs, deciding, editing, edits>>

\* An order that was shipped or received, or a requisition that was ordered, is
\* beyond this module.
Cancellable(d) ==
  CASE Kind[d] = "sales.order" -> {"draft", "submitted", "approved"}
    [] Kind[d] \in {"procurement.order", "procurement.requisition"} -> DocStatus \ {"cancelled"}
    [] OTHER -> {}

\* The approvals of the document stay as they are.
Cancel(d) ==
  /\ docs[d].status \in Cancellable(d)
  /\ docs' = [docs EXCEPT ![d].status = "cancelled"]
  /\ UNCHANGED <<instances, deciding, editing, edits>>

Obsolete(d) ==
  /\ Versioned(d) /\ DocumentFree(d)
  /\ docs[d].status \notin {"obsolete", "submitted"}
  /\ docs' = [docs EXCEPT ![d].status = "obsolete"]
  /\ UNCHANGED <<instances, deciding, editing, edits>>

-----------------------------------------------------------------------------
(* Decisions.                                                              *)

CanDecide(u, i) ==
  LET instance == instances[i] IN
  /\ instance.status = "pending"
  /\ u \in Route[instance.template][instance.step]
  /\ u = instance.applicant => instance.template \in SelfApproval

LastStep(i) == instances[i].step = Len(Route[instances[i].template])

\* approve_instance before the last step.
ApproveStep(u, i) ==
  /\ deciding[u] = Idle /\ InstanceFree(i)
  /\ CanDecide(u, i) /\ ~ LastStep(i)
  /\ instances' = [instances EXCEPT ![i] =
       [instances[i] EXCEPT !.step = @ + 1, !.approvals = Append(@, u)]]
  /\ UNCHANGED <<docs, deciding, editing, edits>>

\* Who may end approval i with which outcome.
MayEnd(u, i, outcome) ==
  CASE outcome = "approved"  -> CanDecide(u, i) /\ LastStep(i)
    [] outcome = "rejected"  -> CanDecide(u, i)
    [] outcome = "withdrawn" -> instances[i].status = "pending" /\ u = instances[i].applicant

\* The last approve_instance, reject_instance or withdraw_instance, up to the
\* callback.  What it writes becomes visible with its commit.
Decide(u, i, outcome) ==
  /\ deciding[u] = Idle /\ InstanceFree(i)
  /\ MayEnd(u, i, outcome)
  /\ deciding' = [deciding EXCEPT ![u] =
       [Idle EXCEPT !.stage = "decided", !.instance = i, !.outcome = outcome]]
  /\ UNCHANGED <<docs, instances, editing, edits>>

\* The callback reads the document, and does not ask whether the instance is the
\* document's approval_instance.
ReadDocument(u) ==
  /\ deciding[u].stage = "decided"
  /\ Versioned(DocumentOf(u)) => DocumentFree(DocumentOf(u))
  /\ deciding' = [deciding EXCEPT ![u] =
       [@ EXCEPT !.stage = "read", !.applies = docs[DocumentOf(u)].status = "submitted"]]
  /\ UNCHANGED <<docs, instances, editing, edits>>

\* A version that was approved replaces those in force.
Replaces(u) == deciding[u].applies /\ deciding[u].outcome = "approved" /\ Versioned(DocumentOf(u))

Rivals(d) == {v \in Document \ {d} : Versioned(v) /\ Kind[v] = Kind[d] /\ Scope[v] = Scope[d]}

InForce(d) == docs[d].status = "approved"

\* Bug: the versions in force are read without a lock.
ReplaceUnlocked(u) ==
  LET old == {v \in Rivals(DocumentOf(u)) : InForce(v)} IN
  /\ deciding[u].stage = "read" /\ Replaces(u)
  /\ deciding' = [deciding EXCEPT ![u] = [@ EXCEPT !.stage = "replaced", !.found = old]]
  /\ UNCHANGED <<docs, instances, editing, edits>>

\* A locking read waits for the rows it scans: those of the scope, or, by the
\* index on status, those in force.
ReplaceVersions(u) ==
  LET old == {v \in Rivals(DocumentOf(u)) : InForce(v)}
      scanned == IF ScansByStatus THEN old ELSE Rivals(DocumentOf(u))
  IN
  /\ deciding[u].stage = "read" /\ Replaces(u)
  /\ \A v \in scanned : DocumentFree(v)
  /\ deciding' = [deciding EXCEPT ![u] = [@ EXCEPT !.stage = "replaced", !.found = old]]
  /\ UNCHANGED <<docs, instances, editing, edits>>

\* Bug: a withdrawal is not applied.
OutcomeStuck(outcome) == IF outcome = "withdrawn" THEN "submitted" ELSE outcome

OutcomeStatus(outcome) == IF outcome = "withdrawn" THEN "draft" ELSE outcome

\* Writes the outcome and commits.
Conclude(u) ==
  LET i == deciding[u].instance
      outcome == deciding[u].outcome
  IN
  /\ deciding[u].stage = IF Replaces(u) THEN "replaced" ELSE "read"
  /\ instances' = [instances EXCEPT ![i] =
       [instances[i] EXCEPT
          !.status = outcome,
          !.approvals = IF outcome = "approved" THEN Append(@, u) ELSE @]]
  /\ docs' = [d \in Document |->
       IF deciding[u].applies /\ d = DocumentOf(u)
         THEN [docs[d] EXCEPT !.status = OutcomeStatus(outcome)]
       ELSE IF d \in deciding[u].found THEN [docs[d] EXCEPT !.status = "obsolete"]
       ELSE docs[d]]
  /\ deciding' = [deciding EXCEPT ![u] = Idle]
  /\ UNCHANGED <<editing, edits>>

\* The process dies, or the database ends a circle of waits.
RollBack(u) ==
  /\ deciding[u] # Idle
  /\ deciding' = [deciding EXCEPT ![u] = Idle]
  /\ UNCHANGED <<docs, instances, editing, edits>>

-----------------------------------------------------------------------------
ChangeDocument(d) ==
  \/ UpdateDocument(d) \/ ReadRequisition(d)
  \/ Cancel(d) \/ Obsolete(d)
  \/ \E u \in Applicants : Submit(u, d)

Next ==
  \/ \E d \in Document : ChangeDocument(d)
  \/ \E row \in editing : SaveRequisition(row)
  \/ \E u \in Filers, d \in Document, t \in Template : CreateInstance(u, d, t)
  \/ \E i \in 1..Len(instances) : SubmitInstance(i)
  \/ \E u \in User, i \in 1..Len(instances) :
       ApproveStep(u, i) \/ \E outcome \in Outcomes : Decide(u, i, outcome)
  \/ \E u \in User : ReadDocument(u) \/ ReplaceVersions(u) \/ Conclude(u) \/ RollBack(u)

Spec == Init /\ [][Next]_vars

-----------------------------------------------------------------------------
(* What approvals promise.                                                 *)

\* Documents whose updates lock the row they judge: all but requisitions.
Guarded(d) == Kind[d] # "procurement.requisition"

\* Somebody submitted an approval of document d that was filed by hand.
HandMade(d) == \E i \in 1..Len(instances) :
  instances[i].doc = d /\ instances[i].filed /\ instances[i].status # "draft"

\* What is approved is what was submitted for it: between submission and outcome
\* nobody changes the document, however edits, withdrawals, cancellations and
\* decisions interleave (docs/architecture.md, ADR-06: frozen once approved).
\* Some approval of it was given, and it is that of the submission, unless others
\* were filed by hand.  Those decide a document as well as its own; where the
\* callback takes no lock, two of them may even leave a later draft approved.
ApprovedAsSubmitted ==
  \A d \in Document : Guarded(d) /\ docs[d].status = "approved" =>
    LET own == instances[docs[d].approval] IN
    /\ Versioned(d) \/ ~ HandMade(d) => own.content = docs[d].content
    /\ ~ HandMade(d) => own.status = "approved"
    /\ \E i \in 1..Len(instances) : instances[i].doc = d /\ instances[i].status = "approved"

\* A document that waits for a decision has its own approval, made at this very
\* submission, still to be decided: nothing is stuck, whatever was filed by hand.
\* No other approval can decide it but one filed by hand, or one left open when
\* such a one ended: no decision taken on an earlier submission reaches a later one.
SubmittedAwaitsDecision ==
  \A d \in Document : Guarded(d) /\ docs[d].status = "submitted" =>
    LET own == instances[docs[d].approval] IN
    /\ own.doc = d /\ own.status = "pending" /\ own.content = docs[d].content
    /\ \A i \in 1..Len(instances) :
         /\ i # docs[d].approval
         /\ instances[i].doc = d /\ instances[i].status = "pending"
         => HandMade(d)

\* However many candidates decide at once, or meet a withdrawal: each step is
\* approved once, by a candidate of that step who is not the applicant, and an
\* instance is approved when all its steps are.
EveryStepDecidedOnce ==
  \A i \in 1..Len(instances) :
    LET instance == instances[i]
        route == Route[instance.template]
    IN
    /\ Len(instance.approvals) =
         IF instance.status = "approved" THEN Len(route) ELSE instance.step - 1
    /\ \A k \in 1..Len(instance.approvals) :
         /\ instance.approvals[k] \in route[k]
         /\ instance.approvals[k] = instance.applicant => instance.template \in SelfApproval

\* docs/assumptions.md A-27: of one style and SKU at most one version is in force,
\* which the services ensure by locking reads.
OneVersionInForce ==
  \A d, v \in Document : InForce(d) /\ InForce(v) /\ v \in Rivals(d) => FALSE
=============================================================================
