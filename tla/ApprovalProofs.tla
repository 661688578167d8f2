---------------------------- MODULE ApprovalProofs ----------------------------
(***************************************************************************)
(* Theorems about Approval, for any documents, routes, users and bounds,   *)
(* and about Versions and their Numbers, for any scopes, callers, days and *)
(* rules.                                                                  *)
(***************************************************************************)
EXTENDS Approval, Versions, SequenceTheorems, FiniteSetTheorems, TLAPS

Pending(i) == instances[i].status = "pending"

\* Cancelled under a decision.
Dropped(d) == docs[d].status = "cancelled" /\ ~ Versioned(d)

\* The approval a document was submitted with, where nobody filed another by hand:
\* while it is pending, the document waits for it, or was cancelled meanwhile.
OwnPending ==
  \A i \in 1..Len(instances) :
    LET d == instances[i].doc IN
    Pending(i) /\ ~ instances[i].filed /\ Guarded(d) /\ ~ HandMade(d) =>
      /\ i = docs[d].approval
      /\ docs[d].status = "submitted" \/ Dropped(d)
      /\ docs[d].content = instances[i].content

\* What is submitted has its own approval pending.
SubmittedOwn ==
  \A d \in Document : Guarded(d) /\ docs[d].status = "submitted" =>
    LET own == docs[d].approval IN
    /\ own \in 1..Len(instances) /\ instances[own].doc = d /\ Pending(own)
    /\ instances[own].content = docs[d].content

\* ApprovedAsSubmitted, of an approval that exists.
ApprovedOwn ==
  \A d \in Document : Guarded(d) /\ docs[d].status = "approved" =>
    LET own == docs[d].approval IN
    /\ Versioned(d) \/ ~ HandMade(d) =>
         own \in 1..Len(instances) /\ instances[own].content = docs[d].content
    /\ ~ HandMade(d) => instances[own].status = "approved"
    /\ \E i \in 1..Len(instances) : instances[i].doc = d /\ instances[i].status = "approved"

\* Only approvals filed by hand wait for submission.
DraftsFiled == \A i \in 1..Len(instances) : instances[i].status = "draft" => instances[i].filed

EditingUnguarded == \A row \in editing : ~ Guarded(row.doc)

\* The callback of user u has read its document.
HasRead(u) == deciding[u].stage \in {"read", "replaced"}

\* The open transaction of user u still may do what it set out to do: what it found
\* submitted stays so under its lock, and no document waits for an approval whose
\* callback found it otherwise.
DecisionHolds(u) ==
  /\ MayEnd(u, deciding[u].instance, deciding[u].outcome)
  /\ deciding[u].found # {} => deciding[u].stage = "replaced"
  /\ deciding[u].stage = "replaced" => Replaces(u)
  /\ HasRead(u) /\ ~ deciding[u].applies /\ Guarded(DocumentOf(u)) =>
       ~ (/\ docs[DocumentOf(u)].status = "submitted"
          /\ docs[DocumentOf(u)].approval = deciding[u].instance)
  /\ HasRead(u) /\ deciding[u].applies /\ Versioned(DocumentOf(u)) =>
       docs[DocumentOf(u)].status = "submitted"

DecisionsHold ==
  \A u \in User :
    /\ deciding[u].stage = "idle" => deciding[u] = Idle
    /\ deciding[u].stage # "idle" => DecisionHolds(u)

\* Nobody else decides the same instance or replaces the same version.
DecisionsDisjoint ==
  \A u, w \in User : u # w =>
    /\ deciding[u].stage # "idle" /\ deciding[w].stage # "idle" =>
         deciding[u].instance # deciding[w].instance
    /\ deciding[u].found \intersect deciding[w].found = {}
    /\ HasRead(u) /\ HasRead(w) /\ Versioned(DocumentOf(u)) => DocumentOf(u) # DocumentOf(w)

\* What a decision will make obsolete are versions that are in force.
FoundInForce ==
  \A u \in User : \A v \in deciding[u].found : v \in Rivals(DocumentOf(u)) /\ InForce(v)

Inv ==
  /\ TypeOK
  /\ EveryStepDecidedOnce
  /\ ApprovedOwn
  /\ OwnPending
  /\ SubmittedOwn
  /\ DraftsFiled
  /\ EditingUnguarded
  /\ DecisionsHold
  /\ DecisionsDisjoint
  /\ FoundInForce

-----------------------------------------------------------------------------
(* Reading the invariant.                                                  *)

\* Who may end an approval finds it pending.
LEMMA EndsPending ==
  ASSUME NEW u \in User, NEW i, NEW outcome \in Outcomes, MayEnd(u, i, outcome)
  PROVE  Pending(i)
BY DEF MayEnd, CanDecide, Pending, Outcomes

\* Whether one may end it depends on nothing but the instance.
LEMMA MayEndFrame ==
  ASSUME NEW u \in User, NEW i, NEW outcome \in Outcomes, MayEnd(u, i, outcome),
         instances'[i] = instances[i]
  PROVE  MayEnd(u, i, outcome)'
BY DEF MayEnd, CanDecide, LastStep, Outcomes

\* Documents that are versions are not requisitions.
LEMMA VersionsGuarded ==
  ASSUME NEW d, Versioned(d)
  PROVE  Guarded(d)
BY DEF Versioned, Guarded

\* The fields of an instance row.
LEMMA InstanceTyped ==
  ASSUME TypeOK, NEW i \in 1..Len(instances)
  PROVE  /\ instances[i] \in Instance
         /\ instances[i].doc \in Document /\ instances[i].template \in Template
         /\ instances[i].step \in 1..Len(Route[instances[i].template])
         /\ instances[i].approvals \in Seq(User)
<1>1. instances[i] \in Instance
  BY DEF TypeOK
<1>2. instances[i].step \in Nat \ {0} /\ instances[i].doc \in Document
      /\ instances[i].template \in Template /\ instances[i].approvals \in Seq(User)
  BY <1>1 DEF Instance
<1>3. Len(Route[instances[i].template]) \in Nat
  BY <1>2, InputsTyped
<1> QED
  BY <1>1, <1>2, <1>3 DEF TypeOK

\* Approvals that keep their document and stay submitted by hand, or not, leave
\* what is HandMade as it is.
LEMMA HandMadeFrame ==
  ASSUME NEW d, Len(instances') = Len(instances),
         \A i \in 1..Len(instances) :
           /\ instances'[i].doc = instances[i].doc /\ instances'[i].filed = instances[i].filed
           /\ instances'[i].status = "draft" <=> instances[i].status = "draft"
  PROVE  HandMade(d)' <=> HandMade(d)
BY DEF HandMade

\* So does one more that is not submitted by hand.
LEMMA HandMadeAppend ==
  ASSUME NEW d, Len(instances) \in Nat, Len(instances') = Len(instances) + 1,
         \A i \in 1..Len(instances) : instances'[i] = instances[i],
         ~ instances'[Len(instances) + 1].filed \/ instances'[Len(instances) + 1].status = "draft"
  PROVE  HandMade(d)' <=> HandMade(d)
<1>1. \A i \in 1..Len(instances') : i \in 1..Len(instances) \/ i = Len(instances) + 1
  OBVIOUS
<1>2. \A i \in 1..Len(instances) : i \in 1..Len(instances')
  OBVIOUS
<1> QED
  BY <1>1, <1>2 DEF HandMade

\* A transaction holds as long as its instance stays, its document does not come to
\* wait for it, and what it locked stays submitted.
LEMMA DecisionFrame ==
  ASSUME NEW u \in User, deciding[u] \in Decision, DecisionHolds(u),
         deciding'[u] = deciding[u],
         instances'[deciding[u].instance] = instances[deciding[u].instance],
         NEW d, d = DocumentOf(u),
         Guarded(d) /\ docs'[d].status = "submitted" /\ docs'[d].approval = deciding[u].instance =>
           docs[d].status = "submitted" /\ docs[d].approval = deciding[u].instance,
         HasRead(u) /\ Versioned(d) /\ docs[d].status = "submitted" => docs'[d].status = "submitted"
  PROVE  DecisionHolds(u)' /\ DocumentOf(u)' = DocumentOf(u) /\ (HasRead(u)' <=> HasRead(u))
<1>1. DocumentOf(u)' = d
  BY DEF DocumentOf
<1>2. MayEnd(u, deciding[u].instance, deciding[u].outcome)'
  BY MayEndFrame DEF DecisionHolds, Decision
<1>3. (Replaces(u)' <=> Replaces(u)) /\ (HasRead(u)' <=> HasRead(u))
  BY <1>1 DEF Replaces, HasRead
<1> QED
  BY <1>1, <1>2, <1>3 DEF DecisionHolds

\* Appending adds one element at the end.
LEMMA AppendFacts ==
  ASSUME NEW S, NEW s \in Seq(S), NEW e \in S
  PROVE  /\ Append(s, e) \in Seq(S) /\ Len(Append(s, e)) = Len(s) + 1
         /\ Append(s, e)[Len(s) + 1] = e
         /\ \A k \in 1..Len(Append(s, e)) :
              k = Len(s) + 1 \/ (k \in 1..Len(s) /\ Append(s, e)[k] = s[k])
OBVIOUS

LEMMA InitInv == Init => Inv
<1> SUFFICES ASSUME Init PROVE Inv
  OBVIOUS
<1> USE DEF Init
<1>1. TypeOK
  BY InputsTyped DEF TypeOK, Row, Idle, Decision, Outcomes, DocStatus
<1>2. EveryStepDecidedOnce /\ OwnPending /\ DraftsFiled
  BY DEF EveryStepDecidedOnce, OwnPending, DraftsFiled
<1>3. ApprovedOwn /\ SubmittedOwn
  BY DEF ApprovedOwn, SubmittedOwn
<1>4. EditingUnguarded /\ DecisionsHold /\ DecisionsDisjoint /\ FoundInForce
  BY DEF EditingUnguarded, DecisionsHold, DecisionsDisjoint, HasRead, FoundInForce, Idle
<1> QED
  BY <1>1, <1>2, <1>3, <1>4 DEF Inv

-----------------------------------------------------------------------------
(* Steps that change one document and nothing else.                        *)

LEMMA DocumentChange ==
  ASSUME Inv, NEW d \in Document, NEW row \in Row,
         docs' = [docs EXCEPT ![d] = row],
         UNCHANGED <<instances, deciding>>,
         editing' \subseteq [doc : Document, approval : Nat], EditingUnguarded', edits' \in 0..MaxEdits,
         Guarded(d) => row.status \notin {"approved", "submitted"} /\ row.approval = docs[d].approval,
         Guarded(d) /\ (docs[d].status = "submitted" \/ Dropped(d)) =>
           row.status = "cancelled" /\ row.content = docs[d].content /\ ~ Versioned(d),
         Versioned(d) /\ InForce(d) => DocumentFree(d)
  PROVE  Inv'
<1>0. /\ \A e \in Document \ {d} : docs'[e] = docs[e]
      /\ docs'[d] = row
  BY DEF Inv, TypeOK
<1>1. TypeOK'
  BY DEF Inv, TypeOK
<1>2. EveryStepDecidedOnce' /\ DraftsFiled'
  BY DEF Inv, EveryStepDecidedOnce, DraftsFiled
<1>3. \A e : HandMade(e)' <=> HandMade(e)
  BY DEF HandMade
<1>4. \A i \in 1..Len(instances) : instances[i].doc \in Document
  BY InstanceTyped DEF Inv
<1>10. ApprovedOwn'
  BY <1>0, <1>3 DEF Inv, ApprovedOwn
<1>5. OwnPending'
  BY <1>0, <1>3, <1>4 DEF Inv, OwnPending, Pending, Dropped
<1>6. SubmittedOwn'
  BY <1>0 DEF Inv, SubmittedOwn, Pending
<1>11. \A u \in User : deciding[u].stage # "idle" => DecisionHolds(u)' /\ DocumentOf(u)' = DocumentOf(u)
  <2> SUFFICES ASSUME NEW u \in User, deciding[u].stage # "idle"
               PROVE  DecisionHolds(u)' /\ DocumentOf(u)' = DocumentOf(u)
    OBVIOUS
  <2>1. DecisionHolds(u) /\ deciding[u].instance \in 1..Len(instances) /\ deciding[u] \in Decision
    BY DEF Inv, DecisionsHold, TypeOK
  <2>2. PICK e \in Document : e = DocumentOf(u)
    BY <2>1, <1>4 DEF DocumentOf
  <2>3. Guarded(e) /\ docs'[e].status = "submitted" => docs'[e] = docs[e]
    BY <1>0
  <2>4. Versioned(e) /\ docs[e].status = "submitted" => docs'[e].status = "submitted"
    BY <1>0, VersionsGuarded
  <2> QED
    BY <2>1, <2>2, <2>3, <2>4, DecisionFrame
<1>7. DecisionsHold'
  BY <1>11 DEF Inv, DecisionsHold
<1>8. DecisionsDisjoint'
  BY DEF Inv, DecisionsDisjoint, HasRead, DocumentOf
<1>9. FoundInForce'
  <2> SUFFICES ASSUME NEW u \in User, NEW v \in deciding[u].found
               PROVE  v \in Rivals(DocumentOf(u))' /\ InForce(v)'
    BY DEF FoundInForce
  <2>1. v \in Rivals(DocumentOf(u)) /\ InForce(v)
    BY DEF Inv, FoundInForce
  <2>2. v \in Document /\ v # d
    BY <2>1 DEF Rivals, DocumentFree, Locks
  <2> QED
    BY <2>1, <2>2, <1>0 DEF Rivals, InForce, DocumentOf
<1> QED
  BY <1>1, <1>2, <1>5, <1>6, <1>7, <1>8, <1>9, <1>10 DEF Inv

LEMMA UpdateDocumentStep ==
  ASSUME Inv, NEW d \in Document, UpdateDocument(d)
  PROVE  Inv'
<1> DEFINE row == [docs[d] EXCEPT !.content = edits + 1]
<1>1. docs[d] \in Row /\ edits \in Nat /\ edits + 1 \in 0..MaxEdits
  BY InputsTyped DEF Inv, TypeOK, UpdateDocument
<1>2. docs' = [docs EXCEPT ![d] = row]
  BY <1>1 DEF UpdateDocument, Row
<1>3. row \in Row /\ row.status = "draft" /\ row.approval = docs[d].approval
  BY <1>1 DEF UpdateDocument, Row
<1>4. editing' \subseteq [doc : Document, approval : Nat] /\ EditingUnguarded' /\ edits' \in 0..MaxEdits
  BY <1>1 DEF UpdateDocument, Inv, TypeOK, EditingUnguarded, Guarded
<1>5. docs[d].status = "draft" /\ UNCHANGED <<instances, deciding>>
  BY DEF UpdateDocument
<1> HIDE DEF row
<1> QED
  BY <1>2, <1>3, <1>4, <1>5, DocumentChange DEF Dropped, InForce

LEMMA SaveRequisitionStep ==
  ASSUME Inv, NEW old \in editing, SaveRequisition(old)
  PROVE  Inv'
<1> DEFINE row == [status |-> "draft", content |-> edits + 1, approval |-> old.approval]
<1>1. PICK d \in Document : d = old.doc
  BY DEF Inv, TypeOK
<1>2. ~ Guarded(d) /\ edits \in Nat /\ edits + 1 \in 0..MaxEdits /\ old.approval \in Nat
  BY <1>1, InputsTyped DEF Inv, TypeOK, SaveRequisition, EditingUnguarded
<1>3. row \in Row
  BY <1>2 DEF DocStatus, Row
<1>4. editing' \subseteq [doc : Document, approval : Nat] /\ EditingUnguarded' /\ edits' \in 0..MaxEdits
  BY <1>2 DEF SaveRequisition, Inv, TypeOK, EditingUnguarded, Guarded
<1>5. docs' = [docs EXCEPT ![d] = row] /\ UNCHANGED <<instances, deciding>>
  BY <1>1 DEF SaveRequisition
<1>6. ~ Versioned(d)
  BY <1>2, VersionsGuarded
<1> HIDE DEF row
<1> QED
  BY <1>2, <1>3, <1>4, <1>5, <1>6, DocumentChange

\* Steps that change neither documents nor approvals.
LEMMA ApprovalsStay ==
  ASSUME Inv, UNCHANGED <<docs, instances>>
  PROVE  /\ EveryStepDecidedOnce' /\ ApprovedOwn' /\ OwnPending' /\ SubmittedOwn' /\ DraftsFiled'
         /\ \A u \in User : deciding[u].stage # "idle" /\ deciding'[u] = deciding[u] =>
              DecisionHolds(u)' /\ DocumentOf(u)' = DocumentOf(u)
<1>1. \A d : HandMade(d)' <=> HandMade(d)
  BY DEF HandMade
<1>2. EveryStepDecidedOnce' /\ DraftsFiled'
  BY DEF Inv, EveryStepDecidedOnce, DraftsFiled
<1>3. ApprovedOwn' /\ SubmittedOwn'
  BY <1>1 DEF Inv, ApprovedOwn, SubmittedOwn, Pending
<1>4. OwnPending'
  BY <1>1 DEF Inv, OwnPending, Pending, Dropped
<1>5. \A u \in User : deciding[u].stage # "idle" => DecisionHolds(u) /\ deciding[u] \in Decision
  BY DEF Inv, TypeOK, DecisionsHold
<1>6. ASSUME NEW u \in User, deciding[u].stage # "idle", deciding'[u] = deciding[u]
      PROVE  DecisionHolds(u)' /\ DocumentOf(u)' = DocumentOf(u)
  BY <1>5, <1>6, DecisionFrame
<1> QED
  BY <1>2, <1>3, <1>4, <1>6

LEMMA ReadRequisitionStep ==
  ASSUME Inv, NEW d \in Document, ReadRequisition(d)
  PROVE  Inv'
<1>1. docs[d].approval \in Nat
  BY DEF Inv, TypeOK, Row
<1>2. UNCHANGED <<docs, instances, deciding, edits>>
      /\ editing' = editing \union {[doc |-> d, approval |-> docs[d].approval]} /\ ~ Guarded(d)
  BY DEF ReadRequisition, Guarded
<1>3. editing' \subseteq [doc : Document, approval : Nat]
  BY <1>1, <1>2 DEF Inv, TypeOK
<1>4. TypeOK'
  BY <1>2, <1>3 DEF Inv, TypeOK
<1>5. EditingUnguarded'
  BY <1>2 DEF Inv, EditingUnguarded, Guarded
<1>6. DecisionsHold' /\ DecisionsDisjoint'
  BY <1>2, ApprovalsStay DEF Inv, DecisionsHold, DecisionsDisjoint, HasRead, DocumentOf
<1>7. FoundInForce'
  BY <1>2 DEF Inv, FoundInForce, Rivals, InForce, DocumentOf
<1> QED
  BY <1>2, <1>4, <1>5, <1>6, <1>7, ApprovalsStay DEF Inv

LEMMA CancelStep ==
  ASSUME Inv, NEW d \in Document, Cancel(d)
  PROVE  Inv'
<1> DEFINE row == [docs[d] EXCEPT !.status = "cancelled"]
<1>1. docs[d] \in Row
  BY DEF Inv, TypeOK
<1>2. docs' = [docs EXCEPT ![d] = row]
  BY <1>1 DEF Cancel, Row
<1>3. row \in Row /\ row.status = "cancelled" /\ row.content = docs[d].content
      /\ row.approval = docs[d].approval
  BY <1>1 DEF DocStatus, Row
<1>4. Kind[d] \in Kinds
  BY InputsTyped
<1>5. ~ Versioned(d)
  BY <1>4 DEF Cancel, Cancellable, Versioned, Kinds
<1>6. editing' \subseteq [doc : Document, approval : Nat] /\ EditingUnguarded' /\ edits' \in 0..MaxEdits
  BY DEF Cancel, Inv, TypeOK, EditingUnguarded, Guarded
<1>7. UNCHANGED <<instances, deciding>>
  BY DEF Cancel
<1> HIDE DEF row
<1> QED
  BY <1>2, <1>3, <1>5, <1>6, <1>7, DocumentChange

LEMMA ObsoleteStep ==
  ASSUME Inv, NEW d \in Document, Obsolete(d)
  PROVE  Inv'
<1> DEFINE row == [docs[d] EXCEPT !.status = "obsolete"]
<1>1. docs[d] \in Row
  BY DEF Inv, TypeOK
<1>2. docs' = [docs EXCEPT ![d] = row]
  BY <1>1 DEF Obsolete, Row
<1>3. row \in Row /\ row.status = "obsolete" /\ row.content = docs[d].content
      /\ row.approval = docs[d].approval
  BY <1>1 DEF DocStatus, Row
<1>4. ~ (docs[d].status = "submitted" \/ Dropped(d))
  BY DEF Obsolete, Dropped
<1>5. editing' \subseteq [doc : Document, approval : Nat] /\ EditingUnguarded' /\ edits' \in 0..MaxEdits
  BY DEF Obsolete, Inv, TypeOK, EditingUnguarded, Guarded
<1>6. UNCHANGED <<instances, deciding>> /\ DocumentFree(d)
  BY DEF Obsolete
<1> HIDE DEF row
<1> QED
  BY <1>2, <1>3, <1>4, <1>5, <1>6, DocumentChange

-----------------------------------------------------------------------------
(* Steps that change one user's transaction and nothing else.              *)

LEMMA DecidingChange ==
  ASSUME Inv, NEW u \in User, NEW decision \in Decision,
         deciding' = [deciding EXCEPT ![u] = decision],
         UNCHANGED <<docs, instances, editing, edits>>,
         decision.stage = "idle" => decision = Idle,
         decision.stage # "idle" =>
           /\ decision.instance \in 1..Len(instances)
           /\ DecisionHolds(u)'
           /\ \A w \in User \ {u} : deciding[w].stage # "idle" =>
                deciding[w].instance # decision.instance,
         \A w \in User \ {u} : deciding[w].found \intersect decision.found = {},
         decision.stage \in {"read", "replaced"} /\ Versioned(instances[decision.instance].doc) =>
           \A w \in User \ {u} : HasRead(w) => DocumentOf(w) # instances[decision.instance].doc,
         \A v \in decision.found : v \in Rivals(instances[decision.instance].doc) /\ InForce(v)
  PROVE  Inv'
<1>0. /\ \A w \in User \ {u} : deciding'[w] = deciding[w]
      /\ deciding'[u] = decision
  BY DEF Inv, TypeOK
<1>1. TypeOK'
  BY <1>0 DEF Inv, TypeOK
<1>2. EveryStepDecidedOnce' /\ ApprovedOwn' /\ OwnPending' /\ SubmittedOwn' /\ DraftsFiled'
  BY ApprovalsStay
<1>3. EditingUnguarded'
  BY DEF Inv, EditingUnguarded
<1>4. \A w \in User \ {u} : deciding[w].stage # "idle" => DecisionHolds(w)'
  BY <1>0, ApprovalsStay
<1>5. DecisionsHold'
  BY <1>0, <1>4 DEF Inv, DecisionsHold
<1>8. \A w \in User \ {u} : DocumentOf(w)' = DocumentOf(w) /\ (HasRead(w)' <=> HasRead(w))
  BY <1>0 DEF DocumentOf, HasRead
<1>9. DocumentOf(u)' = instances[decision.instance].doc
      /\ (HasRead(u)' <=> decision.stage \in {"read", "replaced"})
  BY <1>0 DEF DocumentOf, HasRead
<1>6. DecisionsDisjoint'
  <2> SUFFICES ASSUME NEW w \in User, NEW x \in User, w # x
               PROVE  /\ deciding'[w].stage # "idle" /\ deciding'[x].stage # "idle" =>
                           deciding'[w].instance # deciding'[x].instance
                      /\ deciding'[w].found \intersect deciding'[x].found = {}
                      /\ HasRead(w)' /\ HasRead(x)' /\ Versioned(DocumentOf(w)') =>
                           DocumentOf(w)' # DocumentOf(x)'
    BY DEF DecisionsDisjoint, Versioned
  <2>1. CASE w # u /\ x # u
    BY <2>1, <1>0, <1>8 DEF Inv, DecisionsDisjoint
  <2>2. CASE w = u
    BY <2>2, <1>0, <1>8, <1>9
  <2>3. CASE x = u
    BY <2>3, <1>0, <1>8, <1>9
  <2> QED
    BY <2>1, <2>2, <2>3
<1>7. FoundInForce'
  BY <1>0 DEF Inv, FoundInForce, DocumentOf, Rivals, InForce
<1> QED
  BY <1>1, <1>2, <1>3, <1>5, <1>6, <1>7 DEF Inv

LEMMA DecideStep ==
  ASSUME Inv, NEW u \in User, NEW i \in 1..Len(instances), NEW outcome \in Outcomes,
         Decide(u, i, outcome)
  PROVE  Inv'
<1> DEFINE decision == [Idle EXCEPT !.stage = "decided", !.instance = i, !.outcome = outcome]
<1>1. i \in Nat
  BY DEF Inv, TypeOK
<1>2. /\ decision \in Decision
      /\ decision.stage = "decided" /\ decision.instance = i /\ decision.outcome = outcome
      /\ decision.found = {}
  BY <1>1 DEF Idle, Decision
<1>3. deciding' = [deciding EXCEPT ![u] = decision] /\ UNCHANGED <<docs, instances, editing, edits>>
  BY DEF Decide
<1> HIDE DEF decision
<1>4. deciding'[u] = decision
  BY <1>3 DEF Inv, TypeOK
<1>5. MayEnd(u, i, outcome)'
  BY <1>3, MayEndFrame DEF Decide
<1>6. DecisionHolds(u)'
  BY <1>2, <1>4, <1>5 DEF DecisionHolds, HasRead
<1>7. \A w \in User \ {u} : deciding[w].stage # "idle" => deciding[w].instance # i
  BY DEF Decide, InstanceFree
<1> QED
  BY <1>2, <1>3, <1>6, <1>7, DecidingChange

LEMMA ReadDocumentStep ==
  ASSUME Inv, NEW u \in User, ReadDocument(u)
  PROVE  Inv'
<1> DEFINE submitted == docs[DocumentOf(u)].status = "submitted"
           decision == [deciding[u] EXCEPT !.stage = "read", !.applies = submitted]
<1>1. deciding[u] \in Decision /\ deciding[u].instance \in 1..Len(instances) /\ DecisionHolds(u)
  BY DEF Inv, TypeOK, DecisionsHold, ReadDocument
<1>2. PICK applies \in BOOLEAN : applies <=> submitted
  OBVIOUS
<1>3. decision = [deciding[u] EXCEPT !.stage = "read", !.applies = applies]
  BY <1>2
<1>4. deciding' = [deciding EXCEPT ![u] = decision] /\ UNCHANGED <<docs, instances, editing, edits>>
  BY DEF ReadDocument
<1>5. decision \in Decision
  BY <1>1, <1>3 DEF Decision
<1>6. /\ decision.stage = "read" /\ decision.applies = applies
      /\ decision.instance = deciding[u].instance /\ decision.outcome = deciding[u].outcome
      /\ decision.found = deciding[u].found
  BY <1>1, <1>3 DEF Decision
<1>7. deciding[u].found = {}
  BY <1>1 DEF DecisionHolds, ReadDocument
<1>8. Versioned(DocumentOf(u)) =>
        \A w \in User \ {u} : HasRead(w) => DocumentOf(w) # DocumentOf(u)
  BY DEF ReadDocument, DocumentFree, Locks, HasRead
<1>9. applies <=> docs[DocumentOf(u)].status = "submitted"
  BY <1>2
<1> HIDE DEF decision, submitted
<1>10. deciding'[u] = decision
  BY <1>4 DEF Inv, TypeOK
<1>11. MayEnd(u, deciding[u].instance, deciding[u].outcome)'
  <2>1. PICK i \in 1..Len(instances), o \in Outcomes :
          i = deciding[u].instance /\ o = deciding[u].outcome
    BY <1>1 DEF Decision
  <2>2. MayEnd(u, i, o)'
    BY <1>1, <1>4, <2>1, MayEndFrame DEF DecisionHolds
  <2>3. deciding'[u].instance = i /\ deciding'[u].outcome = o
    BY <1>6, <1>10, <2>1
  <2> QED
    BY <2>2, <2>3
<1>12. DocumentOf(u)' = DocumentOf(u)
  BY <1>4, <1>6, <1>10 DEF DocumentOf
<1>13. docs'[DocumentOf(u)] = docs[DocumentOf(u)]
  BY <1>4
<1>14. DecisionHolds(u)'
  BY <1>6, <1>7, <1>9, <1>10, <1>11, <1>12, <1>13 DEF DecisionHolds
<1>15. \A w \in User \ {u} : deciding[w].stage # "idle" =>
         deciding[w].instance # decision.instance
  BY <1>6 DEF Inv, DecisionsDisjoint, ReadDocument
<1>16. instances[decision.instance].doc = DocumentOf(u)
  BY <1>6 DEF DocumentOf
<1> QED
  BY <1>1, <1>4, <1>5, <1>6, <1>7, <1>8, <1>14, <1>15, <1>16, DecidingChange

LEMMA ReplaceVersionsStep ==
  ASSUME Inv, NEW u \in User, ReplaceVersions(u)
  PROVE  Inv'
<1> DEFINE old == {v \in Rivals(DocumentOf(u)) : InForce(v)}
           decision == [deciding[u] EXCEPT !.stage = "replaced", !.found = old]
<1>1. deciding[u] \in Decision /\ deciding[u].instance \in 1..Len(instances) /\ DecisionHolds(u)
  BY DEF Inv, TypeOK, DecisionsHold, ReplaceVersions
<1>2. deciding' = [deciding EXCEPT ![u] = decision] /\ UNCHANGED <<docs, instances, editing, edits>>
  BY DEF ReplaceVersions
<1>3. old \subseteq Document
  BY DEF Rivals
<1>4. \A v \in old : v \in Rivals(DocumentOf(u)) /\ InForce(v) /\ DocumentFree(v)
  BY DEF ReplaceVersions
<1>5. decision \in Decision
  BY <1>1, <1>3 DEF Decision
<1>6. /\ decision.stage = "replaced" /\ decision.applies = deciding[u].applies
      /\ decision.instance = deciding[u].instance /\ decision.outcome = deciding[u].outcome
      /\ decision.found = old
  BY <1>1 DEF Decision
<1> HIDE DEF decision, old
<1>7. deciding'[u] = decision
  BY <1>2 DEF Inv, TypeOK
<1>8. MayEnd(u, deciding[u].instance, deciding[u].outcome)'
  <2>1. PICK i \in 1..Len(instances), o \in Outcomes :
          i = deciding[u].instance /\ o = deciding[u].outcome
    BY <1>1 DEF Decision
  <2>2. MayEnd(u, i, o)'
    BY <1>1, <1>2, <2>1, MayEndFrame DEF DecisionHolds
  <2>3. deciding'[u].instance = i /\ deciding'[u].outcome = o
    BY <1>6, <1>7, <2>1
  <2> QED
    BY <2>2, <2>3
<1>9. DocumentOf(u)' = DocumentOf(u)
  BY <1>2, <1>6, <1>7 DEF DocumentOf
<1>10. Replaces(u) /\ Replaces(u)'
  BY <1>6, <1>7, <1>9 DEF Replaces, ReplaceVersions
<1>11. DecisionHolds(u)'
  <2>1. deciding[u].applies /\ Versioned(DocumentOf(u)) /\ HasRead(u)
    BY DEF ReplaceVersions, Replaces, HasRead
  <2>2. docs[DocumentOf(u)].status = "submitted"
    BY <1>1, <2>1 DEF DecisionHolds
  <2>3. docs'[DocumentOf(u)'].status = "submitted"
    BY <2>2, <1>2, <1>9
  <2> QED
    BY <1>6, <1>7, <1>8, <1>10, <2>1, <2>3 DEF DecisionHolds
<1>12. \A w \in User \ {u} : deciding[w].stage # "idle" =>
         deciding[w].instance # decision.instance
  BY <1>6 DEF Inv, DecisionsDisjoint, ReplaceVersions
<1>13. \A w \in User \ {u} : deciding[w].found \intersect decision.found = {}
  BY <1>4, <1>6 DEF DocumentFree, Locks
<1>14. \A v \in decision.found : v \in Rivals(instances[decision.instance].doc) /\ InForce(v)
  BY <1>4, <1>6 DEF DocumentOf
<1>15. instances[decision.instance].doc = DocumentOf(u) /\ HasRead(u)
  BY <1>6 DEF DocumentOf, ReplaceVersions, HasRead
<1>16. Versioned(DocumentOf(u)) =>
         \A w \in User \ {u} : HasRead(w) => DocumentOf(w) # DocumentOf(u)
  BY <1>15 DEF Inv, DecisionsDisjoint
<1> QED
  BY <1>1, <1>2, <1>5, <1>6, <1>11, <1>12, <1>13, <1>14, <1>15, <1>16, DecidingChange

LEMMA RollBackStep ==
  ASSUME Inv, NEW u \in User, RollBack(u)
  PROVE  Inv'
<1>1. Idle \in Decision /\ Idle.stage = "idle" /\ Idle.found = {}
  BY DEF Idle, Decision, Outcomes
<1> QED
  BY <1>1, DecidingChange DEF RollBack

-----------------------------------------------------------------------------
(* Steps of the workflow.                                                  *)

\* One more approval comes after the others.
LEMMA Appended ==
  ASSUME Inv, NEW new \in Instance, instances' = Append(instances, new)
  PROVE  /\ instances' \in Seq(Instance)
         /\ Len(instances) \in Nat /\ Len(instances') = Len(instances) + 1
         /\ \A i \in 1..Len(instances) : instances'[i] = instances[i] /\ i # Len(instances) + 1
         /\ instances'[Len(instances) + 1] = new
         /\ 1..Len(instances') = 1..Len(instances) \union {Len(instances) + 1}
<1>1. instances \in Seq(Instance)
  BY DEF Inv, TypeOK
<1>2. /\ instances' \in Seq(Instance)
      /\ Len(instances) \in Nat /\ Len(instances') = Len(instances) + 1
      /\ \A i \in 1..Len(instances) : instances'[i] = instances[i] /\ i # Len(instances) + 1
      /\ instances'[Len(instances) + 1] = new
  BY <1>1
<1> QED
  BY <1>2

\* It is filed by hand and no document waits for it, or its document is submitted with it.
LEMMA OneMore ==
  ASSUME Inv, NEW new \in Instance, instances' = Append(instances, new),
         NEW n, n = Len(instances) + 1, NEW d \in Document, d = new.doc,
         new.step = 1, new.approvals = <<>>,
         UNCHANGED <<deciding, editing, edits>>,
         docs' \in [Document -> Row], \A e \in Document \ {d} : docs'[e] = docs[e],
         \/ new.filed /\ new.status = "draft" /\ docs'[d] = docs[d]
         \/ /\ ~ new.filed /\ new.status = "pending" /\ new.content = docs[d].content
            /\ docs[d].status = "draft" /\ docs'[d].status = "submitted"
            /\ docs'[d].content = docs[d].content /\ docs'[d].approval = n
  PROVE  Inv'
<1>1. /\ Len(instances') = n /\ Len(instances) \in Nat /\ n \in Nat
      /\ \A i \in 1..Len(instances) : instances'[i] = instances[i] /\ i # n
      /\ instances'[n] = new
      /\ 1..Len(instances') = 1..Len(instances) \union {n}
      /\ instances' \in Seq(Instance)
  BY Appended
<1>2. \A i \in 1..Len(instances) : instances[i].doc \in Document
  BY InstanceTyped DEF Inv
<1>3. \A e : HandMade(e)' <=> HandMade(e)
  BY <1>1, HandMadeAppend
<1>4. TypeOK'
  <2>1. new.template \in Template
    BY DEF Instance
  <2>2. Len(Route[new.template]) >= 1
    BY <2>1, InputsTyped
  <2>3. \A i \in 1..Len(instances') : instances'[i].step <= Len(Route[instances'[i].template])
    BY <2>2, <1>1 DEF Inv, TypeOK
  <2>4. \A w \in User : deciding'[w].stage # "idle" => deciding'[w].instance \in 1..Len(instances')
    BY <1>1 DEF Inv, TypeOK
  <2> QED
    BY <2>3, <2>4, <1>1 DEF Inv, TypeOK
<1>5. EveryStepDecidedOnce'
  BY <1>1 DEF Inv, EveryStepDecidedOnce
<1>6. DraftsFiled'
  BY <1>1 DEF Inv, DraftsFiled
<1>7. ApprovedOwn'
  <2> SUFFICES ASSUME NEW e \in Document, Guarded(e), docs'[e].status = "approved"
               PROVE  /\ Versioned(e) \/ ~ HandMade(e) =>
                           /\ docs'[e].approval \in 1..Len(instances')
                           /\ instances'[docs'[e].approval].content = docs'[e].content
                      /\ ~ HandMade(e) => instances'[docs'[e].approval].status = "approved"
                      /\ \E i \in 1..Len(instances') :
                           instances'[i].doc = e /\ instances'[i].status = "approved"
    BY <1>3 DEF ApprovedOwn
  <2>1. docs'[e] = docs[e] /\ docs[e].status = "approved"
    OBVIOUS
  <2>2. /\ Versioned(e) \/ ~ HandMade(e) =>
             docs[e].approval \in 1..Len(instances) /\ instances[docs[e].approval].content = docs[e].content
        /\ ~ HandMade(e) => instances[docs[e].approval].status = "approved"
        /\ \E i \in 1..Len(instances) : instances[i].doc = e /\ instances[i].status = "approved"
    BY <2>1 DEF Inv, ApprovedOwn
  <2> QED
    BY <2>1, <2>2, <1>1
<1>8. SubmittedOwn'
  <2> SUFFICES ASSUME NEW e \in Document, Guarded(e), docs'[e].status = "submitted"
               PROVE  /\ docs'[e].approval \in 1..Len(instances') /\ instances'[docs'[e].approval].doc = e
                      /\ instances'[docs'[e].approval].status = "pending"
                      /\ instances'[docs'[e].approval].content = docs'[e].content
    BY DEF SubmittedOwn, Pending
  <2>1. CASE docs'[e] = docs[e]
    BY <2>1, <1>1 DEF Inv, SubmittedOwn, Pending
  <2>2. CASE docs'[e] # docs[e]
    <3>1. e = d
      BY <2>2
    <3> QED
      BY <2>2, <3>1, <1>1
  <2> QED
    BY <2>1, <2>2
<1>9. OwnPending'
  <2> SUFFICES ASSUME NEW i \in 1..Len(instances'), NEW e, e = instances'[i].doc,
                      instances'[i].status = "pending", ~ instances'[i].filed, Guarded(e), ~ HandMade(e)
               PROVE  /\ i = docs'[e].approval
                      /\ \/ docs'[e].status = "submitted"
                         \/ docs'[e].status = "cancelled" /\ ~ Versioned(e)
                      /\ docs'[e].content = instances'[i].content
    BY <1>3 DEF OwnPending, Pending, Dropped
  <2>1. CASE i = n
    BY <2>1, <1>1
  <2>2. CASE i \in 1..Len(instances)
    <3>1. /\ instances'[i] = instances[i] /\ e \in Document
          /\ i = docs[e].approval /\ docs[e].content = instances[i].content
          /\ docs[e].status = "submitted" \/ (docs[e].status = "cancelled" /\ ~ Versioned(e))
      BY <2>2, <1>1, <1>2 DEF Inv, OwnPending, Pending, Dropped
    <3>2. docs'[e] = docs[e]
      BY <3>1
    <3> QED
      BY <3>1, <3>2
  <2> QED
    BY <2>1, <2>2, <1>1
<1>10. EditingUnguarded'
  BY DEF Inv, EditingUnguarded
<1>11. \A w \in User : deciding[w].stage # "idle" =>
         DecisionHolds(w)' /\ DocumentOf(w)' = DocumentOf(w)
  <2> SUFFICES ASSUME NEW w \in User, deciding[w].stage # "idle"
               PROVE  DecisionHolds(w)' /\ DocumentOf(w)' = DocumentOf(w)
    OBVIOUS
  <2>1. deciding[w] \in Decision /\ DecisionHolds(w) /\ deciding[w].instance \in 1..Len(instances)
    BY DEF Inv, TypeOK, DecisionsHold
  <2>2. PICK e \in Document : e = DocumentOf(w)
    BY <2>1, <1>2 DEF DocumentOf
  <2>3. docs'[e].approval = deciding[w].instance => docs'[e] = docs[e]
    BY <2>1, <1>1
  <2>4. docs[e].status = "submitted" => docs'[e].status = "submitted"
    OBVIOUS
  <2> QED
    BY <2>1, <2>2, <2>3, <2>4, <1>1, DecisionFrame
<1>12. DecisionsHold'
  BY <1>11 DEF Inv, DecisionsHold
<1>13. DecisionsDisjoint'
  BY <1>11 DEF Inv, DecisionsDisjoint, HasRead
<1>14. FoundInForce'
  <2> SUFFICES ASSUME NEW w \in User, NEW v \in deciding[w].found
               PROVE  v \in Rivals(DocumentOf(w))' /\ InForce(v)'
    BY DEF FoundInForce
  <2>1. v \in Rivals(DocumentOf(w)) /\ InForce(v) /\ deciding[w].stage # "idle"
    BY DEF Inv, FoundInForce, DecisionsHold, Idle
  <2>2. docs'[v] = docs[v]
    BY <2>1 DEF Rivals, InForce
  <2> QED
    BY <2>1, <2>2, <1>11 DEF Rivals, InForce
<1> QED
  BY <1>4, <1>5, <1>6, <1>7, <1>8, <1>9, <1>10, <1>12, <1>13, <1>14 DEF Inv

LEMMA SubmitStep ==
  ASSUME Inv, NEW d \in Document, NEW u \in Applicants, Submit(u, d)
  PROVE  Inv'
<1> DEFINE n == Len(instances) + 1
           new == NewInstance(u, d, TemplateOf[d], FALSE)
           row == [docs[d] EXCEPT !.status = "submitted", !.approval = n]
<1>1. docs[d] \in Row /\ docs[d].status = "draft" /\ n \in Nat
  BY DEF Inv, TypeOK, Submit
<1>2. TemplateOf[d] \in Template /\ u \in User
  BY InputsTyped
<1>3. /\ new \in Instance /\ new.doc = d /\ new.content = docs[d].content
      /\ new.step = 1 /\ new.approvals = <<>> /\ new.filed = FALSE /\ new.status = "pending"
  BY <1>1, <1>2 DEF NewInstance, Instance, Row
<1>4. /\ row \in Row /\ row.status = "submitted" /\ row.approval = n /\ row.content = docs[d].content
  BY <1>1 DEF Row, DocStatus
<1>5. instances' = Append(instances, new) /\ UNCHANGED <<deciding, editing, edits>>
      /\ docs' = [docs EXCEPT ![d] = row]
  BY DEF Submit
<1> HIDE DEF new, row
<1>6. docs' \in [Document -> Row] /\ docs'[d] = row /\ \A e \in Document \ {d} : docs'[e] = docs[e]
  BY <1>4, <1>5 DEF Inv, TypeOK
<1> QED
  BY <1>1, <1>3, <1>4, <1>5, <1>6, OneMore

LEMMA CreateInstanceStep ==
  ASSUME Inv, NEW u \in Filers, NEW d \in Document, NEW t \in Template, CreateInstance(u, d, t)
  PROVE  Inv'
<1> DEFINE n == Len(instances) + 1
           new == NewInstance(u, d, t, TRUE)
<1>1. docs[d] \in Row /\ u \in User
  BY InputsTyped DEF Inv, TypeOK
<1>2. /\ new \in Instance /\ new.doc = d
      /\ new.step = 1 /\ new.approvals = <<>> /\ new.filed = TRUE /\ new.status = "draft"
  BY <1>1 DEF NewInstance, Instance, Row
<1>3. instances' = Append(instances, new) /\ UNCHANGED <<docs, deciding, editing, edits>>
  BY DEF CreateInstance
<1> HIDE DEF new
<1>4. docs' \in [Document -> Row]
  BY <1>3 DEF Inv, TypeOK
<1> QED
  BY <1>2, <1>3, <1>4, OneMore

\* One approval goes to its next step, or is submitted by hand.
LEMMA OneChanged ==
  ASSUME Inv, NEW i \in 1..Len(instances), NEW row \in Instance,
         instances' = [instances EXCEPT ![i] = row],
         UNCHANGED <<docs, deciding, editing, edits>>, InstanceFree(i), EveryStepDecidedOnce',
         row.doc = instances[i].doc, row.template = instances[i].template,
         row.content = instances[i].content, row.filed = instances[i].filed,
         row.step <= Len(Route[row.template]),
         \/ row.status = instances[i].status /\ instances[i].status = "pending"
         \/ row.status = "pending" /\ instances[i].status = "draft"
  PROVE  Inv'
<1>1. /\ Len(instances') = Len(instances) /\ instances' \in Seq(Instance)
      /\ \A j \in 1..Len(instances) : j # i => instances'[j] = instances[j]
      /\ instances'[i] = row
  BY DEF Inv, TypeOK
<1>2. \A j \in 1..Len(instances) :
        /\ instances'[j].doc = instances[j].doc /\ instances'[j].content = instances[j].content
        /\ instances'[j].filed = instances[j].filed
        /\ ~ instances[j].filed \/ instances[j].status # "draft" => instances'[j].status = instances[j].status
        /\ instances'[j].status = "draft" => instances[j].status = "draft"
  BY <1>1 DEF Inv, DraftsFiled
<1>3. \A e : HandMade(e) => HandMade(e)'
  BY <1>1, <1>2 DEF HandMade
<1>4. TypeOK'
  <2>1. \A j \in 1..Len(instances') : instances'[j].step <= Len(Route[instances'[j].template])
    BY <1>1 DEF Inv, TypeOK
  <2> QED
    BY <2>1, <1>1 DEF Inv, TypeOK
<1>5. DraftsFiled'
  BY <1>1, <1>2 DEF Inv, DraftsFiled
<1>6. ApprovedOwn'
  <2> SUFFICES ASSUME NEW e \in Document, Guarded(e), docs[e].status = "approved"
               PROVE  /\ Versioned(e) \/ ~ HandMade(e) =>
                           /\ docs[e].approval \in 1..Len(instances)
                           /\ instances'[docs[e].approval].content = docs[e].content
                      /\ ~ HandMade(e) => instances'[docs[e].approval].status = "approved"
                      /\ \E j \in 1..Len(instances) :
                           instances'[j].doc = e /\ instances'[j].status = "approved"
    BY <1>1, <1>3 DEF ApprovedOwn
  <2>1. PICK a : a = docs[e].approval
    OBVIOUS
  <2>2. /\ Versioned(e) \/ ~ HandMade(e) => a \in 1..Len(instances) /\ instances[a].content = docs[e].content
        /\ ~ HandMade(e) => instances[a].status = "approved"
        /\ \E j \in 1..Len(instances) : instances[j].doc = e /\ instances[j].status = "approved"
    BY <2>1 DEF Inv, ApprovedOwn
  <2> QED
    BY <2>1, <2>2, <1>2
<1>7. SubmittedOwn'
  <2> SUFFICES ASSUME NEW e \in Document, Guarded(e), docs[e].status = "submitted"
               PROVE  /\ docs[e].approval \in 1..Len(instances) /\ instances'[docs[e].approval].doc = e
                      /\ instances'[docs[e].approval].status = "pending"
                      /\ instances'[docs[e].approval].content = docs[e].content
    BY <1>1 DEF SubmittedOwn, Pending
  <2>1. PICK a : a = docs[e].approval
    OBVIOUS
  <2>2. /\ a \in 1..Len(instances) /\ instances[a].doc = e /\ instances[a].status = "pending"
        /\ instances[a].content = docs[e].content
    BY <2>1 DEF Inv, SubmittedOwn, Pending
  <2> QED
    BY <2>1, <2>2, <1>2
<1>8. OwnPending'
  <2> SUFFICES ASSUME NEW j \in 1..Len(instances), NEW e, e = instances'[j].doc,
                      instances'[j].status = "pending", ~ instances'[j].filed, Guarded(e), ~ HandMade(e)
               PROVE  /\ j = docs[e].approval
                      /\ \/ docs[e].status = "submitted"
                         \/ docs[e].status = "cancelled" /\ ~ Versioned(e)
                      /\ docs[e].content = instances'[j].content
    BY <1>1, <1>3 DEF OwnPending, Pending, Dropped
  <2>1. e = instances[j].doc /\ instances[j].status = "pending" /\ ~ instances[j].filed
        /\ instances'[j].content = instances[j].content
    BY <1>2
  <2> QED
    BY <2>1 DEF Inv, OwnPending, Pending, Dropped
<1>9. EditingUnguarded'
  BY DEF Inv, EditingUnguarded
<1>10. \A w \in User : deciding[w].stage # "idle" =>
         DecisionHolds(w)' /\ DocumentOf(w)' = DocumentOf(w)
  <2> SUFFICES ASSUME NEW w \in User, deciding[w].stage # "idle"
               PROVE  DecisionHolds(w)' /\ DocumentOf(w)' = DocumentOf(w)
    OBVIOUS
  <2>1. deciding[w] \in Decision /\ DecisionHolds(w) /\ deciding[w].instance \in 1..Len(instances)
        /\ deciding[w].instance # i
    BY DEF Inv, TypeOK, DecisionsHold, InstanceFree
  <2> QED
    BY <2>1, <1>1, DecisionFrame
<1>11. DecisionsHold'
  BY <1>10 DEF Inv, DecisionsHold
<1>12. DecisionsDisjoint'
  BY <1>10 DEF Inv, DecisionsDisjoint, HasRead
<1>13. FoundInForce'
  <2> SUFFICES ASSUME NEW w \in User, NEW v \in deciding[w].found
               PROVE  v \in Rivals(DocumentOf(w))' /\ InForce(v)'
    BY DEF FoundInForce
  <2>1. v \in Rivals(DocumentOf(w)) /\ InForce(v) /\ deciding[w].stage # "idle"
    BY DEF Inv, FoundInForce, DecisionsHold, Idle
  <2> QED
    BY <2>1, <1>10 DEF Rivals, InForce
<1> QED
  BY <1>4, <1>5, <1>6, <1>7, <1>8, <1>9, <1>11, <1>12, <1>13 DEF Inv

LEMMA SubmitInstanceStep ==
  ASSUME Inv, NEW i \in 1..Len(instances), SubmitInstance(i)
  PROVE  Inv'
<1> DEFINE row == [instances[i] EXCEPT !.status = "pending"]
<1>1. instances[i] \in Instance /\ instances[i].step <= Len(Route[instances[i].template])
      /\ instances[i].status = "draft"
  BY DEF Inv, TypeOK, SubmitInstance
<1>2. /\ row \in Instance /\ row.step = instances[i].step /\ row.approvals = instances[i].approvals
      /\ row.doc = instances[i].doc /\ row.status = "pending" /\ row.template = instances[i].template
      /\ row.content = instances[i].content /\ row.filed = instances[i].filed
      /\ row.applicant = instances[i].applicant
  BY <1>1 DEF Instance
<1>3. instances' = [instances EXCEPT ![i] = row] /\ UNCHANGED <<docs, deciding, editing, edits>>
  BY DEF SubmitInstance
<1> HIDE DEF row
<1>4. InstanceFree(i)
  BY <1>1, EndsPending DEF Inv, TypeOK, DecisionsHold, DecisionHolds, Decision, InstanceFree, Pending
<1>5. instances \in Seq(Instance)
  BY DEF Inv, TypeOK
<1>6. EveryStepDecidedOnce'
  <2>1. /\ Len(instances') = Len(instances) /\ instances'[i] = row
        /\ \A j \in 1..Len(instances) : j # i => instances'[j] = instances[j]
    BY <1>3, <1>5
  <2> QED
    BY <2>1, <1>1, <1>2 DEF Inv, EveryStepDecidedOnce
<1> QED
  BY <1>1, <1>2, <1>3, <1>4, <1>6, OneChanged

LEMMA ApproveStepStep ==
  ASSUME Inv, NEW u \in User, NEW i \in 1..Len(instances), ApproveStep(u, i)
  PROVE  Inv'
<1> DEFINE row == [instances[i] EXCEPT !.step = @ + 1, !.approvals = Append(@, u)]
<1>1. /\ instances[i] \in Instance /\ instances[i].step \in Nat \ {0}
      /\ instances[i].step < Len(Route[instances[i].template])
      /\ instances[i].approvals \in Seq(User)
      /\ Len(Route[instances[i].template]) \in Nat
  BY InstanceTyped, InputsTyped DEF Inv, ApproveStep, LastStep
<1>20. instances[i].step + 1 \in Nat \ {0} /\ Append(instances[i].approvals, u) \in Seq(User)
  BY <1>1
<1>2. /\ row \in Instance /\ row.step = instances[i].step + 1
      /\ row.approvals = Append(instances[i].approvals, u)
      /\ row.doc = instances[i].doc /\ row.status = instances[i].status
      /\ row.content = instances[i].content /\ row.applicant = instances[i].applicant
      /\ row.template = instances[i].template /\ row.filed = instances[i].filed
  BY <1>1, <1>20 DEF Instance
<1>3. instances \in Seq(Instance) /\ instances' = [instances EXCEPT ![i] = row]
  BY DEF Inv, TypeOK, ApproveStep
<1> HIDE DEF row
<1>4. /\ Len(instances') = Len(instances) /\ instances' \in Seq(Instance)
      /\ \A j \in 1..Len(instances) : j # i => instances'[j] = instances[j]
      /\ instances'[i] = row
  BY <1>2, <1>3
<1>5. UNCHANGED <<docs, deciding, editing, edits>>
  BY DEF ApproveStep
<1>6. Pending(i) /\ instances[i].status = "pending" /\ u \in Route[instances[i].template][instances[i].step]
      /\ (u = instances[i].applicant => instances[i].template \in SelfApproval)
  BY DEF ApproveStep, CanDecide, Pending
<1>9. EveryStepDecidedOnce'
  <2>1. Len(instances[i].approvals) = instances[i].step - 1
    BY <1>6 DEF Inv, EveryStepDecidedOnce
  <2>2. /\ Len(row.approvals) = row.step - 1
        /\ row.approvals[instances[i].step] = u
        /\ \A k \in 1..Len(row.approvals) :
             k = instances[i].step \/ (k \in 1..Len(instances[i].approvals)
                                       /\ row.approvals[k] = instances[i].approvals[k])
    <3>1. Len(instances[i].approvals) + 1 = instances[i].step
      BY <1>1, <2>1
    <3> QED
      BY <1>1, <1>2, <3>1, AppendFacts
  <2>3. \A k \in 1..Len(row.approvals) :
          /\ row.approvals[k] \in Route[row.template][k]
          /\ row.approvals[k] = row.applicant => row.template \in SelfApproval
    BY <1>2, <1>6, <2>2 DEF Inv, EveryStepDecidedOnce
  <2>4. row.status # "approved"
    BY <1>2, <1>6
  <2>5. 1..Len(instances') = 1..Len(instances)
    BY <1>4
  <2> SUFFICES ASSUME NEW j \in 1..Len(instances)
               PROVE  /\ Len(instances'[j].approvals) =
                           IF instances'[j].status = "approved" THEN Len(Route[instances'[j].template])
                           ELSE instances'[j].step - 1
                      /\ \A k \in 1..Len(instances'[j].approvals) :
                           /\ instances'[j].approvals[k] \in Route[instances'[j].template][k]
                           /\ instances'[j].approvals[k] = instances'[j].applicant =>
                                instances'[j].template \in SelfApproval
    BY <2>5 DEF EveryStepDecidedOnce
  <2>6. CASE j # i
    <3>1. instances'[j] = instances[j]
      BY <1>4, <2>6
    <3> QED
      BY <3>1 DEF Inv, EveryStepDecidedOnce
  <2>7. CASE j = i
    BY <2>2, <2>3, <2>4, <2>7, <1>4
  <2> QED
    BY <2>6, <2>7
<1>10. row.step <= Len(Route[row.template])
  BY <1>1, <1>2
<1>11. InstanceFree(i)
  BY DEF ApproveStep
<1> QED
  BY <1>2, <1>3, <1>5, <1>6, <1>9, <1>10, <1>11, OneChanged

\* What a callback writes: the outcome to a document it found submitted, and to
\* nothing else but the versions it replaces.
LEMMA ConcludeWrites ==
  ASSUME Inv, NEW u \in User, Conclude(u),
         NEW i, i = deciding[u].instance, NEW d, d = DocumentOf(u),
         NEW outcome, outcome = deciding[u].outcome
  PROVE  /\ i \in 1..Len(instances) /\ d \in Document /\ d = instances[i].doc
         /\ outcome \in Outcomes /\ MayEnd(u, i, outcome) /\ Pending(i)
         /\ deciding[u].stage \in {"read", "replaced"} /\ DecisionHolds(u)
         /\ docs' \in [Document -> Row]
         /\ \A e \in Document : docs'[e].content = docs[e].content /\ docs'[e].approval = docs[e].approval
         /\ deciding[u].applies => docs'[d].status = OutcomeStatus(outcome)
         /\ \A e \in Document :
              \/ e = d /\ deciding[u].applies
              \/ e \in deciding[u].found /\ InForce(e) /\ docs'[e].status = "obsolete"
              \/ e \notin deciding[u].found /\ docs'[e] = docs[e]
         /\ deciding' = [deciding EXCEPT ![u] = Idle]
         /\ UNCHANGED <<editing, edits>>
<1>1. deciding[u].stage \in {"read", "replaced"}
  BY DEF Conclude
<1>2. deciding[u] \in Decision /\ DecisionHolds(u) /\ i \in 1..Len(instances)
  BY <1>1 DEF Inv, TypeOK, DecisionsHold
<1>3. outcome \in Outcomes /\ MayEnd(u, i, outcome) /\ Pending(i)
  BY <1>2, EndsPending DEF DecisionHolds, Decision
<1>4. d = instances[i].doc /\ d \in Document
  BY <1>2, InstanceTyped DEF Inv, DocumentOf
<1>5. OutcomeStatus(outcome) \in DocStatus
  BY <1>3 DEF OutcomeStatus, DocStatus, Outcomes
<1>6. \A e \in Document : docs'[e] =
        IF deciding[u].applies /\ e = d THEN [docs[e] EXCEPT !.status = OutcomeStatus(outcome)]
        ELSE IF e \in deciding[u].found THEN [docs[e] EXCEPT !.status = "obsolete"]
        ELSE docs[e]
  BY DEF Conclude
<1>7. \A e \in Document : docs[e] \in Row
  BY DEF Inv, TypeOK
<1>8. \A e \in Document : docs'[e] \in Row
                          /\ docs'[e].content = docs[e].content /\ docs'[e].approval = docs[e].approval
  BY <1>5, <1>6, <1>7 DEF DocStatus, Row
<1>9. docs' \in [Document -> Row]
  BY <1>8 DEF Conclude
<1>10. deciding[u].applies => docs'[d].status = OutcomeStatus(outcome)
  <2> SUFFICES ASSUME deciding[u].applies
               PROVE  docs'[d].status = OutcomeStatus(outcome)
    OBVIOUS
  <2>1. docs'[d] = [docs[d] EXCEPT !.status = OutcomeStatus(outcome)]
    BY <1>4, <1>6
  <2> QED
    BY <2>1, <1>4, <1>7 DEF Row
<1>11. \A e \in Document :
         \/ e = d /\ deciding[u].applies
         \/ e \in deciding[u].found /\ InForce(e) /\ docs'[e].status = "obsolete"
         \/ e \notin deciding[u].found /\ docs'[e] = docs[e]
  BY <1>6, <1>7 DEF Inv, FoundInForce, Row
<1>12. deciding' = [deciding EXCEPT ![u] = Idle] /\ UNCHANGED <<editing, edits>>
  BY DEF Conclude
<1> QED
  BY <1>1, <1>2, <1>3, <1>4, <1>8, <1>9, <1>10, <1>11, <1>12

\* What it writes to the instance.
LEMMA ConcludeDecides ==
  ASSUME Inv, NEW u \in User, Conclude(u),
         NEW i, i = deciding[u].instance, NEW outcome, outcome = deciding[u].outcome
  PROVE  /\ instances' \in Seq(Instance) /\ Len(instances') = Len(instances)
         /\ \A j \in 1..Len(instances) : j # i => instances'[j] = instances[j]
         /\ instances'[i].doc = instances[i].doc
         /\ instances'[i].content = instances[i].content
         /\ instances'[i].applicant = instances[i].applicant
         /\ instances'[i].template = instances[i].template
         /\ instances'[i].filed = instances[i].filed
         /\ instances'[i].step = instances[i].step
         /\ instances'[i].status = outcome
         /\ instances'[i].approvals = IF outcome = "approved" THEN Append(instances[i].approvals, u)
                                      ELSE instances[i].approvals
<1>1. i \in 1..Len(instances) /\ outcome \in Outcomes
  BY ConcludeWrites
<1>2. instances[i] \in Instance /\ instances[i].approvals \in Seq(User)
  BY <1>1, InstanceTyped DEF Inv
<1>3. PICK approvals : approvals = IF outcome = "approved" THEN Append(instances[i].approvals, u)
                                   ELSE instances[i].approvals
  OBVIOUS
<1>4. approvals \in Seq(User)
  BY <1>2, <1>3
<1> DEFINE row == [instances[i] EXCEPT !.status = outcome, !.approvals = approvals]
<1>5. instances' = [instances EXCEPT ![i] = row]
  BY <1>3 DEF Conclude
<1>6. /\ row \in Instance /\ row.doc = instances[i].doc /\ row.content = instances[i].content
      /\ row.applicant = instances[i].applicant /\ row.step = instances[i].step
      /\ row.template = instances[i].template /\ row.filed = instances[i].filed
      /\ row.status = outcome /\ row.approvals = approvals
  BY <1>1, <1>2, <1>4 DEF Instance
<1> HIDE DEF row
<1>7. instances \in Seq(Instance)
  BY DEF Inv, TypeOK
<1> QED
  BY <1>1, <1>3, <1>5, <1>6, <1>7

LEMMA ConcludeStep ==
  ASSUME Inv, NEW u \in User, Conclude(u)
  PROVE  Inv'
<1>1. PICK i, d, outcome :
        i = deciding[u].instance /\ d = DocumentOf(u) /\ outcome = deciding[u].outcome
  OBVIOUS
<1>2. /\ i \in 1..Len(instances) /\ d \in Document /\ d = instances[i].doc
      /\ outcome \in Outcomes /\ MayEnd(u, i, outcome) /\ Pending(i)
      /\ deciding[u].stage \in {"read", "replaced"} /\ DecisionHolds(u)
  BY <1>1, ConcludeWrites
<1>3. /\ docs' \in [Document -> Row]
      /\ \A e \in Document : docs'[e].content = docs[e].content /\ docs'[e].approval = docs[e].approval
      /\ deciding[u].applies => docs'[d].status = OutcomeStatus(outcome)
      /\ \A e \in Document :
           \/ e = d /\ deciding[u].applies
           \/ e \in deciding[u].found /\ InForce(e) /\ docs'[e].status = "obsolete"
           \/ e \notin deciding[u].found /\ docs'[e] = docs[e]
  BY <1>1, ConcludeWrites
<1>4. deciding' = [deciding EXCEPT ![u] = Idle] /\ UNCHANGED <<editing, edits>>
  BY <1>1, ConcludeWrites
<1>5. /\ instances' \in Seq(Instance) /\ Len(instances') = Len(instances)
      /\ \A j \in 1..Len(instances) : j # i => instances'[j] = instances[j]
      /\ instances'[i].doc = instances[i].doc
      /\ instances'[i].content = instances[i].content
      /\ instances'[i].applicant = instances[i].applicant
      /\ instances'[i].template = instances[i].template
      /\ instances'[i].filed = instances[i].filed
      /\ instances'[i].step = instances[i].step
      /\ instances'[i].status = outcome
      /\ instances'[i].approvals = IF outcome = "approved" THEN Append(instances[i].approvals, u)
                                   ELSE instances[i].approvals
  BY <1>1, ConcludeDecides
<1>6. Idle \in Decision /\ Idle.stage = "idle" /\ Idle.found = {}
  BY DEF Idle, Decision, Outcomes
<1>7. /\ \A w \in User \ {u} : deciding'[w] = deciding[w]
      /\ deciding'[u] = Idle
  BY <1>4 DEF Inv, TypeOK
<1>8. TypeOK'
  <2>1. \A j \in 1..Len(instances') : instances'[j].step <= Len(Route[instances'[j].template])
    BY <1>5 DEF Inv, TypeOK
  <2>2. deciding' \in [User -> Decision]
    BY <1>4, <1>6 DEF Inv, TypeOK
  <2>3. \A w \in User : deciding'[w].stage # "idle" => deciding'[w].instance \in 1..Len(instances')
    BY <1>5, <1>6, <1>7 DEF Inv, TypeOK
  <2> QED
    BY <2>1, <2>2, <2>3, <1>3, <1>4, <1>5 DEF Inv, TypeOK
<1>9. EveryStepDecidedOnce'
  <2>1. /\ instances[i].status = "pending" /\ instances[i].approvals \in Seq(User)
        /\ Len(instances[i].approvals) = instances[i].step - 1
        /\ instances[i].step \in Nat \ {0}
    BY <1>2, InstanceTyped DEF Inv, EveryStepDecidedOnce, Pending
  <2>2. 1..Len(instances') = 1..Len(instances)
    BY <1>5
  <2> SUFFICES ASSUME NEW j \in 1..Len(instances)
               PROVE  /\ Len(instances'[j].approvals) =
                           IF instances'[j].status = "approved" THEN Len(Route[instances'[j].template])
                           ELSE instances'[j].step - 1
                      /\ \A k \in 1..Len(instances'[j].approvals) :
                           /\ instances'[j].approvals[k] \in Route[instances'[j].template][k]
                           /\ instances'[j].approvals[k] = instances'[j].applicant =>
                                instances'[j].template \in SelfApproval
    BY <2>2 DEF EveryStepDecidedOnce
  <2>3. CASE j # i
    <3>1. instances'[j] = instances[j]
      BY <1>5, <2>3
    <3> QED
      BY <3>1 DEF Inv, EveryStepDecidedOnce
  <2>4. CASE j = i /\ outcome # "approved"
    <3>1. \A k \in 1..Len(instances[i].approvals) :
            /\ instances[i].approvals[k] \in Route[instances[i].template][k]
            /\ instances[i].approvals[k] = instances[i].applicant => instances[i].template \in SelfApproval
      BY <1>2 DEF Inv, EveryStepDecidedOnce
    <3> QED
      BY <1>5, <2>1, <2>4, <3>1
  <2>5. CASE j = i /\ outcome = "approved"
    <3>1. CanDecide(u, i) /\ LastStep(i)
      BY <1>2, <2>5 DEF MayEnd
    <3>2. instances'[i].approvals = Append(instances[i].approvals, u)
      BY <1>5, <2>5
    <3>3. /\ Len(instances'[i].approvals) = instances[i].step
          /\ instances'[i].approvals[instances[i].step] = u
          /\ \A k \in 1..Len(instances'[i].approvals) :
               k = instances[i].step \/ (k \in 1..Len(instances[i].approvals)
                                         /\ instances'[i].approvals[k] = instances[i].approvals[k])
      <4>1. Len(instances[i].approvals) + 1 = instances[i].step
        BY <2>1
      <4> QED
        BY <2>1, <3>2, <4>1, AppendFacts
    <3>4. \A k \in 1..Len(instances'[i].approvals) :
            /\ instances'[i].approvals[k] \in Route[instances[i].template][k]
            /\ instances'[i].approvals[k] = instances[i].applicant => instances[i].template \in SelfApproval
      BY <1>2, <3>1, <3>3 DEF Inv, EveryStepDecidedOnce, CanDecide
    <3>5. Len(instances'[i].approvals) = Len(Route[instances[i].template])
      BY <3>1, <3>3 DEF LastStep
    <3> QED
      BY <1>5, <2>5, <3>4, <3>5
  <2> QED
    BY <2>3, <2>4, <2>5
<1>10. \A e : HandMade(e)' <=> HandMade(e)
  <2>1. \A j \in 1..Len(instances) :
          /\ instances'[j].doc = instances[j].doc /\ instances'[j].filed = instances[j].filed
          /\ instances'[j].status = "draft" <=> instances[j].status = "draft"
    BY <1>2, <1>5 DEF Pending, Outcomes
  <2> QED
    BY <2>1, <1>5, HandMadeFrame
<1>20. OutcomeStatus(outcome) # "submitted"
  BY <1>2 DEF OutcomeStatus, Outcomes
<1>21. deciding[u].applies /\ Versioned(d) => docs[d].status = "submitted"
  BY <1>1, <1>2 DEF DecisionHolds, HasRead
<1>22. DraftsFiled'
  BY <1>2, <1>5 DEF Inv, DraftsFiled, Outcomes
\* Other approvals that are their documents' own are of other documents, and those
\* were not written.
<1>11. OwnPending'
  <2> SUFFICES ASSUME NEW j \in 1..Len(instances'), NEW e, e = instances'[j].doc,
                      instances'[j].status = "pending", ~ instances'[j].filed, Guarded(e), ~ HandMade(e)
               PROVE  /\ j = docs'[e].approval
                      /\ \/ docs'[e].status = "submitted"
                         \/ docs'[e].status = "cancelled" /\ ~ Versioned(e)
                      /\ docs'[e].content = instances'[j].content
    BY <1>10 DEF OwnPending, Pending, Dropped
  <2>1. j # i /\ j \in 1..Len(instances) /\ instances'[j] = instances[j]
    BY <1>2, <1>5 DEF Outcomes
  <2>2. e = instances[j].doc /\ e \in Document
    BY <2>1, InstanceTyped DEF Inv
  <2>3. /\ j = docs[e].approval /\ docs[e].content = instances[j].content
        /\ docs[e].status = "submitted" \/ (docs[e].status = "cancelled" /\ ~ Versioned(e))
    BY <2>1, <2>2 DEF Inv, OwnPending, Pending, Dropped
  <2>4. e # d
    <3> SUFFICES ASSUME e = d PROVE FALSE
      OBVIOUS
    <3>1. ~ instances[i].filed
      BY <1>2 DEF HandMade, Pending
    <3> QED
      BY <1>2, <2>1, <2>3, <3>1 DEF Inv, OwnPending
  <2>5. docs'[e] = docs[e]
    BY <2>2, <2>3, <2>4, <1>3 DEF InForce
  <2> QED
    BY <2>1, <2>3, <2>5
<1>12. SubmittedOwn'
  <2> SUFFICES ASSUME NEW e \in Document, Guarded(e), docs'[e].status = "submitted",
                      NEW a, a = docs[e].approval
               PROVE  /\ a \in 1..Len(instances') /\ instances'[a].doc = e
                      /\ instances'[a].status = "pending" /\ instances'[a].content = docs[e].content
    BY <1>3 DEF SubmittedOwn, Pending
  <2>1. ~ (e = d /\ deciding[u].applies)
    BY <1>3, <1>20
  <2>2. docs[e].status = "submitted"
    BY <2>1, <1>3
  <2>3. /\ a \in 1..Len(instances) /\ instances[a].doc = e /\ instances[a].status = "pending"
        /\ instances[a].content = docs[e].content
    BY <2>2 DEF Inv, SubmittedOwn, Pending
  <2>4. a # i
    BY <1>1, <1>2, <2>1, <2>2, <2>3 DEF DecisionHolds, HasRead
  <2> QED
    BY <1>5, <2>3, <2>4
<1>13. ApprovedOwn'
  <2> SUFFICES ASSUME NEW e \in Document, Guarded(e), docs'[e].status = "approved",
                      NEW a, a = docs[e].approval
               PROVE  /\ Versioned(e) \/ ~ HandMade(e) =>
                           a \in 1..Len(instances) /\ instances'[a].content = docs[e].content
                      /\ ~ HandMade(e) => instances'[a].status = "approved"
                      /\ \E k \in 1..Len(instances) :
                           instances'[k].doc = e /\ instances'[k].status = "approved"
    BY <1>3, <1>5, <1>10 DEF ApprovedOwn
  <2>1. CASE e = d /\ deciding[u].applies
    <3>1. outcome = "approved"
      BY <1>2, <1>3, <2>1 DEF OutcomeStatus, Outcomes
    <3>2. ASSUME Versioned(d)
          PROVE  a \in 1..Len(instances) /\ instances[a].content = docs[d].content
      BY <1>21, <2>1, <3>2 DEF Inv, SubmittedOwn
    <3>3. ASSUME ~ HandMade(d)
          PROVE  a = i /\ instances[i].content = docs[d].content
      <4>1. ~ instances[i].filed
        BY <1>2, <3>3 DEF HandMade, Pending
      <4> QED
        BY <1>2, <2>1, <3>3, <4>1 DEF Inv, OwnPending
    <3>4. \A k \in 1..Len(instances) : instances'[k].content = instances[k].content
      BY <1>5
    <3> QED
      BY <1>2, <1>5, <2>1, <3>1, <3>2, <3>3, <3>4
  <2>2. CASE ~ (e = d /\ deciding[u].applies)
    <3>1. docs'[e] = docs[e]
      BY <1>3, <2>2
    <3>2. /\ Versioned(e) \/ ~ HandMade(e) => a \in 1..Len(instances) /\ instances[a].content = docs[e].content
          /\ ~ HandMade(e) => instances[a].status = "approved"
          /\ \E k \in 1..Len(instances) : instances[k].doc = e /\ instances[k].status = "approved"
      BY <3>1 DEF Inv, ApprovedOwn
    <3>3. \A k \in 1..Len(instances) :
            /\ instances'[k].content = instances[k].content /\ instances'[k].doc = instances[k].doc
            /\ instances[k].status = "approved" => instances'[k].status = "approved"
      BY <1>2, <1>5 DEF Pending
    <3> QED
      BY <3>2, <3>3
  <2> QED
    BY <2>1, <2>2
<1>14. EditingUnguarded'
  BY <1>4 DEF Inv, EditingUnguarded
<1>15. \A w \in User \ {u} : deciding[w].stage # "idle" =>
         DecisionHolds(w)' /\ DocumentOf(w)' = DocumentOf(w)
  <2> SUFFICES ASSUME NEW w \in User \ {u}, deciding[w].stage # "idle"
               PROVE  DecisionHolds(w)' /\ DocumentOf(w)' = DocumentOf(w)
    OBVIOUS
  <2>1. PICK j \in 1..Len(instances) : j = deciding[w].instance
    BY DEF Inv, TypeOK
  <2>2. deciding[w] \in Decision /\ DecisionHolds(w) /\ j # i
    BY <1>1, <1>2, <2>1 DEF Inv, TypeOK, DecisionsHold, DecisionsDisjoint
  <2>3. PICK e \in Document : e = DocumentOf(w)
    BY <2>1, InstanceTyped DEF Inv, DocumentOf
  <2>4. docs'[e].status = "submitted" => docs[e].status = "submitted"
    BY <1>3, <1>20
  <2>5. HasRead(w) /\ Versioned(e) /\ docs[e].status = "submitted" => docs'[e].status = "submitted"
    <3> SUFFICES ASSUME HasRead(w), Versioned(e), docs[e].status = "submitted"
                 PROVE  docs'[e] = docs[e]
      OBVIOUS
    <3>1. HasRead(u)
      BY <1>2 DEF HasRead
    <3>2. e # d
      BY <1>1, <2>3, <3>1 DEF Inv, DecisionsDisjoint
    <3> QED
      BY <1>3, <3>2 DEF InForce
  <2>6. docs'[e].approval = docs[e].approval
    BY <1>3
  <2> QED
    BY <1>5, <1>7, <2>1, <2>2, <2>3, <2>4, <2>5, <2>6, DecisionFrame
<1>16. DecisionsHold'
  BY <1>6, <1>7, <1>15 DEF Inv, DecisionsHold
<1>17. DecisionsDisjoint'
  <2> SUFFICES ASSUME NEW w \in User, NEW x \in User, w # x
               PROVE  /\ deciding'[w].stage # "idle" /\ deciding'[x].stage # "idle" =>
                           deciding'[w].instance # deciding'[x].instance
                      /\ deciding'[w].found \intersect deciding'[x].found = {}
                      /\ HasRead(w)' /\ HasRead(x)' /\ Versioned(DocumentOf(w)') =>
                           DocumentOf(w)' # DocumentOf(x)'
    BY DEF DecisionsDisjoint, Versioned
  <2>1. CASE w # u /\ x # u
    BY <2>1, <1>7, <1>15 DEF Inv, DecisionsDisjoint, HasRead
  <2>2. CASE w = u \/ x = u
    BY <2>2, <1>6, <1>7 DEF HasRead
  <2> QED
    BY <2>1, <2>2
<1>18. FoundInForce'
  <2> SUFFICES ASSUME NEW w \in User, NEW v \in deciding'[w].found
               PROVE  v \in Rivals(DocumentOf(w))' /\ InForce(v)'
    BY DEF FoundInForce
  <2>1. w # u /\ v \in deciding[w].found
    BY <1>6, <1>7
  <2>2. v \in Rivals(DocumentOf(w)) /\ InForce(v) /\ v \notin deciding[u].found
    BY <2>1 DEF Inv, FoundInForce, DecisionsDisjoint
  <2>3. ~ (v = d /\ deciding[u].applies)
    BY <1>21, <2>2 DEF Rivals, InForce
  <2>4. docs'[v] = docs[v]
    BY <1>3, <2>2, <2>3 DEF Rivals
  <2>5. deciding[w].stage # "idle"
    BY <2>1 DEF Inv, DecisionsHold, Idle
  <2> QED
    BY <1>15, <2>1, <2>2, <2>4, <2>5 DEF Rivals, InForce
<1> QED
  BY <1>8, <1>9, <1>11, <1>12, <1>13, <1>14, <1>16, <1>17, <1>18, <1>22 DEF Inv

LEMMA NextInv == Inv /\ [Next]_vars => Inv'
<1> SUFFICES ASSUME Inv, [Next]_vars PROVE Inv'
  OBVIOUS
<1>1. ASSUME NEW d \in Document, ChangeDocument(d)
      PROVE  Inv'
  BY <1>1, UpdateDocumentStep, ReadRequisitionStep, CancelStep, ObsoleteStep, SubmitStep
  DEF ChangeDocument
<1>2. ASSUME NEW row \in editing, SaveRequisition(row)
      PROVE  Inv'
  BY <1>2, SaveRequisitionStep
<1>3. ASSUME NEW u \in Filers, NEW d \in Document, NEW t \in Template, CreateInstance(u, d, t)
      PROVE  Inv'
  BY <1>3, CreateInstanceStep
<1>4. ASSUME NEW i \in 1..Len(instances), SubmitInstance(i)
      PROVE  Inv'
  BY <1>4, SubmitInstanceStep
<1>5. ASSUME NEW u \in User, NEW i \in 1..Len(instances),
             ApproveStep(u, i) \/ \E outcome \in Outcomes : Decide(u, i, outcome)
      PROVE  Inv'
  BY <1>5, ApproveStepStep, DecideStep
<1>6. ASSUME NEW u \in User, ReadDocument(u) \/ ReplaceVersions(u) \/ Conclude(u) \/ RollBack(u)
      PROVE  Inv'
  BY <1>6, ReadDocumentStep, ReplaceVersionsStep, ConcludeStep, RollBackStep
<1>7. CASE UNCHANGED vars
  <2>1. UNCHANGED <<docs, instances, deciding, editing, edits>>
    BY <1>7 DEF vars
  <2>2. TypeOK' /\ EditingUnguarded'
    BY <2>1 DEF Inv, TypeOK, EditingUnguarded
  <2>3. DecisionsHold' /\ DecisionsDisjoint'
    BY <2>1, ApprovalsStay DEF Inv, DecisionsHold, DecisionsDisjoint, HasRead, DocumentOf
  <2>4. FoundInForce'
    BY <2>1 DEF Inv, FoundInForce, Rivals, InForce, DocumentOf
  <2> QED
    BY <2>1, <2>2, <2>3, <2>4, ApprovalsStay DEF Inv
<1> QED
  BY <1>1, <1>2, <1>3, <1>4, <1>5, <1>6, <1>7 DEF Next

LEMMA Invariance == Spec => []Inv
BY InitInv, NextInv, PTL DEF Spec

\* The documents, approvals and transactions keep their types.
THEOREM TypeCorrect == Spec => []TypeOK
<1>1. Inv => TypeOK
  BY DEF Inv
<1> QED
  BY <1>1, Invariance, PTL

\* What is approved is what was submitted, however edits, withdrawals, cancellations
\* and decisions interleave, and some approval of it was given: that of the
\* submission, unless others were filed by hand.  Those take the content from
\* orders too, where the callback reads without a lock, but not from versions.
THEOREM ApprovalsAreOfTheContent == Spec => []ApprovedAsSubmitted
<1>1. Inv => ApprovedAsSubmitted
  BY DEF Inv, ApprovedAsSubmitted, ApprovedOwn
<1> QED
  BY <1>1, Invariance, PTL

\* A submitted document has its own approval to decide, of its own content,
\* whatever was filed by hand; it has another one only if something was.
THEOREM SubmittedIsNotStuck == Spec => []SubmittedAwaitsDecision
<1>1. ASSUME Inv PROVE SubmittedAwaitsDecision
  <2> SUFFICES ASSUME NEW d \in Document, Guarded(d), docs[d].status = "submitted"
               PROVE  /\ instances[docs[d].approval].doc = d
                      /\ instances[docs[d].approval].status = "pending"
                      /\ instances[docs[d].approval].content = docs[d].content
                      /\ \A i \in 1..Len(instances) :
                           /\ i # docs[d].approval
                           /\ instances[i].doc = d /\ instances[i].status = "pending"
                           => HandMade(d)
    BY DEF SubmittedAwaitsDecision
  <2>1. /\ instances[docs[d].approval].doc = d
        /\ instances[docs[d].approval].status = "pending"
        /\ instances[docs[d].approval].content = docs[d].content
    BY <1>1 DEF Inv, SubmittedOwn, Pending
  <2>2. ASSUME NEW i \in 1..Len(instances), i # docs[d].approval,
               instances[i].doc = d, instances[i].status = "pending"
        PROVE  HandMade(d)
    <3>1. CASE instances[i].filed
      BY <2>2, <3>1 DEF HandMade
    <3>2. CASE ~ instances[i].filed
      BY <1>1, <2>2, <3>2 DEF Inv, OwnPending, Pending
    <3> QED
      BY <3>1, <3>2
  <2> QED
    BY <2>1, <2>2
<1> QED
  BY <1>1, Invariance, PTL

\* However many candidates decide at once, each step of an approval is decided
\* once, by a candidate of that step.
THEOREM StepsAreDecidedOnce == Spec => []EveryStepDecidedOnce
<1>1. Inv => EveryStepDecidedOnce
  BY DEF Inv
<1> QED
  BY <1>1, Invariance, PTL

-----------------------------------------------------------------------------
(* One version in force, where the locking read scans the whole scope.     *)

\* Of each scope one transaction at most replaces versions, and it knows all
\* that are in force.
ReplacingAlone ==
  \A u \in User : deciding[u].stage = "replaced" =>
    /\ \A v \in Rivals(DocumentOf(u)) : v \in deciding[u].found <=> InForce(v)
    /\ \A w \in User : deciding[w].stage = "replaced" => DocumentOf(w) \notin Rivals(DocumentOf(u))

\* Steps that put nothing in force and take out of force only what is free.
LEMMA NothingComesInForce ==
  ASSUME Inv, ReplacingAlone, OneVersionInForce,
         \A v \in Document : Versioned(v) /\ InForce(v)' => InForce(v),
         \A v \in Document : Versioned(v) /\ InForce(v) => InForce(v)' \/ DocumentFree(v),
         \A u \in User : deciding'[u].stage = "replaced" =>
           deciding'[u] = deciding[u] /\ DocumentOf(u)' = DocumentOf(u)
  PROVE  ReplacingAlone' /\ OneVersionInForce'
<1>1. OneVersionInForce'
  <2> SUFFICES ASSUME NEW d \in Document, NEW v \in Document, InForce(d)', InForce(v)', v \in Rivals(d)
               PROVE  FALSE
    BY DEF OneVersionInForce, Rivals
  <2>1. Versioned(v) /\ Versioned(d)
    BY DEF Rivals, Versioned
  <2> QED
    BY <2>1 DEF OneVersionInForce
<1>2. ReplacingAlone'
  <2> SUFFICES ASSUME NEW u \in User, deciding'[u].stage = "replaced"
               PROVE  /\ \A v \in Rivals(DocumentOf(u))' : v \in deciding'[u].found <=> InForce(v)'
                      /\ \A w \in User : deciding'[w].stage = "replaced" =>
                           DocumentOf(w)' \notin Rivals(DocumentOf(u))'
    BY DEF ReplacingAlone
  <2>1. deciding'[u] = deciding[u] /\ Rivals(DocumentOf(u))' = Rivals(DocumentOf(u))
    BY DEF Rivals
  <2>2. \A v \in Rivals(DocumentOf(u)) : v \in deciding[u].found <=> InForce(v)'
    BY <2>1 DEF ReplacingAlone, DocumentFree, Locks, Rivals
  <2> QED
    BY <2>1, <2>2 DEF ReplacingAlone
<1> QED
  BY <1>1, <1>2

\* Submitting keeps the approvals there are.
LEMMA SubmitKeeps ==
  ASSUME Inv, NEW d \in Document, NEW u \in Applicants, Submit(u, d), NEW i \in 1..Len(instances)
  PROVE  instances'[i] = instances[i]
<1>1. instances \in Seq(Instance)
  BY DEF Inv, TypeOK
<1>2. PICK new : instances' = Append(instances, new)
  BY DEF Submit
<1> QED
  BY <1>1, <1>2

LEMMA DocumentStepsReplaceNothing ==
  ASSUME Inv, ReplacingAlone, OneVersionInForce, NEW d \in Document, ChangeDocument(d)
  PROVE  ReplacingAlone' /\ OneVersionInForce'
<1>1. UNCHANGED deciding
  BY DEF ChangeDocument, UpdateDocument, ReadRequisition, Cancel, Obsolete, Submit
<1>2. \A u \in User : deciding[u].stage = "replaced" => DocumentOf(u)' = DocumentOf(u)
  <2> SUFFICES ASSUME NEW u \in User, deciding[u].stage = "replaced"
               PROVE  DocumentOf(u)' = DocumentOf(u)
    OBVIOUS
  <2>1. PICK i \in 1..Len(instances) : i = deciding[u].instance
    BY DEF Inv, TypeOK
  <2>2. UNCHANGED instances \/ \E a \in Applicants : Submit(a, d)
    BY DEF ChangeDocument, UpdateDocument, ReadRequisition, Cancel, Obsolete
  <2>3. instances'[i] = instances[i]
    BY <2>2, SubmitKeeps
  <2> QED
    BY <1>1, <2>1, <2>3 DEF DocumentOf
<1>3. \A e \in Document : docs[e] \in Row
  BY DEF Inv, TypeOK
<1>4. \A v \in Document : Versioned(v) =>
        /\ InForce(v)' => InForce(v)
        /\ InForce(v) => InForce(v)' \/ DocumentFree(v)
  <2>1. CASE UpdateDocument(d)
    BY <1>3, <2>1 DEF UpdateDocument, InForce, Inv, TypeOK, Row
  <2>2. CASE ReadRequisition(d)
    BY <2>2 DEF ReadRequisition, InForce
  <2>4. CASE Cancel(d)
    <3>1. Kind[d] \in Kinds
      BY InputsTyped
    <3>2. ~ Versioned(d)
      BY <2>4, <3>1 DEF Cancel, Cancellable, Versioned, Kinds
    <3> QED
      BY <1>3, <2>4, <3>2 DEF Cancel, InForce, Inv, TypeOK, Row
  <2>5. CASE Obsolete(d)
    BY <1>3, <2>5 DEF Obsolete, InForce, Inv, TypeOK, Row
  <2>6. CASE \E u \in Applicants : Submit(u, d)
    BY <1>3, <2>6 DEF Submit, InForce, Inv, TypeOK, Row
  <2> QED
    BY <2>1, <2>2, <2>4, <2>5, <2>6 DEF ChangeDocument
<1> QED
  BY <1>1, <1>2, <1>4, NothingComesInForce

LEMMA SavedRequisitionsReplaceNothing ==
  ASSUME Inv, ReplacingAlone, OneVersionInForce, NEW row \in editing, SaveRequisition(row)
  PROVE  ReplacingAlone' /\ OneVersionInForce'
<1>1. ~ Versioned(row.doc)
  BY VersionsGuarded DEF Inv, EditingUnguarded
<1>2. \A v \in Document : Versioned(v) => docs'[v] = docs[v]
  BY <1>1 DEF SaveRequisition, Inv, TypeOK
<1>3. UNCHANGED <<instances, deciding>>
  BY DEF SaveRequisition
<1> QED
  BY <1>2, <1>3, NothingComesInForce DEF InForce, DocumentOf

\* Filing approvals by hand changes no document.
LEMMA FilingReplacesNothing ==
  ASSUME Inv, ReplacingAlone, OneVersionInForce,
         \/ \E u \in Filers, d \in Document, t \in Template : CreateInstance(u, d, t)
         \/ \E i \in 1..Len(instances) : SubmitInstance(i)
  PROVE  ReplacingAlone' /\ OneVersionInForce'
<1>1. UNCHANGED <<docs, deciding>>
  BY DEF CreateInstance, SubmitInstance
<1>2. instances \in Seq(Instance)
  BY DEF Inv, TypeOK
<1>3. \A j \in 1..Len(instances) : instances'[j].doc = instances[j].doc
  <2>1. CASE \E u \in Filers, d \in Document, t \in Template : CreateInstance(u, d, t)
    <3>1. PICK new : instances' = Append(instances, new)
      BY <2>1 DEF CreateInstance
    <3> QED
      BY <1>2, <3>1
  <2>2. CASE \E i \in 1..Len(instances) : SubmitInstance(i)
    <3>1. PICK i \in 1..Len(instances) : instances' = [instances EXCEPT ![i].status = "pending"]
      BY <2>2 DEF SubmitInstance
    <3>2. instances[i] \in Instance
      BY <1>2
    <3> QED
      BY <1>2, <3>1, <3>2 DEF Instance
  <2> QED
    BY <2>1, <2>2
<1>4. \A u \in User : deciding[u].stage = "replaced" => DocumentOf(u)' = DocumentOf(u)
  BY <1>1, <1>3 DEF Inv, TypeOK, DocumentOf
<1> QED
  BY <1>1, <1>4, NothingComesInForce DEF InForce

\* Replacing waits until no other transaction of the scope does.
LEMMA ReplacingWaits ==
  ASSUME Inv, ReplacingAlone, OneVersionInForce, ~ ScansByStatus,
         NEW u \in User, ReplaceVersions(u)
  PROVE  ReplacingAlone' /\ OneVersionInForce'
<1> DEFINE old == {v \in Rivals(DocumentOf(u)) : InForce(v)}
<1>1. deciding[u] \in Decision /\ UNCHANGED <<docs, instances>>
  BY DEF Inv, TypeOK, ReplaceVersions
<1>2. deciding' = [deciding EXCEPT ![u] = [deciding[u] EXCEPT !.stage = "replaced", !.found = old]]
  BY DEF ReplaceVersions
<1>3. /\ \A w \in User \ {u} : deciding'[w] = deciding[w]
      /\ deciding'[u].found = old /\ deciding'[u].instance = deciding[u].instance
  BY <1>1, <1>2 DEF Inv, TypeOK, Decision
<1>4. \A w \in User : DocumentOf(w)' = DocumentOf(w)
  BY <1>1, <1>3 DEF DocumentOf
<1>5. Versioned(DocumentOf(u)) /\ DocumentOf(u) \in Document
  BY InstanceTyped DEF ReplaceVersions, Replaces, Inv, TypeOK, DocumentOf
<1>6. \A w \in User \ {u} : deciding[w].stage = "replaced" =>
        /\ DocumentOf(w) \notin Rivals(DocumentOf(u))
        /\ DocumentOf(u) \notin Rivals(DocumentOf(w))
  <2> SUFFICES ASSUME NEW w \in User \ {u}, deciding[w].stage = "replaced"
               PROVE  /\ DocumentOf(w) \notin Rivals(DocumentOf(u))
                      /\ DocumentOf(u) \notin Rivals(DocumentOf(w))
    OBVIOUS
  <2>1. Versioned(DocumentOf(w)) /\ DocumentOf(w) \in Document
    BY InstanceTyped DEF Inv, TypeOK, DecisionsHold, DecisionHolds, Replaces, DocumentOf
  <2>2. ~ DocumentFree(DocumentOf(w))
    BY <2>1 DEF DocumentFree, Locks
  <2>3. DocumentOf(w) \notin Rivals(DocumentOf(u))
    BY <2>2 DEF ReplaceVersions
  <2> QED
    BY <1>5, <2>1, <2>3 DEF Rivals
<1>7. OneVersionInForce'
  BY <1>1 DEF OneVersionInForce, InForce, Rivals
<1>8. DocumentOf(u) \notin Rivals(DocumentOf(u))
  BY DEF Rivals
<1>9. ReplacingAlone'
  <2> SUFFICES ASSUME NEW w \in User, deciding'[w].stage = "replaced"
               PROVE  /\ \A v \in Rivals(DocumentOf(w)) : v \in deciding'[w].found <=> InForce(v)
                      /\ \A x \in User : deciding'[x].stage = "replaced" =>
                           DocumentOf(x) \notin Rivals(DocumentOf(w))
    BY <1>1, <1>4 DEF ReplacingAlone, Rivals, InForce
  <2>1. CASE w = u
    BY <1>3, <1>6, <1>8, <2>1
  <2>2. CASE w # u
    BY <1>3, <1>6, <2>2 DEF ReplacingAlone
  <2> QED
    BY <2>1, <2>2
<1> QED
  BY <1>7, <1>9

\* What comes into force is the one version its decision replaces the others by.
LEMMA ConcludeReplaces ==
  ASSUME Inv, ReplacingAlone, OneVersionInForce, NEW u \in User, Conclude(u)
  PROVE  ReplacingAlone' /\ OneVersionInForce'
<1>1. PICK i, d, outcome :
        i = deciding[u].instance /\ d = DocumentOf(u) /\ outcome = deciding[u].outcome
  OBVIOUS
<1>2. /\ i \in 1..Len(instances) /\ d \in Document /\ d = instances[i].doc
      /\ outcome \in Outcomes /\ MayEnd(u, i, outcome) /\ Pending(i)
      /\ deciding[u].stage \in {"read", "replaced"} /\ DecisionHolds(u)
  BY <1>1, ConcludeWrites
<1>3. /\ deciding[u].applies => docs'[d].status = OutcomeStatus(outcome)
      /\ \A e \in Document :
           \/ e = d /\ deciding[u].applies
           \/ e \in deciding[u].found /\ InForce(e) /\ docs'[e].status = "obsolete"
           \/ e \notin deciding[u].found /\ docs'[e] = docs[e]
      /\ deciding' = [deciding EXCEPT ![u] = Idle]
  BY <1>1, ConcludeWrites
<1>4. /\ \A w \in User \ {u} : deciding'[w] = deciding[w]
      /\ deciding'[u].stage = "idle"
  BY <1>3 DEF Inv, TypeOK, Idle
<1>5. \A j \in 1..Len(instances) : instances'[j].doc = instances[j].doc
  BY <1>1, ConcludeDecides
<1>6. \A w \in User \ {u} : deciding[w].stage = "replaced" => DocumentOf(w)' = DocumentOf(w)
  BY <1>4, <1>5 DEF Inv, TypeOK, DocumentOf
<1>7. \A w \in User \ {u} : deciding[w].stage = "replaced" =>
        Versioned(DocumentOf(w)) /\ DocumentOf(w) \in Document /\ DocumentOf(w) # d
  <2> SUFFICES ASSUME NEW w \in User \ {u}, deciding[w].stage = "replaced"
               PROVE  Versioned(DocumentOf(w)) /\ DocumentOf(w) \in Document /\ DocumentOf(w) # d
    OBVIOUS
  <2>1. PICK j \in 1..Len(instances) : j = deciding[w].instance
    BY DEF Inv, TypeOK
  <2>2. DecisionHolds(w) /\ deciding[w] \in Decision /\ j # i
    BY <1>1, <1>2, <2>1 DEF Inv, TypeOK, DecisionsHold, DecisionsDisjoint
  <2>3. DocumentOf(w) = instances[j].doc /\ HasRead(w) /\ HasRead(u)
    BY <1>2, <2>1 DEF DocumentOf, HasRead
  <2>4. Versioned(DocumentOf(w)) /\ DocumentOf(w) \in Document
    BY <2>2, <2>3, InstanceTyped DEF DecisionHolds, Replaces, Inv
  <2>5. DocumentOf(w) # d
    BY <1>1, <2>3, <2>4 DEF Inv, DecisionsDisjoint
  <2> QED
    BY <2>4, <2>5
<1>8. Versioned(d) /\ deciding[u].applies => ~ InForce(d)
  BY <1>1, <1>2 DEF DecisionHolds, HasRead, InForce
<1>9. CASE Replaces(u)
  <2>1. /\ deciding[u].stage = "replaced" /\ deciding[u].applies
        /\ outcome = "approved" /\ Versioned(d)
    BY <1>1, <1>9 DEF Conclude, Replaces
  <2>2. \A v \in Rivals(d) : v \in deciding[u].found <=> InForce(v)
    BY <1>1, <2>1 DEF ReplacingAlone
  <2>3. \A v \in deciding[u].found : v \in Rivals(d)
    BY <1>1 DEF Inv, FoundInForce
  <2>4. ASSUME NEW v \in Rivals(d)
        PROVE  ~ InForce(v)'
    <3>1. v \in Document /\ v # d
      BY DEF Rivals
    <3>2. InForce(v) => docs'[v].status = "obsolete"
      BY <1>3, <2>2, <3>1
    <3>3. ~ InForce(v) => docs'[v] = docs[v]
      BY <1>3, <2>2, <3>1
    <3> QED
      BY <3>2, <3>3 DEF InForce
  <2>5. \A e \in Document : e # d => (InForce(e)' => InForce(e))
    BY <1>3 DEF InForce
  <2>6. OneVersionInForce'
    <3> SUFFICES ASSUME NEW e \in Document, NEW v \in Document,
                        InForce(e)', InForce(v)', v \in Rivals(e)
                 PROVE  FALSE
      BY DEF OneVersionInForce, Rivals
    <3>1. e # d
      BY <2>4
    <3>2. v = d => e \in Rivals(d)
      BY <2>1, <3>1 DEF Rivals, Versioned
    <3>3. v # d
      BY <2>4, <3>2
    <3> QED
      BY <2>5, <3>1, <3>3 DEF OneVersionInForce
  <2>7. ASSUME NEW w \in User \ {u}, deciding[w].stage = "replaced"
        PROVE  \A v \in Rivals(DocumentOf(w)) : v \in deciding[w].found <=> InForce(v)'
    <3>1. DocumentOf(w) \notin Rivals(d) /\ d \notin Rivals(DocumentOf(w))
      BY <1>1, <2>1, <2>7 DEF ReplacingAlone
    <3>2. \A v \in Rivals(DocumentOf(w)) : v # d /\ v \notin Rivals(d) /\ v \in Document
      BY <1>7, <2>1, <2>7, <3>1 DEF Rivals
    <3>3. \A v \in Rivals(DocumentOf(w)) : docs'[v] = docs[v]
      BY <1>3, <2>3, <3>2
    <3> QED
      BY <2>7, <3>3 DEF ReplacingAlone, InForce
  <2>8. ReplacingAlone'
    <3> SUFFICES ASSUME NEW w \in User, deciding'[w].stage = "replaced"
                 PROVE  /\ \A v \in Rivals(DocumentOf(w))' : v \in deciding'[w].found <=> InForce(v)'
                        /\ \A x \in User : deciding'[x].stage = "replaced" =>
                             DocumentOf(x)' \notin Rivals(DocumentOf(w))'
      BY DEF ReplacingAlone
    <3>1. w # u /\ deciding'[w] = deciding[w] /\ Rivals(DocumentOf(w))' = Rivals(DocumentOf(w))
      BY <1>4, <1>6 DEF Rivals
    <3> QED
      BY <1>4, <1>6, <2>7, <3>1 DEF ReplacingAlone
  <2> QED
    BY <2>6, <2>8
<1>10. CASE ~ Replaces(u)
  <2>1. deciding[u].found = {}
    BY <1>2, <1>10 DEF Conclude, DecisionHolds
  <2>2. \A e \in Document : docs'[e] = docs[e] \/ (e = d /\ deciding[u].applies)
    BY <1>3, <2>1
  <2>3. deciding[u].applies /\ Versioned(d) => outcome # "approved" /\ ~ InForce(d)'
    BY <1>1, <1>2, <1>3, <1>10 DEF Replaces, OutcomeStatus, Outcomes, InForce
  <2>4. \A v \in Document : Versioned(v) => (InForce(v)' <=> InForce(v))
    BY <1>8, <2>2, <2>3 DEF InForce
  <2>5. \A w \in User : deciding'[w].stage = "replaced" =>
          deciding'[w] = deciding[w] /\ DocumentOf(w)' = DocumentOf(w)
    BY <1>4, <1>6
  <2> QED
    BY <2>4, <2>5, NothingComesInForce
<1> QED
  BY <1>9, <1>10

\* Of the versions of one scope at most one is in force at any time, however many
\* approvals of them are decided at once, where the locking read finds them by scope.
THEOREM VersionsReplaceEachOther ==
  ASSUME ~ ScansByStatus
  PROVE  Spec => []OneVersionInForce
<1> DEFINE VersionInv == ReplacingAlone /\ OneVersionInForce
<1>1. Init => VersionInv
  BY DEF Init, Idle, ReplacingAlone, OneVersionInForce, InForce
<1>2. Inv /\ VersionInv /\ [Next]_vars => VersionInv'
  <2> SUFFICES ASSUME Inv, ReplacingAlone, OneVersionInForce, [Next]_vars
               PROVE  VersionInv'
    OBVIOUS
  <2>1. ASSUME NEW u \in User, NEW i \in 1..Len(instances), ApproveStep(u, i)
        PROVE  VersionInv'
    <3>1. \A w \in User : deciding[w].stage = "replaced" => DocumentOf(w)' = DocumentOf(w)
      BY <2>1 DEF ApproveStep, InstanceFree, Inv, TypeOK, DocumentOf
    <3> QED
      BY <2>1, <3>1, NothingComesInForce DEF ApproveStep, InForce
  <2>2. ASSUME NEW u \in User, NEW i \in 1..Len(instances), NEW outcome \in Outcomes,
               Decide(u, i, outcome)
        PROVE  VersionInv'
    <3>1. /\ \A w \in User \ {u} : deciding'[w] = deciding[w]
          /\ deciding'[u].stage = "decided" /\ UNCHANGED <<docs, instances>>
      BY <2>2 DEF Decide, Idle, Inv, TypeOK
    <3> QED
      BY <3>1, NothingComesInForce DEF InForce, DocumentOf
  <2>3. ASSUME NEW u \in User, ReadDocument(u)
        PROVE  VersionInv'
    <3>1. deciding[u] \in Decision
      BY DEF Inv, TypeOK
    <3>2. /\ \A w \in User \ {u} : deciding'[w] = deciding[w]
          /\ deciding'[u].stage = "read" /\ UNCHANGED <<docs, instances>>
      BY <2>3, <3>1 DEF ReadDocument, Decision, Inv, TypeOK
    <3> QED
      BY <3>2, NothingComesInForce DEF InForce, DocumentOf
  <2>4. ASSUME NEW u \in User, RollBack(u)
        PROVE  VersionInv'
    <3>1. /\ \A w \in User \ {u} : deciding'[w] = deciding[w]
          /\ deciding'[u].stage = "idle" /\ UNCHANGED <<docs, instances>>
      BY <2>4 DEF RollBack, Idle, Inv, TypeOK
    <3> QED
      BY <3>1, NothingComesInForce DEF InForce, DocumentOf
  <2>5. CASE UNCHANGED vars
    BY <2>5, NothingComesInForce DEF vars, InForce, DocumentOf
  <2> QED
    BY <2>1, <2>2, <2>3, <2>4, <2>5, DocumentStepsReplaceNothing, SavedRequisitionsReplaceNothing,
       FilingReplacesNothing, ReplacingWaits, ConcludeReplaces
    DEF Next
<1>3. VersionInv => OneVersionInForce
  OBVIOUS
<1> QED
  BY <1>1, <1>2, <1>3, Invariance, PTL DEF Spec

(***************************************************************************)
(* Versions.                                                               *)
(***************************************************************************)

\* The numbers of a scope's rows are all there, from one to how many they are.
NumbersUsed ==
  \A s \in ScopeKey : \A n \in 1..Cardinality(ScopeRows(s)) :
    \E v \in ScopeRows(s) : versions[v].no = n

\* A number that was read may have been overtaken, and is never ahead of the next one.
NotAhead ==
  \A c \in Caller : creating[c].stage = "numbered" =>
    creating[c].no \in 1..(Cardinality(ScopeRows(creating[c].scope)) + 1)

\* A creation has a code once it is past taking one, and not before.
CodeKnown ==
  \A c \in Caller :
    /\ creating[c].stage \in {"coded", "numbered"} => creating[c].code \in Code
    /\ creating[c].stage \in {"idle", "begun"} => creating[c].code = NoCode

\* Of a scope no version but the one approved last is in force.
LatestKnown ==
  /\ \A s \in ScopeKey : approved[s] # 0 => versions[approved[s]].scope = s
  /\ \A v \in 1..Len(versions) :
       versions[v].status = "approved" => approved[versions[v].scope] = v

VersionsInv ==
  VersionsTypeOK /\ VersionsRunOn /\ NumbersUsed /\ NotAhead /\ CodeKnown /\ LatestKnown

\* A step that leaves every row its scope and number.
RowsStay ==
  /\ Len(versions') = Len(versions)
  /\ \A v \in 1..Len(versions) :
       versions'[v].scope = versions[v].scope /\ versions'[v].no = versions[v].no

LEMMA ScopeRowsFinite ==
  ASSUME VersionsTypeOK, NEW s
  PROVE  /\ IsFiniteSet(ScopeRows(s)) /\ Cardinality(ScopeRows(s)) \in Nat
         /\ \A S \in SUBSET ScopeRows(s) :
              IsFiniteSet(S) /\ Cardinality(S) \in Nat /\ Cardinality(S) <= Cardinality(ScopeRows(s))
<1>1. Len(versions) \in Nat
  BY DEF VersionsTypeOK
<1>2. IsFiniteSet(1..Len(versions))
  BY <1>1, FS_Interval
<1>3. ScopeRows(s) \in SUBSET (1..Len(versions))
  BY DEF ScopeRows
<1>4. IsFiniteSet(ScopeRows(s))
  BY <1>2, <1>3, FS_Subset
<1> QED BY <1>4, FS_Subset, FS_CardinalityType

LEMMA RowType ==
  ASSUME VersionsTypeOK, NEW v \in 1..Len(versions)
  PROVE  /\ versions[v] \in Version /\ versions[v].scope \in ScopeKey
         /\ versions[v].no \in Nat /\ versions[v].no >= 1
<1>1. versions[v] \in Version
  BY DEF VersionsTypeOK
<1> QED BY <1>1 DEF Version

LEMMA CreationType ==
  ASSUME VersionsTypeOK, NEW c \in Caller
  PROVE  creating[c] \in Creation
BY DEF VersionsTypeOK

LEMMA NotCreatingTyped == NotCreating \in Creation
<1>1. <<>> \in Seq(Line)
  OBVIOUS
<1> QED BY <1>1 DEF NotCreating, Creation, ScopeKey

-----------------------------------------------------------------------------
(* Types.                                                                  *)

LEMMA BeginTyped ==
  ASSUME VersionsTypeOK, NEW c \in Caller, NEW scope \in ScopeKey, NEW list \in Seq(Line),
         NEW source \in Nat, NEW code \in TypedCodes \union {NoCode},
         Begin(c, scope, list, source, code)
  PROVE  VersionsTypeOK'
<1> DEFINE new == [NotCreating EXCEPT !.stage = IF code = NoCode THEN "begun" ELSE "coded",
                     !.scope = scope, !.lines = list, !.source = source,
                     !.typed = code # NoCode, !.code = code]
<1>1. code \in Code \union {NoCode}
  BY VersionInputs
<1>2. new \in Creation
  BY <1>1, NotCreatingTyped DEF Creation, NotCreating
<1>3. creating' = [creating EXCEPT ![c] = new]
  BY DEF Begin
<1> HIDE DEF new
<1>4. creating' \in [Caller -> Creation]
  BY <1>2, <1>3 DEF VersionsTypeOK
<1> QED BY <1>4 DEF Begin, VersionsTypeOK, NumbersTypeOK, numberVars

LEMMA FunctionIsSequence ==
  ASSUME NEW S, NEW n \in Nat, NEW f \in [1..n -> S]
  PROVE  f \in Seq(S) /\ Len(f) = n
<1>1. f \in Seq(S)
  BY SeqDef
<1>2. DOMAIN f = 1..n /\ Len(f) \in Nat /\ DOMAIN f = 1..Len(f)
  BY <1>1, LenProperties
<1> QED BY <1>1, <1>2

LEMMA ChangedSequence ==
  ASSUME NEW S, NEW s \in Seq(S), NEW i \in 1..Len(s), NEW e \in S
  PROVE  /\ [s EXCEPT ![i] = e] \in Seq(S)
         /\ Len([s EXCEPT ![i] = e]) = Len(s)
         /\ \A w \in 1..Len(s) : [s EXCEPT ![i] = e][w] = IF w = i THEN e ELSE s[w]
<1>1. /\ [s EXCEPT ![i] = e] \in Seq(S)
      /\ Len([s EXCEPT ![i] = e]) = Len(s)
  BY ExceptSeq
<1>2. ASSUME NEW w \in 1..Len(s)
      PROVE  [s EXCEPT ![i] = e][w] = IF w = i THEN e ELSE s[w]
  BY ExceptSeq
<1> QED BY <1>1, <1>2

LEMMA RowChanged ==
  ASSUME VersionsTypeOK, NEW v \in 1..Len(versions), NEW row \in Version
  PROVE  /\ [versions EXCEPT ![v] = row] \in Seq(Version)
         /\ Len([versions EXCEPT ![v] = row]) = Len(versions)
         /\ \A w \in 1..Len(versions) :
              [versions EXCEPT ![v] = row][w] = IF w = v THEN row ELSE versions[w]
<1>1. versions \in Seq(Version)
  BY DEF VersionsTypeOK
<1> QED BY <1>1, ChangedSequence

LEMMA LifeTyped ==
  ASSUME VersionsTypeOK, NEW v \in 1..Len(versions),
         \/ Replace(v) \/ SubmitVersion(v) \/ Outcome(v) \/ MakeObsolete(v) \/ SetActive(v)
  PROVE  VersionsTypeOK' /\ RowsStay
<1> USE RowType DEF Version
<1>0. UNCHANGED <<numberVars, kind, creating>>
  BY DEF Replace, SubmitVersion, Outcome, MakeObsolete, SetActive
<1>1. /\ versions' \in Seq(Version) /\ RowsStay
      /\ approved' \in [ScopeKey -> 0..Len(versions)]
  <2>1. ASSUME NEW row \in Version, versions' = [versions EXCEPT ![v] = row],
               row.scope = versions[v].scope, row.no = versions[v].no
        PROVE  versions' \in Seq(Version) /\ RowsStay
    <3>1. versions' \in Seq(Version) /\ Len(versions') = Len(versions)
      BY <2>1, RowChanged
    <3>2. \A w \in 1..Len(versions) : versions'[w] = IF w = v THEN row ELSE versions[w]
      <4> HIDE RowType DEF Version
      <4> QED BY <2>1, RowChanged
    <3> QED BY <2>1, <3>1, <3>2 DEF RowsStay
  <2>a. approved \in [ScopeKey -> 0..Len(versions)]
    BY DEF VersionsTypeOK
  <2>2. CASE Replace(v)
    <3>1. PICK list \in GivenLines : versions' = [versions EXCEPT ![v] = [versions[v] EXCEPT !.lines = list]]
      BY <2>2 DEF Replace
    <3>2. list \in Seq(Line)
      BY VersionInputs
    <3>3. [versions[v] EXCEPT !.lines = list] \in Version
      BY <3>2
    <3>4. versions' \in Seq(Version) /\ RowsStay
      BY <3>1, <3>3, <2>1
    <3> QED BY <2>2, <2>a, <3>4 DEF Replace
  <2>3. CASE SubmitVersion(v)
    <3>1. versions' = [versions EXCEPT ![v] = [versions[v] EXCEPT !.status = "submitted"]]
      BY <2>3 DEF SubmitVersion
    <3>2. [versions[v] EXCEPT !.status = "submitted"] \in Version
      BY DEF VersionStatus
    <3>4. versions' \in Seq(Version) /\ RowsStay
      BY <3>1, <3>2, <2>1
    <3> QED BY <2>3, <2>a, <3>4 DEF SubmitVersion
  <2>4. CASE MakeObsolete(v)
    <3>1. versions' = [versions EXCEPT ![v] = [versions[v] EXCEPT !.status = "obsolete", !.is_active = FALSE]]
      BY <2>4 DEF MakeObsolete, VersionsTypeOK
    <3>2. [versions[v] EXCEPT !.status = "obsolete", !.is_active = FALSE] \in Version
      BY DEF VersionStatus
    <3>4. versions' \in Seq(Version) /\ RowsStay
      BY <3>1, <3>2, <2>1
    <3> QED BY <2>4, <2>a, <3>4 DEF MakeObsolete
  <2>5. CASE SetActive(v)
    <3>1. versions' = [versions EXCEPT ![v] = [versions[v] EXCEPT !.is_active = ~ versions[v].is_active]]
      BY <2>5 DEF SetActive
    <3>2. [versions[v] EXCEPT !.is_active = ~ versions[v].is_active] \in Version
      OBVIOUS
    <3>4. versions' \in Seq(Version) /\ RowsStay
      BY <3>1, <3>2, <2>1
    <3> QED BY <2>5, <2>a, <3>4 DEF SetActive
  <2>6. CASE Outcome(v) /\ RecordOutcome(v)
    <3>1. PICK status \in {"rejected", "draft"} : versions' = [versions EXCEPT ![v] = [versions[v] EXCEPT !.status = status]]
      BY <2>6 DEF RecordOutcome
    <3>2. [versions[v] EXCEPT !.status = status] \in Version
      BY DEF VersionStatus
    <3>4. versions' \in Seq(Version) /\ RowsStay
      BY <3>1, <3>2, <2>1
    <3> QED BY <2>6, <2>a, <3>4 DEF RecordOutcome
  <2>7. CASE Outcome(v) /\ ActivateVersion(v)
    <3> DEFINE status(w) == IF w = v THEN "approved"
                            ELSE IF w \in OthersInForce(v) THEN "obsolete" ELSE versions[w].status
               after == [w \in 1..Len(versions) |-> [versions[w] EXCEPT !.status = status(w)]]
    <3>1. versions' = after
      BY <2>7 DEF ActivateVersion
    <3>2. \A w \in 1..Len(versions) : status(w) \in VersionStatus
      BY DEF VersionStatus
    <3>3. \A w \in 1..Len(versions) :
            /\ after[w] \in Version
            /\ after[w].scope = versions[w].scope /\ after[w].no = versions[w].no
      <4> SUFFICES ASSUME NEW w \in 1..Len(versions)
                   PROVE  /\ after[w] \in Version
                          /\ after[w].scope = versions[w].scope /\ after[w].no = versions[w].no
        OBVIOUS
      <4>1. versions[w] \in Version /\ status(w) \in VersionStatus
        BY <3>2
      <4>2. after[w] = [versions[w] EXCEPT !.status = status(w)]
        OBVIOUS
      <4> HIDE DEF after, status
      <4> QED BY <4>1, <4>2
    <3>4. Len(versions) \in Nat
      BY DEF VersionsTypeOK
    <3> HIDE DEF status
    <3>5. after \in Seq(Version) /\ Len(after) = Len(versions)
      <4>1. after \in [1..Len(versions) -> Version]
        BY <3>3
      <4> HIDE DEF after
      <4> HIDE DEF Version
      <4> QED BY ONLY <3>4, <4>1, FunctionIsSequence
    <3>6. approved' \in [ScopeKey -> 0..Len(versions)]
      BY <2>7, <2>a DEF ActivateVersion
    <3> QED BY <3>1, <3>3, <3>5, <3>6 DEF RowsStay
  <2> QED BY <2>2, <2>3, <2>4, <2>5, <2>6, <2>7 DEF Outcome
<1> QED BY <1>0, <1>1 DEF VersionsTypeOK, NumbersTypeOK, numberVars, RowsStay

LEMMA TakeCodeTyped ==
  ASSUME VersionsTypeOK, NEW c \in Caller, TakeCode(c)
  PROVE  /\ VersionsTypeOK' /\ UNCHANGED <<versions, approved>>
         /\ creating'[c].stage = "coded" /\ creating'[c].code \in Code
         /\ \A d \in Caller \ {c} : creating'[d] = creating[d]
<1>1. PeriodKey \in {0} \union Day
  BY DEF PeriodKey, VersionsTypeOK, NumbersTypeOK
<1>2. counters[PeriodKey] \in 0..MaxNumber /\ counters[PeriodKey] < MaxNumber
  BY <1>1 DEF VersionsTypeOK, NumbersTypeOK, TakeCode, GenerateCode
<1>3. taken' = [taken EXCEPT ![c] = counters[PeriodKey] + 1] /\ taken \in [Caller -> 0..MaxNumber]
  BY DEF TakeCode, GenerateCode, VersionsTypeOK, NumbersTypeOK
<1>4. counters[PeriodKey] + 1 \in 1..MaxNumber
  BY <1>2, NumberInputs
<1>5. taken' \in [Caller -> 0..MaxNumber] /\ taken'[c] \in 1..MaxNumber
  BY <1>3, <1>4
<1>6. Render(taken'[c]) \in Code
  BY <1>5 DEF Render, Code, VersionsTypeOK, NumbersTypeOK
<1>7. [creating[c] EXCEPT !.stage = "coded", !.code = Render(taken'[c]), !.key = PeriodKey] \in Creation
  BY <1>1, <1>6, CreationType DEF Creation
<1>8. creating' = [creating EXCEPT ![c] =
        [creating[c] EXCEPT !.stage = "coded", !.code = Render(taken'[c]), !.key = PeriodKey]]
  BY DEF TakeCode, VersionsTypeOK
<1>9. creating[c] \in Creation /\ creating \in [Caller -> Creation]
  BY DEF VersionsTypeOK
<1>10. creating' \in [Caller -> Creation] /\ creating'[c].stage = "coded"
       /\ creating'[c].code \in Code
       /\ \A d \in Caller \ {c} : creating'[d] = creating[d]
  BY <1>6, <1>7, <1>8, <1>9 DEF Creation
<1> QED BY <1>5, <1>10 DEF TakeCode, VersionsTypeOK, NumbersTypeOK

LEMMA GiveUpTyped ==
  ASSUME VersionsTypeOK, NEW c \in Caller, GiveUp(c)
  PROVE  /\ VersionsTypeOK' /\ UNCHANGED <<versions, approved>>
         /\ creating'[c].stage = "idle" /\ creating'[c].code = NoCode
         /\ \A d \in Caller \ {c} : creating'[d] = creating[d]
<1>1. creating' \in [Caller -> Creation] /\ creating'[c].stage = "idle"
      /\ creating'[c].code = NoCode
      /\ \A d \in Caller \ {c} : creating'[d] = creating[d]
  BY NotCreatingTyped DEF GiveUp, VersionsTypeOK, NotCreating
<1>2. 0 \in 0..MaxNumber
  BY NumberInputs
<1>3. taken' \in [Caller -> 0..MaxNumber]
  BY <1>2 DEF GiveUp, VersionsTypeOK, NumbersTypeOK
<1> QED BY <1>1, <1>3 DEF GiveUp, VersionsTypeOK, NumbersTypeOK

LEMMA RuleTyped ==
  ASSUME VersionsTypeOK, RuleNext
  PROVE  VersionsTypeOK' /\ UNCHANGED versionVars
<1>1. UNCHANGED versionVars
  BY DEF RuleNext
<1>2. CASE ChangeRule
  BY <1>1, <1>2 DEF ChangeRule, VersionsTypeOK, NumbersTypeOK, versionVars, Rule
<1>3. CASE NextDay
  <2>1. day' \in Day
    BY <1>3, NumberInputs DEF NextDay, Day, VersionsTypeOK, NumbersTypeOK
  <2> QED BY <1>1, <1>3, <2>1 DEF NextDay, VersionsTypeOK, NumbersTypeOK, versionVars
<1> QED BY <1>1, <1>2, <1>3 DEF RuleNext

\* The number that is read follows one that is stored, or is the first.
LEMMA NumberRead ==
  ASSUME VersionsInv, NEW c \in Caller, NextVersionNo(c)
  PROVE  \E no \in 1..(Cardinality(ScopeRows(creating[c].scope)) + 1) :
           creating' = [creating EXCEPT ![c] = [creating[c] EXCEPT !.stage = "numbered", !.no = no]]
<1> DEFINE scope == creating[c].scope
           last(v) == \A w \in ScopeRows(scope) : versions[w].no <= versions[v].no
           rows == {v \in ScopeRows(scope) : last(v)}
           no == IF rows = {} THEN 1 ELSE versions[CHOOSE v \in rows : TRUE].no + 1
           R == Cardinality(ScopeRows(scope))
<1>0. VersionsTypeOK
  BY DEF VersionsInv
<1>1. creating' = [creating EXCEPT ![c] = [creating[c] EXCEPT !.stage = "numbered", !.no = no]]
  BY <1>0 DEF NextVersionNo, VersionsTypeOK
<1>2. R \in Nat
  BY <1>0, ScopeRowsFinite
<1>3. \A v \in ScopeRows(scope) : versions[v].no \in 1..R
  <2> SUFFICES ASSUME NEW v \in ScopeRows(scope) PROVE versions[v].no \in 1..R
    OBVIOUS
  <2>1. v \in 1..Len(versions) /\ versions[v].scope = scope
    BY DEF ScopeRows
  <2>2. versions[v].no = Cardinality({w \in ScopeRows(scope) : w <= v})
    BY <2>1 DEF VersionsInv, VersionsRunOn
  <2>3. {w \in ScopeRows(scope) : w <= v} \in SUBSET ScopeRows(scope)
    OBVIOUS
  <2>4. versions[v].no <= R
    BY <1>0, <2>2, <2>3, ScopeRowsFinite
  <2> QED BY <1>0, <1>2, <2>1, <2>4, RowType
<1>4. no \in 1..(R + 1)
  <2>1. CASE rows = {}
    BY <1>2, <2>1
  <2>2. CASE rows # {}
    <3>1. (CHOOSE v \in rows : TRUE) \in ScopeRows(scope)
      BY <2>2
    <3> HIDE DEF rows
    <3>2. versions[CHOOSE v \in rows : TRUE].no \in 1..R
      BY <3>1, <1>3
    <3> QED BY <1>2, <2>2, <3>2
  <2> QED BY <2>1, <2>2
<1> HIDE DEF no, R
<1>5. creating' = [creating EXCEPT ![c] = [creating[c] EXCEPT !.stage = "numbered", !.no = no]]
      /\ no \in 1..(R + 1)
  BY <1>1, <1>4
<1> QED BY <1>5 DEF R

-----------------------------------------------------------------------------
(* Numbers.                                                                *)

LEMMA RowsStayNumbered ==
  ASSUME VersionsInv, RowsStay
  PROVE  /\ VersionsRunOn' /\ NumbersUsed'
         /\ \A s \in ScopeKey : ScopeRows(s)' = ScopeRows(s)
<1>1. \A s \in ScopeKey : ScopeRows(s)' = ScopeRows(s)
  BY DEF RowsStay, ScopeRows
<1>2. VersionsRunOn'
  <2> SUFFICES ASSUME NEW v \in 1..Len(versions)
               PROVE  versions'[v].no = Cardinality({w \in ScopeRows(versions[v].scope)' : w <= v})
    BY DEF RowsStay, VersionsRunOn
  <2>1. versions[v].scope \in ScopeKey
    BY RowType DEF VersionsInv
  <2>2. versions'[v].scope = versions[v].scope /\ versions'[v].no = versions[v].no
    BY DEF RowsStay
  <2>3. ScopeRows(versions[v].scope)' = ScopeRows(versions[v].scope)
    BY <1>1, <2>1, <2>2 DEF ScopeRows, RowsStay
  <2> QED BY <2>2, <2>3 DEF VersionsInv, VersionsRunOn
<1>3. NumbersUsed'
  <2> SUFFICES ASSUME NEW s \in ScopeKey, NEW n \in 1..Cardinality(ScopeRows(s))
               PROVE  \E v \in ScopeRows(s) : versions'[v].no = n
    BY <1>1 DEF NumbersUsed
  <2>1. PICK v \in ScopeRows(s) : versions[v].no = n
    BY DEF VersionsInv, NumbersUsed
  <2> QED BY <2>1 DEF RowsStay, ScopeRows
<1> QED BY <1>1, <1>2, <1>3

\* What a row that is stored does to its scope and to the others.
LEMMA StoreRow ==
  ASSUME VersionsInv, NEW c \in Caller, Store(c)
  PROVE  LET scope == creating[c].scope
             R == Cardinality(ScopeRows(scope))
         IN /\ scope \in ScopeKey /\ R \in Nat
            /\ Len(versions) \in Nat /\ Len(versions') = Len(versions) + 1
            /\ versions'[Len(versions) + 1].scope = scope
            /\ versions'[Len(versions) + 1].no = R + 1
            /\ versions'[Len(versions) + 1].status = "draft"
            /\ \A v \in 1..Len(versions) : versions'[v] = versions[v]
            /\ \A s \in {scope} : /\ ScopeRows(s)' = ScopeRows(s) \union {Len(versions) + 1}
                                  /\ Cardinality(ScopeRows(s)') = R + 1
            /\ \A s \in ScopeKey \ {scope} : ScopeRows(s)' = ScopeRows(s)
            /\ versions' \in Seq(Version)
            /\ creating' = [creating EXCEPT ![c] = NotCreating]
<1> DEFINE scope == creating[c].scope
           R == Cardinality(ScopeRows(scope))
           row == [scope |-> scope, no |-> creating[c].no, code |-> creating[c].code,
                   typed |-> creating[c].typed, status |-> "draft", is_active |-> TRUE,
                   lines |-> creating[c].lines]
<1>0. VersionsTypeOK
  BY DEF VersionsInv
<1>1. creating[c] \in Creation /\ creating[c].stage = "numbered"
  BY <1>0 DEF VersionsTypeOK, Store
<1>2. scope \in ScopeKey /\ creating[c].typed \in BOOLEAN /\ creating[c].lines \in Seq(Line)
      /\ creating[c].no \in Nat /\ creating[c].code \in Code \union {NoCode}
  BY <1>1 DEF Creation
<1>3. R \in Nat /\ IsFiniteSet(ScopeRows(scope))
  BY <1>0, ScopeRowsFinite
<1>4. creating[c].no = R + 1
  <2>1. creating[c].no \in 1..(R + 1)
    BY <1>1 DEF VersionsInv, NotAhead
  <2>2. \A v \in ScopeRows(scope) : versions[v].no # creating[c].no
    BY DEF Store, NumberFree
  <2>3. \A n \in 1..R : \E v \in ScopeRows(scope) : versions[v].no = n
    BY <1>2 DEF VersionsInv, NumbersUsed
  <2>4. creating[c].no \notin 1..R
    BY <2>2, <2>3
  <2> HIDE DEF R
  <2> QED BY <1>3, <2>1, <2>4
<1>5. versions' = Append(versions, row) /\ creating' = [creating EXCEPT ![c] = NotCreating]
  BY DEF Store
<1>6. creating[c].code \in Code
  BY <1>1 DEF VersionsInv, CodeKnown
<1>7. row \in Version
  BY <1>2, <1>3, <1>4, <1>6 DEF Version, VersionStatus
<1> HIDE DEF row
<1>8. /\ Len(versions) \in Nat /\ Len(versions') = Len(versions) + 1
      /\ \A v \in 1..Len(versions) : versions'[v] = versions[v]
      /\ versions'[Len(versions) + 1] = row /\ versions' \in Seq(Version)
  <2>1. versions \in Seq(Version)
    BY <1>0 DEF VersionsTypeOK
  <2> HIDE DEF Version
  <2> QED BY <2>1, <1>5, <1>7, AppendProperties, LenProperties
<1>9. row.scope = scope /\ row.no = R + 1 /\ row.status = "draft"
  BY <1>4 DEF row
<1> HIDE DEF scope, R
<1>10. \A s \in ScopeKey : ScopeRows(s)' =
         ScopeRows(s) \union (IF s = scope THEN {Len(versions) + 1} ELSE {})
  BY <1>8, <1>9 DEF ScopeRows
<1>11. \A s \in {scope} : ScopeRows(s)' = ScopeRows(s) \union {Len(versions) + 1}
  BY <1>2, <1>10
<1>12. \A s \in ScopeKey \ {scope} : ScopeRows(s)' = ScopeRows(s)
  BY <1>10
<1>13. Len(versions) + 1 \notin ScopeRows(scope)
  BY <1>8 DEF ScopeRows
<1>14. \A s \in {scope} : Cardinality(ScopeRows(s)') = R + 1
  <2> SUFFICES ASSUME NEW s \in {scope} PROVE Cardinality(ScopeRows(s)') = R + 1
    OBVIOUS
  <2> QED BY <1>3, <1>11, <1>13, FS_AddElement DEF R
<1> QED BY <1>2, <1>3, <1>5, <1>8, <1>9, <1>11, <1>12, <1>14 DEF scope, R

LEMMA StoreTyped ==
  ASSUME VersionsInv, NEW c \in Caller, Store(c)
  PROVE  VersionsTypeOK'
<1>0. VersionsTypeOK
  BY DEF VersionsInv
<1>1. creating[c] \in Creation
  BY <1>0, CreationType
<1>2. creating[c].key \in {0} \union Day
  BY <1>1 DEF Creation
<1>3. counters' \in [{0} \union Day -> 0..MaxNumber] /\ taken' \in [Caller -> 0..MaxNumber]
  <2>1. 0 \in 0..MaxNumber
    BY NumberInputs
  <2> QED BY <1>0, <1>2, <2>1 DEF Store, KeepNumber, VersionsTypeOK, NumbersTypeOK
<1>4. creating' \in [Caller -> Creation] /\ versions' \in Seq(Version)
  BY <1>0, StoreRow, NotCreatingTyped DEF VersionsTypeOK
<1>5. approved' \in [ScopeKey -> 0..Len(versions')]
  BY <1>0, StoreRow DEF Store, VersionsTypeOK
<1> QED BY <1>0, <1>3, <1>4, <1>5 DEF Store, VersionsTypeOK, NumbersTypeOK

LEMMA StoreNumbered ==
  ASSUME VersionsInv, NEW c \in Caller, Store(c)
  PROVE  /\ VersionsRunOn' /\ NumbersUsed' /\ LatestKnown'
         /\ \A s \in ScopeKey : /\ Cardinality(ScopeRows(s)') \in Nat
                                /\ Cardinality(ScopeRows(s)) <= Cardinality(ScopeRows(s)')
<1>0. VersionsTypeOK
  BY DEF VersionsInv
<1> DEFINE n == Len(versions)
           R(s) == Cardinality(ScopeRows(s))
<1>1. \A s \in ScopeKey : R(s) \in Nat
  BY <1>0, ScopeRowsFinite
<1>2. PICK scope \in ScopeKey :
        /\ Len(versions) \in Nat /\ Len(versions') = n + 1
        /\ versions'[n + 1].scope = scope /\ versions'[n + 1].no = R(scope) + 1
        /\ versions'[n + 1].status = "draft"
        /\ \A v \in 1..n : versions'[v] = versions[v]
        /\ ScopeRows(scope)' = ScopeRows(scope) \union {n + 1}
        /\ Cardinality(ScopeRows(scope)') = R(scope) + 1
        /\ \A s \in ScopeKey \ {scope} : ScopeRows(s)' = ScopeRows(s)
  <2>1. creating[c].scope \in ScopeKey
    BY StoreRow
  <2>2. PICK s \in ScopeKey : s = creating[c].scope
    BY <2>1
  <2> QED BY <2>2, StoreRow
<1>3. \A s \in ScopeKey : /\ Cardinality(ScopeRows(s)') \in Nat
                          /\ Cardinality(ScopeRows(s)) <= Cardinality(ScopeRows(s)')
                          /\ s # scope => Cardinality(ScopeRows(s)') = R(s)
  <2> SUFFICES ASSUME NEW s \in ScopeKey
               PROVE  /\ Cardinality(ScopeRows(s)') \in Nat
                      /\ Cardinality(ScopeRows(s)) <= Cardinality(ScopeRows(s)')
                      /\ s # scope => Cardinality(ScopeRows(s)') = R(s)
    OBVIOUS
  <2>0. R(s) \in Nat
    BY <1>1
  <2>1. CASE s = scope
    <3>1. Cardinality(ScopeRows(s)') = R(s) + 1
      BY <1>2, <2>1
    <3> QED BY <2>0, <2>1, <3>1
  <2>2. CASE s # scope
    <3>1. ScopeRows(s)' = ScopeRows(s)
      BY <1>2, <2>2
    <3>2. Cardinality(ScopeRows(s)') = R(s)
      BY <3>1
    <3> QED BY <2>0, <3>2
  <2> QED BY <2>1, <2>2
<1>4. \A v \in 1..(n + 1) : v \in 1..n \/ v = n + 1
  BY <1>2
<1>5. VersionsRunOn'
  <2> SUFFICES ASSUME NEW v \in 1..(n + 1), NEW s, s = versions'[v].scope
               PROVE  versions'[v].no = Cardinality({w \in ScopeRows(s)' : w <= v})
    BY <1>2 DEF VersionsRunOn, ScopeRows
  <2>1. CASE v = n + 1
    <3>1. s = scope
      BY <1>2, <2>1
    <3>2. \A w \in ScopeRows(s)' : w <= v
      BY <1>2, <2>1 DEF ScopeRows
    <3>3. {w \in ScopeRows(s)' : w <= v} = ScopeRows(s)'
      BY <3>2
    <3> QED BY <1>2, <2>1, <3>1, <3>3
  <2>2. CASE v \in 1..n
    <3>1. versions'[v] = versions[v] /\ s \in ScopeKey
      BY <1>0, <1>2, <2>2, RowType
    <3>2. \A w \in ScopeRows(s)' : w <= v => w \in ScopeRows(s)
      BY <1>2, <2>2, <3>1
    <3>3. \A w \in ScopeRows(s) : w \in ScopeRows(s)'
      BY <1>2, <3>1
    <3>4. {w \in ScopeRows(s)' : w <= v} = {w \in ScopeRows(s) : w <= v}
      BY <3>2, <3>3
    <3>5. versions[v].no = Cardinality({w \in ScopeRows(s) : w <= v})
      BY <2>2, <3>1 DEF VersionsInv, VersionsRunOn
    <3> QED BY <3>1, <3>4, <3>5
  <2> QED BY <1>4, <2>1, <2>2
<1>6. NumbersUsed'
  <2> SUFFICES ASSUME NEW s \in ScopeKey, NEW m \in 1..Cardinality(ScopeRows(s)')
               PROVE  \E v \in ScopeRows(s)' : versions'[v].no = m
    BY DEF NumbersUsed
  <2>1. CASE m \in 1..R(s)
    <3>1. PICK v \in ScopeRows(s) : versions[v].no = m
      BY <2>1 DEF VersionsInv, NumbersUsed
    <3>2. v \in ScopeRows(s)' /\ v \in 1..n
      BY <1>2 DEF ScopeRows
    <3> QED BY <1>2, <3>1, <3>2
  <2>2. CASE m \notin 1..R(s)
    <3>1. s = scope /\ m = R(scope) + 1
      <4>1. s = scope
        BY <1>3, <2>2
      <4>2. Cardinality(ScopeRows(s)') = R(s) + 1 /\ R(s) \in Nat
        BY <1>1, <1>2, <4>1
      <4> QED BY <2>2, <4>1, <4>2
    <3> QED BY <1>2, <3>1
  <2> QED BY <2>1, <2>2
<1>7. LatestKnown'
  <2>0. approved' = approved /\ approved \in [ScopeKey -> 0..n]
    BY <1>0 DEF Store, VersionsTypeOK
  <2>1. ASSUME NEW s \in ScopeKey, approved'[s] # 0 PROVE versions'[approved'[s]].scope = s
    <3>1. approved[s] \in 1..n
      BY <1>2, <2>0, <2>1
    <3> QED BY <1>2, <2>0, <2>1, <3>1 DEF VersionsInv, LatestKnown
  <2>2. ASSUME NEW v \in 1..(n + 1), versions'[v].status = "approved"
        PROVE  approved'[versions'[v].scope] = v
    <3>1. v \in 1..n
      BY <1>2, <1>4, <2>2
    <3> QED BY <1>2, <2>0, <2>2, <3>1 DEF VersionsInv, LatestKnown
  <2> QED BY <1>2, <2>1, <2>2 DEF LatestKnown
<1> QED BY <1>3, <1>5, <1>6, <1>7

\* The creations of a step that changes one of them and removes no row.
LEMMA CreationsStayKnown ==
  ASSUME VersionsInv, VersionsTypeOK', NEW c \in Caller,
         \A d \in Caller \ {c} : creating'[d] = creating[d],
         \A s \in ScopeKey : /\ Cardinality(ScopeRows(s)') \in Nat
                             /\ Cardinality(ScopeRows(s)) <= Cardinality(ScopeRows(s)'),
         creating'[c].stage = "numbered" =>
           \E s \in ScopeKey : s = creating'[c].scope /\ creating'[c].no \in 1..(Cardinality(ScopeRows(s)') + 1),
         creating'[c].stage \in {"coded", "numbered"} => creating'[c].code \in Code,
         creating'[c].stage \in {"idle", "begun"} => creating'[c].code = NoCode
  PROVE  NotAhead' /\ CodeKnown'
<1>0. VersionsTypeOK
  BY DEF VersionsInv
<1>1. ASSUME NEW d \in Caller, creating'[d].stage = "numbered", NEW s, s = creating'[d].scope
      PROVE  creating'[d].no \in 1..(Cardinality(ScopeRows(s)') + 1)
  <2>1. CASE d = c
    BY <1>1, <2>1
  <2>2. CASE d # c
    <3>1. creating'[d] = creating[d] /\ creating[d] \in Creation
      BY <1>0, <2>2, CreationType
    <3>2. s \in ScopeKey /\ creating[d].no \in 1..(Cardinality(ScopeRows(s)) + 1)
      BY <1>1, <3>1 DEF VersionsInv, NotAhead, Creation
    <3>3. Cardinality(ScopeRows(s)) \in Nat
      BY <1>0, ScopeRowsFinite
    <3>4. Cardinality(ScopeRows(s)') \in Nat /\ Cardinality(ScopeRows(s)) <= Cardinality(ScopeRows(s)')
      BY <3>2
    <3> QED BY <3>1, <3>2, <3>3, <3>4
  <2> QED BY <2>1, <2>2
<1>2. NotAhead'
  BY <1>1 DEF NotAhead, ScopeRows
<1>3. CodeKnown'
  BY DEF VersionsInv, CodeKnown
<1> QED BY <1>2, <1>3

LEMMA LifeKeepsLatest ==
  ASSUME VersionsInv, NEW v \in 1..Len(versions),
         \/ Replace(v) \/ SubmitVersion(v) \/ Outcome(v) \/ MakeObsolete(v) \/ SetActive(v)
  PROVE  LatestKnown'
<1>0. VersionsTypeOK /\ Len(versions') = Len(versions) /\ Len(versions) \in Nat
      /\ \A w \in 1..Len(versions) : versions'[w].scope = versions[w].scope
      /\ approved \in [ScopeKey -> 0..Len(versions)]
  BY LifeTyped DEF VersionsInv, RowsStay, VersionsTypeOK
<1>r. \A w \in 1..Len(versions) : versions[w] \in Version
  BY <1>0, RowType
<1>1. CASE Outcome(v) /\ ActivateVersion(v)
  <2>1. \A w \in 1..Len(versions) : versions'[w].status =
          IF w = v THEN "approved" ELSE IF w \in OthersInForce(v) THEN "obsolete"
          ELSE versions[w].status
    BY <1>1, <1>r DEF ActivateVersion, Version
  <2>2. approved' = [approved EXCEPT ![versions[v].scope] = v]
    BY <1>1 DEF ActivateVersion
  <2>3. versions[v].scope \in ScopeKey
    BY <1>0, RowType
  <2>4. ASSUME NEW s \in ScopeKey, approved'[s] # 0 PROVE versions'[approved'[s]].scope = s
    BY <1>0, <2>2, <2>3, <2>4 DEF VersionsInv, LatestKnown
  <2>5. ASSUME NEW w \in 1..Len(versions), versions'[w].status = "approved"
        PROVE  approved'[versions'[w].scope] = w
    <3>1. CASE w = v
      BY <1>0, <2>2, <2>3, <3>1
    <3>2. CASE w # v
      <4>1. versions[w].status = "approved" /\ w \notin OthersInForce(v)
        BY <2>1, <2>5, <3>2
      <4>2. versions[w].scope # versions[v].scope
        BY <3>2, <4>1 DEF OthersInForce, ScopeRows
      <4>3. approved[versions[w].scope] = w
        BY <4>1 DEF VersionsInv, LatestKnown
      <4> QED BY <1>0, <2>2, <4>2, <4>3
    <3> QED BY <3>1, <3>2
  <2> QED BY <1>0, <2>4, <2>5 DEF LatestKnown
<1>2. CASE ~ (Outcome(v) /\ ActivateVersion(v))
  <2>1. approved' = approved
    BY <1>2 DEF Replace, SubmitVersion, Outcome, RecordOutcome, MakeObsolete, SetActive
  <2>2. \A w \in 1..Len(versions) :
          versions'[w].status = "approved" => versions[w].status = "approved"
    <3>1. CASE Replace(v)
      BY <3>1, <1>0, <1>r DEF Replace, Version, VersionsTypeOK
    <3>2. CASE SubmitVersion(v)
      BY <3>2, <1>0, <1>r DEF SubmitVersion, Version, VersionsTypeOK
    <3>3. CASE Outcome(v)
      <4>1. RecordOutcome(v)
        BY <1>2, <3>3 DEF Outcome
      <4>2. PICK status \in {"rejected", "draft"} :
              versions' = [versions EXCEPT ![v] = [versions[v] EXCEPT !.status = status]]
        BY <4>1 DEF RecordOutcome
      <4>3. versions'[v].status = status
        BY <1>0, <1>r, <4>2 DEF Version, VersionsTypeOK
      <4>4. \A w \in (1..Len(versions)) \ {v} : versions'[w] = versions[w]
        BY <1>0, <4>2 DEF VersionsTypeOK
      <4> QED BY <4>3, <4>4
    <3>4. CASE MakeObsolete(v)
      BY <3>4, <1>0, <1>r DEF MakeObsolete, Version, VersionsTypeOK
    <3>5. CASE SetActive(v)
      BY <3>5, <1>0, <1>r DEF SetActive, Version, VersionsTypeOK
    <3> QED BY <3>1, <3>2, <3>3, <3>4, <3>5
  <2>3. \A s \in ScopeKey : approved[s] # 0 => approved[s] \in 1..Len(versions)
    BY <1>0
  <2> QED BY <1>0, <2>1, <2>2, <2>3 DEF VersionsInv, LatestKnown
<1> QED BY <1>1, <1>2

LEMMA LifeKeeps ==
  ASSUME VersionsInv, NEW v \in 1..Len(versions),
         \/ Replace(v) \/ SubmitVersion(v) \/ Outcome(v) \/ MakeObsolete(v) \/ SetActive(v)
  PROVE  VersionsInv'
<1>1. VersionsTypeOK' /\ RowsStay /\ UNCHANGED creating
  BY LifeTyped DEF VersionsInv, Replace, SubmitVersion, Outcome, MakeObsolete, SetActive
<1>2. /\ VersionsRunOn' /\ NumbersUsed'
      /\ \A s \in ScopeKey : ScopeRows(s)' = ScopeRows(s)
  BY <1>1, RowsStayNumbered
<1>3. \A c \in Caller : creating[c].scope \in ScopeKey
  BY CreationType DEF VersionsInv, Creation
<1>4. NotAhead'
  <2> SUFFICES ASSUME NEW c \in Caller, creating[c].stage = "numbered", NEW s, s = creating[c].scope
               PROVE  creating[c].no \in 1..(Cardinality(ScopeRows(s)') + 1)
    BY <1>1 DEF NotAhead, ScopeRows
  <2>1. ScopeRows(s)' = ScopeRows(s)
    BY <1>2, <1>3
  <2> QED BY <2>1 DEF VersionsInv, NotAhead
<1>5. CodeKnown'
  BY <1>1 DEF VersionsInv, CodeKnown
<1> QED BY <1>1, <1>2, <1>4, <1>5, LifeKeepsLatest DEF VersionsInv

LEMMA RowsKept ==
  ASSUME VersionsInv, UNCHANGED <<versions, approved>>
  PROVE  /\ VersionsRunOn' /\ NumbersUsed' /\ LatestKnown'
         /\ \A s \in ScopeKey : /\ Cardinality(ScopeRows(s)') \in Nat
                                /\ Cardinality(ScopeRows(s)) <= Cardinality(ScopeRows(s)')
                                /\ Cardinality(ScopeRows(s)') = Cardinality(ScopeRows(s))
<1>1. \A s \in ScopeKey : ScopeRows(s)' = ScopeRows(s)
  BY DEF ScopeRows
<1>2. \A s \in ScopeKey : Cardinality(ScopeRows(s)) \in Nat
  BY ScopeRowsFinite DEF VersionsInv
<1>3. RowsStay
  BY DEF RowsStay
<1>4. LatestKnown'
  BY DEF VersionsInv, LatestKnown
<1> QED BY <1>1, <1>2, <1>3, <1>4, RowsStayNumbered

LEMMA BeginKeeps ==
  ASSUME VersionsInv, NEW c \in Caller, NEW scope \in ScopeKey, NEW list \in Seq(Line),
         NEW source \in Nat, NEW code \in TypedCodes \union {NoCode},
         Begin(c, scope, list, source, code)
  PROVE  VersionsInv'
<1>1. VersionsTypeOK' /\ UNCHANGED <<versions, approved>>
  BY BeginTyped DEF VersionsInv, Begin
<1>2. /\ \A d \in Caller \ {c} : creating'[d] = creating[d]
      /\ creating'[c].stage = IF code = NoCode THEN "begun" ELSE "coded"
      /\ creating'[c].code = code
  BY DEF Begin, VersionsInv, VersionsTypeOK, NotCreating
<1>3. code # NoCode => code \in Code
  BY VersionInputs
<1>4. NotAhead' /\ CodeKnown'
  BY <1>1, <1>2, <1>3, RowsKept, CreationsStayKnown
<1> QED BY <1>1, <1>4, RowsKept DEF VersionsInv

LEMMA CreationKeeps ==
  ASSUME VersionsInv, NEW c \in Caller,
         TakeCode(c) \/ NextVersionNo(c) \/ Store(c) \/ GiveUp(c)
  PROVE  VersionsInv'
<1>0. VersionsTypeOK
  BY DEF VersionsInv
<1>1. CASE TakeCode(c)
  <2>1. /\ VersionsTypeOK' /\ UNCHANGED <<versions, approved>>
        /\ creating'[c].stage = "coded" /\ creating'[c].code \in Code
        /\ \A d \in Caller \ {c} : creating'[d] = creating[d]
    BY <1>0, <1>1, TakeCodeTyped
  <2>3. NotAhead' /\ CodeKnown'
    BY <2>1, RowsKept, CreationsStayKnown
  <2> QED BY <2>1, <2>3, RowsKept DEF VersionsInv
<1>2. CASE NextVersionNo(c)
  <2>1. PICK s \in ScopeKey : s = creating[c].scope
    BY <1>0, CreationType DEF Creation
  <2>2. PICK no \in 1..(Cardinality(ScopeRows(s)) + 1) :
          creating' = [creating EXCEPT ![c] = [creating[c] EXCEPT !.stage = "numbered", !.no = no]]
    BY <1>2, <2>1, NumberRead
  <2>3. Cardinality(ScopeRows(s)) \in Nat /\ creating[c] \in Creation
    BY <1>0, ScopeRowsFinite, CreationType
  <2>4. no \in Nat
    BY <2>3
  <2>5. [creating[c] EXCEPT !.stage = "numbered", !.no = no] \in Creation
    BY <2>3, <2>4 DEF Creation
  <2>6. UNCHANGED <<numberVars, kind, versions, approved>> /\ creating[c].stage = "coded"
    BY <1>2 DEF NextVersionNo
  <2>7. VersionsTypeOK'
    BY <1>0, <2>2, <2>5, <2>6 DEF VersionsTypeOK, NumbersTypeOK, numberVars
  <2>8. /\ \A d \in Caller \ {c} : creating'[d] = creating[d]
        /\ creating'[c].scope = s /\ creating'[c].no = no /\ creating'[c].code = creating[c].code
        /\ creating'[c].stage = "numbered"
    BY <1>0, <2>1, <2>2, <2>3 DEF VersionsTypeOK, Creation
  <2>9. creating[c].code \in Code
    BY <2>6 DEF VersionsInv, CodeKnown
  <2>10. Cardinality(ScopeRows(s)') = Cardinality(ScopeRows(s))
    BY <2>6, RowsKept
  <2>11. NotAhead' /\ CodeKnown'
    BY <2>6, <2>7, <2>8, <2>9, <2>10, RowsKept, CreationsStayKnown
  <2> QED BY <2>6, <2>7, <2>11, RowsKept DEF VersionsInv
<1>3. CASE Store(c)
  <2>1. VersionsTypeOK'
    BY <1>3, StoreTyped
  <2>2. creating' = [creating EXCEPT ![c] = NotCreating]
    BY <1>3 DEF Store
  <2>3. creating'[c].stage = "idle" /\ creating'[c].code = NoCode
        /\ \A d \in Caller \ {c} : creating'[d] = creating[d]
    BY <1>0, <2>2 DEF VersionsTypeOK, NotCreating
  <2>4. NotAhead' /\ CodeKnown'
    BY <1>3, <2>1, <2>3, StoreNumbered, CreationsStayKnown
  <2> QED BY <1>3, <2>1, <2>4, StoreNumbered DEF VersionsInv
<1>4. CASE GiveUp(c)
  <2>1. /\ VersionsTypeOK' /\ UNCHANGED <<versions, approved>>
        /\ creating'[c].stage = "idle" /\ creating'[c].code = NoCode
        /\ \A d \in Caller \ {c} : creating'[d] = creating[d]
    BY <1>0, <1>4, GiveUpTyped
  <2>3. NotAhead' /\ CodeKnown'
    BY <2>1, RowsKept, CreationsStayKnown
  <2> QED BY <2>1, <2>3, RowsKept DEF VersionsInv
<1> QED BY <1>1, <1>2, <1>3, <1>4

-----------------------------------------------------------------------------
LEMMA VersionsInitInv == VersionsInit => VersionsInv
<1> SUFFICES ASSUME VersionsInit PROVE VersionsInv
  OBVIOUS
<1>0. 0 \in 0..MaxNumber /\ 1 \in Day
  BY NumberInputs DEF Day
<1>1. NumbersTypeOK
  BY <1>0 DEF VersionsInit, NumbersInit, NumbersTypeOK, Rule
<1>2. versions = <<>> /\ Len(versions) = 0 /\ versions \in Seq(Version)
  BY DEF VersionsInit
<1>3. VersionsTypeOK
  BY <1>1, <1>2, NotCreatingTyped DEF VersionsInit, VersionsTypeOK
<1>4. \A s \in ScopeKey : ScopeRows(s) = {} /\ Cardinality(ScopeRows(s)) = 0
  BY <1>2, FS_EmptySet DEF ScopeRows
<1>5. VersionsRunOn /\ LatestKnown
  BY <1>2 DEF VersionsInit, VersionsRunOn, LatestKnown
<1>6. NumbersUsed
  BY <1>4 DEF NumbersUsed
<1>7. NotAhead /\ CodeKnown
  BY DEF VersionsInit, NotAhead, CodeKnown, NotCreating
<1> QED BY <1>3, <1>5, <1>6, <1>7 DEF VersionsInv

LEMMA VersionsStepInv == VersionsInv /\ [VersionsNext]_<<numberVars, versionVars>> => VersionsInv'
<1> SUFFICES ASSUME VersionsInv, [VersionsNext]_<<numberVars, versionVars>> PROVE VersionsInv'
  OBVIOUS
<1>0. VersionsTypeOK
  BY DEF VersionsInv
<1>1. CASE MakeNext
  <2>1. ASSUME NEW c \in Caller, CreateBom(c) PROVE VersionsInv'
    <3>1. PICK scope \in ScopeKey, list \in GivenLines \ {<<>>}, code \in TypedCodes \union {NoCode} :
            Begin(c, scope, list, 0, code)
      BY <2>1 DEF CreateBom
    <3> QED BY <3>1, VersionInputs, BeginKeeps
  <2>2. ASSUME NEW c \in Caller, CreateRouting(c) PROVE VersionsInv'
    <3>1. PICK scope \in ScopeKey, steps \in (GivenLines \ {<<>>}) \union {DefaultSteps},
               code \in TypedCodes \union {NoCode} : Begin(c, scope, steps, 0, code)
      BY <2>2 DEF CreateRouting
    <3>2. DefaultSteps \in Seq(Line)
      BY DEF DefaultSteps, Line
    <3> QED BY <3>1, <3>2, VersionInputs, BeginKeeps
  <2>3. ASSUME NEW c \in Caller, NEW v \in 1..Len(versions), Derive(c, v) PROVE VersionsInv'
    <3>1. versions[v] \in Version
      BY <1>0, RowType
    <3>2. versions[v].scope \in ScopeKey /\ versions[v].lines \in Seq(Line) /\ v \in Nat
      BY <3>1 DEF Version
    <3> QED BY <2>3, <3>2, BeginKeeps DEF Derive
  <2>4. ASSUME NEW c \in Caller, TakeCode(c) \/ NextVersionNo(c) \/ Store(c) \/ GiveUp(c)
        PROVE  VersionsInv'
    BY <2>4, CreationKeeps
  <2> QED BY <1>1, <2>1, <2>2, <2>3, <2>4 DEF MakeNext, CreateBomVersion, CreateRoutingVersion
<1>2. CASE LifeNext
  BY <1>2, LifeKeeps DEF LifeNext, BomNext, RoutingNext, UpdateBom, UpdateRouting, SubmitBom,
     SubmitRouting, OnBomApprovalOutcome, OnRoutingApprovalOutcome, ObsoleteBom, ObsoleteRouting
<1>3. CASE RuleNext \/ UNCHANGED <<numberVars, versionVars>>
  <2>1. VersionsTypeOK' /\ UNCHANGED versionVars
    BY <1>0, <1>3, RuleTyped DEF VersionsTypeOK, NumbersTypeOK, versionVars, numberVars
  <2>2. UNCHANGED <<versions, approved, creating>>
    BY <2>1 DEF versionVars
  <2>3. NotAhead' /\ CodeKnown'
    BY <2>2 DEF VersionsInv, NotAhead, CodeKnown, ScopeRows
  <2> QED BY <2>1, <2>2, <2>3, RowsKept DEF VersionsInv
<1> QED BY <1>1, <1>2, <1>3 DEF VersionsNext

\* However many requests create versions, and however their transactions end: the versions
\* of a scope are numbered from one on (planning/services.py:14).
THEOREM VersionNumbersRunOn == VersionsSpec => []VersionsRunOn
<1>1. VersionsInv => VersionsRunOn
  BY DEF VersionsInv
<1> QED BY <1>1, VersionsInitInv, VersionsStepInv, PTL DEF VersionsSpec

LEMMA ServesInv == VersionsInv => LatestApprovalServes
<1> SUFFICES ASSUME VersionsInv, NEW scope \in ScopeKey
             PROVE  LET latest == approved[scope]
                        serves == latest # 0 /\ versions[latest].status = "approved"
                                    /\ versions[latest].is_active
                    IN IF serves THEN EffectiveFor(scope) = latest
                       ELSE EffectiveFor(scope) \in {0, approved["style"]}
  BY DEF LatestApprovalServes
<1> DEFINE usable(s) == {v \in ScopeRows(s) : versions[v].status = "approved" /\ versions[v].is_active}
           serves(s) == approved[s] # 0 /\ versions[approved[s]].status = "approved"
                          /\ versions[approved[s]].is_active
<1>0. /\ approved \in [ScopeKey -> 0..Len(versions)] /\ Len(versions) \in Nat
      /\ \A v \in 1..Len(versions) : versions[v].no \in Nat
  BY RowType DEF VersionsInv, VersionsTypeOK
<1>1. ASSUME NEW s \in ScopeKey PROVE usable(s) = IF serves(s) THEN {approved[s]} ELSE {}
  <2>1. \A v \in usable(s) : v = approved[s] /\ serves(s)
    BY <1>0 DEF VersionsInv, LatestKnown, ScopeRows
  <2>2. serves(s) => approved[s] \in usable(s)
    BY <1>0 DEF VersionsInv, LatestKnown, ScopeRows
  <2> HIDE DEF usable, serves
  <2> QED BY <2>1, <2>2
<1>2. ASSUME NEW s \in ScopeKey PROVE Effective(s) = IF serves(s) THEN approved[s] ELSE 0
  <2>1. Effective(s) = IF usable(s) = {} THEN 0
                       ELSE CHOOSE v \in usable(s) : \A w \in usable(s) : versions[w].no <= versions[v].no
    BY DEF Effective
  <2>2. serves(s) => versions[approved[s]].no \in Nat
    BY <1>0
  <2> HIDE DEF usable, serves
  <2>3. CASE serves(s)
    <3>1. usable(s) = {approved[s]}
      BY <1>1, <2>3
    <3>2. \A v \in usable(s) : v = approved[s] /\ \A w \in usable(s) : versions[w].no <= versions[v].no
      BY <2>2, <2>3, <3>1
    <3> QED BY <2>1, <2>3, <3>1, <3>2
  <2>4. CASE ~ serves(s)
    BY <1>1, <2>1, <2>4
  <2> QED BY <2>3, <2>4
<1>3. "style" \in ScopeKey
  BY DEF ScopeKey
<1>4. serves(scope) => approved[scope] # 0
  OBVIOUS
<1>5. serves("style") => approved["style"] # 0
  OBVIOUS
<1>6. CASE serves(scope)
  BY <1>2, <1>4, <1>6 DEF EffectiveFor
<1>7. CASE ~ serves(scope)
  <2> HIDE DEF serves
  <2>1. EffectiveFor(scope) \in {0, approved["style"]}
    BY <1>2, <1>3, <1>7 DEF EffectiveFor
  <2> QED BY <1>7, <2>1 DEF serves
<1> QED BY <1>6, <1>7

\* However many versions are approved, taken out of use and put back: what planning and
\* production are given is the version approved last, or none (planning/services.py).
THEOREM ApprovedVersionServes == VersionsSpec => []LatestApprovalServes
BY VersionsInitInv, VersionsStepInv, ServesInv, PTL DEF VersionsSpec

-----------------------------------------------------------------------------
(* Codes.                                                                  *)

\* The period whose counter gave a code, told from the code.
KeyOf(code) == IF rule.resets THEN code.shown ELSE 0

Dependable == ~ reconfigured /\ (rule.resets => rule.dated)

\* One request has taken a number, for the code it has and did not type.
OneTakes ==
  /\ \A c \in Caller : creating[c].stage = "begun" => ~ creating[c].typed
  /\ \A c, d \in Caller : taken[c] # 0 /\ taken[d] # 0 => c = d
  /\ \A c \in Caller :
       taken[c] # 0 <=> creating[c].stage \in {"coded", "numbered"} /\ ~ creating[c].typed

\* It is the next number of its period, and the code shows both.
TakenIsNext ==
  Dependable => \A c \in Caller : taken[c] # 0 =>
    /\ creating[c].code.number = taken[c] /\ creating[c].key = KeyOf(creating[c].code)
    /\ taken[c] = counters[creating[c].key] + 1

\* What the rule gave is counted.
CodesCounted ==
  Dependable => \A v \in 1..Len(versions) :
    ~ versions[v].typed => versions[v].code.number <= counters[KeyOf(versions[v].code)]

CodesInv == VersionsInv /\ OneTakes /\ TakenIsNext /\ CodesCounted

LEMMA CodesInitInv == VersionsInit => CodesInv
<1> SUFFICES ASSUME VersionsInit PROVE CodesInv
  OBVIOUS
<1>1. VersionsInv
  BY VersionsInitInv
<1>2. OneTakes /\ TakenIsNext
  BY DEF VersionsInit, NumbersInit, OneTakes, TakenIsNext, NotCreating
<1>3. CodesCounted
  BY DEF VersionsInit, CodesCounted
<1> QED BY <1>1, <1>2, <1>3 DEF CodesInv

\* The rule's counters stay, and what they gave.
LEMMA NumbersStay ==
  ASSUME CodesInv, UNCHANGED numberVars, Len(versions') = Len(versions),
         \A v \in 1..Len(versions) :
           versions'[v].typed = versions[v].typed /\ versions'[v].code = versions[v].code
  PROVE  CodesCounted'
BY DEF CodesInv, CodesCounted, Dependable, KeyOf, numberVars

LEMMA CodeKept ==
  ASSUME CodesInv, VersionsInv', UNCHANGED numberVars, Len(versions') = Len(versions),
         \A v \in 1..Len(versions) :
           versions'[v].typed = versions[v].typed /\ versions'[v].code = versions[v].code,
         \A c \in Caller :
           /\ creating'[c].stage = "begun" => ~ creating'[c].typed
           /\ creating'[c].stage \in {"coded", "numbered"} /\ ~ creating'[c].typed
                <=> creating[c].stage \in {"coded", "numbered"} /\ ~ creating[c].typed
           /\ creating[c].stage \in {"coded", "numbered"} /\ ~ creating[c].typed =>
                creating'[c].code = creating[c].code /\ creating'[c].key = creating[c].key
  PROVE  CodesInv'
<1>1. OneTakes'
  BY DEF CodesInv, OneTakes, numberVars
<1>2. TakenIsNext'
  BY DEF CodesInv, OneTakes, TakenIsNext, Dependable, KeyOf, numberVars
<1> QED BY <1>1, <1>2, NumbersStay DEF CodesInv

\* A row that is written keeps its code and who gave it, if only other columns are written.
SameNames(row, old) == row.typed = old.typed /\ row.code = old.code

LEMMA NamesStay ==
  ASSUME versions \in Seq(Version), NEW v \in 1..Len(versions),
         \/ \E x : versions' = [versions EXCEPT ![v] = [versions[v] EXCEPT !.lines = x]]
         \/ \E x : versions' = [versions EXCEPT ![v] = [versions[v] EXCEPT !.status = x]]
         \/ \E x : versions' = [versions EXCEPT ![v] = [versions[v] EXCEPT !.is_active = x]]
         \/ versions' = [versions EXCEPT ![v] = [versions[v] EXCEPT !.status = "obsolete", !.is_active = FALSE]]
  PROVE  \A w \in 1..Len(versions) :
           versions'[w].typed = versions[w].typed /\ versions'[w].code = versions[w].code
<1>1. versions[v] \in Version
  BY ElementOfSeq
<1>2. PICK row : versions' = [versions EXCEPT ![v] = row] /\ SameNames(row, versions[v])
  <2>1. ASSUME NEW x PROVE SameNames([versions[v] EXCEPT !.lines = x], versions[v])
    BY <1>1 DEF SameNames, Version
  <2>2. ASSUME NEW x PROVE SameNames([versions[v] EXCEPT !.status = x], versions[v])
    BY <1>1 DEF SameNames, Version
  <2>3. ASSUME NEW x PROVE SameNames([versions[v] EXCEPT !.is_active = x], versions[v])
    BY <1>1 DEF SameNames, Version
  <2>4. SameNames([versions[v] EXCEPT !.status = "obsolete", !.is_active = FALSE], versions[v])
    BY <1>1 DEF SameNames, Version
  <2> QED BY <2>1, <2>2, <2>3, <2>4
<1>3. \A w \in 1..Len(versions) : versions'[w] = IF w = v THEN row ELSE versions[w]
  BY <1>2
<1> QED BY <1>2, <1>3 DEF SameNames

LEMMA CodesLife ==
  ASSUME CodesInv, NEW v \in 1..Len(versions),
         \/ Replace(v) \/ SubmitVersion(v) \/ Outcome(v) \/ MakeObsolete(v) \/ SetActive(v)
  PROVE  CodesInv'
<1>0. VersionsInv /\ VersionsTypeOK /\ versions \in Seq(Version)
  BY DEF CodesInv, VersionsInv, VersionsTypeOK
<1>1. VersionsInv' /\ Len(versions') = Len(versions)
  BY <1>0, LifeKeeps, LifeTyped DEF RowsStay
<1>2. UNCHANGED <<numberVars, creating>>
  BY DEF Replace, SubmitVersion, Outcome, MakeObsolete, SetActive
<1>r. \A w \in 1..Len(versions) : versions[w] \in Version
  BY <1>0, RowType
<1>3. \A w \in 1..Len(versions) :
        versions'[w].typed = versions[w].typed /\ versions'[w].code = versions[w].code
  <2>1. CASE Replace(v)
    <3>1. PICK list : versions' = [versions EXCEPT ![v] = [versions[v] EXCEPT !.lines = list]]
      BY <2>1 DEF Replace
    <3> QED BY <1>0, <1>r, <3>1, NamesStay
  <2>2. CASE SubmitVersion(v)
    <3>1. versions' = [versions EXCEPT ![v] = [versions[v] EXCEPT !.status = "submitted"]]
      BY <2>2 DEF SubmitVersion
    <3> QED BY <1>0, <1>r, <3>1, NamesStay
  <2>3. CASE RecordOutcome(v)
    <3>1. PICK status : versions' = [versions EXCEPT ![v] = [versions[v] EXCEPT !.status = status]]
      BY <2>3 DEF RecordOutcome
    <3> QED BY <1>0, <1>r, <3>1, NamesStay
  <2>4. CASE ActivateVersion(v)
    BY <1>0, <1>r, <2>4 DEF ActivateVersion, Version
  <2>5. CASE MakeObsolete(v)
    <3>1. versions' = [versions EXCEPT ![v] = [versions[v] EXCEPT !.status = "obsolete", !.is_active = FALSE]]
      BY <1>0, <1>r, <2>5 DEF MakeObsolete, VersionsTypeOK
    <3> QED BY <1>0, <1>r, <3>1, NamesStay
  <2>6. CASE SetActive(v)
    <3>1. PICK active : versions' = [versions EXCEPT ![v] = [versions[v] EXCEPT !.is_active = active]]
      BY <2>6 DEF SetActive
    <3> QED BY <1>0, <1>r, <3>1, NamesStay
  <2> QED BY <2>1, <2>2, <2>3, <2>4, <2>5, <2>6 DEF Outcome
<1> QED BY <1>1, <1>2, <1>3, CodeKept DEF CodesInv, OneTakes

LEMMA CodesBegin ==
  ASSUME CodesInv, NEW c \in Caller, NEW scope \in ScopeKey, NEW list \in Seq(Line),
         NEW source \in Nat, NEW code \in TypedCodes \union {NoCode},
         Begin(c, scope, list, source, code)
  PROVE  CodesInv'
<1>0. VersionsInv /\ creating \in [Caller -> Creation]
  BY DEF CodesInv, VersionsInv, VersionsTypeOK
<1>1. VersionsInv' /\ UNCHANGED <<numberVars, versions>>
  BY <1>0, BeginKeeps DEF Begin
<1>2. /\ \A d \in Caller \ {c} : creating'[d] = creating[d]
      /\ creating'[c].stage = IF code = NoCode THEN "begun" ELSE "coded"
      /\ creating'[c].typed = (code # NoCode) /\ creating[c] = NotCreating
  BY <1>0 DEF Begin, NotCreating
<1>3. creating[c].stage = "idle"
  BY <1>2 DEF NotCreating
<1> QED BY <1>1, <1>2, <1>3, CodeKept DEF CodesInv, OneTakes

LEMMA CodesNumber ==
  ASSUME CodesInv, NEW c \in Caller, NextVersionNo(c)
  PROVE  CodesInv'
<1>0. VersionsInv /\ creating \in [Caller -> Creation]
  BY DEF CodesInv, VersionsInv, VersionsTypeOK
<1>1. VersionsInv' /\ UNCHANGED <<numberVars, versions>> /\ creating[c].stage = "coded"
  BY <1>0, CreationKeeps DEF NextVersionNo
<1>2. PICK no \in 1..(Cardinality(ScopeRows(creating[c].scope)) + 1) :
        creating' = [creating EXCEPT ![c] = [creating[c] EXCEPT !.stage = "numbered", !.no = no]]
  BY <1>0, NumberRead
<1>3. /\ \A d \in Caller \ {c} : creating'[d] = creating[d]
      /\ creating'[c].stage = "numbered" /\ creating'[c].typed = creating[c].typed
      /\ creating'[c].code = creating[c].code /\ creating'[c].key = creating[c].key
  BY <1>0, <1>2 DEF Creation
<1> QED BY <1>1, <1>3, CodeKept DEF CodesInv, OneTakes

LEMMA CodesTake ==
  ASSUME CodesInv, NEW c \in Caller, TakeCode(c)
  PROVE  CodesInv'
<1>0. VersionsInv /\ VersionsTypeOK /\ creating[c] \in Creation /\ creating \in [Caller -> Creation]
  BY CreationType DEF CodesInv, VersionsInv, VersionsTypeOK
<1>1. VersionsInv'
  BY <1>0, CreationKeeps
<1>2. /\ creating' = [creating EXCEPT ![c] =
           [creating[c] EXCEPT !.stage = "coded", !.code = Render(taken'[c]), !.key = PeriodKey]]
      /\ taken' = [taken EXCEPT ![c] = counters[PeriodKey] + 1]
      /\ UNCHANGED <<rule, counters, reconfigured, versions>>
      /\ creating[c].stage = "begun" /\ RuleFree
  BY <1>0 DEF TakeCode, GenerateCode
<1>3. /\ \A d \in Caller \ {c} : creating'[d] = creating[d] /\ taken'[d] = 0
      /\ creating'[c].stage = "coded" /\ creating'[c].typed = creating[c].typed
      /\ creating'[c].code = Render(taken'[c]) /\ creating'[c].key = PeriodKey
      /\ taken'[c] = counters[PeriodKey] + 1
  BY <1>0, <1>2 DEF Creation, RuleFree, VersionsTypeOK, NumbersTypeOK
<1>4. PeriodKey \in {0} \union Day /\ counters[PeriodKey] \in Nat
  BY <1>0 DEF PeriodKey, VersionsTypeOK, NumbersTypeOK
<1>5. ~ creating[c].typed
  BY <1>2 DEF CodesInv, OneTakes
<1>6. OneTakes'
  <2>1. \A d \in Caller : taken[d] = 0
    BY <1>2 DEF RuleFree
  <2> QED BY <1>3, <1>4, <1>5, <2>1 DEF OneTakes, CodesInv
<1>7. TakenIsNext'
  <2> SUFFICES ASSUME Dependable
               PROVE  /\ creating'[c].code.number = taken'[c]
                      /\ creating'[c].key = KeyOf(creating'[c].code)
                      /\ taken'[c] = counters[creating'[c].key] + 1
    BY <1>2, <1>3 DEF TakenIsNext, Dependable, KeyOf
  <2> QED BY <1>3 DEF Render, KeyOf, PeriodKey, Dependable
<1>8. CodesCounted'
  BY <1>2 DEF CodesInv, CodesCounted, Dependable, KeyOf
<1> QED BY <1>1, <1>6, <1>7, <1>8 DEF CodesInv

LEMMA CodesGiveUp ==
  ASSUME CodesInv, NEW c \in Caller, GiveUp(c)
  PROVE  CodesInv'
<1>0. VersionsInv /\ VersionsTypeOK
  BY DEF CodesInv, VersionsInv
<1>1. VersionsInv' /\ UNCHANGED <<rule, counters, reconfigured, versions>>
  BY <1>0, CreationKeeps DEF GiveUp
<1>2. /\ \A d \in Caller \ {c} : creating'[d] = creating[d] /\ taken'[d] = taken[d]
      /\ creating'[c].stage = "idle" /\ taken'[c] = 0
  BY <1>0 DEF GiveUp, VersionsTypeOK, NumbersTypeOK, NotCreating
<1>3. OneTakes' /\ TakenIsNext'
  BY <1>1, <1>2 DEF CodesInv, OneTakes, TakenIsNext, Dependable, KeyOf
<1>4. CodesCounted'
  BY <1>1 DEF CodesInv, CodesCounted, Dependable, KeyOf
<1> QED BY <1>1, <1>3, <1>4 DEF CodesInv

LEMMA CodesStore ==
  ASSUME CodesInv, NEW c \in Caller, Store(c)
  PROVE  CodesInv'
<1>0. VersionsInv /\ VersionsTypeOK /\ creating[c] \in Creation
  BY CreationType DEF CodesInv, VersionsInv
<1>1. VersionsInv' /\ UNCHANGED <<rule, reconfigured>>
  BY <1>0, CreationKeeps DEF Store
<1>2. /\ counters' = IF taken[c] = 0 THEN counters
                     ELSE [counters EXCEPT ![creating[c].key] = taken[c]]
      /\ \A d \in Caller \ {c} : creating'[d] = creating[d] /\ taken'[d] = taken[d]
      /\ creating'[c].stage = "idle" /\ taken'[c] = 0
  BY <1>0 DEF Store, KeepNumber, VersionsTypeOK, NumbersTypeOK, NotCreating
<1>3. OneTakes'
  BY <1>2 DEF CodesInv, OneTakes
<1>4. TakenIsNext'
  BY <1>1, <1>2 DEF CodesInv, OneTakes, TakenIsNext, Dependable, KeyOf
<1>5. CodesCounted'
  <2> SUFFICES ASSUME Dependable PROVE CodesCounted'
    BY <1>1 DEF CodesCounted, Dependable
  <2>1. Dependable' /\ \A code : KeyOf(code)' = KeyOf(code)
    BY <1>1 DEF Dependable, KeyOf
  <2>2. /\ Len(versions) \in Nat /\ Len(versions') = Len(versions) + 1
        /\ \A v \in 1..Len(versions) : versions'[v] = versions[v]
    BY <1>0, StoreRow
  <2>3. versions' = Append(versions,
          [scope |-> creating[c].scope, no |-> creating[c].no, code |-> creating[c].code,
           typed |-> creating[c].typed, status |-> "draft", is_active |-> TRUE,
           lines |-> creating[c].lines])
    BY DEF Store
  <2>4. /\ versions'[Len(versions) + 1].typed = creating[c].typed
        /\ versions'[Len(versions) + 1].code = creating[c].code
    BY <1>0, <2>3 DEF VersionsTypeOK
  <2>5. \A k \in {0} \union Day : counters[k] \in Nat /\ counters'[k] \in Nat /\ counters[k] <= counters'[k]
    <3>1. counters \in [{0} \union Day -> 0..MaxNumber] /\ taken[c] \in 0..MaxNumber
      BY <1>0 DEF VersionsTypeOK, NumbersTypeOK
    <3>2. taken[c] # 0 => taken[c] = counters[creating[c].key] + 1
      BY DEF CodesInv, TakenIsNext
    <3> QED BY <1>2, <3>1, <3>2, NumberInputs
  <2>6. \A code \in Code : KeyOf(code) \in {0} \union Day /\ code.number \in Nat
    BY DEF KeyOf, Code
  <2>7. ASSUME NEW v \in 1..Len(versions), ~ versions[v].typed
        PROVE  versions[v].code.number <= counters'[KeyOf(versions[v].code)]
    <3>1. versions[v].code \in Code
      BY <1>0, RowType DEF Version
    <3>2. versions[v].code.number <= counters[KeyOf(versions[v].code)]
      BY <2>7 DEF CodesInv, CodesCounted
    <3>3. PICK k : k = KeyOf(versions[v].code)
      OBVIOUS
    <3>4. k \in {0} \union Day /\ versions[v].code.number \in Nat
      BY <2>6, <3>1, <3>3
    <3>5. counters[k] \in Nat /\ counters'[k] \in Nat /\ counters[k] <= counters'[k]
      BY <2>5, <3>4
    <3>6. versions[v].code.number <= counters[k]
      BY <3>2, <3>3
    <3>7. versions[v].code.number <= counters'[k]
      BY <3>4, <3>5, <3>6
    <3> QED BY <3>3, <3>7
  <2>8. ~ creating[c].typed => creating[c].code.number <= counters'[KeyOf(creating[c].code)]
    <3> SUFFICES ASSUME ~ creating[c].typed
                 PROVE  creating[c].code.number <= counters'[KeyOf(creating[c].code)]
      OBVIOUS
    <3>1. creating[c].stage = "numbered"
      BY DEF Store
    <3>2. taken[c] # 0
      BY <3>1 DEF CodesInv, OneTakes
    <3>3. /\ creating[c].code.number = taken[c] /\ creating[c].key = KeyOf(creating[c].code)
      BY <3>2 DEF CodesInv, TakenIsNext
    <3>4. creating[c].code \in Code
      BY <3>1 DEF CodesInv, VersionsInv, CodeKnown
    <3>5. creating[c].key \in {0} \union Day /\ counters \in [{0} \union Day -> 0..MaxNumber]
      BY <1>0 DEF Creation, VersionsTypeOK, NumbersTypeOK
    <3>6. counters'[creating[c].key] = taken[c]
      BY <1>2, <3>2, <3>5
    <3> QED BY <2>6, <3>3, <3>4, <3>6
  <2>9. \A v \in 1..(Len(versions) + 1) :
          ~ versions'[v].typed => versions'[v].code.number <= counters'[KeyOf(versions'[v].code)]
    <3> HIDE DEF KeyOf
    <3> SUFFICES ASSUME NEW v \in 1..(Len(versions) + 1), ~ versions'[v].typed
                 PROVE  versions'[v].code.number <= counters'[KeyOf(versions'[v].code)]
      OBVIOUS
    <3>1. CASE v \in 1..Len(versions)
      BY <2>2, <2>7, <3>1
    <3>2. CASE v = Len(versions) + 1
      BY <2>4, <2>8, <3>2
    <3> QED BY <2>2, <3>1, <3>2
  <2> QED BY <1>1, <2>2, <2>9 DEF CodesCounted, KeyOf
<1> QED BY <1>1, <1>3, <1>4, <1>5 DEF CodesInv

LEMMA CodesRule ==
  ASSUME CodesInv, RuleNext \/ UNCHANGED <<numberVars, versionVars>>
  PROVE  CodesInv'
<1>0. VersionsInv
  BY DEF CodesInv
<1>1. VersionsInv'
  BY <1>0, VersionsStepInv DEF VersionsNext
<1>2. UNCHANGED <<versions, creating, counters, taken>>
  BY DEF RuleNext, ChangeRule, NextDay, numberVars, versionVars
<1>3. Dependable' => Dependable /\ rule'.resets = rule.resets
  BY <1>0 DEF RuleNext, ChangeRule, NextDay, numberVars, Dependable, VersionsInv, VersionsTypeOK, NumbersTypeOK
<1>4. OneTakes'
  BY <1>2 DEF CodesInv, OneTakes
<1>5. TakenIsNext'
  BY <1>2, <1>3 DEF CodesInv, TakenIsNext, KeyOf
<1>6. CodesCounted'
  BY <1>2, <1>3 DEF CodesInv, CodesCounted, KeyOf
<1> QED BY <1>1, <1>4, <1>5, <1>6 DEF CodesInv

LEMMA CodesStepInv == CodesInv /\ [VersionsNext]_<<numberVars, versionVars>> => CodesInv'
<1> SUFFICES ASSUME CodesInv, [VersionsNext]_<<numberVars, versionVars>> PROVE CodesInv'
  OBVIOUS
<1>0. VersionsTypeOK
  BY DEF CodesInv, VersionsInv
<1>1. CASE MakeNext
  <2>1. ASSUME NEW c \in Caller, CreateBom(c) PROVE CodesInv'
    <3>1. PICK scope \in ScopeKey, list \in GivenLines \ {<<>>}, code \in TypedCodes \union {NoCode} :
            Begin(c, scope, list, 0, code)
      BY <2>1 DEF CreateBom
    <3> QED BY <3>1, VersionInputs, CodesBegin
  <2>2. ASSUME NEW c \in Caller, CreateRouting(c) PROVE CodesInv'
    <3>1. PICK scope \in ScopeKey, steps \in (GivenLines \ {<<>>}) \union {DefaultSteps},
               code \in TypedCodes \union {NoCode} : Begin(c, scope, steps, 0, code)
      BY <2>2 DEF CreateRouting
    <3>2. DefaultSteps \in Seq(Line)
      BY DEF DefaultSteps, Line
    <3> QED BY <3>1, <3>2, VersionInputs, CodesBegin
  <2>3. ASSUME NEW c \in Caller, NEW v \in 1..Len(versions), Derive(c, v) PROVE CodesInv'
    <3>1. versions[v] \in Version
      BY <1>0, RowType
    <3>2. versions[v].scope \in ScopeKey /\ versions[v].lines \in Seq(Line) /\ v \in Nat
      BY <3>1 DEF Version
    <3> QED BY <2>3, <3>2, CodesBegin DEF Derive
  <2>4. ASSUME NEW c \in Caller, TakeCode(c) \/ NextVersionNo(c) \/ Store(c) \/ GiveUp(c)
        PROVE  CodesInv'
    BY <2>4, CodesTake, CodesNumber, CodesStore, CodesGiveUp
  <2> QED BY <1>1, <2>1, <2>2, <2>3, <2>4 DEF MakeNext, CreateBomVersion, CreateRoutingVersion
<1>2. CASE LifeNext
  BY <1>2, CodesLife DEF LifeNext, BomNext, RoutingNext, UpdateBom, UpdateRouting, SubmitBom,
     SubmitRouting, OnBomApprovalOutcome, OnRoutingApprovalOutcome, ObsoleteBom, ObsoleteRouting
<1>3. CASE RuleNext \/ UNCHANGED <<numberVars, versionVars>>
  BY <1>3, CodesRule
<1> QED BY <1>1, <1>2, <1>3 DEF VersionsNext

LEMMA NewCodes == CodesInv => CodesAreNew
<1> SUFFICES ASSUME CodesInv, Dependable, NEW c \in Caller, NEW v \in 1..Len(versions),
                    creating[c].code = versions[v].code,
                    ~ creating[c].typed, ~ versions[v].typed
             PROVE  FALSE
  BY CreationType, RowType DEF CodesAreNew, Dependable, CodesInv, VersionsInv, Creation, Version
<1>0. VersionsTypeOK
  BY DEF CodesInv, VersionsInv
<1>1. creating[c] \in Creation /\ versions[v].code \in Code
  BY <1>0, CreationType, RowType DEF Version
<1>2. creating[c].stage \in {"coded", "numbered"}
  BY <1>1, VersionInputs DEF CodesInv, VersionsInv, CodeKnown, Creation
<1>3. taken[c] # 0
  BY <1>2 DEF CodesInv, OneTakes
<1>4. /\ creating[c].code.number = taken[c] /\ creating[c].key = KeyOf(creating[c].code)
      /\ taken[c] = counters[creating[c].key] + 1
  BY <1>3 DEF CodesInv, TakenIsNext
<1>5. versions[v].code.number <= counters[KeyOf(versions[v].code)]
  BY DEF CodesInv, CodesCounted
<1>6. counters[creating[c].key] \in Nat
  BY <1>0, <1>1 DEF VersionsTypeOK, NumbersTypeOK, Creation
<1> QED BY <1>4, <1>5, <1>6

\* However many requests take numbers and roll back, on however many days: a code that a
\* dependable rule gives is no stored version's (core/services.py:412).
THEOREM GivenCodesAreNew == VersionsSpec => []CodesAreNew
BY CodesInitInv, CodesStepInv, NewCodes, PTL DEF VersionsSpec
=============================================================================
